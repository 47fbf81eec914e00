--------------------------- MODULE NetPlayProofs ---------------------------
(***************************************************************************)
(* Proofs about NetPlay, for any number of clients, bodies, connections    *)
(* and messages: the typing invariant, what a client holds across          *)
(* sessions, and the order in which inputs and player states are applied.  *)
(***************************************************************************)
EXTENDS NetPlay, FiniteSetTheorems, SequenceTheorems, TLAPS

-----------------------------------------------------------------------------
(* Sequences of messages *)

\* Removing a message leaves only messages that were there.
LEMMA RemoveAtElements ==
    ASSUME NEW S, NEW s \in Seq(S), NEW i \in DOMAIN s
    PROVE  /\ RemoveAt(s, i) \in Seq(S)
           /\ ToSet(RemoveAt(s, i)) \subseteq ToSet(s)
  <1> DEFINE front == SubSeq(s, 1, i - 1)
             back == SubSeq(s, i + 1, Len(s))
  <1>1. i \in 1..Len(s) /\ Len(s) \in Nat /\ DOMAIN s = 1..Len(s)
    BY LenProperties
  <1>2. \A j \in 1..Len(s) : s[j] \in ToSet(s)
    BY <1>1 DEF ToSet
  <1>3. front \in Seq(ToSet(s)) /\ back \in Seq(ToSet(s))
    BY <1>1, <1>2, SubSeqProperties
  <1>4. front \o back \in Seq(ToSet(s))
    BY <1>3, ConcatProperties
  <1>5. ToSet(s) \subseteq S
    BY <1>1, ElementOfSeq DEF ToSet
  <1>6. RemoveAt(s, i) \in Seq(ToSet(s))
    BY <1>4 DEF RemoveAt
  <1>7. \A j \in DOMAIN RemoveAt(s, i) : RemoveAt(s, i)[j] \in ToSet(s)
    BY <1>6, LenProperties, ElementOfSeq
  <1> QED
    BY <1>5, <1>6, <1>7, SeqMonotonic DEF ToSet

\* A concatenation holds the messages of both parts.
LEMMA ConcatElements ==
    ASSUME NEW S, NEW s \in Seq(S), NEW t \in Seq(S)
    PROVE  /\ s \o t \in Seq(S)
           /\ ToSet(s \o t) \subseteq ToSet(s) \cup ToSet(t)
  <1>1. /\ DOMAIN s = 1..Len(s) /\ DOMAIN t = 1..Len(t)
        /\ Len(s) \in Nat /\ Len(t) \in Nat
    BY LenProperties
  <1>2. /\ s \o t \in Seq(S)
        /\ DOMAIN (s \o t) = 1..(Len(s) + Len(t))
        /\ \A i \in 1..(Len(s) + Len(t)) :
              (s \o t)[i] = IF i <= Len(s) THEN s[i] ELSE t[i - Len(s)]
    BY ConcatProperties, LenProperties
  <1>3. ASSUME NEW i \in DOMAIN (s \o t)
        PROVE  (s \o t)[i] \in ToSet(s) \cup ToSet(t)
    <2>1. CASE i <= Len(s)
      BY <1>1, <1>2, <2>1 DEF ToSet
    <2>2. CASE ~(i <= Len(s))
      <3>1. i - Len(s) \in DOMAIN t
        BY <1>1, <1>2, <2>2
      <3> QED
        BY <1>2, <2>2, <3>1 DEF ToSet
    <2> QED
      BY <2>1, <2>2
  <1> QED
    BY <1>2, <1>3 DEF ToSet

\* The sequence of a finite set holds its elements and no others.
LEMMA SetToSeqElements ==
    ASSUME NEW S, IsFiniteSet(S)
    PROVE  /\ SetToSeq(S) \in Seq(S)
           /\ ToSet(SetToSeq(S)) \subseteq S
  <1> DEFINE n == Cardinality(S)
  <1>1. n \in Nat /\ ExistsBijection(1..n, S)
    BY FS_CardinalityType
  <1>2. PICK f \in Bijection(1..n, S) : TRUE
    BY <1>1 DEF ExistsBijection
  <1>3. f \in [1..n -> S] /\ IsInjective(f)
    BY <1>2 DEF Bijection, Injection, IsInjective
  <1>4. SetToSeq(S) \in [1..n -> S]
    BY <1>3 DEF SetToSeq
  <1> HIDE DEF n
  <1>5. SetToSeq(S) \in Seq(S)
    BY <1>1, <1>4
  <1> QED
    BY <1>4, <1>5 DEF ToSet

\* What a function takes on a finite set is finite.
LEMMA FiniteImage ==
    ASSUME NEW S, IsFiniteSet(S), NEW f, DOMAIN f = S, f = [x \in S |-> f[x]]
    PROVE  IsFiniteSet({f[x] : x \in S})
  <1> DEFINE T == {f[x] : x \in S}
  <1>1. f \in [S -> T] /\ \A t \in T : \E x \in S : f[x] = t
    BY Zenon
  <1>2. f \in Surjection(S, T)
    BY <1>1 DEF Surjection
  <1> HIDE DEF T
  <1>3. IsFiniteSet(T)
    BY <1>2, FS_Surjection
  <1> QED
    BY <1>3 DEF T

-----------------------------------------------------------------------------
(* Types of what the actions write *)

\* Wrapped counters are sequence numbers.
LEMMA WireInSeqs ==
    ASSUME NEW x \in Int PROVE Wire(x) \in Seqs
  <1>1. CounterMod \in Nat \ {0}
    BY HalfWindowAssumption DEF CounterMod
  <1> QED
    BY <1>1 DEF Wire, Seqs

\* A wrapped counter below the modulus is itself.
LEMMA WireOfSmall ==
    ASSUME NEW x \in 0..(HalfWindow - 1)
    PROVE  Wire(x) = x
  <1>1. CounterMod \in Nat \ {0} /\ x \in 0..(CounterMod - 1) /\ x \in Int
    BY HalfWindowAssumption DEF CounterMod
  <1> QED
    BY <1>1 DEF Wire

\* Between small counters, newer means greater.
LEMMA NewerOfSmall ==
    ASSUME NEW x \in 0..(HalfWindow - 1), NEW y \in 0..(HalfWindow - 1)
    PROVE  Newer(x, y) <=> x > y
  <1>1. HalfWindow \in Nat \ {0} /\ CounterMod = 2 * HalfWindow
    BY HalfWindowAssumption DEF CounterMod
  <1>2. CASE x > y
    <2>1. x - y \in 0..(HalfWindow - 1) /\ x - y \in 0..(CounterMod - 1) /\ CounterMod \in Nat \ {0}
      BY <1>1, <1>2
    <2>2. (x - y) % CounterMod = x - y
      BY <2>1
    <2> QED
      BY <1>1, <1>2, <2>1, <2>2 DEF Newer
  <1>3. CASE x = y
    BY <1>3 DEF Newer
  <1>4. CASE x < y
    <2>1. (x - y) + CounterMod \in HalfWindow..(CounterMod - 1) /\ CounterMod \in Nat \ {0}
      BY <1>1, <1>4
    <2>2. (x - y) % CounterMod = (x - y) + CounterMod
      BY <1>1, <2>1, Z3
    <2> QED
      BY <1>1, <1>4, <2>1, <2>2 DEF Newer
  <1> QED
    BY <1>2, <1>3, <1>4

\* The state of a new player has its type.
LEMMA NewClientStateType ==
    ASSUME NEW id \in PlayerIds
    PROVE  NewClientState(id) \in ServerClientState
  <1>1. Wire(1) \in Seqs
    BY WireInSeqs
  <1>2. 0 \in Seqs
    BY HalfWindowAssumption DEF Seqs, CounterMod
  <1>3. HomeBody \in SupportedBodies /\ {} \in SUBSET SupportedBodies /\ 0 \in Nat
    BY NetPlayAssumption
  <1>4. FALSE \in BOOLEAN
    OBVIOUS
  <1> QED
    BY <1>1, <1>2, <1>3, <1>4, Zenon DEF NewClientState, ServerClientState

\* Every update of a player's state keeps its type.
LEMMA ClientStateUpdates ==
    ASSUME NEW s \in ServerClientState
    PROVE  /\ Simulated(s) \in ServerClientState
           /\ [s EXCEPT !.next_snapshot_sequence = Wire(@ + 1)] \in ServerClientState
           /\ [s EXCEPT !.next_player_state_sequence = Wire(@ + 1)] \in ServerClientState
           /\ [s EXCEPT !.recent_interest = FALSE] \in ServerClientState
           /\ \A m \in UpMessages : m.type = "Input" /\ AcceptsInput(s, m) =>
                 WithInput(s, m) \in ServerClientState
           /\ \A b \in SupportedBodies : WithInterest(s, b) \in ServerClientState
  <1>1. /\ Wire(s.next_snapshot_sequence + 1) \in Seqs
        /\ Wire(s.next_player_state_sequence + 1) \in Seqs
    BY WireInSeqs DEF ServerClientState, Seqs
  <1>2. /\ s.jumps + (IF s.press THEN 1 ELSE 0) \in Nat
        /\ s.jumps \in Nat /\ s.presses \in Nat
        /\ \A b \in BOOLEAN : s.presses + (IF b THEN 1 ELSE 0) \in Nat
    BY DEF ServerClientState
  <1>3. TRUE \in BOOLEAN /\ FALSE \in BOOLEAN
    OBVIOUS
  <1>4. Simulated(s) \in ServerClientState
    BY <1>2, <1>3, Zenon DEF ServerClientState, Simulated
  <1>5. [s EXCEPT !.next_snapshot_sequence = Wire(@ + 1)] \in ServerClientState
    BY <1>1, Zenon DEF ServerClientState
  <1>6. [s EXCEPT !.next_player_state_sequence = Wire(@ + 1)] \in ServerClientState
    BY <1>1, Zenon DEF ServerClientState
  <1>7. [s EXCEPT !.recent_interest = FALSE] \in ServerClientState
    BY <1>3, Zenon DEF ServerClientState
  <1>8. ASSUME NEW m \in UpMessages, m.type = "Input", AcceptsInput(s, m)
        PROVE  WithInput(s, m) \in ServerClientState
    <2>1. m.tick \in Seqs /\ m.body \in SupportedBodies
      BY <1>8 DEF UpMessages, Input, ChunkInterest, AcceptsInput
    <2>2. m.press \in BOOLEAN
      <3>1. m \notin {ChunkInterest(b) : b \in Bodies}
        BY <1>8 DEF ChunkInterest
      <3>2. PICK t \in Seqs, b \in Bodies, p \in BOOLEAN : m = Input(t, b, p)
        BY <3>1 DEF UpMessages
      <3> QED
        BY <3>2, Zenon DEF Input
    <2>3. s.presses + (IF m.press THEN 1 ELSE 0) \in Nat
      BY <1>2, <2>2, Zenon
    <2> QED
      BY <1>3, <2>1, <2>2, <2>3, Zenon DEF ServerClientState, WithInput
  <1>9. ASSUME NEW b \in SupportedBodies
        PROVE  WithInterest(s, b) \in ServerClientState
    <2>1. s.sent_chunks \cup {b} \in SUBSET SupportedBodies
      BY DEF ServerClientState
    <2> QED
      BY <1>3, <2>1, Zenon DEF ServerClientState, WithInterest
  <1> QED
    BY <1>4, <1>5, <1>6, <1>7, <1>8, <1>9, Zenon

\* The empty player list, one with a player more and one with a player less.
LEMMA PlayerMapUpdates ==
    /\ <<>> \in PlayerMaps
    /\ \A f \in PlayerMaps : \A id \in PlayerIds :
          /\ [k \in (DOMAIN f) \ {id} |-> f[k]] \in PlayerMaps
          /\ \A q \in Seqs, b \in Bodies :
                [k \in (DOMAIN f) \cup {id} |->
                    IF k = id THEN [seq |-> q, body |-> b] ELSE f[k]] \in PlayerMaps
  <1> DEFINE Shown == [seq : Seqs, body : Bodies]
  <1>1. <<>> \in [{} -> Shown] /\ {} \in SUBSET PlayerIds
    OBVIOUS
  <1>2. <<>> \in PlayerMaps
    BY <1>1 DEF PlayerMaps
  <1>3. ASSUME NEW f \in PlayerMaps, NEW id \in PlayerIds
        PROVE  /\ [k \in (DOMAIN f) \ {id} |-> f[k]] \in PlayerMaps
               /\ \A q \in Seqs, b \in Bodies :
                     [k \in (DOMAIN f) \cup {id} |->
                         IF k = id THEN [seq |-> q, body |-> b] ELSE f[k]] \in PlayerMaps
    <2>1. PICK ids \in SUBSET PlayerIds : f \in [ids -> Shown]
      BY DEF PlayerMaps
    <2>2. DOMAIN f = ids /\ ids \ {id} \in SUBSET PlayerIds /\ ids \cup {id} \in SUBSET PlayerIds
      BY <2>1
    <2>3. [k \in ids \ {id} |-> f[k]] \in [ids \ {id} -> Shown]
      BY <2>1
    <2>4. ASSUME NEW q \in Seqs, NEW b \in Bodies
          PROVE  [k \in ids \cup {id} |-> IF k = id THEN [seq |-> q, body |-> b] ELSE f[k]]
                    \in [ids \cup {id} -> Shown]
      BY <2>1
    <2> HIDE DEF Shown
    <2> QED
      BY <2>2, <2>3, <2>4, Zenon DEF PlayerMaps, Shown
  <1> QED
    BY <1>2, <1>3

\* A fresh client has its type, and clearing a session keeps it.
LEMMA ClearedClientTypes ==
    /\ NewNetClient \in NetClientState
    /\ \A nc \in NetClientState :
          /\ Disconnected(nc) \in NetClientState
          /\ DisconnectedByEvent(nc) \in NetClientState
  <1>1. /\ 0 \in Seqs /\ 0 \in {0} \cup PlayerIds /\ NoInfo \in {NoInfo} \cup (0..MaxConns)
        /\ NoBody \in {NoBody} \cup Bodies /\ <<>> \in Seq(SupportedBodies)
        /\ "Disconnected" \in {"Disconnected", "Connecting", "Connected"}
    BY HalfWindowAssumption DEF Seqs, CounterMod
  <1>2. FALSE \in BOOLEAN
    OBVIOUS
  <1>3. <<>> \in PlayerMaps
    BY PlayerMapUpdates
  <1>4. [id |-> 0, seq |-> 0] \in [id : {0} \cup PlayerIds, seq : Seqs]
    BY <1>1
  <1>5. NewNetClient \in NetClientState
    BY <1>1, <1>2, <1>3, <1>4, Zenon DEF NewNetClient, NetClientState
  <1>6. ASSUME NEW nc \in NetClientState
        PROVE  SessionCleared(nc) \in NetClientState
    BY <1>1, <1>2, <1>3, Zenon DEF SessionCleared, NetClientState
  <1>7. ASSUME NEW nc \in NetClientState
        PROVE  [nc EXCEPT !.chunk_updates = <<>>] \in NetClientState
    BY <1>1, Zenon DEF NetClientState
  <1>8. ASSUME NEW nc \in NetClientState
        PROVE  [nc EXCEPT !.has_last_snapshot_sequence = FALSE,
                          !.last_snapshot_sequence = 0] \in NetClientState
    BY <1>1, <1>2, Zenon DEF NetClientState
  <1> QED
    BY <1>5, <1>6, <1>7, <1>8, Zenon DEF Disconnected, DisconnectedByEvent

\* What a message holds, by its kind.
LEMMA DownMessageFields ==
    ASSUME NEW m \in DownMessages
    PROVE  /\ m.type \in {"AssignPlayer", "SessionInfo", "PlayerRemove",
                          "ChunkState", "Snapshot", "PlayerState"}
           /\ m.type \in {"AssignPlayer", "PlayerRemove", "Snapshot", "PlayerState"}
                => m.id \in PlayerIds
           /\ m.type = "SessionInfo" => m.players \in 0..MaxConns
           /\ m.type = "ChunkState" => m.body \in SupportedBodies
           /\ m.type \in {"Snapshot", "PlayerState"} => m.seq \in Seqs
           /\ m.type = "PlayerState" => m.body \in Bodies
  BY DEF DownMessages, AssignPlayer, SessionInfo, PlayerRemove, ChunkState,
         Snapshot, PlayerState

\* Every message a client can be sent keeps the type of its state.
LEMMA ReceivedType ==
    ASSUME NEW nc \in NetClientState, NEW m \in DownMessages
    PROVE  Received(nc, m) \in NetClientState
  <1>1. CASE m.type = "Snapshot"
    <2>1. [id |-> m.id, seq |-> m.seq] \in [id : {0} \cup PlayerIds, seq : Seqs]
      BY <1>1, DownMessageFields
    <2>2. m.seq \in Seqs /\ TRUE \in BOOLEAN
      BY <1>1, DownMessageFields
    <2>3. TakesSnapshot(nc, m) \in NetClientState
      BY <2>1, <2>2, Zenon DEF TakesSnapshot, NetClientState
    <2> QED
      BY <1>1, <2>3 DEF Received
  <1>2. CASE m.type = "PlayerState"
    <2>1. m.id \in PlayerIds /\ m.seq \in Seqs /\ m.body \in Bodies
      BY <1>2, DownMessageFields
    <2>2. nc.replicated_players \in PlayerMaps
      BY DEF NetClientState
    <2>3. [k \in (DOMAIN nc.replicated_players) \cup {m.id} |->
              IF k = m.id THEN [seq |-> m.seq, body |-> m.body]
              ELSE nc.replicated_players[k]] \in PlayerMaps
      BY <2>1, <2>2, PlayerMapUpdates, Zenon
    <2>4. TakesPlayerState(nc, m) \in NetClientState
      BY <2>3, Zenon DEF TakesPlayerState, NetClientState
    <2> QED
      BY <1>2, <2>4 DEF Received
  <1>3. CASE m.type = "PlayerRemove"
    <2>1. m.id \in PlayerIds
      BY <1>3, DownMessageFields
    <2>2. nc.replicated_players \in PlayerMaps
      BY DEF NetClientState
    <2>3. [k \in (DOMAIN nc.replicated_players) \ {m.id} |-> nc.replicated_players[k]]
             \in PlayerMaps
      BY <2>1, <2>2, PlayerMapUpdates, Zenon
    <2>4. TakesPlayerRemove(nc, m) \in NetClientState
      BY <2>3, Zenon DEF TakesPlayerRemove, NetClientState
    <2> QED
      BY <1>3, <2>4 DEF Received
  <1>4. CASE m.type = "AssignPlayer"
    <2>1. m.id \in {0} \cup PlayerIds
      BY <1>4, DownMessageFields
    <2>2. [nc EXCEPT !.assigned_player_id = m.id] \in NetClientState
      BY <2>1, Zenon DEF NetClientState
    <2> QED
      BY <1>4, <2>2 DEF Received
  <1>5. CASE m.type = "SessionInfo"
    <2>1. m.players \in {NoInfo} \cup (0..MaxConns)
      BY <1>5, DownMessageFields
    <2>2. [nc EXCEPT !.session_players = m.players] \in NetClientState
      BY <2>1, Zenon DEF NetClientState
    <2> QED
      BY <1>5, <2>2 DEF Received
  <1>6. CASE m.type = "ChunkState"
    <2>1. nc.chunk_updates \in Seq(SupportedBodies) /\ m.body \in SupportedBodies
      BY <1>6, DownMessageFields DEF NetClientState
    <2>2. Append(nc.chunk_updates, m.body) \in Seq(SupportedBodies)
      BY <2>1, AppendProperties
    <2>3. [nc EXCEPT !.chunk_updates = Append(@, m.body)] \in NetClientState
      BY <2>2, Zenon DEF NetClientState
    <2> QED
      BY <1>6, <2>3 DEF Received
  <1> QED
    BY <1>1, <1>2, <1>3, <1>4, <1>5, <1>6, DownMessageFields

-----------------------------------------------------------------------------
(* The typing invariant *)

\* A client's peer slot is taken exactly while it holds a connection.
SlotsHaveConns == \A c \in Clients : slot[c] = "free" <=> conn[c] = NoConn

\* The server has a player for every connection that is open, and for no other.
PlayersAreOpen ==
    /\ \A n \in Conns : n \in DOMAIN client_states <=> link[n] = "open"
    /\ ~running => DOMAIN client_states = {}

Typed == TypeOK /\ SlotsHaveConns /\ PlayersAreOpen

\* The bounds are numbers.
LEMMA BoundsAreNat ==
    MaxConns \in Nat /\ MaxEpochs \in Nat /\ MaxTick \in Nat
    /\ MaxSnapshots \in Nat /\ MaxBroadcasts \in Nat /\ MaxFlight \in Nat
  BY NetPlayAssumption

\* Both queues of send_message keep their type, and gain only what was sent.
LEMMA SentType ==
    ASSUME TypeOK, NEW n \in Conns, NEW ms \in Seq(DownMessages)
    PROVE  /\ SentReliable(n, ms) \in Seq(DownMessages)
           /\ SentUnreliable(n, ms) \in Seq(DownMessages)
           /\ ToSet(SentReliable(n, ms)) \subseteq ToSet(down[n]) \cup ToSet(ms)
           /\ ToSet(SentUnreliable(n, ms)) \subseteq ToSet(down[n]) \cup ToSet(ms)
  <1>1. down[n] \in Seq(DownMessages)
    BY DEF TypeOK
  <1>2. /\ down[n] \o ms \in Seq(DownMessages)
        /\ ToSet(down[n] \o ms) \subseteq ToSet(down[n]) \cup ToSet(ms)
    BY <1>1, ConcatElements
  <1> QED
    BY <1>1, <1>2 DEF SentReliable, SentUnreliable

\* The initial states are typed.
LEMMA InitTyped == Init => Typed
  <1> SUFFICES ASSUME Init PROVE Typed
    OBVIOUS
  <1>1. /\ HomeBody \in Bodies /\ MaxTick \in Nat /\ MaxEpochs \in Nat /\ MaxConns \in Nat
    BY NetPlayAssumption
  <1>2. \A c \in Clients : net[c] \in NetClientState
    BY ClearedClientTypes DEF Init
  <1>3. net \in [Clients -> NetClientState]
    BY <1>2 DEF Init
  <1>4. DOMAIN client_states = {}
    BY DEF Init
  <1>5. running \in BOOLEAN
    BY Zenon DEF Init
  <1>6. /\ epoch \in 0..MaxEpochs
        /\ next_player_id \in 1..(MaxConns + 1)
        /\ link \in [Conns -> {"unused", "connecting", "established", "open", "closed"}]
        /\ down \in [Conns -> Seq(DownMessages)]
        /\ up \in [Conns -> Seq(UpMessages)]
        /\ slot \in [Clients -> {"free", "connecting", "connected", "disconnecting"}]
        /\ conn \in [Clients -> {NoConn} \cup Conns]
        /\ active_body_index \in [Clients -> Bodies]
        /\ sim_tick \in [Clients -> 0..MaxTick]
        /\ chunk_log \in [Conns -> Seq(SupportedBodies)]
    BY <1>1 DEF Init
  <1>7. SlotsHaveConns /\ PlayersAreOpen
    BY <1>4 DEF Init, SlotsHaveConns, PlayersAreOpen
  <1> QED
    BY <1>3, <1>4, <1>5, <1>6, <1>7, Zenon DEF Typed, TypeOK

\* Updating a function at one point keeps its type.
LEMMA UpdateType ==
    ASSUME NEW D, NEW R, NEW f \in [D -> R], NEW d \in D, NEW r \in R
    PROVE  [f EXCEPT ![d] = r] \in [D -> R]
  OBVIOUS

\* Nobody is registered in an empty server.
LEMMA EmptyDomain == DOMAIN <<>> = {}
  OBVIOUS

\* The number of players of the server can be told.
LEMMA PlayersType ==
    ASSUME NEW states, DOMAIN states \subseteq Conns
    PROVE  Players(states) \in 0..MaxConns /\ IsFiniteSet(DOMAIN states)
  <1>1. MaxConns \in Nat
    BY NetPlayAssumption
  <1>2. IsFiniteSet(Conns) /\ Cardinality(Conns) = MaxConns
    BY <1>1, FS_Interval DEF Conns
  <1>3. /\ IsFiniteSet(DOMAIN states)
        /\ Cardinality(DOMAIN states) <= MaxConns
    BY <1>2, FS_Subset
  <1>4. Cardinality(DOMAIN states) \in Nat
    BY <1>3, FS_CardinalityType
  <1> QED
    BY <1>1, <1>3, <1>4 DEF Players

\* Starting and stopping the server
LEMMA ServerLifeTyped ==
    ASSUME Typed, StartServer \/ ShutdownServer
    PROVE  Typed'
  <1> USE DEF Typed
  <1>1. SlotsHaveConns'
    BY DEF StartServer, ShutdownServer, SlotsHaveConns, client
  <1>2. DOMAIN client_states' = {}
    BY EmptyDomain, Zenon DEF StartServer, ShutdownServer
  <1>3. running' \in BOOLEAN
    BY Zenon DEF StartServer, ShutdownServer
  <1>4. next_player_id' \in 1..(MaxConns + 1) /\ epoch' \in 0..MaxEpochs
    BY BoundsAreNat DEF StartServer, ShutdownServer, TypeOK
  <1>5. /\ link' \in [Conns -> {"unused", "connecting", "established", "open", "closed"}]
        /\ up' \in [Conns -> Seq(UpMessages)]
        /\ down' \in [Conns -> Seq(DownMessages)]
    <2>1. CASE StartServer
      BY <2>1 DEF StartServer, TypeOK, wires
    <2>2. CASE ShutdownServer
      BY <2>2 DEF ShutdownServer, TypeOK
    <2> QED
      BY <2>1, <2>2
  <1>6. PlayersAreOpen'
    BY <1>2 DEF StartServer, ShutdownServer, PlayersAreOpen, TypeOK, wires
  <1> QED
    BY <1>1, <1>2, <1>3, <1>4, <1>5, <1>6, Zenon
       DEF StartServer, ShutdownServer, TypeOK, client, engine

\* The CONNECT case of the server
LEMMA ServerConnectTyped ==
    ASSUME Typed, NEW n \in Conns, ServerConnect(n)
    PROVE  Typed'
  <1> USE DEF Typed
  <1> DEFINE states == WithClient(n, NewClientState(next_player_id))
             info == SessionInfo(Players(states))
  <1>1. next_player_id \in PlayerIds /\ client_states' = states
    BY DEF ServerConnect
  <1>2. NewClientState(next_player_id) \in ServerClientState
    BY <1>1, NewClientStateType
  <1>3. /\ DOMAIN states = (DOMAIN client_states) \cup {n}
        /\ DOMAIN states \subseteq Conns
        /\ \A m \in DOMAIN states : states[m] \in ServerClientState
    BY <1>2 DEF WithClient, TypeOK
  <1>4. info \in DownMessages /\ AssignPlayer(next_player_id) \in DownMessages
    BY <1>1, <1>3, PlayersType DEF DownMessages
  <1>5. /\ Greeting(next_player_id, states) \in Seq(DownMessages)
        /\ <<info>> \in Seq(DownMessages)
    BY <1>4 DEF Greeting
  <1>6. \A m \in Conns : /\ SentReliable(m, Greeting(next_player_id, states)) \in Seq(DownMessages)
                         /\ SentReliable(m, <<info>>) \in Seq(DownMessages)
                         /\ down[m] \in Seq(DownMessages)
    BY <1>5, SentType DEF TypeOK
  <1>7. down' \in [Conns -> Seq(DownMessages)]
    BY <1>6 DEF ServerConnect
  <1>8. next_player_id' \in 1..(MaxConns + 1)
    BY <1>1, NetPlayAssumption DEF ServerConnect, PlayerIds
  <1>9. link' \in [Conns -> {"unused", "connecting", "established", "open", "closed"}]
    BY DEF ServerConnect, TypeOK
  <1>10. SlotsHaveConns'
    BY DEF ServerConnect, SlotsHaveConns, client
  <1>11. PlayersAreOpen'
    BY <1>1, <1>3 DEF ServerConnect, PlayersAreOpen, TypeOK
  <1> HIDE DEF states
  <1> QED
    BY <1>1, <1>3, <1>7, <1>8, <1>9, <1>10, <1>11, Zenon DEF ServerConnect, TypeOK, client, engine

\* The DISCONNECT case of the server
LEMMA ServerDisconnectTyped ==
    ASSUME Typed, NEW n \in Conns, ServerDisconnect(n)
    PROVE  Typed'
  <1> USE DEF Typed
  <1> DEFINE states == WithoutClient(n)
             notice == Farewell(client_states[n].player_id, states)
  <1>1. client_states[n] \in ServerClientState
    BY DEF TypeOK, PlayersAreOpen, ServerDisconnect
  <1>2. client_states' = states
    BY DEF ServerDisconnect
  <1>3. /\ DOMAIN states \subseteq Conns
        /\ \A m \in DOMAIN states : states[m] \in ServerClientState
    BY DEF WithoutClient, TypeOK
  <1>4. client_states[n].player_id \in PlayerIds
    BY <1>1 DEF ServerClientState
  <1>5. notice \in Seq(DownMessages)
    BY <1>3, <1>4, PlayersType DEF Farewell, DownMessages
  <1>6. \A m \in Conns : SentReliable(m, notice) \in Seq(DownMessages)
                         /\ down[m] \in Seq(DownMessages)
    BY <1>5, SentType DEF TypeOK
  <1>7. down' \in [Conns -> Seq(DownMessages)]
    BY <1>6 DEF ServerDisconnect
  <1>8. /\ link' \in [Conns -> {"unused", "connecting", "established", "open", "closed"}]
        /\ up' \in [Conns -> Seq(UpMessages)]
    BY <1>1 DEF ServerDisconnect, TypeOK
  <1>9. SlotsHaveConns'
    BY DEF ServerDisconnect, SlotsHaveConns, client
  <1>10. PlayersAreOpen'
    BY <1>2 DEF ServerDisconnect, PlayersAreOpen, TypeOK, WithoutClient
  <1> HIDE DEF states
  <1> QED
    BY <1>2, <1>3, <1>7, <1>8, <1>9, <1>10, Zenon DEF ServerDisconnect, TypeOK, client, engine

\* The RECEIVE cases of the server
LEMMA ServerReceiveTyped ==
    ASSUME Typed, NEW n \in Conns, NEW i \in DOMAIN up[n],
           ServerReceiveInput(n, i) \/ ServerReceiveInterest(n, i)
    PROVE  Typed'
  <1> USE DEF Typed
  <1> DEFINE m == up[n][i]
             s == client_states[n]
  <1>1. n \in DOMAIN client_states /\ s \in ServerClientState
    BY DEF TypeOK, ServerReceiveInput, ServerReceiveInterest
  <1>2. up[n] \in Seq(UpMessages) /\ m \in UpMessages
    BY LenProperties, ElementOfSeq DEF TypeOK
  <1>3. up' \in [Conns -> Seq(UpMessages)]
    <2>1. RemoveAt(up[n], i) \in Seq(UpMessages)
      BY <1>2, RemoveAtElements
    <2>2. up' = [up EXCEPT ![n] = RemoveAt(@, i)]
      BY DEF ServerReceiveInput, ServerReceiveInterest
    <2> QED
      BY <2>1, <2>2 DEF TypeOK
  <1>4. /\ DOMAIN client_states' = DOMAIN client_states
        /\ \A k \in DOMAIN client_states : client_states'[k] \in ServerClientState
    <2>1. CASE ServerReceiveInput(n, i)
      <3>1. AcceptsInput(s, m) => WithInput(s, m) \in ServerClientState
        BY <1>1, <1>2, <2>1, ClientStateUpdates DEF ServerReceiveInput
      <3> QED
        BY <1>1, <2>1, <3>1 DEF ServerReceiveInput, TypeOK
    <2>2. CASE ServerReceiveInterest(n, i)
      <3>1. AcceptsInterest(s, m.body) => WithInterest(s, m.body) \in ServerClientState
        BY <1>1, ClientStateUpdates, Zenon DEF AcceptsInterest
      <3>2. \/ client_states' = client_states
            \/ /\ AcceptsInterest(s, m.body)
               /\ client_states' = [client_states EXCEPT ![n] = WithInterest(@, m.body)]
        BY <2>2 DEF ServerReceiveInterest
      <3> QED
        BY <1>1, <3>1, <3>2 DEF TypeOK
    <2> QED
      BY <2>1, <2>2
  <1>5. down' \in [Conns -> Seq(DownMessages)]
    <2>1. CASE ServerReceiveInput(n, i)
      BY <2>1 DEF ServerReceiveInput, TypeOK
    <2>2. CASE ServerReceiveInterest(n, i)
      <3>1. CASE AcceptsInterest(s, m.body)
        <4>1. ChunkState(m.body) \in DownMessages
          BY <3>1 DEF AcceptsInterest, DownMessages
        <4>2. ChunksFor(s, m.body) \in Seq(DownMessages)
          BY <4>1 DEF ChunksFor
        <4>3. SentReliable(n, ChunksFor(s, m.body)) \in Seq(DownMessages)
          BY <4>2, SentType
        <4>4. down' = [down EXCEPT ![n] = SentReliable(n, ChunksFor(s, m.body))]
          BY <2>2, <3>1, Zenon DEF ServerReceiveInterest
        <4> QED
          BY <4>3, <4>4 DEF TypeOK
      <3>2. CASE ~AcceptsInterest(s, m.body)
        BY <2>2, <3>2 DEF ServerReceiveInterest, TypeOK
      <3> QED
        BY <3>1, <3>2
    <2> QED
      BY <2>1, <2>2
  <1>6. SlotsHaveConns'
    BY DEF ServerReceiveInput, ServerReceiveInterest, SlotsHaveConns, client
  <1>7. PlayersAreOpen'
    BY <1>4 DEF ServerReceiveInput, ServerReceiveInterest, PlayersAreOpen
  <1> HIDE DEF m, s
  <1> QED
    BY <1>3, <1>4, <1>5, <1>6, <1>7, Zenon
       DEF ServerReceiveInput, ServerReceiveInterest, TypeOK, client, engine

\* What broadcast_player_states sends to observer o is a sequence of the states of
\* the subjects it sees.
LEMMA ShownToSeq ==
    ASSUME Typed, NEW o, NEW near
    PROVE  LET State(k) == PlayerState(client_states[k].player_id,
                                       client_states[k].next_player_state_sequence,
                                       client_states[k].body)
               Seen == {k \in DOMAIN client_states :
                          ShouldReplicate(client_states[o], client_states[k],
                                          <<o, k>> \in near)}
               Shown == {State(k) : k \in Seen}
           IN  /\ SetToSeq(Shown) \in Seq(DownMessages)
               /\ ToSet(SetToSeq(Shown)) \subseteq Shown
  <1> DEFINE State(k) == PlayerState(client_states[k].player_id,
                                     client_states[k].next_player_state_sequence,
                                     client_states[k].body)
             Seen == {k \in DOMAIN client_states :
                        ShouldReplicate(client_states[o], client_states[k],
                                        <<o, k>> \in near)}
             Shown == {State(k) : k \in Seen}
             shown == [k \in Seen |-> State(k)]
  <1>1. ASSUME NEW k \in DOMAIN client_states
        PROVE  State(k) \in DownMessages
    <2>1. /\ client_states[k].player_id \in PlayerIds
          /\ client_states[k].next_player_state_sequence \in Seqs
          /\ client_states[k].body \in Bodies
      BY NetPlayAssumption DEF ServerClientState, Typed, TypeOK
    <2> QED
      BY <2>1 DEF DownMessages
  <1>2. IsFiniteSet(Seen)
    BY PlayersType, FS_Subset DEF Typed, TypeOK
  <1>3. IsFiniteSet({shown[k] : k \in Seen})
    BY <1>2, FiniteImage
  <1>4. Shown = {shown[k] : k \in Seen} /\ Shown \subseteq DownMessages
    BY <1>1
  <1> HIDE DEF Shown
  <1>5. SetToSeq(Shown) \in Seq(DownMessages) /\ ToSet(SetToSeq(Shown)) \subseteq Shown
    BY <1>3, <1>4, SetToSeqElements, SeqMonotonic
  <1> QED
    BY <1>5 DEF Shown

\* The timed parts of the server
LEMMA ServerTickTyped ==
    ASSUME Typed,
           \/ SimulateFixedTick
           \/ SendSnapshots
           \/ \E near \in SUBSET ObserverSubjectPairs : BroadcastPlayerStates(near)
           \/ \E n \in Conns : InterestWindowPasses(n)
    PROVE  Typed'
  <1> USE DEF Typed
  <1>1. \A k \in DOMAIN client_states : client_states[k] \in ServerClientState
    BY DEF TypeOK
  <1>2. CASE SimulateFixedTick
    <2>1. /\ DOMAIN client_states' = DOMAIN client_states
          /\ \A k \in DOMAIN client_states : client_states'[k] \in ServerClientState
      BY <1>1, <1>2, ClientStateUpdates DEF SimulateFixedTick
    <2>2. SlotsHaveConns' /\ PlayersAreOpen'
      BY <1>2, <2>1 DEF SimulateFixedTick, SlotsHaveConns, PlayersAreOpen, client, wires
    <2> QED
      BY <1>2, <2>1, <2>2, Zenon DEF SimulateFixedTick, TypeOK, wires, client, engine
  <1>3. CASE SendSnapshots
    <2>1. /\ DOMAIN client_states' = DOMAIN client_states
          /\ \A k \in DOMAIN client_states : client_states'[k] \in ServerClientState
      BY <1>1, <1>3, ClientStateUpdates DEF SendSnapshots
    <2>2. ASSUME NEW n \in Conns, n \in DOMAIN client_states
          PROVE  SentUnreliable(n, <<Snapshot(client_states[n].player_id,
                         client_states[n].next_snapshot_sequence)>>) \in Seq(DownMessages)
      <3>1. /\ client_states[n].player_id \in PlayerIds
            /\ client_states[n].next_snapshot_sequence \in Seqs
        BY <1>1, <2>2 DEF ServerClientState
      <3>2. <<Snapshot(client_states[n].player_id,
                client_states[n].next_snapshot_sequence)>> \in Seq(DownMessages)
        BY <3>1 DEF DownMessages
      <3> QED
        BY <3>2, SentType
    <2>3. down' \in [Conns -> Seq(DownMessages)]
      BY <1>3, <2>2 DEF SendSnapshots, TypeOK
    <2>4. SlotsHaveConns' /\ PlayersAreOpen'
      BY <1>3, <2>1 DEF SendSnapshots, SlotsHaveConns, PlayersAreOpen, client
    <2> QED
      BY <1>3, <2>1, <2>3, <2>4, Zenon DEF SendSnapshots, TypeOK, client, engine
  <1>4. ASSUME NEW near \in SUBSET ObserverSubjectPairs, BroadcastPlayerStates(near)
        PROVE  Typed'
    <2> DEFINE State(k) == PlayerState(client_states[k].player_id,
                                       client_states[k].next_player_state_sequence,
                                       client_states[k].body)
               Seen(o) == {k \in DOMAIN client_states :
                             ShouldReplicate(client_states[o], client_states[k],
                                             <<o, k>> \in near)}
               Shown(o) == {State(k) : k \in Seen(o)}
    <2>1. /\ DOMAIN client_states' = DOMAIN client_states
          /\ \A k \in DOMAIN client_states : client_states'[k] \in ServerClientState
      BY <1>1, <1>4, ClientStateUpdates DEF BroadcastPlayerStates
    <2>2. ASSUME NEW o \in Conns
          PROVE  SentUnreliable(o, SetToSeq(Shown(o))) \in Seq(DownMessages)
      BY ShownToSeq, SentType
    <2>3. down' = [o \in Conns |-> IF o \in DOMAIN client_states
                                   THEN SentUnreliable(o, SetToSeq(Shown(o))) ELSE down[o]]
      BY <1>4, Zenon DEF BroadcastPlayerStates
    <2> HIDE DEF Shown
    <2>4. down' \in [Conns -> Seq(DownMessages)]
      BY <2>2, <2>3 DEF TypeOK
    <2>5. SlotsHaveConns' /\ PlayersAreOpen'
      BY <1>4, <2>1 DEF BroadcastPlayerStates, SlotsHaveConns, PlayersAreOpen, client
    <2> QED
      BY <1>4, <2>1, <2>4, <2>5, Zenon DEF BroadcastPlayerStates, TypeOK, client, engine
  <1>5. ASSUME NEW n \in Conns, InterestWindowPasses(n)
        PROVE  Typed'
    <2>1. [client_states[n] EXCEPT !.recent_interest = FALSE] \in ServerClientState
      BY <1>1, <1>5, ClientStateUpdates DEF InterestWindowPasses
    <2>2. client_states' = [client_states EXCEPT ![n] = [@ EXCEPT !.recent_interest = FALSE]]
      BY <1>5 DEF InterestWindowPasses
    <2>3. /\ DOMAIN client_states' = DOMAIN client_states
          /\ \A k \in DOMAIN client_states : client_states'[k] \in ServerClientState
      BY <1>1, <2>1, <2>2
    <2>4. SlotsHaveConns' /\ PlayersAreOpen'
      BY <1>5, <2>3 DEF InterestWindowPasses, SlotsHaveConns, PlayersAreOpen, client, wires
    <2> QED
      BY <1>5, <2>3, <2>4, Zenon DEF InterestWindowPasses, TypeOK, wires, client, engine
  <1> QED
    BY <1>2, <1>3, <1>4, <1>5

\* Any step of the server
LEMMA ServerStepTyped ==
    ASSUME Typed, ServerStep PROVE Typed'
  BY ServerLifeTyped, ServerConnectTyped, ServerDisconnectTyped, ServerReceiveTyped,
     ServerTickTyped DEF ServerStep

LinkStates == {"unused", "connecting", "established", "open", "closed"}

\* Nothing on the server changes when a client only takes or drops a connection.
LEMMA AbandonedTyped ==
    ASSUME Typed, NEW c \in Clients, Abandoned(c)
    PROVE  /\ down' \in [Conns -> Seq(DownMessages)]
           /\ link' \in [Conns -> LinkStates]
           /\ \A n \in Conns : link'[n] = "open" <=> link[n] = "open"
  <1>1. conn[c] \in {NoConn} \cup Conns
    BY DEF Typed, TypeOK
  <1>2. <<>> \in Seq(DownMessages)
    OBVIOUS
  <1>3. down' \in [Conns -> Seq(DownMessages)]
    BY <1>1, <1>2 DEF Abandoned, Typed, TypeOK
  <1> QED
    BY <1>1, <1>3 DEF Abandoned, Typed, TypeOK, LinkStates

\* A client that opens, fails to open or leaves a connection
LEMMA ClientConnectionTyped ==
    ASSUME Typed, NEW c \in Clients,
           \/ \E n \in Conns : Connect(c, n)
           \/ ConnectRefused(c)
           \/ Disconnect(c)
           \/ ClientDisconnect(c)
    PROVE  Typed'
  <1> USE DEF Typed
  <1>1. /\ net[c] \in NetClientState
        /\ Disconnected(net[c]) \in NetClientState
        /\ DisconnectedByEvent(net[c]) \in NetClientState
    BY ClearedClientTypes DEF TypeOK
  <1>2. conn[c] \in {NoConn} \cup Conns /\ NoConn \notin Conns
    BY DEF TypeOK, NoConn, Conns
  <1>3. ASSUME NEW n \in Conns, Connect(c, n) PROVE Typed'
    <2>1. "Connecting" \in {"Disconnected", "Connecting", "Connected"}
          /\ active_body_index[c] \in {NoBody} \cup Bodies
      BY DEF TypeOK
    <2>2. [Disconnected(net[c]) EXCEPT !.state = "Connecting",
              !.pending_interest = active_body_index[c]] \in NetClientState
      BY <1>1, <2>1, Zenon DEF NetClientState
    <2>3. net' \in [Clients -> NetClientState]
      BY <1>3, <2>2 DEF Connect, TypeOK
    <2>4. /\ slot' \in [Clients -> {"free", "connecting", "connected", "disconnecting"}]
          /\ conn' \in [Clients -> {NoConn} \cup Conns]
          /\ SlotsHaveConns'
      BY <1>2, <1>3 DEF Connect, TypeOK, SlotsHaveConns
    <2>5. /\ down' \in [Conns -> Seq(DownMessages)]
          /\ link' \in [Conns -> LinkStates]
      BY <1>2, <1>3 DEF Connect, TypeOK, LinkStates
    <2>6. \A k \in Conns : link'[k] = "open" <=> link[k] = "open"
      BY <1>3 DEF Connect, FirstUnused, TypeOK
    <2>7. PlayersAreOpen'
      BY <1>3, <2>6 DEF Connect, PlayersAreOpen, server
    <2> QED
      BY <1>3, <2>3, <2>4, <2>5, <2>7, Zenon DEF Connect, TypeOK, LinkStates, server, engine
  <1>4. CASE ConnectRefused(c)
    <2>1. net' \in [Clients -> NetClientState]
      BY <1>1, <1>4 DEF ConnectRefused, TypeOK
    <2>2. /\ slot' \in [Clients -> {"free", "connecting", "connected", "disconnecting"}]
          /\ SlotsHaveConns'
      BY <1>4 DEF ConnectRefused, TypeOK, SlotsHaveConns, SlotAfterDisconnect
    <2>3. PlayersAreOpen'
      BY <1>4, AbandonedTyped DEF ConnectRefused, PlayersAreOpen, server
    <2> QED
      BY <1>4, <2>1, <2>2, <2>3, AbandonedTyped, Zenon
         DEF ConnectRefused, TypeOK, LinkStates, server, engine
  <1>5. CASE Disconnect(c)
    <2>1. net' \in [Clients -> NetClientState]
      BY <1>1, <1>5 DEF Disconnect, TypeOK
    <2>2. SlotAfterDisconnect(slot[c]) \in {"free", "disconnecting"}
          /\ (SlotAfterDisconnect(slot[c]) = "disconnecting" => slot[c] # "free")
      BY DEF SlotAfterDisconnect, TypeOK
    <2>3. /\ slot' \in [Clients -> {"free", "connecting", "connected", "disconnecting"}]
          /\ conn' \in [Clients -> {NoConn} \cup Conns]
          /\ SlotsHaveConns'
      BY <1>5, <2>2 DEF Disconnect, TypeOK, SlotsHaveConns
    <2>4. PlayersAreOpen'
      BY <1>5, AbandonedTyped DEF Disconnect, PlayersAreOpen, server
    <2> QED
      BY <1>5, <2>1, <2>3, <2>4, AbandonedTyped, Zenon
         DEF Disconnect, TypeOK, LinkStates, server, engine
  <1>6. CASE ClientDisconnect(c)
    <2>1. net' \in [Clients -> NetClientState]
      BY <1>1, <1>6 DEF ClientDisconnect, TypeOK
    <2>2. /\ slot' \in [Clients -> {"free", "connecting", "connected", "disconnecting"}]
          /\ conn' \in [Clients -> {NoConn} \cup Conns]
          /\ SlotsHaveConns'
      BY <1>6 DEF ClientDisconnect, TypeOK, SlotsHaveConns
    <2>3. PlayersAreOpen'
      BY <1>6, AbandonedTyped DEF ClientDisconnect, PlayersAreOpen, server
    <2> QED
      BY <1>6, <2>1, <2>2, <2>3, AbandonedTyped, Zenon
         DEF ClientDisconnect, TypeOK, LinkStates, server, engine
  <1> QED
    BY <1>3, <1>4, <1>5, <1>6

\* A client whose connection comes up
LEMMA ClientConnectTyped ==
    ASSUME Typed, NEW c \in Clients, ClientConnect(c)
    PROVE  Typed'
  <1> USE DEF Typed
  <1>1. conn[c] \in Conns /\ net[c] \in NetClientState
    BY DEF TypeOK, ClientConnect, SlotsHaveConns
  <1>2. /\ "Connected" \in {"Disconnected", "Connecting", "Connected"}
        /\ NoBody \in {NoBody} \cup Bodies
    OBVIOUS
  <1>3. [net[c] EXCEPT !.state = "Connected", !.pending_interest = NoBody] \in NetClientState
    BY <1>1, <1>2, Zenon DEF NetClientState
  <1>4. net' \in [Clients -> NetClientState]
    BY <1>3 DEF ClientConnect, TypeOK
  <1>5. net[c].pending_interest # NoBody =>
           Append(up[conn[c]], ChunkInterest(net[c].pending_interest)) \in Seq(UpMessages)
    <2>1. up[conn[c]] \in Seq(UpMessages)
      BY <1>1 DEF TypeOK
    <2>2. net[c].pending_interest # NoBody =>
              ChunkInterest(net[c].pending_interest) \in UpMessages
      BY <1>1 DEF NetClientState, UpMessages
    <2> QED
      BY <2>1, <2>2, AppendProperties
  <1>6. up' \in [Conns -> Seq(UpMessages)]
    BY <1>1, <1>5 DEF ClientConnect, TypeOK
  <1>7. /\ slot' \in [Clients -> {"free", "connecting", "connected", "disconnecting"}]
        /\ link' \in [Conns -> {"unused", "connecting", "established", "open", "closed"}]
    BY <1>1 DEF ClientConnect, TypeOK
  <1>8. SlotsHaveConns'
    BY DEF ClientConnect, TypeOK, SlotsHaveConns
  <1>9. PlayersAreOpen'
    BY <1>1 DEF ClientConnect, TypeOK, PlayersAreOpen, server
  <1> QED
    BY <1>4, <1>6, <1>7, <1>8, <1>9, Zenon DEF ClientConnect, TypeOK, server, engine

\* A client that receives or consumes what it received
LEMMA ClientReceiveTyped ==
    ASSUME Typed, NEW c \in Clients,
           \/ conn[c] # NoConn /\ \E i \in DOMAIN down[conn[c]] : ClientReceive(c, i)
           \/ PollSnapshot(c)
           \/ PollChunkState(c)
    PROVE  Typed'
  <1> USE DEF Typed
  <1>1. net[c] \in NetClientState
    BY DEF TypeOK
  <1>2. ASSUME conn[c] # NoConn, NEW i \in DOMAIN down[conn[c]], ClientReceive(c, i)
        PROVE  Typed'
    <2> DEFINE n == conn[c]
               m == down[n][i]
    <2>1. n \in Conns
      BY <1>2 DEF TypeOK
    <2>2. down[n] \in Seq(DownMessages) /\ m \in DownMessages
      BY <1>2, <2>1, LenProperties, ElementOfSeq DEF TypeOK
    <2>3. net' \in [Clients -> NetClientState]
      BY <1>1, <1>2, <2>2, ReceivedType DEF ClientReceive, TypeOK
    <2>4. RemoveAt(down[n], i) \in Seq(DownMessages)
      BY <1>2, <2>2, RemoveAtElements
    <2>5. down' \in [Conns -> Seq(DownMessages)]
      BY <1>2, <2>1, <2>4 DEF ClientReceive, TypeOK
    <2>6. m.type = "ChunkState" => Append(chunk_log[n], m.body) \in Seq(SupportedBodies)
      BY <2>1, <2>2, DownMessageFields, AppendProperties DEF TypeOK
    <2>7. chunk_log' \in [Conns -> Seq(SupportedBodies)]
      BY <1>2, <2>1, <2>6 DEF ClientReceive, TypeOK
    <2>8. SlotsHaveConns' /\ PlayersAreOpen'
      BY <1>2 DEF ClientReceive, SlotsHaveConns, PlayersAreOpen, server
    <2> QED
      BY <1>2, <2>3, <2>5, <2>7, <2>8, Zenon DEF ClientReceive, TypeOK, server, engine
  <1>3. CASE PollSnapshot(c)
    <2>1. FALSE \in BOOLEAN
      OBVIOUS
    <2>2. [net[c] EXCEPT !.has_snapshot = FALSE] \in NetClientState
      BY <1>1, <2>1, Zenon DEF NetClientState
    <2>3. net' = [net EXCEPT ![c] = [@ EXCEPT !.has_snapshot = FALSE]]
      BY <1>3 DEF PollSnapshot
    <2>4. net' \in [Clients -> NetClientState]
      BY <2>2, <2>3 DEF TypeOK
    <2>5. SlotsHaveConns' /\ PlayersAreOpen'
      BY <1>3 DEF PollSnapshot, SlotsHaveConns, PlayersAreOpen, server, wires
    <2> QED
      BY <1>3, <2>4, <2>5, Zenon DEF PollSnapshot, TypeOK, server, wires, engine
  <1>4. CASE PollChunkState(c)
    <2>1. net[c].chunk_updates \in Seq(SupportedBodies) /\ net[c].chunk_updates # <<>>
      BY <1>1, <1>4 DEF NetClientState, PollChunkState
    <2>2. Front(net[c].chunk_updates) \in Seq(SupportedBodies)
      <3>1. \A j \in 1..(Len(net[c].chunk_updates) - 1) :
               net[c].chunk_updates[j] \in SupportedBodies
        BY <2>1, LenProperties, ElementOfSeq
      <3>2. Len(net[c].chunk_updates) - 1 \in Int
        BY <2>1, LenProperties
      <3> QED
        BY <3>1, <3>2, SubSeqProperties DEF Front
    <2> DEFINE rest == Front(net[c].chunk_updates)
    <2>3. net' = [net EXCEPT ![c].chunk_updates = rest]
      BY <1>4 DEF PollChunkState
    <2> HIDE DEF rest
    <2>4. [net[c] EXCEPT !.chunk_updates = rest] \in NetClientState
      BY <1>1, <2>2, Zenon DEF NetClientState, rest
    <2>5. net' \in [Clients -> NetClientState]
      BY <2>3, <2>4 DEF TypeOK
    <2>6. SlotsHaveConns' /\ PlayersAreOpen'
      BY <1>4 DEF PollChunkState, SlotsHaveConns, PlayersAreOpen, server, wires
    <2> QED
      BY <1>4, <2>5, <2>6, Zenon DEF PollChunkState, TypeOK, server, wires, engine
  <1> QED
    BY <1>2, <1>3, <1>4

\* A client that sends
LEMMA ClientSendTyped ==
    ASSUME Typed, NEW c \in Clients,
           \/ \E press \in BOOLEAN : SendInput(c, press)
           \/ \E b \in Bodies : SwitchActivePlanet(c, b)
    PROVE  Typed'
  <1> USE DEF Typed
  <1>1. ASSUME slot[c] = "connected", NEW m \in UpMessages
        PROVE  Said(c, m) \in [Conns -> Seq(UpMessages)]
    <2>1. conn[c] \in Conns /\ up[conn[c]] \in Seq(UpMessages)
      BY <1>1 DEF TypeOK, SlotsHaveConns
    <2>2. Append(up[conn[c]], m) \in Seq(UpMessages)
      BY <2>1, AppendProperties
    <2> QED
      BY <2>1, <2>2 DEF Said, TypeOK
  <1>2. ASSUME NEW press \in BOOLEAN, SendInput(c, press) PROVE Typed'
    <2>1. Wire(sim_tick[c] + 1) \in Seqs
      BY BoundsAreNat, WireInSeqs DEF TypeOK
    <2>2. active_body_index[c] \in Bodies
      BY DEF TypeOK
    <2>3. Input(Wire(sim_tick[c] + 1), active_body_index[c], press) \in UpMessages
      BY <2>1, <2>2 DEF UpMessages
    <2>4. up' \in [Conns -> Seq(UpMessages)]
      BY <1>1, <1>2, <2>3, Zenon DEF SendInput
    <2>5. sim_tick' \in [Clients -> 0..MaxTick]
      BY <1>2, BoundsAreNat DEF SendInput, TypeOK
    <2>6. SlotsHaveConns' /\ PlayersAreOpen'
      BY <1>2 DEF SendInput, SlotsHaveConns, PlayersAreOpen, server, client
    <2> QED
      BY <1>2, <2>4, <2>5, <2>6, Zenon DEF SendInput, TypeOK, server, client
  <1>3. ASSUME NEW b \in Bodies, SwitchActivePlanet(c, b) PROVE Typed'
    <2>1. ChunkInterest(b) \in UpMessages
      BY DEF UpMessages
    <2>2. up' \in [Conns -> Seq(UpMessages)]
      <3>1. CASE slot[c] = "connected"
        BY <1>1, <1>3, <2>1, <3>1, Zenon DEF SwitchActivePlanet
      <3>2. CASE slot[c] # "connected"
        BY <1>3, <3>2 DEF SwitchActivePlanet, TypeOK
      <3> QED
        BY <3>1, <3>2
    <2>3. active_body_index' \in [Clients -> Bodies]
      BY <1>3 DEF SwitchActivePlanet, TypeOK
    <2>4. SlotsHaveConns' /\ PlayersAreOpen'
      BY <1>3 DEF SwitchActivePlanet, SlotsHaveConns, PlayersAreOpen, server, client
    <2> QED
      BY <1>3, <2>2, <2>3, <2>4, Zenon DEF SwitchActivePlanet, TypeOK, server, client
  <1> QED
    BY <1>2, <1>3

\* Losses and timeouts
LEMMA NetworkStepTyped ==
    ASSUME Typed, NetworkStep PROVE Typed'
  <1> USE DEF Typed
  <1>1. ASSUME NEW n \in Conns, NEW i \in DOMAIN down[n], LoseDown(n, i) PROVE Typed'
    <2>1. RemoveAt(down[n], i) \in Seq(DownMessages)
      BY RemoveAtElements DEF TypeOK
    <2>2. down' \in [Conns -> Seq(DownMessages)]
      BY <1>1, <2>1 DEF LoseDown, TypeOK
    <2>3. SlotsHaveConns' /\ PlayersAreOpen'
      BY <1>1 DEF LoseDown, SlotsHaveConns, PlayersAreOpen, server, client
    <2> QED
      BY <1>1, <2>2, <2>3, Zenon DEF LoseDown, TypeOK, server, client, engine
  <1>2. ASSUME NEW n \in Conns, NEW i \in DOMAIN up[n], LoseUp(n, i) PROVE Typed'
    <2>1. RemoveAt(up[n], i) \in Seq(UpMessages)
      BY RemoveAtElements DEF TypeOK
    <2>2. up' \in [Conns -> Seq(UpMessages)]
      BY <1>2, <2>1 DEF LoseUp, TypeOK
    <2>3. SlotsHaveConns' /\ PlayersAreOpen'
      BY <1>2 DEF LoseUp, SlotsHaveConns, PlayersAreOpen, server, client
    <2> QED
      BY <1>2, <2>2, <2>3, Zenon DEF LoseUp, TypeOK, server, client, engine
  <1>3. ASSUME NEW n \in Conns, HandshakeTimeout(n) PROVE Typed'
    <2>1. /\ link' \in [Conns -> {"unused", "connecting", "established", "open", "closed"}]
          /\ up' \in [Conns -> Seq(UpMessages)]
      BY <1>3 DEF HandshakeTimeout, TypeOK
    <2>2. SlotsHaveConns'
      BY <1>3 DEF HandshakeTimeout, SlotsHaveConns, client
    <2>3. PlayersAreOpen'
      BY <1>3 DEF HandshakeTimeout, PlayersAreOpen, server, TypeOK
    <2> QED
      BY <1>3, <2>1, <2>2, <2>3, Zenon DEF HandshakeTimeout, TypeOK, server, client, engine
  <1> QED
    BY <1>1, <1>2, <1>3 DEF NetworkStep

\* Every step keeps the typing invariant.
LEMMA StepTyped == Typed /\ [Next]_vars => Typed'
  <1>1. ASSUME Typed, NEW c \in Clients, ClientStep(c) PROVE Typed'
    BY <1>1, ClientConnectionTyped, ClientConnectTyped, ClientReceiveTyped, ClientSendTyped
       DEF ClientStep
  <1>2. ASSUME Typed, UNCHANGED vars PROVE Typed'
    BY <1>2, Zenon DEF Typed, TypeOK, SlotsHaveConns, PlayersAreOpen,
       vars, server, wires, client, engine
  <1> QED
    BY <1>1, <1>2, ServerStepTyped, NetworkStepTyped DEF Next

\* Every variable of server, clients and network keeps its type, a client's peer
\* slot is taken exactly while it holds a connection, and the server has a player
\* for exactly the open connections.
THEOREM TypeCorrect == Spec => []Typed
  BY InitTyped, StepTyped, PTL DEF Spec

\* Every variable keeps its type.
THEOREM TypeOKHolds == Spec => []TypeOK
  BY TypeCorrect, PTL DEF Typed

-----------------------------------------------------------------------------
(* What a client holds is of the session it is in *)

\* The server numbers the snapshots of a player from 1, and the bound keeps the
\* numbers below half the range.
NumberingInBounds ==
    \A n \in DOMAIN client_states :
        client_states[n].next_snapshot_sequence \in 1..(MaxSnapshots + 1)

\* A message on its way to the player of connection n was meant for that player.
MeantFor(n, m) ==
    /\ m.type \in {"AssignPlayer", "Snapshot"} => m.id = client_states[n].player_id
    /\ m.type = "PlayerState" => m.id # client_states[n].player_id
    /\ m.type = "Snapshot" => m.seq < client_states[n].next_snapshot_sequence

\* The server has had a player for connection n.
Late(n) == link[n] \in {"open", "closed"}

\* Nothing is sent before the server has a player for the connection.
QueuesAreOfThePlayer ==
    \A n \in Conns : \A m \in ToSet(down[n]) :
        Late(n) /\ (n \in DOMAIN client_states => MeantFor(n, m))

NothingYet(nc) ==
    nc.assigned_player_id = 0 /\ ~nc.has_snapshot /\ nc.replicated_players = <<>>

\* Until the server has a player for its connection client c holds nothing, and
\* its snapshot baseline is one of the connection in its slot.
StartsFresh(c) ==
    /\ slot[c] = "connecting" \/ (slot[c] = "connected" /\ ~Late(conn[c]))
       => NothingYet(net[c])
    /\ net[c].has_last_snapshot_sequence =>
          /\ slot[c] \in {"connected", "disconnecting"}
          /\ Late(conn[c])
          /\ conn[c] \in DOMAIN client_states =>
                net[c].last_snapshot_sequence
                  < client_states[conn[c]].next_snapshot_sequence

\* What client c believes about itself is true (IdentityIsOfThisSession).
KnowsItself(c) ==
    \A n \in Conns : Joined(c, n) =>
        /\ net[c].assigned_player_id \in {0, client_states[n].player_id}
        /\ net[c].has_snapshot => net[c].latest_snapshot.id = client_states[n].player_id
        /\ client_states[n].player_id \notin DOMAIN net[c].replicated_players

SessionInv ==
    /\ NumberingInBounds
    /\ QueuesAreOfThePlayer
    /\ \A c \in Clients : StartsFresh(c) /\ KnowsItself(c)

\* Sequence numbers are natural numbers.
LEMMA SeqsAreNat == Seqs \subseteq Nat
  BY HalfWindowAssumption DEF Seqs, CounterMod

\* The invariant implies that no session rejects its snapshots because of an
\* earlier one.
LEMMA BaselineFromSession ==
    ASSUME Typed, SessionInv PROVE SnapshotBaselineIsCurrent
  <1> SUFFICES ASSUME NEW c \in Clients, net[c].has_last_snapshot_sequence
               PROVE  /\ slot[c] # "free" => link[conn[c]] \notin {"connecting", "established"}
                      /\ \A n \in Conns : Joined(c, n) =>
                            Newer(client_states[n].next_snapshot_sequence,
                                  net[c].last_snapshot_sequence)
    BY DEF SnapshotBaselineIsCurrent
  <1>1. StartsFresh(c)
    BY DEF SessionInv
  <1>2. link[conn[c]] \notin {"connecting", "established"}
    BY <1>1 DEF StartsFresh, Late
  <1>3. ASSUME NEW n \in Conns, Joined(c, n)
        PROVE  Newer(client_states[n].next_snapshot_sequence, net[c].last_snapshot_sequence)
    <2>1. client_states[n].next_snapshot_sequence \in 0..(HalfWindow - 1)
      BY <1>3, CountersFitAssumption, HalfWindowAssumption, BoundsAreNat
         DEF SessionInv, NumberingInBounds, Joined
    <2>2. net[c].last_snapshot_sequence \in Nat
      BY SeqsAreNat DEF Typed, TypeOK, NetClientState
    <2>3. net[c].last_snapshot_sequence < client_states[n].next_snapshot_sequence
      BY <1>1, <1>3 DEF StartsFresh, Joined
    <2>4. net[c].last_snapshot_sequence \in 0..(HalfWindow - 1)
      BY <2>1, <2>2, <2>3, HalfWindowAssumption
    <2> QED
      BY <2>1, <2>3, <2>4, NewerOfSmall
  <1> QED
    BY <1>2, <1>3

\* A client has nothing before its first session.
LEMMA InitSession == Init => SessionInv
  <1> SUFFICES ASSUME Init PROVE SessionInv
    OBVIOUS
  <1>1. DOMAIN client_states = {}
    BY EmptyDomain DEF Init
  <1>2. NumberingInBounds
    BY <1>1 DEF NumberingInBounds
  <1>3. QueuesAreOfThePlayer
    BY EmptyDomain DEF Init, QueuesAreOfThePlayer, ToSet
  <1>4. ASSUME NEW c \in Clients
        PROVE  StartsFresh(c) /\ KnowsItself(c)
    <2>1. slot[c] = "free" /\ ~net[c].has_last_snapshot_sequence
      BY Zenon DEF Init, NewNetClient
    <2> QED
      BY <1>1, <2>1 DEF StartsFresh, KnowsItself, Joined
  <1> QED
    BY <1>2, <1>3, <1>4 DEF SessionInv

\* Steps of the server and of the network: what they do to the queues and to the
\* players is all that matters.
LEMMA ServerSideSession ==
    ASSUME Typed, Typed', SessionInv, UNCHANGED client, NumberingInBounds',
           \A n \in Conns : Late(n) => Late(n)',
           \A n \in DOMAIN client_states' :
              \/ ~Late(n)
              \/ /\ n \in DOMAIN client_states
                 /\ client_states'[n].player_id = client_states[n].player_id
                 /\ client_states'[n].next_snapshot_sequence
                      >= client_states[n].next_snapshot_sequence,
           \A n \in Conns : \A m \in ToSet(down'[n]) :
              \/ m \in ToSet(down[n])
              \/ Late(n)' /\ (n \in DOMAIN client_states' => MeantFor(n, m)')
    PROVE  SessionInv'
  <1>1. QueuesAreOfThePlayer'
    <2> SUFFICES ASSUME NEW n \in Conns, NEW m \in ToSet(down'[n]), m \in ToSet(down[n])
                 PROVE  Late(n)' /\ (n \in DOMAIN client_states' => MeantFor(n, m)')
      BY DEF QueuesAreOfThePlayer
    <2>1. Late(n) /\ Late(n)' /\ (n \in DOMAIN client_states => MeantFor(n, m))
      BY DEF SessionInv, QueuesAreOfThePlayer
    <2>2. m \in DownMessages
      BY LenProperties, ElementOfSeq DEF ToSet, Typed, TypeOK
    <2>3. m.type = "Snapshot" => m.seq \in Nat
      BY <2>2, DownMessageFields, SeqsAreNat
    <2>4. ASSUME n \in DOMAIN client_states' PROVE MeantFor(n, m)'
      <3>1. /\ n \in DOMAIN client_states
            /\ client_states'[n].player_id = client_states[n].player_id
            /\ client_states'[n].next_snapshot_sequence
                 >= client_states[n].next_snapshot_sequence
        BY <2>1, <2>4
      <3>2. client_states[n].next_snapshot_sequence \in Nat
            /\ client_states'[n].next_snapshot_sequence \in Nat
        BY <2>4, <3>1, BoundsAreNat DEF SessionInv, NumberingInBounds
      <3> QED
        BY <2>1, <2>3, <3>1, <3>2 DEF MeantFor
    <2> QED
      BY <2>1, <2>4
  <1>2. ASSUME NEW c \in Clients
        PROVE  StartsFresh(c)' /\ KnowsItself(c)'
    <2>1. StartsFresh(c) /\ KnowsItself(c)
      BY DEF SessionInv
    <2>2. net'[c] = net[c] /\ slot'[c] = slot[c] /\ conn'[c] = conn[c]
      BY DEF client
    <2>3. slot[c] # "free" => conn[c] \in Conns
      BY DEF Typed, TypeOK, SlotsHaveConns
    <2>4. net[c].last_snapshot_sequence \in Nat
      BY SeqsAreNat DEF Typed, TypeOK, NetClientState
    <2>5. StartsFresh(c)'
      <3>1. slot[c] = "connecting" \/ (slot[c] = "connected" /\ ~Late(conn[c])') => NothingYet(net[c])
        BY <2>1, <2>2, <2>3 DEF StartsFresh, Late
      <3>2. ASSUME net[c].has_last_snapshot_sequence
            PROVE  /\ slot[c] \in {"connected", "disconnecting"}
                   /\ Late(conn[c])'
                   /\ conn[c] \in DOMAIN client_states' =>
                        net[c].last_snapshot_sequence
                          < client_states'[conn[c]].next_snapshot_sequence
        <4>1. slot[c] \in {"connected", "disconnecting"} /\ Late(conn[c]) /\ conn[c] \in Conns
          BY <2>1, <2>3, <3>2 DEF StartsFresh
        <4>2. ASSUME conn[c] \in DOMAIN client_states'
              PROVE  net[c].last_snapshot_sequence
                       < client_states'[conn[c]].next_snapshot_sequence
          <5>1. /\ conn[c] \in DOMAIN client_states
                /\ client_states'[conn[c]].next_snapshot_sequence
                     >= client_states[conn[c]].next_snapshot_sequence
            BY <4>1, <4>2
          <5>2. client_states[conn[c]].next_snapshot_sequence \in Nat
                /\ client_states'[conn[c]].next_snapshot_sequence \in Nat
            BY <4>2, <5>1, BoundsAreNat DEF SessionInv, NumberingInBounds
          <5>3. net[c].last_snapshot_sequence < client_states[conn[c]].next_snapshot_sequence
            BY <2>1, <3>2, <5>1 DEF StartsFresh
          <5> QED
            BY <2>4, <5>1, <5>2, <5>3
        <4> QED
          BY <2>2, <4>1, <4>2 DEF Late
      <3> QED
        BY <2>2, <3>1, <3>2, Zenon DEF StartsFresh, Late
    <2>6. KnowsItself(c)'
      <3> SUFFICES ASSUME NEW n \in Conns, Joined(c, n)'
                   PROVE  /\ net[c].assigned_player_id \in {0, client_states'[n].player_id}
                          /\ net[c].has_snapshot =>
                                net[c].latest_snapshot.id = client_states'[n].player_id
                          /\ client_states'[n].player_id \notin DOMAIN net[c].replicated_players
        BY <2>2, Zenon DEF KnowsItself
      <3>1. slot[c] = "connected" /\ conn[c] = n /\ n \in DOMAIN client_states'
        BY <2>2 DEF Joined
      <3>2. CASE ~Late(n)
        <4>1. NothingYet(net[c])
          BY <2>1, <3>1, <3>2 DEF StartsFresh
        <4> QED
          BY <4>1, EmptyDomain DEF NothingYet
      <3>3. CASE Late(n)
        <4>1. n \in DOMAIN client_states
              /\ client_states'[n].player_id = client_states[n].player_id
          BY <3>1, <3>3
        <4>2. Joined(c, n)
          BY <3>1, <4>1 DEF Joined
        <4> QED
          BY <2>1, <4>1, <4>2 DEF KnowsItself
      <3> QED
        BY <3>2, <3>3
    <2> QED
      BY <2>5, <2>6
  <1> QED
    BY <1>1, <1>2, Zenon DEF SessionInv

\* The server starts, stops, loses a player or hears from one.
LEMMA ServerEventsSession ==
    ASSUME Typed, Typed', SessionInv,
           \/ StartServer \/ ShutdownServer \/ SimulateFixedTick
           \/ \E n \in Conns : ServerDisconnect(n) \/ InterestWindowPasses(n)
           \/ \E n \in Conns : \E i \in DOMAIN up[n] :
                 ServerReceiveInput(n, i) \/ ServerReceiveInterest(n, i)
    PROVE  SessionInv'
  <1>1. CASE StartServer \/ ShutdownServer
    <2>1. DOMAIN client_states' = {}
      BY <1>1, EmptyDomain, Zenon DEF StartServer, ShutdownServer
    <2>2. UNCHANGED <<client, down>>
      BY <1>1, Zenon DEF StartServer, ShutdownServer, wires
    <2>3. \A n \in Conns : Late(n) => Late(n)'
      <3>1. CASE StartServer
        BY <3>1 DEF StartServer, Late, wires
      <3>2. CASE ShutdownServer
        BY <3>2 DEF ShutdownServer, Late
      <3> QED
        BY <1>1, <3>1, <3>2
    <2> QED
      BY <2>1, <2>2, <2>3, ServerSideSession DEF NumberingInBounds
  <1>2. ASSUME NEW n \in Conns, ServerDisconnect(n) PROVE SessionInv'
    <2> DEFINE states == WithoutClient(n)
               notice == Farewell(client_states[n].player_id, states)
    <2>1. client_states' = states
      BY <1>2 DEF ServerDisconnect
    <2>2. DOMAIN states = (DOMAIN client_states) \ {n}
          /\ \A k \in DOMAIN states : states[k] = client_states[k]
      BY DEF WithoutClient
    <2>3. UNCHANGED client /\ \A k \in Conns : Late(k) => Late(k)'
      BY <1>2 DEF ServerDisconnect, Late, Typed, TypeOK
    <2>4. client_states[n].player_id \in PlayerIds
      BY <1>2 DEF ServerDisconnect, Typed, TypeOK, PlayersAreOpen, ServerClientState
    <2>5. notice \in Seq(DownMessages)
          /\ \A m \in ToSet(notice) : m.type \in {"SessionInfo", "PlayerRemove"}
      <3>1. Players(states) \in 0..MaxConns
        BY <2>2, PlayersType DEF Typed, TypeOK
      <3>2. notice \in Seq(DownMessages)
        BY <2>4, <3>1 DEF Farewell, DownMessages
      <3>3. \A m \in ToSet(notice) : m.type \in {"SessionInfo", "PlayerRemove"}
        BY DEF Farewell, ToSet, SessionInfo, PlayerRemove
      <3> QED
        BY <3>2, <3>3
    <2> HIDE DEF notice, states
    <2>6. \A k \in Conns : \A m \in ToSet(down'[k]) :
             m \in ToSet(down[k]) \/ (k \in DOMAIN states /\ m \in ToSet(notice))
      <3>1. \A k \in Conns : ToSet(SentReliable(k, notice)) \subseteq ToSet(down[k]) \cup ToSet(notice)
        BY <2>5, SentType DEF Typed
      <3>2. down' = [k \in Conns |-> IF k \in DOMAIN states THEN SentReliable(k, notice) ELSE down[k]]
        BY <1>2 DEF ServerDisconnect, notice, states
      <3> QED
        BY <3>1, <3>2
    <2>7. \A k \in DOMAIN states : Late(k)'
      BY <2>1 DEF Typed, TypeOK, PlayersAreOpen, Late
    <2>8. \A k \in Conns : \A m \in ToSet(down'[k]) :
             m \in ToSet(down[k]) \/ (Late(k)' /\ MeantFor(k, m)')
      BY <2>5, <2>6, <2>7 DEF MeantFor
    <2>9. NumberingInBounds'
      BY <2>1, <2>2 DEF SessionInv, NumberingInBounds
    <2>10. \A k \in DOMAIN client_states' :
              /\ k \in DOMAIN client_states
              /\ client_states'[k].player_id = client_states[k].player_id
              /\ client_states'[k].next_snapshot_sequence
                   >= client_states[k].next_snapshot_sequence
      BY <2>1, <2>2, BoundsAreNat DEF SessionInv, NumberingInBounds
    <2> QED
      BY <2>3, <2>8, <2>9, <2>10, ServerSideSession
  <1>3. ASSUME \/ SimulateFixedTick
               \/ \E n \in Conns : InterestWindowPasses(n)
               \/ \E n \in Conns : \E i \in DOMAIN up[n] :
                     ServerReceiveInput(n, i) \/ ServerReceiveInterest(n, i)
        PROVE  SessionInv'
    <2>1. UNCHANGED <<client, link>>
      BY <1>3 DEF SimulateFixedTick, InterestWindowPasses, ServerReceiveInput,
                  ServerReceiveInterest, wires
    <2> DEFINE SamePlayers ==
                 /\ DOMAIN client_states' = DOMAIN client_states
                 /\ \A k \in DOMAIN client_states :
                       /\ client_states'[k].player_id = client_states[k].player_id
                       /\ client_states'[k].next_snapshot_sequence
                            = client_states[k].next_snapshot_sequence
    <2>2. SamePlayers
      <3>1. \A k \in DOMAIN client_states : client_states[k] \in ServerClientState
        BY DEF Typed, TypeOK
      <3>2. CASE SimulateFixedTick
        BY <3>1, <3>2 DEF SimulateFixedTick, Simulated, ServerClientState
      <3>3. ASSUME NEW n \in Conns, InterestWindowPasses(n)
            PROVE  SamePlayers
        BY <3>1, <3>3 DEF InterestWindowPasses, ServerClientState
      <3>4. ASSUME NEW n \in Conns, NEW i \in DOMAIN up[n], ServerReceiveInput(n, i)
            PROVE  SamePlayers
        BY <3>1, <3>4 DEF ServerReceiveInput, WithInput, ServerClientState
      <3>5. ASSUME NEW n \in Conns, NEW i \in DOMAIN up[n], ServerReceiveInterest(n, i)
            PROVE  SamePlayers
        <4>1. client_states' = client_states
              \/ client_states' = [client_states EXCEPT ![n] = WithInterest(@, up[n][i].body)]
          BY <3>5 DEF ServerReceiveInterest
        <4>2. CASE client_states' = client_states
          BY <4>2
        <4>3. CASE client_states' = [client_states EXCEPT ![n] = WithInterest(@, up[n][i].body)]
          <5>1. client_states[n] \in ServerClientState
            BY <3>1, <3>5 DEF ServerReceiveInterest
          <5>2. LET t == WithInterest(client_states[n], up[n][i].body)
                IN  /\ t.player_id = client_states[n].player_id
                    /\ t.next_snapshot_sequence = client_states[n].next_snapshot_sequence
            BY <5>1 DEF WithInterest, ServerClientState
          <5> QED
            BY <4>3, <5>2
        <4> QED
          BY <4>1, <4>2, <4>3
      <3> QED
        BY <1>3, <3>2, <3>3, <3>4, <3>5
    <2> DEFINE OnlyChunksSent ==
                 \A n \in Conns : \A m \in ToSet(down'[n]) :
                    m \in ToSet(down[n])
                    \/ (n \in DOMAIN client_states /\ m.type = "ChunkState")
    <2>3. OnlyChunksSent
      <3>1. CASE UNCHANGED down
        BY <3>1
      <3>2. ASSUME NEW n \in Conns, NEW i \in DOMAIN up[n], ServerReceiveInterest(n, i),
                   AcceptsInterest(client_states[n], up[n][i].body)
            PROVE  OnlyChunksSent
        <4> DEFINE ms == ChunksFor(client_states[n], up[n][i].body)
        <4>1. ms \in Seq(DownMessages) /\ \A m \in ToSet(ms) : m.type = "ChunkState"
          <5>1. ChunkState(up[n][i].body) \in DownMessages
            BY <3>2 DEF AcceptsInterest, DownMessages
          <5> QED
            BY <5>1 DEF ChunksFor, ToSet, ChunkState
        <4> HIDE DEF ms
        <4>2. ToSet(SentReliable(n, ms)) \subseteq ToSet(down[n]) \cup ToSet(ms)
          BY <4>1, SentType DEF Typed
        <4>3. down' = [down EXCEPT ![n] = SentReliable(n, ms)] /\ n \in DOMAIN client_states
          BY <3>2, Zenon DEF ServerReceiveInterest, ms
        <4> QED
          BY <4>1, <4>2, <4>3 DEF Typed, TypeOK
      <3>3. \/ UNCHANGED down
            \/ \E n \in Conns : \E i \in DOMAIN up[n] :
                  ServerReceiveInterest(n, i) /\ AcceptsInterest(client_states[n], up[n][i].body)
        BY <1>3 DEF SimulateFixedTick, InterestWindowPasses, ServerReceiveInput,
                    ServerReceiveInterest, wires
      <3> QED
        BY <3>1, <3>2, <3>3
    <2>4. \A n \in DOMAIN client_states : Late(n)'
      BY <2>1 DEF Typed, TypeOK, PlayersAreOpen, Late
    <2>5. NumberingInBounds'
      BY <2>2 DEF SessionInv, NumberingInBounds
    <2>6. \A n \in Conns : Late(n) => Late(n)'
      BY <2>1 DEF Late
    <2>7. \A n \in Conns : \A m \in ToSet(down'[n]) :
             m \in ToSet(down[n]) \/ (Late(n)' /\ MeantFor(n, m)')
      BY <2>3, <2>4 DEF MeantFor
    <2>8. \A n \in DOMAIN client_states :
             client_states'[n].next_snapshot_sequence >= client_states[n].next_snapshot_sequence
      BY <2>2, BoundsAreNat DEF SessionInv, NumberingInBounds
    <2> QED
      BY <2>1, <2>2, <2>5, <2>6, <2>7, <2>8, ServerSideSession
  <1> QED
    BY <1>1, <1>2, <1>3

\* The server greets a new player.
LEMMA ServerConnectSession ==
    ASSUME Typed, Typed', SessionInv, NEW n \in Conns, ServerConnect(n)
    PROVE  SessionInv'
  <1> DEFINE id == next_player_id
             states == WithClient(n, NewClientState(id))
             greeting == Greeting(id, states)
             info == <<SessionInfo(Players(states))>>
  <1>1. id \in PlayerIds /\ client_states' = states
    BY DEF ServerConnect
  <1>2. /\ DOMAIN states = (DOMAIN client_states) \cup {n}
        /\ states[n] = NewClientState(id)
        /\ \A k \in DOMAIN states : k # n => states[k] = client_states[k]
    BY DEF WithClient
  <1>3. ~Late(n) /\ Late(n)' /\ UNCHANGED client /\ \A k \in Conns : Late(k) => Late(k)'
    BY DEF ServerConnect, Late, Typed, TypeOK
  <1>4. Wire(1) = 1
    BY CountersFitAssumption, HalfWindowAssumption, BoundsAreNat, WireOfSmall
  <1>5. states[n].player_id = id /\ states[n].next_snapshot_sequence = 1
    BY <1>2, <1>4 DEF NewClientState
  <1>6. NumberingInBounds'
    BY <1>1, <1>2, <1>5, BoundsAreNat DEF SessionInv, NumberingInBounds
  <1>7. Players(states) \in 0..MaxConns
    BY <1>2, PlayersType DEF Typed, TypeOK
  <1>8. /\ greeting \in Seq(DownMessages) /\ info \in Seq(DownMessages)
        /\ ToSet(greeting) = {AssignPlayer(id), SessionInfo(Players(states))}
        /\ ToSet(info) = {SessionInfo(Players(states))}
    BY <1>1, <1>7 DEF Greeting, ToSet, DownMessages
  <1>9. down' = [m \in Conns |->
                  CASE m = n -> SentReliable(m, greeting)
                    [] m \in DOMAIN client_states -> SentReliable(m, info)
                    [] OTHER -> down[m]]
    BY DEF ServerConnect
  <1>10. \A k \in DOMAIN states : Late(k)'
    BY <1>1 DEF Typed, TypeOK, PlayersAreOpen, Late
  <1> HIDE DEF states, greeting, info
  <1>11. \A k \in Conns : \A m \in ToSet(down'[k]) :
            \/ m \in ToSet(down[k])
            \/ k = n /\ m = AssignPlayer(id)
            \/ k \in DOMAIN states /\ m = SessionInfo(Players(states))
    <2>1. \A k \in Conns :
             /\ ToSet(SentReliable(k, greeting)) \subseteq ToSet(down[k]) \cup ToSet(greeting)
             /\ ToSet(SentReliable(k, info)) \subseteq ToSet(down[k]) \cup ToSet(info)
      BY <1>8, SentType DEF Typed
    <2>2. ASSUME NEW k \in Conns
          PROVE  down'[k] \in {SentReliable(k, greeting), SentReliable(k, info), down[k]}
                 /\ (k \notin DOMAIN states => down'[k] = down[k])
                 /\ (k # n => down'[k] # SentReliable(k, greeting) \/ down'[k] = down[k]
                              \/ down'[k] = SentReliable(k, info))
      BY <1>2, <1>9
    <2> QED
      BY <1>2, <1>8, <2>1, <2>2
  <1>12. \A k \in Conns : \A m \in ToSet(down'[k]) :
            m \in ToSet(down[k]) \/ (Late(k)' /\ MeantFor(k, m)')
    BY <1>1, <1>3, <1>5, <1>10, <1>11 DEF MeantFor, AssignPlayer, SessionInfo
  <1>13. \A k \in DOMAIN client_states' :
            \/ ~Late(k)
            \/ /\ k \in DOMAIN client_states
               /\ client_states'[k].player_id = client_states[k].player_id
               /\ client_states'[k].next_snapshot_sequence
                    >= client_states[k].next_snapshot_sequence
    BY <1>1, <1>2, <1>3, BoundsAreNat DEF SessionInv, NumberingInBounds
  <1> QED
    BY <1>3, <1>6, <1>12, <1>13, ServerSideSession

\* The server sends snapshots and player states.
LEMMA ServerStreamsSession ==
    ASSUME Typed, Typed', SessionInv,
           \/ SendSnapshots
           \/ \E near \in SUBSET ObserverSubjectPairs : BroadcastPlayerStates(near)
    PROVE  SessionInv'
  <1>1. \A n \in DOMAIN client_states :
           /\ client_states[n] \in ServerClientState
           /\ Late(n)
           /\ client_states[n].next_snapshot_sequence \in 1..(MaxSnapshots + 1)
    BY DEF Typed, TypeOK, PlayersAreOpen, Late, SessionInv, NumberingInBounds
  <1>2. UNCHANGED <<client, link>>
    BY DEF SendSnapshots, BroadcastPlayerStates
  <1>3. \A n \in Conns : Late(n)' <=> Late(n)
    BY <1>2 DEF Late
  <1>4. CASE SendSnapshots
    <2> DEFINE sent(n) == Snapshot(client_states[n].player_id,
                                   client_states[n].next_snapshot_sequence)
    <2>1. ASSUME NEW n \in DOMAIN client_states
          PROVE  Wire(client_states[n].next_snapshot_sequence + 1)
                   = client_states[n].next_snapshot_sequence + 1
      <3>1. client_states[n].next_snapshot_sequence <= MaxSnapshots
        BY <1>4 DEF SendSnapshots
      <3>2. client_states[n].next_snapshot_sequence + 1 \in 0..(HalfWindow - 1)
        BY <1>1, <3>1, CountersFitAssumption, HalfWindowAssumption, BoundsAreNat
      <3> QED
        BY <3>2, WireOfSmall
    <2>2. /\ DOMAIN client_states' = DOMAIN client_states
          /\ \A n \in DOMAIN client_states :
                /\ client_states'[n].player_id = client_states[n].player_id
                /\ client_states'[n].next_snapshot_sequence
                     = client_states[n].next_snapshot_sequence + 1
                /\ client_states[n].next_snapshot_sequence <= MaxSnapshots
      BY <1>1, <1>4, <2>1 DEF SendSnapshots, ServerClientState
    <2>3. NumberingInBounds'
      BY <1>1, <2>2, BoundsAreNat DEF NumberingInBounds
    <2>4. ASSUME NEW n \in Conns, NEW m \in ToSet(down'[n])
          PROVE  m \in ToSet(down[n]) \/ (n \in DOMAIN client_states /\ m = sent(n))
      <3>1. CASE n \in DOMAIN client_states
        <4>1. sent(n) \in DownMessages
          BY <1>1, <3>1 DEF DownMessages, ServerClientState
        <4>2. <<sent(n)>> \in Seq(DownMessages) /\ ToSet(<<sent(n)>>) = {sent(n)}
          BY <4>1 DEF ToSet
        <4>3. ToSet(SentUnreliable(n, <<sent(n)>>)) \subseteq ToSet(down[n]) \cup {sent(n)}
          BY <4>2, SentType DEF Typed
        <4>4. down'[n] = SentUnreliable(n, <<sent(n)>>)
          BY <1>4, <3>1 DEF SendSnapshots
        <4> QED
          BY <2>4, <3>1, <4>3, <4>4
      <3>2. CASE n \notin DOMAIN client_states
        BY <1>4, <2>4, <3>2 DEF SendSnapshots
      <3> QED
        BY <3>1, <3>2
    <2>5. ASSUME NEW n \in DOMAIN client_states, NEW m, m = sent(n)
          PROVE  MeantFor(n, m)'
      <3>1. m.type = "Snapshot" /\ m.id = client_states[n].player_id
            /\ m.seq = client_states[n].next_snapshot_sequence
        BY <2>5 DEF Snapshot
      <3>2. m.seq < client_states'[n].next_snapshot_sequence
        BY <1>1, <2>2, <3>1, BoundsAreNat
      <3> QED
        BY <2>2, <3>1, <3>2 DEF MeantFor
    <2> HIDE DEF sent
    <2>6. \A n \in Conns : \A m \in ToSet(down'[n]) :
             m \in ToSet(down[n]) \/ (Late(n)' /\ MeantFor(n, m)')
      BY <1>1, <1>3, <2>4, <2>5
    <2>7. \A n \in DOMAIN client_states' :
             /\ n \in DOMAIN client_states
             /\ client_states'[n].player_id = client_states[n].player_id
             /\ client_states'[n].next_snapshot_sequence
                  >= client_states[n].next_snapshot_sequence
      BY <1>1, <2>2, BoundsAreNat
    <2> QED
      BY <1>2, <1>3, <2>3, <2>6, <2>7, ServerSideSession
  <1>5. ASSUME NEW near \in SUBSET ObserverSubjectPairs, BroadcastPlayerStates(near)
        PROVE  SessionInv'
    <2> DEFINE State(k) == PlayerState(client_states[k].player_id,
                                       client_states[k].next_player_state_sequence,
                                       client_states[k].body)
               Seen(o) == {k \in DOMAIN client_states :
                             ShouldReplicate(client_states[o], client_states[k],
                                             <<o, k>> \in near)}
               Shown(o) == {State(k) : k \in Seen(o)}
    <2>1. /\ DOMAIN client_states' = DOMAIN client_states
          /\ \A n \in DOMAIN client_states :
                /\ client_states'[n].player_id = client_states[n].player_id
                /\ client_states'[n].next_snapshot_sequence
                     = client_states[n].next_snapshot_sequence
      BY <1>1, <1>5 DEF BroadcastPlayerStates, ServerClientState
    <2>2. NumberingInBounds'
      BY <1>1, <2>1 DEF NumberingInBounds
    <2>3. down' = [o \in Conns |-> IF o \in DOMAIN client_states
                                   THEN SentUnreliable(o, SetToSeq(Shown(o))) ELSE down[o]]
      BY <1>5, Zenon DEF BroadcastPlayerStates
    <2>4. ASSUME NEW o \in DOMAIN client_states, NEW m \in Shown(o)
          PROVE  m.type = "PlayerState" /\ m.id # client_states[o].player_id
      <3>1. PICK k \in Seen(o) : m = State(k)
        OBVIOUS
      <3>2. client_states[k].player_id # client_states[o].player_id
        BY DEF ShouldReplicate
      <3>3. m.type = "PlayerState" /\ m.id = client_states[k].player_id
        BY <3>1 DEF PlayerState
      <3> QED
        BY <3>2, <3>3
    <2>5. ASSUME NEW o \in DOMAIN client_states
          PROVE  /\ SetToSeq(Shown(o)) \in Seq(DownMessages)
                 /\ ToSet(SetToSeq(Shown(o))) \subseteq Shown(o)
      BY ShownToSeq
    <2> HIDE DEF Shown
    <2>6. ASSUME NEW n \in Conns, NEW m \in ToSet(down'[n])
          PROVE  m \in ToSet(down[n]) \/ (n \in DOMAIN client_states /\ m \in Shown(n))
      <3>1. CASE n \in DOMAIN client_states
        <4>1. ToSet(SentUnreliable(n, SetToSeq(Shown(n))))
                \subseteq ToSet(down[n]) \cup ToSet(SetToSeq(Shown(n)))
          BY <2>5, <3>1, SentType DEF Typed
        <4>2. down'[n] = SentUnreliable(n, SetToSeq(Shown(n)))
          BY <2>3, <3>1
        <4> QED
          BY <2>5, <2>6, <3>1, <4>1, <4>2
      <3>2. CASE n \notin DOMAIN client_states
        BY <2>3, <2>6, <3>2
      <3> QED
        BY <3>1, <3>2
    <2>7. ASSUME NEW n \in DOMAIN client_states, NEW m \in Shown(n)
          PROVE  MeantFor(n, m)'
      BY <2>1, <2>4 DEF MeantFor
    <2>8. \A n \in Conns : \A m \in ToSet(down'[n]) :
             m \in ToSet(down[n]) \/ (Late(n)' /\ MeantFor(n, m)')
      BY <1>1, <1>3, <2>6, <2>7
    <2>9. \A n \in DOMAIN client_states' :
             /\ n \in DOMAIN client_states
             /\ client_states'[n].player_id = client_states[n].player_id
             /\ client_states'[n].next_snapshot_sequence
                  >= client_states[n].next_snapshot_sequence
      BY <1>1, <2>1, BoundsAreNat
    <2> QED
      BY <1>2, <1>3, <2>2, <2>8, <2>9, ServerSideSession
  <1> QED
    BY <1>4, <1>5

\* Any step of the server
LEMMA ServerStepSession ==
    ASSUME Typed, Typed', SessionInv, ServerStep PROVE SessionInv'
  BY ServerEventsSession, ServerConnectSession, ServerStreamsSession DEF ServerStep

\* Losses and timeouts
LEMMA NetworkStepSession ==
    ASSUME Typed, Typed', SessionInv, NetworkStep PROVE SessionInv'
  <1>1. UNCHANGED <<client, client_states>>
    BY DEF NetworkStep, LoseDown, LoseUp, HandshakeTimeout, server
  <1>2. \A n \in Conns : Late(n) => Late(n)'
    BY DEF NetworkStep, LoseDown, LoseUp, HandshakeTimeout, Late, Typed, TypeOK
  <1>3. \A n \in Conns : \A m \in ToSet(down'[n]) : m \in ToSet(down[n])
    <2>1. ASSUME NEW k \in Conns, NEW i \in DOMAIN down[k], LoseDown(k, i)
          PROVE  \A n \in Conns : \A m \in ToSet(down'[n]) : m \in ToSet(down[n])
      <3>1. ToSet(RemoveAt(down[k], i)) \subseteq ToSet(down[k])
        BY RemoveAtElements DEF Typed, TypeOK
      <3> QED
        BY <2>1, <3>1 DEF LoseDown, Typed, TypeOK
    <2>2. (\E n \in Conns : HandshakeTimeout(n) \/ \E i \in DOMAIN up[n] : LoseUp(n, i))
          => UNCHANGED down
      BY DEF HandshakeTimeout, LoseUp
    <2> QED
      BY <2>1, <2>2 DEF NetworkStep
  <1>4. NumberingInBounds'
    BY <1>1 DEF SessionInv, NumberingInBounds
  <1>5. \A n \in DOMAIN client_states' :
           /\ n \in DOMAIN client_states
           /\ client_states'[n].player_id = client_states[n].player_id
           /\ client_states'[n].next_snapshot_sequence
                >= client_states[n].next_snapshot_sequence
    BY <1>1, BoundsAreNat DEF SessionInv, NumberingInBounds
  <1> QED
    BY <1>1, <1>2, <1>3, <1>4, <1>5, ServerSideSession

\* Steps of client c: the server's players stay, queues only shrink, and the
\* other clients are not concerned.
LEMMA ClientSideSession ==
    ASSUME Typed, Typed', SessionInv, NEW c \in Clients, UNCHANGED client_states,
           \A n \in Conns : Late(n) => Late(n)',
           \A n \in Conns : \A m \in ToSet(down'[n]) : m \in ToSet(down[n]),
           \A d \in Clients \ {c} :
              net'[d] = net[d] /\ slot'[d] = slot[d] /\ conn'[d] = conn[d],
           StartsFresh(c)', KnowsItself(c)'
    PROVE  SessionInv'
  <1>1. NumberingInBounds'
    BY DEF SessionInv, NumberingInBounds
  <1>2. QueuesAreOfThePlayer'
    <2> SUFFICES ASSUME NEW n \in Conns, NEW m \in ToSet(down'[n])
                 PROVE  Late(n)' /\ (n \in DOMAIN client_states' => MeantFor(n, m)')
      BY DEF QueuesAreOfThePlayer
    <2>1. Late(n) /\ (n \in DOMAIN client_states => MeantFor(n, m))
      BY DEF SessionInv, QueuesAreOfThePlayer
    <2> QED
      BY <2>1 DEF MeantFor
  <1>3. ASSUME NEW d \in Clients, d # c
        PROVE  StartsFresh(d)' /\ KnowsItself(d)'
    <2>1. StartsFresh(d) /\ KnowsItself(d)
      BY DEF SessionInv
    <2>2. net'[d] = net[d] /\ slot'[d] = slot[d] /\ conn'[d] = conn[d]
      BY <1>3
    <2>3. slot[d] # "free" => conn[d] \in Conns
      BY DEF Typed, TypeOK, SlotsHaveConns
    <2>4. slot[d] # "free" => (Late(conn[d]) => Late(conn[d])')
      BY <2>2, <2>3 DEF Late
    <2>5. StartsFresh(d)'
      BY <2>1, <2>2, <2>4 DEF StartsFresh
    <2>6. KnowsItself(d)'
      BY <2>1, <2>2 DEF KnowsItself, Joined
    <2> QED
      BY <2>5, <2>6
  <1> QED
    BY <1>1, <1>2, <1>3, Zenon DEF SessionInv

\* disconnect() clears everything but the snapshot baseline, which the DISCONNECT
\* event clears as well.
LEMMA ClearedFields ==
    ASSUME NEW nc \in NetClientState
    PROVE  /\ NothingYet(Disconnected(nc))
           /\ Disconnected(nc).has_last_snapshot_sequence = nc.has_last_snapshot_sequence
           /\ Disconnected(nc).last_snapshot_sequence = nc.last_snapshot_sequence
           /\ ~DisconnectedByEvent(nc).has_last_snapshot_sequence
  <1>1. Disconnected(nc).has_last_snapshot_sequence = nc.has_last_snapshot_sequence
    BY Zenon DEF Disconnected, SessionCleared, NetClientState
  <1>2. Disconnected(nc).last_snapshot_sequence = nc.last_snapshot_sequence
    BY Zenon DEF Disconnected, SessionCleared, NetClientState
  <1>3. ~DisconnectedByEvent(nc).has_last_snapshot_sequence
    BY Zenon DEF DisconnectedByEvent, SessionCleared, NetClientState
  <1>4. Disconnected(nc).assigned_player_id = 0 /\ Disconnected(nc).replicated_players = <<>>
    BY DEF Disconnected, SessionCleared, NetClientState
  <1>5. ~Disconnected(nc).has_snapshot
    BY Zenon DEF Disconnected, SessionCleared, NetClientState
  <1> QED
    BY <1>1, <1>2, <1>3, <1>4, <1>5, Zenon DEF NothingYet

\* Dropping a connection empties its queue and cannot undo that the server had a
\* player for it.
LEMMA AbandonedQueues ==
    ASSUME Typed, NEW c \in Clients, Abandoned(c)
    PROVE  /\ \A n \in Conns : Late(n) => Late(n)'
           /\ \A n \in Conns : \A m \in ToSet(down'[n]) : m \in ToSet(down[n])
  <1>1. ToSet(<<>>) = {}
    BY DEF ToSet
  <1> QED
    BY <1>1 DEF Abandoned, Late, Typed, TypeOK

\* A client that opens, fails to open or leaves a connection
LEMMA ClientConnectionSession ==
    ASSUME Typed, Typed', SessionInv, NEW c \in Clients,
           \/ \E n \in Conns : Connect(c, n)
           \/ ConnectRefused(c)
           \/ Disconnect(c)
           \/ ClientDisconnect(c)
    PROVE  SessionInv'
  <1>1. net[c] \in NetClientState /\ conn[c] \in {NoConn} \cup Conns
    BY DEF Typed, TypeOK
  <1>2. StartsFresh(c)
    BY DEF SessionInv
  <1>3. ASSUME NEW n \in Conns, Connect(c, n) PROVE SessionInv'
    <2> DEFINE fresh == [Disconnected(net[c]) EXCEPT !.state = "Connecting",
                            !.pending_interest = active_body_index[c]]
    <2>1. slot[c] \in {"free", "connecting"}
      BY <1>3 DEF Connect, SlotAfterDisconnect, Typed, TypeOK
    <2>2. ~net[c].has_last_snapshot_sequence
      BY <1>2, <2>1 DEF StartsFresh
    <2>3. Disconnected(net[c]) \in NetClientState
      BY <1>1, ClearedClientTypes
    <2>4. fresh.has_last_snapshot_sequence = net[c].has_last_snapshot_sequence
          /\ fresh.has_snapshot = Disconnected(net[c]).has_snapshot
      BY <1>1, <2>3, ClearedFields, Zenon DEF NetClientState
    <2>5. fresh.assigned_player_id = 0 /\ fresh.replicated_players = <<>>
      BY <1>1, <2>3, ClearedFields DEF NetClientState, NothingYet
    <2>6. NothingYet(fresh)
      BY <1>1, <2>4, <2>5, ClearedFields, Zenon DEF NothingYet
    <2>7. net' = [net EXCEPT ![c] = fresh] /\ slot' = [slot EXCEPT ![c] = "connecting"]
          /\ conn' = [conn EXCEPT ![c] = n] /\ UNCHANGED client_states
      BY <1>3 DEF Connect, server
    <2> HIDE DEF fresh
    <2>8. net'[c] = fresh /\ slot'[c] = "connecting" /\ conn'[c] = n
          /\ \A d \in Clients \ {c} : net'[d] = net[d] /\ slot'[d] = slot[d] /\ conn'[d] = conn[d]
      BY <2>7 DEF Typed, TypeOK
    <2>9. StartsFresh(c)' /\ KnowsItself(c)'
      BY <2>2, <2>4, <2>6, <2>8 DEF StartsFresh, KnowsItself, Joined
    <2>10. \A k \in Conns : Late(k) => Late(k)'
      BY <1>3 DEF Connect, FirstUnused, Late, Typed, TypeOK
    <2>11. \A k \in Conns : \A m \in ToSet(down'[k]) : m \in ToSet(down[k])
      <3>1. ToSet(<<>>) = {}
        BY DEF ToSet
      <3> QED
        BY <1>3, <3>1 DEF Connect, Typed, TypeOK
    <2> QED
      BY <2>7, <2>8, <2>9, <2>10, <2>11, ClientSideSession
  <1>4. CASE ConnectRefused(c) \/ Disconnect(c)
    <2>1. net'[c] = Disconnected(net[c]) /\ slot'[c] = SlotAfterDisconnect(slot[c])
          /\ \A d \in Clients \ {c} : net'[d] = net[d] /\ slot'[d] = slot[d] /\ conn'[d] = conn[d]
      BY <1>4 DEF ConnectRefused, Disconnect, Typed, TypeOK
    <2>2. slot'[c] \in {"free", "disconnecting"}
          /\ (slot'[c] = "disconnecting" => conn'[c] = conn[c])
          /\ (slot'[c] = "free" => slot[c] \in {"free", "connecting"})
      <3>1. CASE ConnectRefused(c)
        BY <2>1, <3>1 DEF ConnectRefused, SlotAfterDisconnect
      <3>2. CASE Disconnect(c)
        BY <2>1, <3>2 DEF Disconnect, SlotAfterDisconnect, Typed, TypeOK
      <3> QED
        BY <1>4, <3>1, <3>2
    <2>3. UNCHANGED client_states /\ Abandoned(c)
      BY <1>4 DEF ConnectRefused, Disconnect, server
    <2>4. slot'[c] = "disconnecting" => (Late(conn[c]) => Late(conn[c])')
      BY <1>1, <2>2, <2>3, AbandonedQueues DEF Typed, TypeOK, SlotsHaveConns, NoConn, Late, Abandoned
    <2>5. StartsFresh(c)'
      BY <1>1, <1>2, <2>1, <2>2, <2>3, <2>4, ClearedFields DEF StartsFresh
    <2>6. KnowsItself(c)'
      BY <2>2 DEF KnowsItself, Joined
    <2> QED
      BY <2>1, <2>3, <2>5, <2>6, AbandonedQueues, ClientSideSession
  <1>5. CASE ClientDisconnect(c)
    <2>1. net'[c] = DisconnectedByEvent(net[c]) /\ slot'[c] = "free"
          /\ \A d \in Clients \ {c} : net'[d] = net[d] /\ slot'[d] = slot[d] /\ conn'[d] = conn[d]
      BY <1>5 DEF ClientDisconnect, Typed, TypeOK
    <2>2. UNCHANGED client_states /\ Abandoned(c)
      BY <1>5 DEF ClientDisconnect, server
    <2>3. StartsFresh(c)' /\ KnowsItself(c)'
      BY <1>1, <2>1, ClearedFields DEF StartsFresh, KnowsItself, Joined
    <2> QED
      BY <2>1, <2>2, <2>3, AbandonedQueues, ClientSideSession
  <1> QED
    BY <1>3, <1>4, <1>5

\* A client whose connection comes up
LEMMA ClientConnectSession ==
    ASSUME Typed, Typed', SessionInv, NEW c \in Clients, ClientConnect(c)
    PROVE  SessionInv'
  <1> DEFINE n == conn[c]
             up2 == [net[c] EXCEPT !.state = "Connected", !.pending_interest = NoBody]
  <1>1. net[c] \in NetClientState /\ n \in Conns /\ StartsFresh(c) /\ slot[c] = "connecting"
    BY DEF Typed, TypeOK, SlotsHaveConns, SessionInv, ClientConnect
  <1>2. NothingYet(net[c]) /\ ~net[c].has_last_snapshot_sequence
    BY <1>1 DEF StartsFresh
  <1>3. up2.has_snapshot = net[c].has_snapshot
        /\ up2.has_last_snapshot_sequence = net[c].has_last_snapshot_sequence
    BY <1>1, Zenon DEF NetClientState
  <1>4. up2.assigned_player_id = net[c].assigned_player_id
        /\ up2.replicated_players = net[c].replicated_players
    BY <1>1 DEF NetClientState
  <1>5. NothingYet(up2)
    BY <1>2, <1>3, <1>4, Zenon DEF NothingYet
  <1>6. net' = [net EXCEPT ![c] = up2]
    BY DEF ClientConnect
  <1>7. slot' = [slot EXCEPT ![c] = "connected"] /\ UNCHANGED <<conn, client_states, down>>
        /\ link' = [link EXCEPT ![n] = "established"] /\ link[n] = "connecting"
    BY DEF ClientConnect, server
  <1> HIDE DEF up2
  <1>8. net'[c] = up2 /\ slot'[c] = "connected" /\ conn'[c] = n
        /\ \A d \in Clients \ {c} : net'[d] = net[d] /\ slot'[d] = slot[d] /\ conn'[d] = conn[d]
    BY <1>6, <1>7 DEF Typed, TypeOK
  <1>9. n \notin DOMAIN client_states
    BY <1>1, <1>7 DEF Typed, PlayersAreOpen
  <1>10. StartsFresh(c)' /\ KnowsItself(c)'
    BY <1>2, <1>3, <1>5, <1>7, <1>8, <1>9 DEF StartsFresh, KnowsItself, Joined
  <1>11. \A k \in Conns : Late(k) => Late(k)'
    BY <1>7 DEF Late, Typed, TypeOK
  <1> QED
    BY <1>7, <1>8, <1>10, <1>11, ClientSideSession

\* What a message meant for the player of connection n does to what its client
\* believes about itself.
LEMMA ReceivedFields ==
    ASSUME NEW nc \in NetClientState, NEW m \in DownMessages, NEW id \in PlayerIds,
           nc.assigned_player_id \in {0, id},
           nc.has_snapshot => nc.latest_snapshot.id = id,
           id \notin DOMAIN nc.replicated_players,
           m.type \in {"AssignPlayer", "Snapshot"} => m.id = id,
           m.type = "PlayerState" => m.id # id
    PROVE  LET r == Received(nc, m)
           IN  /\ r.assigned_player_id \in {0, id}
               /\ r.has_snapshot => r.latest_snapshot.id = id
               /\ id \notin DOMAIN r.replicated_players
  <1> DEFINE r == Received(nc, m)
  <1> DEFINE Goal == /\ r.assigned_player_id \in {0, id}
                     /\ r.has_snapshot => r.latest_snapshot.id = id
                     /\ id \notin DOMAIN r.replicated_players
  <1>1. CASE m.type = "Snapshot"
    <2>1. r = TakesSnapshot(nc, m)
      BY <1>1 DEF Received
    <2>2. r.assigned_player_id = nc.assigned_player_id
          /\ r.replicated_players = nc.replicated_players
          /\ (r.latest_snapshot.id = id \/ r = nc)
      BY <1>1, <2>1 DEF TakesSnapshot, NetClientState
    <2> QED
      BY <2>2
  <1>2. CASE m.type = "PlayerState"
    <2>1. r = TakesPlayerState(nc, m)
      BY <1>2 DEF Received
    <2>2. r.assigned_player_id = nc.assigned_player_id /\ r.latest_snapshot = nc.latest_snapshot
          /\ DOMAIN r.replicated_players \subseteq DOMAIN nc.replicated_players \cup {m.id}
      BY <2>1 DEF TakesPlayerState, NetClientState
    <2>3. r.has_snapshot = nc.has_snapshot
      BY <2>1, Zenon DEF TakesPlayerState, NetClientState
    <2> QED
      BY <1>2, <2>2, <2>3
  <1>3. CASE m.type = "PlayerRemove"
    <2>1. r = TakesPlayerRemove(nc, m)
      BY <1>3 DEF Received
    <2>2. r.assigned_player_id = nc.assigned_player_id /\ r.latest_snapshot = nc.latest_snapshot
          /\ DOMAIN r.replicated_players \subseteq DOMAIN nc.replicated_players
      BY <2>1 DEF TakesPlayerRemove, NetClientState
    <2>3. r.has_snapshot = nc.has_snapshot
      BY <2>1, Zenon DEF TakesPlayerRemove, NetClientState
    <2> QED
      BY <2>2, <2>3
  <1>4. CASE m.type = "AssignPlayer"
    <2>1. r = [nc EXCEPT !.assigned_player_id = m.id]
      BY <1>4 DEF Received
    <2>2. r.assigned_player_id = id /\ r.latest_snapshot = nc.latest_snapshot
          /\ r.replicated_players = nc.replicated_players
      BY <1>4, <2>1 DEF NetClientState
    <2>3. r.has_snapshot = nc.has_snapshot
      BY <2>1, Zenon DEF NetClientState
    <2> QED
      BY <2>2, <2>3
  <1>5. CASE m.type = "SessionInfo"
    <2>1. r = [nc EXCEPT !.session_players = m.players]
      BY <1>5 DEF Received
    <2>2. r.assigned_player_id = nc.assigned_player_id /\ r.latest_snapshot = nc.latest_snapshot
          /\ r.replicated_players = nc.replicated_players
      BY <2>1 DEF NetClientState
    <2>3. r.has_snapshot = nc.has_snapshot
      BY <2>1, Zenon DEF NetClientState
    <2> QED
      BY <2>2, <2>3
  <1>6. CASE m.type = "ChunkState"
    <2> DEFINE chunks == Append(nc.chunk_updates, m.body)
    <2>1. r = [nc EXCEPT !.chunk_updates = chunks]
      BY <1>6 DEF Received
    <2> HIDE DEF chunks
    <2>2. r.assigned_player_id = nc.assigned_player_id /\ r.latest_snapshot = nc.latest_snapshot
          /\ r.replicated_players = nc.replicated_players
      BY <2>1 DEF NetClientState
    <2>3. r.has_snapshot = nc.has_snapshot
      BY <2>1, Zenon DEF NetClientState
    <2> QED
      BY <2>2, <2>3
  <1> QED
    BY <1>1, <1>2, <1>3, <1>4, <1>5, <1>6, DownMessageFields

\* A message changes the snapshot baseline only when it is a snapshot.
LEMMA ReceivedBaseline ==
    ASSUME NEW nc \in NetClientState, NEW m \in DownMessages
    PROVE  LET r == Received(nc, m)
           IN  \/ /\ r.has_last_snapshot_sequence = nc.has_last_snapshot_sequence
                  /\ r.last_snapshot_sequence = nc.last_snapshot_sequence
               \/ m.type = "Snapshot" /\ r.last_snapshot_sequence = m.seq
  <1> DEFINE r == Received(nc, m)
             chunks == Append(nc.chunk_updates, m.body)
  <1>1. CASE m.type = "Snapshot"
    <2>1. r = TakesSnapshot(nc, m)
      BY <1>1 DEF Received
    <2>2. r = nc \/ r.last_snapshot_sequence = m.seq
      BY <2>1 DEF TakesSnapshot, NetClientState
    <2> QED
      BY <1>1, <2>2
  <1>2. CASE m.type # "Snapshot"
    <2>1. \/ r = TakesPlayerState(nc, m)
          \/ r = TakesPlayerRemove(nc, m)
          \/ r = [nc EXCEPT !.assigned_player_id = m.id]
          \/ r = [nc EXCEPT !.session_players = m.players]
          \/ r = [nc EXCEPT !.chunk_updates = chunks]
      BY <1>2, DownMessageFields DEF Received
    <2> HIDE DEF chunks, r
    <2>2. r.has_last_snapshot_sequence = nc.has_last_snapshot_sequence
      BY <2>1, Zenon DEF TakesPlayerState, TakesPlayerRemove, NetClientState
    <2>3. r.last_snapshot_sequence = nc.last_snapshot_sequence
      BY <2>1, Zenon DEF TakesPlayerState, TakesPlayerRemove, NetClientState
    <2> QED
      BY <2>2, <2>3 DEF r
  <1> QED
    BY <1>1, <1>2

\* A client that receives or consumes what it received
LEMMA ClientReceiveSession ==
    ASSUME Typed, Typed', SessionInv, NEW c \in Clients,
           \/ conn[c] # NoConn /\ \E i \in DOMAIN down[conn[c]] : ClientReceive(c, i)
           \/ PollSnapshot(c)
           \/ PollChunkState(c)
    PROVE  SessionInv'
  <1> DEFINE n == conn[c]
  <1>1. net[c] \in NetClientState /\ StartsFresh(c) /\ KnowsItself(c)
    BY DEF Typed, TypeOK, SessionInv
  <1>2. ASSUME n # NoConn, NEW i \in DOMAIN down[n], ClientReceive(c, i)
        PROVE  SessionInv'
    <2> DEFINE m == down[n][i]
               r == Received(net[c], m)
    <2>1. n \in Conns /\ down[n] \in Seq(DownMessages) /\ slot[c] = "connected"
      BY <1>2 DEF Typed, TypeOK, ClientReceive
    <2>2. m \in DownMessages /\ m \in ToSet(down[n])
      BY <2>1, LenProperties, ElementOfSeq DEF ToSet
    <2>3. Late(n) /\ (n \in DOMAIN client_states => MeantFor(n, m))
      BY <2>1, <2>2 DEF SessionInv, QueuesAreOfThePlayer
    <2>4. net' = [net EXCEPT ![c] = r] /\ down' = [down EXCEPT ![n] = RemoveAt(@, i)]
          /\ UNCHANGED <<client_states, link, slot, conn>>
      BY <1>2 DEF ClientReceive, server
    <2>5. net'[c] = r
          /\ \A d \in Clients \ {c} : net'[d] = net[d] /\ slot'[d] = slot[d] /\ conn'[d] = conn[d]
      BY <2>4 DEF Typed, TypeOK
    <2>6. \A k \in Conns : \A x \in ToSet(down'[k]) : x \in ToSet(down[k])
      BY <2>1, <2>4, RemoveAtElements DEF Typed, TypeOK
    <2>7. KnowsItself(c)'
      <3> SUFFICES ASSUME n \in DOMAIN client_states
                   PROVE  /\ r.assigned_player_id \in {0, client_states[n].player_id}
                          /\ r.has_snapshot => r.latest_snapshot.id = client_states[n].player_id
                          /\ client_states[n].player_id \notin DOMAIN r.replicated_players
        BY <2>4, <2>5 DEF KnowsItself, Joined
      <3> DEFINE id == client_states[n].player_id
      <3>1. id \in PlayerIds
        BY DEF Typed, TypeOK, ServerClientState
      <3>2. /\ net[c].assigned_player_id \in {0, id}
            /\ net[c].has_snapshot => net[c].latest_snapshot.id = id
            /\ id \notin DOMAIN net[c].replicated_players
        BY <1>1, <2>1 DEF KnowsItself, Joined
      <3>3. /\ m.type \in {"AssignPlayer", "Snapshot"} => m.id = id
            /\ m.type = "PlayerState" => m.id # id
        BY <2>3 DEF MeantFor
      <3> HIDE DEF id, m, r
      <3>4. LET q == Received(net[c], m)
            IN  /\ q.assigned_player_id \in {0, id}
                /\ q.has_snapshot => q.latest_snapshot.id = id
                /\ id \notin DOMAIN q.replicated_players
        BY <1>1, <2>2, <3>1, <3>2, <3>3, ReceivedFields
      <3> QED
        BY <3>4 DEF r, id
    <2>8. StartsFresh(c)'
      <3>1. CASE r.has_last_snapshot_sequence = net[c].has_last_snapshot_sequence
                 /\ r.last_snapshot_sequence = net[c].last_snapshot_sequence
        BY <1>1, <2>1, <2>3, <2>4, <2>5, <3>1 DEF StartsFresh, Late
      <3>2. CASE m.type = "Snapshot" /\ r.last_snapshot_sequence = m.seq
        BY <2>1, <2>3, <2>4, <2>5, <3>2 DEF StartsFresh, Late, MeantFor
      <3> QED
        BY <1>1, <2>2, <3>1, <3>2, ReceivedBaseline
    <2>9. \A k \in Conns : Late(k) => Late(k)'
      BY <2>4 DEF Late
    <2> QED
      BY <2>4, <2>5, <2>6, <2>7, <2>8, <2>9, ClientSideSession
  <1>3. CASE PollSnapshot(c) \/ PollChunkState(c)
    <2> DEFINE rest == Front(net[c].chunk_updates)
               seen == [net[c] EXCEPT !.has_snapshot = FALSE]
               less == [net[c] EXCEPT !.chunk_updates = rest]
    <2>1. UNCHANGED <<client_states, link, down, slot, conn>>
      BY <1>3 DEF PollSnapshot, PollChunkState, server, wires
    <2>2. net' = [net EXCEPT ![c] = seen] \/ net' = [net EXCEPT ![c] = less]
      BY <1>3 DEF PollSnapshot, PollChunkState
    <2> HIDE DEF rest
    <2>3. seen.has_last_snapshot_sequence = net[c].has_last_snapshot_sequence
          /\ less.has_last_snapshot_sequence = net[c].has_last_snapshot_sequence
          /\ less.has_snapshot = net[c].has_snapshot /\ ~seen.has_snapshot
      BY <1>1, Zenon DEF NetClientState
    <2>4. seen.last_snapshot_sequence = net[c].last_snapshot_sequence
          /\ less.last_snapshot_sequence = net[c].last_snapshot_sequence
          /\ seen.assigned_player_id = net[c].assigned_player_id
          /\ less.assigned_player_id = net[c].assigned_player_id
      BY <1>1 DEF NetClientState
    <2>5. seen.replicated_players = net[c].replicated_players
          /\ less.replicated_players = net[c].replicated_players
          /\ less.latest_snapshot = net[c].latest_snapshot
      BY <1>1 DEF NetClientState
    <2> HIDE DEF seen, less
    <2>6. net'[c] \in {seen, less} /\ \A d \in Clients \ {c} : net'[d] = net[d]
      BY <2>2 DEF Typed, TypeOK
    <2>7. StartsFresh(c)'
      <3>1. NothingYet(net[c]) => NothingYet(seen) /\ NothingYet(less)
        BY <2>3, <2>4, <2>5 DEF NothingYet
      <3> QED
        BY <1>1, <2>1, <2>3, <2>4, <2>6, <3>1 DEF StartsFresh, Late, NothingYet
    <2>8. KnowsItself(c)'
      BY <1>1, <2>1, <2>3, <2>4, <2>5, <2>6 DEF KnowsItself, Joined
    <2>9. \A k \in Conns : Late(k) => Late(k)'
      BY <2>1 DEF Late
    <2> QED
      BY <2>1, <2>6, <2>7, <2>8, <2>9, ClientSideSession
  <1> QED
    BY <1>2, <1>3

\* A client that sends changes nothing it holds.
LEMMA ClientSendSession ==
    ASSUME Typed, Typed', SessionInv, NEW c \in Clients,
           \/ \E press \in BOOLEAN : SendInput(c, press)
           \/ \E b \in Bodies : SwitchActivePlanet(c, b)
    PROVE  SessionInv'
  <1>1. UNCHANGED <<client_states, link, down, slot, conn, net>>
    BY DEF SendInput, SwitchActivePlanet, server, client
  <1>2. StartsFresh(c)' /\ KnowsItself(c)'
    BY <1>1 DEF SessionInv, StartsFresh, KnowsItself, Joined, Late
  <1>3. \A k \in Conns : Late(k) => Late(k)'
    BY <1>1 DEF Late
  <1> QED
    BY <1>1, <1>2, <1>3, ClientSideSession

\* Every step keeps the session invariant.
LEMMA StepSession == Typed /\ Typed' /\ SessionInv /\ [Next]_vars => SessionInv'
  <1>1. ASSUME Typed, Typed', SessionInv, NEW c \in Clients, ClientStep(c) PROVE SessionInv'
    BY <1>1, ClientConnectionSession, ClientConnectSession, ClientReceiveSession,
       ClientSendSession DEF ClientStep
  <1>2. ASSUME SessionInv, UNCHANGED vars PROVE SessionInv'
    BY <1>2 DEF SessionInv, NumberingInBounds, QueuesAreOfThePlayer, MeantFor, Late,
       StartsFresh, KnowsItself, Joined, vars, server, wires, client
  <1> QED
    BY <1>1, <1>2, ServerStepSession, NetworkStepSession DEF Next

\* Between steps, what a client holds is of the session it is in.
LEMMA SessionInvHolds == Spec => []SessionInv
  BY InitSession, StepSession, TypeCorrect, PTL DEF Spec

\* A client never refuses the snapshots of the session it is in because of one
\* it left.
THEOREM SnapshotBaselineHolds == Spec => []SnapshotBaselineIsCurrent
  BY BaselineFromSession, SessionInvHolds, TypeCorrect, PTL

\* Nothing a client believes about itself outlives its session.
THEOREM IdentityHolds == Spec => []IdentityIsOfThisSession
  <1>1. SessionInv => IdentityIsOfThisSession
    BY DEF SessionInv, KnowsItself, IdentityIsOfThisSession
  <1> QED
    BY <1>1, SessionInvHolds, PTL

\* Neither the baseline nor the identity of a session outlives it, for any number of
\* clients, connections and lives of the server.
THEOREM SessionStateStaysCurrent == Spec => []SessionStateIsCurrent
  <1>1. SnapshotBaselineIsCurrent /\ IdentityIsOfThisSession => SessionStateIsCurrent
    BY DEF SessionStateIsCurrent
  <1> QED
    BY <1>1, SnapshotBaselineHolds, IdentityHolds, PTL

-----------------------------------------------------------------------------
(* Inputs *)

\* A press that no tick has seen yet still has its jump to come.
JumpsCovered(s) == s.jumps + (IF s.press THEN 1 ELSE 0) <= s.presses

\* The update t of a player state s takes no input.
NoInputTaken(s, t) ==
    /\ t.tick = s.tick /\ t.body = s.body /\ t.presses = s.presses
    /\ JumpsCovered(s) => JumpsCovered(t)

\* The update t of a player state s takes one.
InputTaken(s, t) ==
    /\ s.has_last_input_tick => Newer(t.tick, s.tick)
    /\ JumpsCovered(s) => JumpsCovered(t)

\* What does not concern inputs leaves them alone, and a tick uses up the press.
LEMMA InputUpdates ==
    ASSUME NEW s \in ServerClientState
    PROVE  /\ NoInputTaken(s, s)
           /\ NoInputTaken(s, Simulated(s))
           /\ NoInputTaken(s, [s EXCEPT !.next_snapshot_sequence = Wire(@ + 1)])
           /\ NoInputTaken(s, [s EXCEPT !.next_player_state_sequence = Wire(@ + 1)])
           /\ NoInputTaken(s, [s EXCEPT !.recent_interest = FALSE])
           /\ \A b \in SupportedBodies : NoInputTaken(s, WithInterest(s, b))
           /\ \A m : AcceptsInput(s, m) => InputTaken(s, WithInput(s, m))
  <1> DEFINE one(p) == IF p THEN 1 ELSE 0
  <1>1. s.jumps \in Nat /\ s.presses \in Nat
    BY DEF ServerClientState
  <1>2. \A t \in ServerClientState :
           t.tick = s.tick /\ t.body = s.body /\ t.presses = s.presses
           /\ t.jumps = s.jumps /\ t.press = s.press => NoInputTaken(s, t)
    BY Zenon DEF NoInputTaken, JumpsCovered
  <1>3. NoInputTaken(s, s)
    BY <1>2
  <1>4. NoInputTaken(s, Simulated(s))
    <2> DEFINE t == Simulated(s)
    <2>1. t.jumps = s.jumps + one(s.press)
      BY Zenon DEF Simulated, ServerClientState
    <2>2. ~t.press
      BY Zenon DEF Simulated, ServerClientState
    <2>3. t.tick = s.tick /\ t.body = s.body /\ t.presses = s.presses
      BY DEF Simulated, ServerClientState
    <2> HIDE DEF t
    <2>4. JumpsCovered(t) <=> t.jumps + 0 <= t.presses
      BY <2>2, Zenon DEF JumpsCovered
    <2>5. JumpsCovered(s) <=> s.jumps + one(s.press) <= s.presses
      BY Zenon DEF JumpsCovered
    <2>6. one(s.press) \in Nat
      OBVIOUS
    <2> HIDE DEF one
    <2>7. JumpsCovered(s) => JumpsCovered(t)
      BY <1>1, <2>1, <2>3, <2>4, <2>5, <2>6
    <2>8. NoInputTaken(s, t)
      BY <2>3, <2>7, Zenon DEF NoInputTaken
    <2> QED
      BY <2>8 DEF t
  <1>5. ASSUME NEW t \in ServerClientState, NEW v,
               \/ t = [s EXCEPT !.next_snapshot_sequence = v]
               \/ t = [s EXCEPT !.next_player_state_sequence = v]
               \/ t = [s EXCEPT !.recent_interest = FALSE]
        PROVE  NoInputTaken(s, t)
    <2>1. t.tick = s.tick /\ t.body = s.body /\ t.presses = s.presses /\ t.jumps = s.jumps
      BY <1>5 DEF ServerClientState
    <2>2. t.press = s.press
      BY <1>5, Zenon DEF ServerClientState
    <2> QED
      BY <1>2, <2>1, <2>2
  <1>6. ASSUME NEW b \in SupportedBodies
        PROVE  NoInputTaken(s, WithInterest(s, b))
    <2> DEFINE t == WithInterest(s, b)
               more == s.sent_chunks \cup {b}
    <2>1. t = [s EXCEPT !.interest = b, !.recent_interest = TRUE, !.sent_chunks = more]
      BY DEF WithInterest
    <2> HIDE DEF t, more
    <2>2. t.tick = s.tick /\ t.body = s.body /\ t.presses = s.presses /\ t.jumps = s.jumps
      BY <2>1 DEF ServerClientState
    <2>3. t.press = s.press
      BY <2>1, Zenon DEF ServerClientState
    <2>4. t \in ServerClientState
      BY ClientStateUpdates DEF t
    <2> QED
      BY <1>2, <2>2, <2>3, <2>4 DEF t
  <1>7. ASSUME NEW m, AcceptsInput(s, m)
        PROVE  InputTaken(s, WithInput(s, m))
    <2> DEFINE t == WithInput(s, m)
    <2>1. t.tick = m.tick /\ t.jumps = s.jumps
      BY DEF WithInput, ServerClientState
    <2>2. t.press = m.press
      BY Zenon DEF WithInput, ServerClientState
    <2>3. t.presses = s.presses + one(m.press)
      BY Zenon DEF WithInput, ServerClientState
    <2> HIDE DEF t
    <2>4. JumpsCovered(t) <=> t.jumps + one(m.press) <= t.presses
      BY <2>2, Zenon DEF JumpsCovered
    <2>5. JumpsCovered(s) <=> s.jumps + one(s.press) <= s.presses
      BY Zenon DEF JumpsCovered
    <2>6. one(s.press) \in Nat /\ one(m.press) \in Nat
      OBVIOUS
    <2> HIDE DEF one
    <2>7. JumpsCovered(s) => JumpsCovered(t)
      BY <1>1, <2>1, <2>3, <2>4, <2>5, <2>6
    <2>8. s.has_last_input_tick => Newer(t.tick, s.tick)
      BY <1>7, <2>1, Zenon DEF AcceptsInput
    <2>9. InputTaken(s, t)
      BY <2>7, <2>8, Zenon DEF InputTaken
    <2> QED
      BY <2>9 DEF t
  <1>8. NoInputTaken(s, [s EXCEPT !.next_snapshot_sequence = Wire(@ + 1)])
    <2> DEFINE v == Wire(s.next_snapshot_sequence + 1)
    <2>1. [s EXCEPT !.next_snapshot_sequence = v] \in ServerClientState
      BY ClientStateUpdates
    <2> HIDE DEF v
    <2>2. NoInputTaken(s, [s EXCEPT !.next_snapshot_sequence = v])
      BY <1>5, <2>1
    <2> QED
      BY <2>2 DEF v
  <1>9. NoInputTaken(s, [s EXCEPT !.next_player_state_sequence = Wire(@ + 1)])
    <2> DEFINE v == Wire(s.next_player_state_sequence + 1)
    <2>1. [s EXCEPT !.next_player_state_sequence = v] \in ServerClientState
      BY ClientStateUpdates
    <2> HIDE DEF v
    <2>2. NoInputTaken(s, [s EXCEPT !.next_player_state_sequence = v])
      BY <1>5, <2>1
    <2> QED
      BY <2>2 DEF v
  <1>10. NoInputTaken(s, [s EXCEPT !.recent_interest = FALSE])
    BY <1>5, ClientStateUpdates
  <1> QED
    BY <1>3, <1>4, <1>6, <1>7, <1>8, <1>9, <1>10, Zenon

\* A step takes at most an input of each player that stays, and a new player has
\* none.
LEMMA PlayersMove ==
    ASSUME Typed, [Next]_vars, NEW n \in DOMAIN client_states'
    PROVE  \/ /\ n \in DOMAIN client_states
              /\ \/ NoInputTaken(client_states[n], client_states'[n])
                 \/ InputTaken(client_states[n], client_states'[n])
           \/ /\ n \notin DOMAIN client_states
              /\ \E id \in PlayerIds : client_states'[n] = NewClientState(id)
  <1> DEFINE s == client_states[n]
             t == client_states'[n]
  <1> USE DEF Typed
  <1>1. \A k \in DOMAIN client_states : client_states[k] \in ServerClientState
    BY DEF TypeOK
  <1>2. ASSUME UNCHANGED client_states
        PROVE  n \in DOMAIN client_states /\ NoInputTaken(s, t)
    BY <1>1, <1>2, InputUpdates
  <1>3. CASE UNCHANGED vars
    BY <1>2, <1>3 DEF vars, server
  <1>4. CASE NetworkStep
    BY <1>2, <1>4 DEF NetworkStep, LoseDown, LoseUp, HandshakeTimeout, server
  <1>5. ASSUME NEW c \in Clients, ClientStep(c)
        PROVE  UNCHANGED client_states
    BY <1>5 DEF ClientStep, Connect, ConnectRefused, Disconnect, ClientConnect,
       ClientDisconnect, ClientReceive, PollSnapshot, PollChunkState, SendInput,
       SwitchActivePlanet, server
  <1>6. CASE ServerStep
    <2>1. CASE StartServer \/ ShutdownServer
      BY <2>1, EmptyDomain DEF StartServer, ShutdownServer
    <2>2. CASE SimulateFixedTick
      BY <1>1, <2>2, InputUpdates DEF SimulateFixedTick
    <2>3. CASE SendSnapshots
      BY <1>1, <2>3, InputUpdates DEF SendSnapshots
    <2>4. ASSUME NEW near \in SUBSET ObserverSubjectPairs, BroadcastPlayerStates(near)
          PROVE  n \in DOMAIN client_states /\ NoInputTaken(s, t)
      BY <1>1, <2>4, InputUpdates DEF BroadcastPlayerStates
    <2>5. ASSUME NEW k \in Conns, ServerConnect(k)
          PROVE  \/ n \in DOMAIN client_states /\ NoInputTaken(s, t)
                 \/ /\ n \notin DOMAIN client_states
                    /\ \E id \in PlayerIds : t = NewClientState(id)
      <3>1. k \notin DOMAIN client_states
        BY <2>5 DEF ServerConnect, PlayersAreOpen
      <3>2. client_states' = WithClient(k, NewClientState(next_player_id))
            /\ next_player_id \in PlayerIds
        BY <2>5 DEF ServerConnect
      <3>3. CASE n = k
        BY <3>1, <3>2, <3>3 DEF WithClient
      <3>4. CASE n # k
        <4>1. n \in DOMAIN client_states /\ t = s
          BY <3>2, <3>4 DEF WithClient
        <4> QED
          BY <1>1, <4>1, InputUpdates
      <3> QED
        BY <3>3, <3>4
    <2>6. ASSUME NEW k \in Conns, ServerDisconnect(k)
          PROVE  n \in DOMAIN client_states /\ NoInputTaken(s, t)
      <3>1. client_states' = WithoutClient(k)
        BY <2>6 DEF ServerDisconnect
      <3>2. n \in DOMAIN client_states /\ t = s
        BY <3>1 DEF WithoutClient
      <3> QED
        BY <1>1, <3>2, InputUpdates
    <2>7. ASSUME NEW k \in Conns, InterestWindowPasses(k)
          PROVE  n \in DOMAIN client_states /\ NoInputTaken(s, t)
      <3>1. n \in DOMAIN client_states
            /\ (t = s \/ t = [s EXCEPT !.recent_interest = FALSE])
        BY <2>7 DEF InterestWindowPasses
      <3> QED
        BY <1>1, <3>1, InputUpdates
    <2>8. ASSUME NEW k \in Conns, NEW i \in DOMAIN up[k], ServerReceiveInput(k, i)
          PROVE  n \in DOMAIN client_states /\ (NoInputTaken(s, t) \/ InputTaken(s, t))
      <3>1. n \in DOMAIN client_states
            /\ (t = s \/ (AcceptsInput(s, up[k][i]) /\ t = WithInput(s, up[k][i])))
        BY <2>8 DEF ServerReceiveInput
      <3> QED
        BY <1>1, <3>1, InputUpdates
    <2>9. ASSUME NEW k \in Conns, NEW i \in DOMAIN up[k], ServerReceiveInterest(k, i)
          PROVE  n \in DOMAIN client_states /\ NoInputTaken(s, t)
      <3> DEFINE b == up[k][i].body
      <3>1. \/ UNCHANGED client_states
            \/ /\ AcceptsInterest(client_states[k], b)
               /\ client_states' = [client_states EXCEPT ![k] = WithInterest(@, b)]
        BY <2>9 DEF ServerReceiveInterest
      <3>2. n \in DOMAIN client_states
            /\ (t = s \/ (b \in SupportedBodies /\ t = WithInterest(s, b)))
        BY <3>1 DEF AcceptsInterest
      <3> QED
        BY <1>1, <3>2, InputUpdates
    <2> QED
      BY <1>6, <2>1, <2>2, <2>3, <2>4, <2>5, <2>6, <2>7, <2>8, <2>9 DEF ServerStep
  <1> QED
    BY <1>2, <1>3, <1>4, <1>5, <1>6 DEF Next

\* Every press is used up before it is counted a second time.
AllJumpsCovered == \A n \in DOMAIN client_states : JumpsCovered(client_states[n])

\* The count of jumps stays behind that of presses.
LEMMA JumpsStayCovered == Spec => []AllJumpsCovered
  <1>1. Init => AllJumpsCovered
    BY EmptyDomain DEF Init, AllJumpsCovered
  <1>2. Typed /\ AllJumpsCovered /\ [Next]_vars => AllJumpsCovered'
    <2> SUFFICES ASSUME Typed, AllJumpsCovered, [Next]_vars, NEW n \in DOMAIN client_states'
                 PROVE  JumpsCovered(client_states'[n])
      BY DEF AllJumpsCovered, JumpsCovered
    <2>1. CASE n \in DOMAIN client_states
      BY <2>1, PlayersMove DEF NoInputTaken, InputTaken, AllJumpsCovered
    <2>2. ASSUME NEW id \in PlayerIds, client_states'[n] = NewClientState(id)
          PROVE  JumpsCovered(client_states'[n])
      <3>1. ~NewClientState(id).press
        BY Zenon DEF NewClientState
      <3>2. NewClientState(id).jumps = 0 /\ NewClientState(id).presses = 0
        BY DEF NewClientState
      <3>3. JumpsCovered(NewClientState(id)) <=> 0 + 0 <= 0
        BY <3>1, <3>2, Zenon DEF JumpsCovered
      <3> QED
        BY <2>2, <3>3
    <2> QED
      BY <2>1, <2>2, PlayersMove
  <1> QED
    BY <1>1, <1>2, TypeCorrect, PTL DEF Spec

\* One press of the jump key makes at most one simulated tick jump.
THEOREM JumpOncePerPressHolds == Spec => []JumpOncePerPress
  <1>1. Typed /\ AllJumpsCovered => JumpOncePerPress
    <2> SUFFICES ASSUME Typed, AllJumpsCovered, NEW n \in DOMAIN client_states
                 PROVE  client_states[n].jumps <= client_states[n].presses
      BY DEF JumpOncePerPress
    <2> DEFINE s == client_states[n]
               one == IF s.press THEN 1 ELSE 0
    <2>1. s.jumps \in Nat /\ s.presses \in Nat /\ one \in Nat
      BY DEF Typed, TypeOK, ServerClientState
    <2>2. s.jumps + one <= s.presses
      BY Zenon DEF AllJumpsCovered, JumpsCovered
    <2> HIDE DEF one
    <2> QED
      BY <2>1, <2>2
  <1> QED
    BY <1>1, JumpsStayCovered, TypeCorrect, PTL

\* No input is applied twice and none after a later one.
THEOREM InputsNeverGoBackHolds == Spec => InputsNeverGoBack
  <1> DEFINE Forward ==
        \A n \in (DOMAIN client_states) \cap (DOMAIN client_states') :
           LET s == client_states[n]
               t == client_states'[n]
           IN  s.has_last_input_tick /\ (t.tick # s.tick \/ t.body # s.body
                                         \/ t.presses # s.presses)
               => Newer(t.tick, s.tick)
  <1>1. Typed /\ [Next]_vars => Forward
    <2> SUFFICES ASSUME Typed, [Next]_vars,
                        NEW n \in (DOMAIN client_states) \cap (DOMAIN client_states')
                 PROVE  LET s == client_states[n]
                            t == client_states'[n]
                        IN  s.has_last_input_tick /\ (t.tick # s.tick \/ t.body # s.body
                                                      \/ t.presses # s.presses)
                            => Newer(t.tick, s.tick)
      OBVIOUS
    <2>1. NoInputTaken(client_states[n], client_states'[n])
          \/ InputTaken(client_states[n], client_states'[n])
      BY PlayersMove
    <2> QED
      BY <2>1 DEF NoInputTaken, InputTaken
  <1> HIDE DEF Forward
  <1>2. Typed /\ [Next]_vars => [Forward]_vars
    BY <1>1
  <1>3. Spec => [][Forward]_vars
    BY <1>2, TypeCorrect, PTL DEF Spec
  <1> QED
    BY <1>3 DEF InputsNeverGoBack, Forward

-----------------------------------------------------------------------------
(* States of other players *)

\* Of two counters at most one is newer than the other.
LEMMA NewerAsymmetric ==
    ASSUME NEW x \in Seqs, NEW y \in Seqs, Newer(x, y)
    PROVE  ~Newer(y, x)
  <1>1. HalfWindow \in Nat \ {0} /\ CounterMod = 2 * HalfWindow /\ CounterMod \in Nat \ {0}
    BY HalfWindowAssumption DEF CounterMod
  <1>2. x \in 0..(CounterMod - 1) /\ y \in 0..(CounterMod - 1) /\ x # y
    BY DEF Seqs, Newer
  <1>3. \A d \in 1..(CounterMod - 1) : d % CounterMod = d /\ (-d) % CounterMod = CounterMod - d
    <2> SUFFICES ASSUME NEW d \in 1..(CounterMod - 1)
                 PROVE  d % CounterMod = d /\ (-d) % CounterMod = CounterMod - d
      OBVIOUS
    <2> HIDE DEF CounterMod
    <2> QED
      BY <1>1, SMTT(30)
  <1>4. CASE x > y
    <2>1. x - y \in 1..(CounterMod - 1) /\ y - x = -(x - y)
      BY <1>1, <1>2, <1>4
    <2>2. (x - y) % CounterMod = x - y /\ (y - x) % CounterMod = CounterMod - (x - y)
      BY <1>3, <2>1
    <2> QED
      BY <1>1, <1>2, <2>1, <2>2 DEF Newer
  <1>5. CASE y > x
    <2>1. y - x \in 1..(CounterMod - 1) /\ x - y = -(y - x)
      BY <1>1, <1>2, <1>5
    <2>2. (y - x) % CounterMod = y - x /\ (x - y) % CounterMod = CounterMod - (y - x)
      BY <1>3, <2>1
    <2> QED
      BY <1>1, <1>2, <2>1, <2>2 DEF Newer
  <1> QED
    BY <1>1, <1>2, <1>4, <1>5

\* The players new shows that old showed are not shown in an older state.
ShownForward(old, new) ==
    \A id \in (DOMAIN old.replicated_players) \cap (DOMAIN new.replicated_players) :
        ~Newer(old.replicated_players[id].seq, new.replicated_players[id].seq)

\* Nothing that leaves the shown players alone or forgets them all moves one back.
LEMMA ShownUnchanged ==
    ASSUME NEW old, NEW new,
           new.replicated_players \in {old.replicated_players, <<>>}
    PROVE  ShownForward(old, new)
  BY EmptyDomain DEF ShownForward, Newer

\* No message does.
LEMMA ReceivedForward ==
    ASSUME NEW nc \in NetClientState, NEW m \in DownMessages
    PROVE  ShownForward(nc, Received(nc, m))
  <1> DEFINE known == nc.replicated_players
             r == Received(nc, m)
             chunks == Append(nc.chunk_updates, m.body)
  <1>1. \A id \in DOMAIN known : known[id].seq \in Seqs
    BY DEF NetClientState, PlayerMaps
  <1>2. CASE m.type = "PlayerState"
    <2>1. r = TakesPlayerState(nc, m) /\ m.seq \in Seqs
      BY <1>2, DownMessageFields DEF Received
    <2>2. CASE m.id \in DOMAIN known => Newer(m.seq, known[m.id].seq)
      <3>1. r.replicated_players =
              [id \in (DOMAIN known) \cup {m.id} |->
                  IF id = m.id THEN [seq |-> m.seq, body |-> m.body] ELSE known[id]]
        BY <2>1, <2>2 DEF TakesPlayerState, NetClientState
      <3> HIDE DEF r
      <3>2. ASSUME NEW id \in DOMAIN known
            PROVE  ~Newer(known[id].seq, r.replicated_players[id].seq)
        <4>1. CASE id = m.id
          <5>1. r.replicated_players[id].seq = m.seq
            BY <3>1, <3>2, <4>1
          <5> QED
            BY <1>1, <2>1, <2>2, <3>2, <4>1, <5>1, NewerAsymmetric
        <4>2. CASE id # m.id
          BY <3>1, <3>2, <4>2 DEF Newer
        <4> QED
          BY <4>1, <4>2
      <3> QED
        BY <3>2 DEF ShownForward, r
    <2>3. CASE ~(m.id \in DOMAIN known => Newer(m.seq, known[m.id].seq))
      <3>1. r = nc
        BY <2>1, <2>3 DEF TakesPlayerState
      <3> HIDE DEF r
      <3> QED
        BY <3>1, ShownUnchanged DEF r
    <2> QED
      BY <2>2, <2>3
  <1>3. CASE m.type = "PlayerRemove"
    <2>1. r = TakesPlayerRemove(nc, m)
      BY <1>3 DEF Received
    <2>2. r.replicated_players = [id \in (DOMAIN known) \ {m.id} |-> known[id]]
      BY <2>1 DEF TakesPlayerRemove, NetClientState
    <2> HIDE DEF r
    <2>3. ShownForward(nc, r)
      BY <2>2 DEF ShownForward, Newer
    <2> QED
      BY <2>3 DEF r
  <1>4. CASE m.type \notin {"PlayerState", "PlayerRemove"}
    <2>1. \/ r = TakesSnapshot(nc, m)
          \/ r = [nc EXCEPT !.assigned_player_id = m.id]
          \/ r = [nc EXCEPT !.session_players = m.players]
          \/ r = [nc EXCEPT !.chunk_updates = chunks]
      BY <1>4, DownMessageFields DEF Received
    <2> HIDE DEF chunks, r
    <2>2. r.replicated_players = known
      BY <2>1 DEF TakesSnapshot, NetClientState
    <2>3. ShownForward(nc, r)
      BY <2>2, ShownUnchanged
    <2> QED
      BY <2>3 DEF r
  <1> QED
    BY <1>2, <1>3, <1>4

\* A step of a client never shows it a player in an older state.
LEMMA ClientStepForward ==
    ASSUME Typed, NEW c \in Clients, ClientStep(c), NEW d \in Clients
    PROVE  ShownForward(net[d], net'[d])
  <1> USE DEF Typed
  <1>1. net[c] \in NetClientState
    BY DEF TypeOK
  <1>2. CASE d # c \/ UNCHANGED net
    <2>1. net'[d] = net[d]
      BY <1>2 DEF ClientStep, Connect, ConnectRefused, Disconnect, ClientConnect,
         ClientDisconnect, ClientReceive, PollSnapshot, PollChunkState, SendInput,
         SwitchActivePlanet, TypeOK, client
    <2> QED
      BY <2>1, ShownUnchanged
  <1>3. CASE d = c
    <2>1. CASE conn[c] # NoConn /\ \E i \in DOMAIN down[conn[c]] : ClientReceive(c, i)
      <3>1. PICK i \in DOMAIN down[conn[c]] : ClientReceive(c, i)
        BY <2>1
      <3>2. down[conn[c]][i] \in DownMessages
        BY <2>1, <3>1, LenProperties, ElementOfSeq DEF TypeOK
      <3>3. net'[c] = Received(net[c], down[conn[c]][i])
        BY <3>1 DEF ClientReceive, TypeOK
      <3> QED
        BY <1>1, <1>3, <3>2, <3>3, ReceivedForward
    <2>2. CASE \E n \in Conns : Connect(c, n)
      <3>1. net'[c] = [Disconnected(net[c]) EXCEPT !.state = "Connecting",
                          !.pending_interest = active_body_index[c]]
        BY <2>2 DEF Connect, TypeOK
      <3>2. Disconnected(net[c]) \in NetClientState
            /\ Disconnected(net[c]).replicated_players = <<>>
        BY <1>1, ClearedClientTypes, ClearedFields DEF NothingYet
      <3>3. net'[c].replicated_players = <<>>
        BY <3>1, <3>2 DEF NetClientState
      <3> QED
        BY <1>3, <3>3, ShownUnchanged
    <2>3. CASE ConnectRefused(c) \/ Disconnect(c)
      <3>1. net'[c] = Disconnected(net[c])
        BY <2>3 DEF ConnectRefused, Disconnect, TypeOK
      <3>2. net'[c].replicated_players = <<>>
        BY <1>1, <3>1, ClearedFields DEF NothingYet
      <3> QED
        BY <1>3, <3>2, ShownUnchanged
    <2>4. CASE ClientDisconnect(c)
      <3>1. net'[c] = DisconnectedByEvent(net[c])
        BY <2>4 DEF ClientDisconnect, TypeOK
      <3>2. net'[c].replicated_players = <<>>
        BY <1>1, <3>1 DEF DisconnectedByEvent, SessionCleared, NetClientState
      <3> QED
        BY <1>3, <3>2, ShownUnchanged
    <2>5. CASE ClientConnect(c)
      <3>1. net'[c] = [net[c] EXCEPT !.state = "Connected", !.pending_interest = NoBody]
        BY <2>5 DEF ClientConnect, TypeOK
      <3>2. net'[c].replicated_players = net[c].replicated_players
        BY <1>1, <3>1 DEF NetClientState
      <3> QED
        BY <1>3, <3>2, ShownUnchanged
    <2>6. CASE PollSnapshot(c) \/ PollChunkState(c)
      <3> DEFINE rest == Front(net[c].chunk_updates)
      <3>1. \/ net'[c] = [net[c] EXCEPT !.has_snapshot = FALSE]
            \/ net'[c] = [net[c] EXCEPT !.chunk_updates = rest]
        BY <2>6 DEF PollSnapshot, PollChunkState, TypeOK
      <3> HIDE DEF rest
      <3>2. net'[c].replicated_players = net[c].replicated_players
        BY <1>1, <3>1 DEF NetClientState
      <3> QED
        BY <1>3, <3>2, ShownUnchanged
    <2>7. CASE \/ \E press \in BOOLEAN : SendInput(c, press)
               \/ \E b \in Bodies : SwitchActivePlanet(c, b)
      BY <1>2, <2>7 DEF SendInput, SwitchActivePlanet, client
    <2> QED
      BY <2>1, <2>2, <2>3, <2>4, <2>5, <2>6, <2>7 DEF ClientStep
  <1> QED
    BY <1>2, <1>3

\* What a client shows of another player never goes back to an older state.
THEOREM PlayerStatesNeverGoBackHolds == Spec => PlayerStatesNeverGoBack
  <1> DEFINE Forward ==
        \A c \in Clients :
           LET old == net[c].replicated_players
               new == net'[c].replicated_players
           IN  \A id \in (DOMAIN old) \cap (DOMAIN new) :
                  ~Newer(old[id].seq, new[id].seq)
  <1>1. Typed /\ [Next]_vars => Forward
    <2> SUFFICES ASSUME Typed, [Next]_vars, NEW d \in Clients
                 PROVE  ShownForward(net[d], net'[d])
      BY DEF ShownForward
    <2>1. ASSUME NEW c \in Clients, ClientStep(c)
          PROVE  ShownForward(net[d], net'[d])
      BY <2>1, ClientStepForward
    <2>2. CASE ServerStep \/ NetworkStep \/ UNCHANGED vars
      <3>1. UNCHANGED client
        BY <2>2 DEF ServerStep, NetworkStep, StartServer, ShutdownServer, SimulateFixedTick,
           SendSnapshots, BroadcastPlayerStates, ServerConnect, ServerDisconnect,
           InterestWindowPasses, ServerReceiveInput, ServerReceiveInterest,
           LoseDown, LoseUp, HandshakeTimeout, vars
      <3> QED
        BY <3>1, ShownUnchanged DEF client
    <2> QED
      BY <2>1, <2>2 DEF Next
  <1> HIDE DEF Forward
  <1>2. Typed /\ [Next]_vars => [Forward]_vars
    BY <1>1
  <1>3. Spec => [][Forward]_vars
    BY <1>2, TypeCorrect, PTL DEF Spec
  <1> QED
    BY <1>3 DEF PlayerStatesNeverGoBack, Forward
=============================================================================
