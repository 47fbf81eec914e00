------------------------------ MODULE MCParts ------------------------------
(***************************************************************************)
(* Parts of the client that share no state with each other, each checked   *)
(* on its own: a behaviour picks one of them and runs only that one, while *)
(* the others rest.                                                        *)
(***************************************************************************)
EXTENDS NetSeqWindow, SaveFile, Voyage, EventBus, TickPacing, NetCodec, SaveFormat, Minigames

VARIABLE part

\* The second cell of the third column
SnakeHead == <<2, 1>>

\* Two of each, and from no block edit to one too many
FirstTwo == 0..1
FirstBodies == 1..2
SomeEditLists ==
    {<<>>} \cup {<<Edit(b, m, s)>> : b \in FirstBodies, m \in FirstTwo, s \in BOOLEAN}
      \cup {[i \in 1..n |-> Edit(1, i % 2, i % 2 = 0)] : n \in 2..3}

\* A packet of which nothing is left, which is the quickest to look at
CodecRests ==
    /\ sent_type = "AssignPlayer"
    /\ packet = [EncodeMessage(sent_type, sent_type) EXCEPT !.short = TRUE]
    /\ touched = TRUE

PartsInit ==
    /\ part \in {"sequence", "save", "voyage", "bus", "minigame", "codec", "format", "pacing"}
    /\ WindowInit
    /\ SaveInit /\ (part # "save" => main = Missing)
    /\ Init /\ (part # "voyage" => active = Voxov /\ stage = CollectSample)
    /\ BusInit
    /\ MinigamesInit
    /\ IF part = "codec" THEN CodecInit ELSE CodecRests
    /\ FormatInit
    /\ PacingInit

\* The channel is empty and a bound of NetSeqWindow keeps the sender from going on.
AllSent ==
    /\ inflight = {}
    /\ sent = MaxSent \/ ~SilenceBound(sent + 1)
    /\ UNCHANGED window_vars

all_vars ==
    <<part, window_vars, save_vars, vars, bus_vars, minigame_vars,
      codec_vars, format_vars, pacing_vars>>

\* Everything but the part that was picked
OthersRest ==
    /\ UNCHANGED part
    /\ IF part = "sequence" THEN TRUE ELSE UNCHANGED window_vars
    /\ IF part = "save" THEN TRUE ELSE UNCHANGED save_vars
    /\ IF part = "voyage" THEN TRUE ELSE UNCHANGED vars
    /\ IF part = "bus" THEN TRUE ELSE UNCHANGED bus_vars
    /\ IF part = "minigame" THEN TRUE ELSE UNCHANGED minigame_vars
    /\ IF part = "codec" THEN TRUE ELSE UNCHANGED codec_vars
    /\ IF part = "format" THEN TRUE ELSE UNCHANGED format_vars
    /\ IF part = "pacing" THEN TRUE ELSE UNCHANGED pacing_vars

PartsNext ==
    \/ part = "sequence" /\ (WindowNext \/ AllSent) /\ OthersRest
    \/ part = "save" /\ SaveNext /\ OthersRest
    \/ part = "voyage" /\ Next /\ OthersRest
    \/ part = "bus" /\ BusNext /\ OthersRest
    \/ part = "minigame" /\ MinigamesNext /\ OthersRest
    \/ part = "codec" /\ CodecNext /\ OthersRest
    \/ part = "format" /\ FormatNext /\ OthersRest
    \/ part = "pacing" /\ PacingNext /\ OthersRest
    \/ part = "codec" /\ touched /\ UNCHANGED all_vars

PartsSpec == PartsInit /\ [][PartsNext]_all_vars
=============================================================================
