------------------------------ MODULE NetCodec ------------------------------
(***************************************************************************)
(* The messages of NetPlay as bytes: a header, and field after field in    *)
(* the order that write_payload and read_payload each list by themselves.  *)
(*                                                                         *)
(* The fields of the message that is sent all differ; where it is going it *)
(* may have been cut, prolonged or changed, or it comes from another build.*)
(***************************************************************************)
EXTENDS ByteFields, SequencesExt

CONSTANT MaxPayload     \* k_net_max_payload_bytes

ASSUME NetCodecAssumption == MaxPayload \in Nat

\* NetMsgType, by the payload each type carries
Types == {"Input", "Snapshot", "ChunkInterest", "ChunkState", "AssignPlayer", "PlayerState",
          "PlayerRemove", "ProtocolInfo", "SessionInfo"}

VARIABLES
    sent_type,  \* the type of the message that was sent
    packet,     \* its header and its payload; short when not even a header is left
    touched     \* it is not what was sent any more

codec_vars == <<sent_type, packet, touched>>

World == <<<<"system_id", 8>>, <<"body_id", 4>>, <<"frame", 1>>, <<"reserved", 3>>>>

Coord == <<<<"body_id", 4>>, <<"face", 1>>, <<"shell", 1>>, <<"x", 2>>, <<"y", 2>>, <<"z", 2>>>>

Moving == <<<<"x", 8>>, <<"y", 8>>, <<"z", 8>>, <<"vx", 4>>, <<"vy", 4>>, <<"vz", 4>>>>

Numbered == <<<<"player_id", 4>>, <<"tick", 4>>, <<"sequence", 4>>>>

\* write_payload
Written(type) ==
    CASE type = "Input" ->
           <<<<"tick", 4>>, <<"body_id", 4>>, <<"move_x", 4>>, <<"move_y", 4>>,
             <<"camera_yaw_deg", 4>>, <<"action_flags", 1>>>>
      [] type = "Snapshot" -> Numbered \o World \o Moving
      [] type = "ChunkInterest" ->
           <<<<"body_id", 4>>, <<"face", 1>>, <<"shell", 1>>, <<"center_x", 2>>,
             <<"center_y", 2>>, <<"center_z", 2>>, <<"radius", 1>>>>
      [] type = "ChunkState" ->
           Coord \o <<<<"version", 4>>, <<"world_seed", 8>>, <<"content_type", 1>>,
                      <<"reserved", 7>>>>
      [] type \in {"AssignPlayer", "PlayerRemove"} -> <<<<"player_id", 4>>>>
      [] type = "ProtocolInfo" ->
           <<<<"protocol_version", 2>>, <<"feature_flags", 2>>, <<"server_tick_hz", 2>>,
             <<"reserved", 2>>>>
      [] type = "SessionInfo" ->
           <<<<"server_name", 48>>, <<"world_seed", 8>>, <<"current_players", 2>>,
             <<"max_players", 2>>, <<"flags", 1>>, <<"reserved", 7>>>>
      [] type = "PlayerState" ->
           Numbered \o World \o Moving
             \o <<<<"anim_state", 1>>, <<"anim_phase", 4>>, <<"anim_blend", 4>>,
                  <<"character", 1>>>>

\* mutant: one of the two lists is not kept in step with the other
ReadBefore(type) ==
    IF type # "PlayerState" THEN Written(type)
    ELSE Numbered \o World \o Moving
           \o <<<<"anim_state", 1>>, <<"anim_blend", 4>>, <<"anim_phase", 4>>, <<"character", 1>>>>

\* read_payload, field by field the same
ReadBack(type) ==
    CASE type = "Input" ->
           <<<<"tick", 4>>, <<"body_id", 4>>, <<"move_x", 4>>, <<"move_y", 4>>,
             <<"camera_yaw_deg", 4>>, <<"action_flags", 1>>>>
      [] type = "Snapshot" -> Numbered \o World \o Moving
      [] type = "ChunkInterest" ->
           <<<<"body_id", 4>>, <<"face", 1>>, <<"shell", 1>>, <<"center_x", 2>>,
             <<"center_y", 2>>, <<"center_z", 2>>, <<"radius", 1>>>>
      [] type = "ChunkState" ->
           Coord \o <<<<"version", 4>>, <<"world_seed", 8>>, <<"content_type", 1>>,
                      <<"reserved", 7>>>>
      [] type \in {"AssignPlayer", "PlayerRemove"} -> <<<<"player_id", 4>>>>
      [] type = "ProtocolInfo" ->
           <<<<"protocol_version", 2>>, <<"feature_flags", 2>>, <<"server_tick_hz", 2>>,
             <<"reserved", 2>>>>
      [] type = "SessionInfo" ->
           <<<<"server_name", 48>>, <<"world_seed", 8>>, <<"current_players", 2>>,
             <<"max_players", 2>>, <<"flags", 1>>, <<"reserved", 7>>>>
      [] type = "PlayerState" ->
           Numbered \o World \o Moving
             \o <<<<"anim_state", 1>>, <<"anim_phase", 4>>, <<"anim_blend", 4>>,
                  <<"character", 1>>>>

\* The message that is sent: its fields by their names
Message(type) == [name \in {field[1] : field \in Range(Written(type))} |-> name]

\* payload_type_matches and encode
EncodeMessage(type, payload_type) ==
    LET payload == WriteFields(Written(payload_type), Message(payload_type))
    IN  IF type # payload_type \/ Len(payload) > MaxPayload THEN Refused
        ELSE [ok |-> TRUE, short |-> FALSE, ours |-> TRUE, version |-> TRUE, type |-> type,
              size |-> Len(payload), payload |-> payload]

\* net_decode_header, net_header_basic_valid
HeaderIsValid(p) ==
    /\ ~p.short
    /\ p.ours /\ p.version /\ p.type # "None" /\ p.size <= MaxPayload
    /\ Len(p.payload) = p.size

\* decode
DecodeMessage(p, expected) ==
    LET read == ReadFields(Reader, p.payload, ReadBack(expected))
    IN  IF ~HeaderIsValid(p) \/ p.type # expected \/ ~read.ok \/ read.offset # p.size
        THEN Refused
        ELSE [ok |-> TRUE, out |-> Fields(read.out)]
-----------------------------------------------------------------------------
CodecInit ==
    /\ sent_type \in Types
    /\ packet = EncodeMessage(sent_type, sent_type)
    /\ packet.ok
    /\ touched = FALSE

Alter(p) ==
    /\ ~touched
    /\ packet' = p
    /\ touched' = TRUE
    /\ UNCHANGED sent_type

\* A datagram is delivered whole or not at all; these are packets of other builds.
Cut(n) == Alter([packet EXCEPT !.payload = SubSeq(@, 1, n)])

OfAnotherSize(n) ==
    Alter([packet EXCEPT !.size = n, !.payload = [i \in 1..n |-> <<"other", i>>]])

Retyped(type) == Alter([packet EXCEPT !.type = type])

NotOurs ==
    \/ Alter([packet EXCEPT !.short = TRUE])
    \/ Alter([packet EXCEPT !.ours = FALSE])
    \/ Alter([packet EXCEPT !.version = FALSE])

CodecNext ==
    \/ \E n \in 0..packet.size - 1 : Cut(n)
    \/ \E n \in {0, packet.size - 1, packet.size, packet.size + 1, MaxPayload + 1} : OfAnotherSize(n)
    \/ \E type \in Types \cup {"None", "Unknown"} : Retyped(type)
    \/ NotOurs

CodecSpec == CodecInit /\ [][CodecNext]_codec_vars
-----------------------------------------------------------------------------
\* What arrives as it was sent is the message that was sent, and no other; and whatever
\* arrives is taken for a message only when it is one from end to end.  About two lists
\* of fields for each message, which only agree because someone keeps them so.
MessagesSurvive ==
    /\ \A type \in Types : EncodeMessage(type, sent_type).ok <=> type = sent_type
    /\ ~touched => DecodeMessage(packet, sent_type) = [ok |-> TRUE, out |-> Message(sent_type)]
    /\ \A type \in Types :
          DecodeMessage(packet, type).ok =>
              /\ HeaderIsValid(packet) /\ packet.type = type
              /\ packet.size = Size(Written(type))
              /\ ~touched => type = sent_type
=============================================================================
