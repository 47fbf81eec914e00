----------------------------- MODULE SaveFormat -----------------------------
(***************************************************************************)
(* A saved game as bytes: what encode_persistent_game_state accepts and    *)
(* writes, and what decode_persistent_game_state makes of a file that may  *)
(* be damaged, or come from another build whose lists of stages, bodies or *)
(* materials are longer.  The checksum tells every payload from every      *)
(* other here; the 32 bits of the code do that for any single changed byte.*)
(*                                                                         *)
(* Positions are near the body, too far (1e9) or not finite.  How a file   *)
(* is replaced is in SaveFile, what the game does with it in WorldEdits.   *)
(***************************************************************************)
EXTENDS ByteFields, SequencesExt

CONSTANTS
    Stages, SupportedBodies, Characters, Sectors, Materials,    \* numbers this build knows
    MaxBlockEdits,                                              \* kMaxBlockEdits
    EditLists                                                   \* bound: block edits of a game

\* PersistentBlockEdit, with positions as numbers
BlockEdits ==
    [body_index : Nat, sector : Nat, material : Nat, solid : BOOLEAN,
     shell : Int, chunk : Nat, block : Nat]

ASSUME SaveFormatAssumption ==
    /\ \A S \in {Stages, SupportedBodies, Characters, Sectors, Materials} :
          S \subseteq Nat /\ \E first, last \in S : S = first..last
    /\ MaxBlockEdits \in Nat
    /\ EditLists \subseteq Seq(BlockEdits)

NoFile == [exists |-> FALSE]

\* player_local_position, and a byte that is none of any game's
Near == 0
Far == 1
NotFinite == 2
Noise == -1

VARIABLES
    file,       \* the saved game, or NoFile
    saved       \* history: the game this build saved in it, NoFile when it is another's

format_vars == <<file, saved>>

Edit(body, material, solid) ==
    [body_index |-> body, sector |-> 0, material |-> material, solid |-> solid,
     shell |-> 0, chunk |-> 0, block |-> 0]

\* valid_edit
ValidEdit(edit) ==
    /\ edit.body_index \in SupportedBodies
    /\ edit.sector \in Sectors
    /\ edit.shell >= 0
    /\ edit.material \in Materials

\* The checks encode_persistent_game_state begins with
Encodable(state) ==
    /\ state.active_body \in SupportedBodies
    /\ state.position = Near
    /\ state.stage \in Stages
    /\ state.character \in Characters
    /\ Len(state.edits) <= MaxBlockEdits
    /\ \A i \in DOMAIN state.edits : ValidEdit(state.edits[i])

GameFields ==
    <<<<"stage", 1>>, <<"character", 1>>, <<"reserved", 2>>, <<"active_body", 4>>,
      <<"position", 24>>, <<"count", 4>>>>

\* mutant: the bits of an edit in another order than they are written
EditFieldsSwapped ==
    <<<<"body_index", 4>>, <<"sector", 1>>, <<"solid", 1>>, <<"material", 1>>, <<"reserved", 1>>,
      <<"shell", 4>>, <<"chunk", 12>>, <<"block", 12>>>>

\* The fields of an edit as they are read
EditFields ==
    <<<<"body_index", 4>>, <<"sector", 1>>, <<"material", 1>>, <<"solid", 1>>, <<"reserved", 1>>,
      <<"shell", 4>>, <<"chunk", 12>>, <<"block", 12>>>>

WriteEdit(edit) ==
    Bytes(edit.body_index, 4) \o Bytes(edit.sector, 1) \o Bytes(edit.material, 1)
      \o Bytes(IF edit.solid THEN 1 ELSE 0, 1) \o Bytes(0, 1)
      \o Bytes(edit.shell, 4) \o Bytes(edit.chunk, 12) \o Bytes(edit.block, 12)

Payload(state) ==
    Bytes(state.stage, 1) \o Bytes(state.character, 1) \o Bytes(0, 2) \o Bytes(state.active_body, 4)
      \o Bytes(state.position, 24) \o Bytes(Len(state.edits), 4)
      \o FlattenSeq([i \in DOMAIN state.edits |-> WriteEdit(state.edits[i])])

Checksum(payload) == payload

\* The file around a payload: kMagic, two versions, size and checksum
Sealed(payload) ==
    [header |-> TRUE, format |-> TRUE, generator |-> TRUE, size |-> Len(payload),
     checksum |-> Checksum(payload), payload |-> payload]

\* encode_persistent_game_state
EncodeGame(state) == IF Encodable(state) THEN [ok |-> TRUE, out |-> Sealed(Payload(state))] ELSE Refused

SoundHeader(f) ==
    /\ f.header /\ f.format /\ f.generator
    /\ f.size = Len(f.payload)
    /\ f.checksum = Checksum(f.payload)

\* One round of the loop over the edits: an edit that is not valid ends it
DecodeEdit(reader, bytes) ==
    LET read == ReadFields([reader EXCEPT !.out = <<>>], bytes, EditFields)
        edit == [Fields(read.out) EXCEPT !.solid = @ # 0]
        address == [name \in DOMAIN edit \ {"reserved"} |-> edit[name]]
    IN  IF ~read.ok THEN [reader EXCEPT !.ok = FALSE]
        ELSE [offset |-> read.offset, out |-> Append(reader.out, address),
              ok |-> Fields(read.out).solid \in {0, 1} /\ ValidEdit(address)]

\* The reader after each round; an edit that could not be read or is not valid was the last.
DecodedEdits(reader, bytes, count) ==
    LET after[i \in 0..count] ==
            IF i = 0 THEN reader
            ELSE IF after[i - 1].ok THEN DecodeEdit(after[i - 1], bytes) ELSE after[i - 1]
    IN  after

\* decode_persistent_game_state, which at last tries whether what it read could be written
DecodeGame(f) ==
    LET head  == ReadFields(Reader, f.payload, GameFields)
        read  == Fields(head.out)
        edits == DecodedEdits([head EXCEPT !.out = <<>>], f.payload, read.count)[read.count]
        state == [stage |-> read.stage, character |-> read.character,
                  active_body |-> read.active_body, position |-> read.position,
                  edits |-> edits.out]
    IN  IF f = NoFile THEN Refused
        ELSE IF ~SoundHeader(f) \/ ~head.ok THEN Refused
        ELSE IF read.count > MaxBlockEdits THEN Refused
        ELSE IF ~edits.ok \/ edits.offset # Len(f.payload) \/ ~Encodable(state) THEN Refused
        ELSE [ok |-> TRUE, out |-> state]
-----------------------------------------------------------------------------

\* Games of this build, and what one that knows more would make of them
SavableGames ==
    [stage : Stages, character : Characters, active_body : SupportedBodies,
     position : {Near, Far, NotFinite}, edits : EditLists]

Beyond(S) == Max(S) + 1

OtherGames(state) ==
    {[state EXCEPT !.stage = Beyond(Stages)], [state EXCEPT !.character = Beyond(Characters)],
     [state EXCEPT !.active_body = Beyond(SupportedBodies)], [state EXCEPT !.position = Far],
     [state EXCEPT !.edits = Append(@, Edit(Beyond(SupportedBodies), 0, TRUE))],
     [state EXCEPT !.edits = Append(@, Edit(1, Beyond(Materials), TRUE))],
     [state EXCEPT !.edits = Append(@, [Edit(1, 0, TRUE) EXCEPT !.sector = Beyond(Sectors)])],
     [state EXCEPT !.edits = Append(@, [Edit(1, 0, TRUE) EXCEPT !.shell = -1])]}

FormatInit == file = NoFile /\ saved = NoFile

\* save_persistent_game_state: a game that is refused leaves the file as it is
SaveGame(state) ==
    /\ EncodeGame(state).ok
    /\ file' = EncodeGame(state).out
    /\ saved' = state

WrittenByAnother(f) == saved # NoFile /\ file' = f /\ saved' = NoFile

\* What became of the file, or which build had it since
Damage ==
    \/ \E n \in {0, Size(GameFields) - 1, Size(GameFields), Len(file.payload) - 1} \ {file.size} :
          WrittenByAnother([file EXCEPT !.payload = SubSeq(@, 1, n)])
    \/ WrittenByAnother([file EXCEPT !.payload = Append(@, <<0, 1>>)])
    \/ \E i \in DOMAIN file.payload : WrittenByAnother([file EXCEPT !.payload[i] = <<Noise, 1>>])
    \/ WrittenByAnother([file EXCEPT !.header = FALSE])

OtherBuild ==
    \/ WrittenByAnother([file EXCEPT !.format = FALSE])
    \/ WrittenByAnother([file EXCEPT !.generator = FALSE])
    \/ \E state \in OtherGames(saved) : WrittenByAnother(Sealed(Payload(state)))
    \/ \E more \in {<<<<0, 1>>>>, WriteEdit(Edit(1, 0, TRUE))} :
          WrittenByAnother(Sealed(Payload(saved) \o more))

FormatNext ==
    \/ \E state \in SavableGames : SaveGame(state)
    \/ saved # NoFile /\ (Damage \/ OtherBuild)

FormatSpec == FormatInit /\ [][FormatNext]_format_vars
-----------------------------------------------------------------------------
\* A game this build saved is the game it finds again.  A file that is damaged, or says
\* what this build does not know, is refused as a whole; one that is accepted was read to
\* its last byte, and the game in it can be saved again: one that could not would never
\* be saved any more.  About three lists of fields and two lists of checks that have to
\* agree.
SavesAreReadable ==
    /\ saved # NoFile => DecodeGame(file) = [ok |-> TRUE, out |-> saved]
    /\ DecodeGame(file).ok => EncodeGame(DecodeGame(file).out) = [ok |-> TRUE, out |-> file]
    /\ saved = NoFile => ~DecodeGame(file).ok
=============================================================================
