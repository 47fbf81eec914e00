----------------------------- MODULE ByteFields -----------------------------
(***************************************************************************)
(* Field after field, a number as its bytes from the lowest: how messages  *)
(* and saved games are written and read.                                   *)
(*                                                                         *)
(* A list of fields is a sequence of <<name, width>>.  A byte is a value   *)
(* with its place in it, so that the bytes of two fields never pass for    *)
(* each other, and neither do those of one field in another order.         *)
(***************************************************************************)
EXTENDS Integers, Sequences

\* What a reader or writer answers when it does not accept what it is given
Refused == [ok |-> FALSE]

\* Where the fields end, one by one
Offsets(fields) ==
    LET after[i \in 0..Len(fields)] == IF i = 0 THEN 0 ELSE after[i - 1] + fields[i][2]
    IN  after

Size(fields) == Offsets(fields)[Len(fields)]

\* Writer::unsigned_value, raw
Bytes(value, width) == [i \in 1..width |-> <<value, i>>]

\* What was written is told from its bytes; anything else is a number of its own.
Value(bytes) ==
    IF \A i \in DOMAIN bytes : bytes[i] = <<bytes[1][1], i>> THEN bytes[1][1] ELSE bytes

\* What is written after each field
WrittenBytes(fields, values) ==
    LET out[i \in 0..Len(fields)] ==
            IF i = 0 THEN <<>> ELSE out[i - 1] \o Bytes(values[fields[i][1]], fields[i][2])
    IN  out

WriteFields(fields, values) == WrittenBytes(fields, values)[Len(fields)]

\* How far a Reader is, whether every field was there so far, and what it has read
Reader == [offset |-> 0, ok |-> TRUE, out |-> <<>>]

\* Reader::unsigned_value, raw: nothing is read past the end
ReadField(reader, bytes, field) ==
    LET end == reader.offset + field[2]
    IN  IF ~reader.ok \/ end > Len(bytes) THEN [reader EXCEPT !.ok = FALSE]
        ELSE [offset |-> end, ok |-> TRUE,
              out |-> Append(reader.out,
                             <<field[1], Value(SubSeq(bytes, reader.offset + 1, end))>>)]

\* The reader after each field
Reads(reader, bytes, fields) ==
    LET after[i \in 0..Len(fields)] ==
            IF i = 0 THEN reader ELSE ReadField(after[i - 1], bytes, fields[i])
    IN  after

ReadFields(reader, bytes, fields) == Reads(reader, bytes, fields)[Len(fields)]

\* The fields read, as a record
Fields(pairs) ==
    [name \in {pairs[i][1] : i \in DOMAIN pairs} |->
        pairs[CHOOSE i \in DOMAIN pairs : pairs[i][1] = name][2]]
=============================================================================
