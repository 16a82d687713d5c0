------------------------------ MODULE FrameCodec ------------------------------
(***************************************************************************)
(* The WebSocket frames of OcppWebSocketServer: extractFrame reads them    *)
(* from the bytes of a socket, buildFrame writes them.  Bytes are numbers, *)
(* a stream of bytes is a function of their offsets.  A payload is its     *)
(* length and a sample of its bytes, so that long ones cost nothing.       *)
(***************************************************************************)
EXTENDS Integers, Sequences

\* Bound: no payload of that length ever arrives, and whatever is announced
\* beyond it is read as it.  It is 2^30.
Endless == 1073741824

\* The operator ^ of two bytes.
Bit(n, weight) == (n \div weight) % 2
Xor(m, n) ==
    LET Sum(weight) == weight * ((Bit(m, weight) + Bit(n, weight)) % 2)
    IN  Sum(1) + Sum(2) + Sum(4) + Sum(8) + Sum(16) + Sum(32) + Sum(64) + Sum(128)

\* Buffer.writeUInt16BE and writeBigUInt64BE.
UInt16BE(n) == <<(n \div 256) % 256, n % 256>>
UInt64BE(n) == <<0, 0, 0, 0, (n \div 16777216) % 256, (n \div 65536) % 256,
                 (n \div 256) % 256, n % 256>>

\* Buffer.readUInt16BE and the high and low word of readUInt32BE.
ReadUInt16(bytes, at) == 256 * bytes[at] + bytes[at + 1]
ReadUInt64(bytes, at) ==
    IF (\E i \in 0..3 : bytes[at + i] # 0) \/ bytes[at + 4] >= 64 THEN Endless
    ELSE 256 * (256 * (256 * bytes[at + 4] + bytes[at + 5]) + bytes[at + 6]) + bytes[at + 7]

Sampled(length) == {i \in 0..5 \cup {length - 1} : 0 <= i /\ i < length}
Payload(bytes, from, length) ==
    [length |-> length, sample |-> [i \in Sampled(length) |-> bytes[from + i]]]

------------------------------------------------------------------------------
(* extractFrame *)

\* Wrong: the mask goes on where the header's bytes left it.
UnmaskedShifted(bytes, keyAt, from) == [i \in Nat |-> Xor(bytes[i], bytes[keyAt + (i % 4)])]

Unmasked(bytes, keyAt, from) == [i \in Nat |-> Xor(bytes[i], bytes[keyAt + ((i - from) % 4)])]

NoFrame == [fin |-> FALSE, opcode |-> 0, payload |-> [length |-> 0, sample |-> <<>>], size |-> 0]

\* Wrong: 127 announces 32 bits.
ExtendedShort(code) == CASE code = 126 -> 2 [] code = 127 -> 4 [] OTHER -> 0
Extended(code)      == CASE code = 126 -> 2 [] code = 127 -> 8 [] OTHER -> 0

\* The frame that begins at `at', of which the bytes before `end' have come.
ExtractFrame(bytes, at, end) ==
    IF end - at < 2 THEN NoFrame
    ELSE LET code   == bytes[at + 1] % 128
             masked == bytes[at + 1] >= 128
             keyAt  == at + 2 + Extended(code)
             from   == keyAt + (IF masked THEN 4 ELSE 0)
             length == CASE code = 126 -> ReadUInt16(bytes, at + 2)
                         [] code = 127 -> ReadUInt64(bytes, at + 2)
                         [] OTHER      -> code
         IN  IF end < from \/ end - from < length THEN NoFrame
             ELSE [fin     |-> bytes[at] >= 128,
                   opcode  |-> bytes[at] % 16,
                   payload |-> Payload(IF masked THEN Unmasked(bytes, keyAt, from) ELSE bytes,
                                       from, length),
                   size    |-> from + length - at]

------------------------------------------------------------------------------
(* buildFrame *)

HeaderLength(length) == CASE length < 126                      -> 2
                          [] length >= 126 /\ length < 65536   -> 4
                          [] length >= 65536                   -> 10

\* Wrong: 65536 is written into two bytes.
LengthCodeWide(length) ==
    CASE length < 126    -> <<length>>
      [] 126 <= length /\ length <= 65536 -> <<126>> \o UInt16BE(length)
      [] length > 65536  -> <<127>> \o UInt64BE(length)

LengthCode(length) ==
    CASE length < 126    -> <<length>>
      [] 126 <= length /\ length < 65536 -> <<126>> \o UInt16BE(length)
      [] length >= 65536 -> <<127>> \o UInt64BE(length)

\* The frame: as many bytes as were allocated, zero where nothing is written.
BuildFrame(opcode, payload) ==
    LET length == payload.length
        header == <<128 + opcode>> \o LengthCode(length)
        from   == HeaderLength(length)
    IN  [size  |-> from + length,
         bytes |-> [i \in Nat |->
             CASE i < Len(header)                               -> header[i + 1]
               [] i >= Len(header) /\ i - from \in DOMAIN payload.sample -> payload.sample[i - from]
               [] OTHER                                         -> 0]]
===============================================================================
