----------------------------- MODULE WireProtocol -----------------------------
(***************************************************************************)
(* The binary audio message, as the two ends write and read it:            *)
(* firmware/main/protocol_frames.c shifts and masks byte by byte,          *)
(* backend/protocol.py has a struct.Struct("<BBBBHHII") and validates what *)
(* it packs and unpacks.  A message is its header, a sequence of bytes,    *)
(* and how many bytes of payload follow; the payload is copied as it is.   *)
(***************************************************************************)
EXTENDS Integers, Sequences

MAGIC == 165
VERSION == 1
HEADER_LEN == 16
PAYLOAD_LEN == 640
SAMPLES_PER_FRAME == 320
CODEC_PCM == 0

FLAG_FIRST == 1
FLAG_LAST == 2
FLAG_PREBUF == 4

Byte == 0..255

Low(x)  == x % 256
High(x) == x \div 256

\* The types uint16_t and uint32_t.
U16(x) == x \in Nat /\ High(x) \in Byte
U32(x) == x \in Nat /\ High(High(High(x))) \in Byte

\* The fields of an AudioFrame but the payload.
IsHeader(h) ==
  /\ h = [codec |-> h.codec, flags |-> h.flags, seq |-> h.seq,
          stream_id |-> h.stream_id, sample_offset |-> h.sample_offset]
  /\ h.codec \in Byte /\ h.flags \in Byte
  /\ U16(h.seq) /\ U32(h.stream_id) /\ U32(h.sample_offset)

-----------------------------------------------------------------------------
(* Integers as bytes, least significant first, and back *)

Int2(b0, b1) == b0 + 256 * b1
Int4(b0, b1, b2, b3) == Int2(b0, Int2(b1, Int2(b2, b3)))

\* Mutant: the second byte of an offset is masked out of the first one again.
ShiftedLate(x) == x

Shifted(x) == High(x)

\* protocol_pack_frame and HEADER.pack lay the header out alike.
Header(h, n) ==
  <<MAGIC, VERSION, h.codec, h.flags, Low(h.seq), High(h.seq), Low(n), High(n),
    Low(h.stream_id), Low(High(h.stream_id)),
    Low(High(High(h.stream_id))), High(High(High(h.stream_id))),
    Low(h.sample_offset), Low(Shifted(h.sample_offset)),
    Low(High(High(h.sample_offset))), High(High(High(h.sample_offset)))>>

Fields(bytes) ==
  [codec |-> bytes[3], flags |-> bytes[4], seq |-> Int2(bytes[5], bytes[6]),
   stream_id |-> Int4(bytes[9], bytes[10], bytes[11], bytes[12]),
   sample_offset |-> Int4(bytes[13], bytes[14], bytes[15], bytes[16])]

-----------------------------------------------------------------------------
(* The firmware *)

\* protocol_pack_frame, for a payload that the caller knows to be 640 bytes.
FirmwarePack(h) == [header |-> Header(h, PAYLOAD_LEN), payload |-> PAYLOAD_LEN]

\* What protocol_unpack_header asks of a message; the actual length is not
\* compared with payload_len.
FirmwareAccepts(msg) ==
  /\ Len(msg.header) >= HEADER_LEN
  /\ msg.header[1] = MAGIC /\ msg.header[2] = VERSION
  /\ msg.header[3] = CODEC_PCM
  /\ Int2(msg.header[7], msg.header[8]) = PAYLOAD_LEN

-----------------------------------------------------------------------------
(* The backend *)

\* _validate_fields
Valid(h, payloadLen) == IsHeader(h) /\ h.codec = CODEC_PCM /\ payloadLen = PAYLOAD_LEN

\* pack, for what it does not refuse.
BackendPack(h, payloadLen) == [header |-> Header(h, payloadLen), payload |-> payloadLen]

\* unpack raises ProtocolError for all other messages.
BackendAccepts(msg) ==
  /\ Len(msg.header) = HEADER_LEN
  /\ msg.header[1] = MAGIC /\ msg.header[2] = VERSION
  /\ Int2(msg.header[7], msg.header[8]) = msg.payload
  /\ Valid(Fields(msg.header), msg.payload)

\* The backend reads back what the firmware meant.
BackendUnderstands(h) ==
  LET msg == FirmwarePack(h)
  IN  BackendAccepts(msg) /\ Fields(msg.header) = h
=============================================================================
