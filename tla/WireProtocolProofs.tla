-------------------------- MODULE WireProtocolProofs --------------------------
(* Theorems about WireProtocol, for every header. *)
EXTENDS WireProtocol, TLAPS

\* A number is its lowest byte and the rest.
LEMMA LowAndHigh ==
  ASSUME NEW x \in Nat
  PROVE  Low(x) \in Byte /\ High(x) \in Nat /\ Int2(Low(x), High(x)) = x
  BY DEF Low, High, Byte, Int2

\* Two bytes hold a uint16_t.
LEMMA TwoBytes ==
  ASSUME NEW x, U16(x)
  PROVE  /\ Low(x) \in Byte /\ High(x) \in Byte
         /\ Int2(Low(x), High(x)) = x
  BY LowAndHigh DEF U16

\* Four bytes hold a uint32_t.
LEMMA FourBytes ==
  ASSUME NEW x, U32(x)
  PROVE  /\ Low(x) \in Byte /\ Low(High(x)) \in Byte
         /\ Low(High(High(x))) \in Byte /\ High(High(High(x))) \in Byte
         /\ Int4(Low(x), Low(High(x)), Low(High(High(x))), High(High(High(x)))) = x
  BY LowAndHigh DEF U32, Int4

\* The header the two sides write is sixteen bytes, read back field by field.
LEMMA HeaderReadBack ==
  ASSUME NEW h, IsHeader(h), NEW n, U16(n)
  PROVE  /\ Len(Header(h, n)) = HEADER_LEN
         /\ Header(h, n)[1] = MAGIC /\ Header(h, n)[2] = VERSION
         /\ Header(h, n)[3] = h.codec
         /\ Int2(Header(h, n)[7], Header(h, n)[8]) = n
         /\ Fields(Header(h, n)) = h
  <1> DEFINE b == <<MAGIC, VERSION, h.codec, h.flags, Low(h.seq), High(h.seq),
                    Low(n), High(n),
                    Low(h.stream_id), Low(High(h.stream_id)),
                    Low(High(High(h.stream_id))), High(High(High(h.stream_id))),
                    Low(h.sample_offset), Low(High(h.sample_offset)),
                    Low(High(High(h.sample_offset))),
                    High(High(High(h.sample_offset)))>>
  <1>1. Header(h, n) = b
    BY DEF Header, Shifted
  <1>2. /\ Int2(b[5], b[6]) = h.seq /\ Int2(b[7], b[8]) = n
        /\ Int4(b[9], b[10], b[11], b[12]) = h.stream_id
        /\ Int4(b[13], b[14], b[15], b[16]) = h.sample_offset
    BY TwoBytes, FourBytes DEF IsHeader
  <1>3. Fields(b) = h
    BY <1>2 DEF Fields, IsHeader
  <1> QED BY <1>1, <1>2, <1>3 DEF HEADER_LEN

\* What the firmware packs, the backend accepts and reads as it was meant, for
\* every PCM header: protocol_frames.c and protocol.py agree on the wire format.
THEOREM FirmwareIsUnderstood ==
  ASSUME NEW h, IsHeader(h), h.codec = CODEC_PCM
  PROVE  BackendUnderstands(h)
  <1>1. U16(PAYLOAD_LEN)
    BY DEF U16, High, Byte, PAYLOAD_LEN
  <1> QED BY <1>1, HeaderReadBack
      DEF BackendUnderstands, FirmwarePack, BackendAccepts, Valid

\* What the backend packs (of a playback), the firmware would accept.
THEOREM BackendIsAccepted ==
  ASSUME NEW h, NEW n, Valid(h, n)
  PROVE  /\ FirmwareAccepts(BackendPack(h, n))
         /\ Fields(BackendPack(h, n).header) = h
  <1>1. U16(n) /\ n = PAYLOAD_LEN /\ IsHeader(h) /\ h.codec = CODEC_PCM
    BY DEF Valid, U16, High, Byte, PAYLOAD_LEN
  <1>2. Len(Header(h, n)) = HEADER_LEN /\ HEADER_LEN >= HEADER_LEN
    <2>1. HEADER_LEN >= HEADER_LEN
      BY DEF HEADER_LEN
    <2> QED BY <1>1, <2>1, HeaderReadBack
  <1> QED BY <1>1, <1>2, HeaderReadBack DEF FirmwareAccepts, BackendPack
=============================================================================
