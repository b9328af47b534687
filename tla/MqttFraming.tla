---------------------------- MODULE MqttFraming ----------------------------
(***************************************************************************)
(* The read path of mqttclient.c at the byte level: mqtt_read_packet, with *)
(* mqtt_decode_packet reading the remaining length one byte per call of    *)
(* network_read and mqtt_packet_drain discarding a packet too large for    *)
(* the read buffer.  The broker's side is a fixed byte stream, the         *)
(* encoding of the packets Sent; the reader's state is how far into it it  *)
(* has read.  network_read(n) returns the n bytes, or, when its timeout    *)
(* ends first, fewer (ShortReads); once the connection has failed, it      *)
(* returns a negative value (ReadErrors).  The read buffer holds           *)
(* mqtt_read_buf_size bytes, as mqtt_set_read_buf_size leaves it.          *)
(***************************************************************************)
EXTENDS Integers, Sequences, SequencesExt

CONSTANTS
    Sent,                 \* the packets the broker writes: [type, flags, len]
    ReadBufSizeArg,       \* the size passed to mqtt_set_read_buf_size
    MQTT_DEFAULT_BUF_SIZE,
    Filler,               \* the value of every byte after a remaining length
    ShortReads,           \* network_read may time out with fewer bytes
    ReadErrors,           \* the connection may fail (reads return -1)
    MinTotal              \* bound: drain's total_bytes_read below it is cut

ASSUME /\ ReadBufSizeArg \in Nat /\ MQTT_DEFAULT_BUF_SIZE \in Nat
       /\ Filler \in 0..255 /\ MinTotal \in Int /\ MinTotal < 0
       /\ ShortReads \in BOOLEAN /\ ReadErrors \in BOOLEAN
       /\ \A i \in 1..Len(Sent) : /\ Sent[i].type \in 1..14
                                  /\ Sent[i].flags \in 0..15
                                  /\ Sent[i].len \in 0..268435455

MQTT_MIN_PAYLOAD_SIZE == 2
MQTT_MAX_PAYLOAD_SIZE == 268435455
MAX_NO_OF_REMAINING_LENGTH_BYTES == 4

(* mqtt_read_buf_malloc: a size out of (MIN, MAX) becomes the default.     *)
ReadBufMalloc(size) ==
    IF MQTT_MIN_PAYLOAD_SIZE >= size \/ MQTT_MAX_PAYLOAD_SIZE <= size
    THEN MQTT_DEFAULT_BUF_SIZE ELSE size

ReadBufSize == ReadBufMalloc(ReadBufSizeArg)

(* MQTTPacket_encode: seven bits per byte, least significant first, the   *)
(* top bit set on every byte but the last.                                 *)
RECURSIVE Encode(_)
Encode(n) ==
    IF n \div 128 > 0 THEN <<(n % 128) + 128>> \o Encode(n \div 128)
    ELSE <<n % 128>>

(* MQTTHeader: the type is the high nibble of the first byte.              *)
HeaderByte(p) == p.type * 16 + p.flags
HeaderType(b) == b \div 16

Bytes(p) == <<HeaderByte(p)>> \o Encode(p.len) \o [k \in 1..p.len |-> Filler]

Wire == FlattenSeq([i \in 1..Len(Sent) |-> Bytes(Sent[i])])

(* Where packet i+1 starts: the bytes of the first i packets.              *)
Boundary(i) == Len(FlattenSeq([j \in 1..i |-> Bytes(Sent[j])]))

(* mqtt_read_packet's test: the header, the re-encoded length and the      *)
(* rest fit in the read buffer.                                            *)
Fits(p) == 1 + Len(Encode(p.len)) + p.len <= ReadBufSize

Frame(p) == [type |-> p.type, len |-> p.len]

VARIABLES
    pos,        \* bytes of the stream consumed by network_read
    rpc,        \* where mqtt_read_packet is: idle, len, check, drain, body
    hdr,        \* mqtt_read_buf[0], the header byte
    remLen,     \* remain_len as mqtt_decode_packet builds it
    mult,       \* its multiplier
    nLen,       \* its len: remaining-length bytes tried
    total,      \* mqtt_packet_drain: total_bytes_read
    b2r,        \* mqtt_packet_drain: bytes2read
    broken,     \* the connection has failed
    parsed,     \* history: the packets handed to dispatch, in order
    cut,        \* history: a read inside a packet returned short
    overflow    \* history: a byte was stored past the read buffer

vars == <<pos, rpc, hdr, remLen, mult, nLen, total, b2r, broken, parsed,
          cut, overflow>>

(* What network_read(n) may return at this point of the stream.           *)
Avail == Len(Wire) - pos
Got(n) ==
    LET full == IF n < Avail THEN n ELSE Avail
    IN  IF broken THEN {-1} ELSE IF ShortReads THEN 0..full ELSE {full}

Consume(k) == pos' = pos + (IF k > 0 THEN k ELSE 0)

Init ==
    /\ pos = 0 /\ rpc = "idle" /\ hdr = 0
    /\ remLen = 0 /\ mult = 1 /\ nLen = 0 /\ total = 0 /\ b2r = 0
    /\ broken = FALSE /\ parsed = << >> /\ cut = FALSE /\ overflow = FALSE

(* The connection fails; every later network_read returns an error.       *)
Break ==
    /\ ReadErrors /\ ~broken
    /\ broken' = TRUE
    /\ UNCHANGED <<pos, rpc, hdr, remLen, mult, nLen, total, b2r, parsed,
                   cut, overflow>>

(* Step 1: the header byte; anything but one byte is NOTHING_TO_READ.     *)
ReadHeader ==
    /\ rpc = "idle"
    /\ \E k \in Got(1) :
         IF k # 1 THEN UNCHANGED vars
         ELSE /\ Consume(1)
              /\ hdr' = Wire[pos + 1]
              /\ rpc' = "len"
              /\ remLen' = 0 /\ mult' = 1 /\ nLen' = 0
              /\ UNCHANGED <<total, b2r, broken, parsed, cut, overflow>>

(* One iteration of mqtt_decode_packet's loop.  Its return value, and so  *)
(* a fifth length byte or a short read, is ignored by mqtt_read_packet:   *)
(* either way the remain_len built so far goes on to step 2.               *)
DecodeStep ==
    /\ rpc = "len"
    /\ nLen' = nLen + 1
    /\ IF nLen + 1 > MAX_NO_OF_REMAINING_LENGTH_BYTES
       THEN /\ rpc' = "check"
            /\ UNCHANGED <<pos, remLen, mult, cut>>
       ELSE \E k \in Got(1) :
              IF k # 1
              THEN /\ rpc' = "check" /\ cut' = TRUE
                   /\ UNCHANGED <<pos, remLen, mult>>
              ELSE LET i == Wire[pos + 1]
                   IN  /\ Consume(1)
                       /\ remLen' = remLen + (i % 128) * mult
                       /\ mult' = mult * 128
                       /\ rpc' = IF i >= 128 THEN "len" ELSE "check"
                       /\ UNCHANGED cut
    /\ UNCHANGED <<hdr, total, b2r, broken, parsed, overflow>>

(* Mutant: the size test counts a packet that fills the buffer as too long.*)
CheckFullIsTooLong ==
    LET len == 1 + Len(Encode(remLen))
    IN
    /\ rpc = "check"
    /\ overflow' = (overflow \/ len > ReadBufSize)
    /\ IF len + remLen >= ReadBufSize
       THEN /\ rpc' = "drain"
            /\ total' = 0
            /\ b2r' = IF remLen < ReadBufSize THEN remLen ELSE ReadBufSize
       ELSE /\ rpc' = "body"
            /\ UNCHANGED <<total, b2r>>
    /\ UNCHANGED <<pos, hdr, remLen, mult, nLen, broken, parsed, cut>>

(* Step 2: MQTTPacket_encode writes the length back at mqtt_read_buf + 1, *)
(* then the size test: too long goes to mqtt_packet_drain.                *)
Check ==
    LET len == 1 + Len(Encode(remLen))
    IN
    /\ rpc = "check"
    /\ overflow' = (overflow \/ len > ReadBufSize)
    /\ IF len + remLen > ReadBufSize
       THEN /\ rpc' = "drain"
            /\ total' = 0
            /\ b2r' = IF remLen < ReadBufSize THEN remLen ELSE ReadBufSize
       ELSE /\ rpc' = "body"
            /\ UNCHANGED <<total, b2r>>
    /\ UNCHANGED <<pos, hdr, remLen, mult, nLen, broken, parsed, cut>>

(* Mutant: bytes2read is what is left of the packet, not clamped to the  *)
(* buffer size.                                                            *)
DrainUnclamped ==
    /\ rpc = "drain"
    /\ \E k \in Got(b2r) :
         LET t == IF k # 0 THEN total + k ELSE total
         IN
         /\ Consume(k)
         /\ total' = IF t < MinTotal THEN total ELSE t
         /\ b2r' = IF k = 0 THEN b2r ELSE remLen - t
         /\ rpc' = IF t < remLen /\ k # 0 THEN "drain" ELSE "idle"
         /\ cut' = (cut \/ k < b2r)
    /\ UNCHANGED <<hdr, remLen, mult, nLen, broken, parsed, overflow>>

(* One iteration of mqtt_packet_drain: a read of bytes2read into the      *)
(* buffer; a non-zero result, an error too, is added to the total.  The   *)
(* loop ends when the total reaches packet_len or a read returns 0; the   *)
(* call returns MQTT_BUFFER_TOO_SHORT_ERROR and dispatch sees type 0.     *)
Drain ==
    /\ rpc = "drain"
    /\ \E k \in Got(b2r) :
         LET t == IF k # 0 THEN total + k ELSE total
         IN
         /\ Consume(k)
         /\ total' = IF t < MinTotal THEN total ELSE t
         /\ b2r' = IF k = 0 THEN b2r
                   ELSE IF remLen - t >= ReadBufSize THEN ReadBufSize
                   ELSE remLen - t
         /\ rpc' = IF t < remLen /\ k # 0 THEN "drain" ELSE "idle"
         /\ cut' = (cut \/ k < b2r)
    /\ UNCHANGED <<hdr, remLen, mult, nLen, broken, parsed, overflow>>

(* Step 3: the rest in one read; short is NOTHING_TO_READ, with the bytes *)
(* read gone.  Success hands the header's type to dispatch.               *)
Body ==
    /\ rpc = "body"
    /\ rpc' = "idle"
    /\ \E k \in (IF remLen > 0 THEN Got(remLen) ELSE {0}) :
         /\ Consume(k)
         /\ IF remLen > 0 /\ k # remLen
            THEN /\ cut' = TRUE /\ UNCHANGED parsed
            ELSE /\ parsed' = Append(parsed,
                                     [type |-> HeaderType(hdr), len |-> remLen])
                 /\ UNCHANGED cut
    /\ UNCHANGED <<hdr, remLen, mult, nLen, total, b2r, broken, overflow>>

Next == Break \/ ReadHeader \/ DecodeStep \/ Check \/ Drain \/ Body

Spec == Init /\ [][Next]_vars

(* The yield thread calls mqtt_read_packet again and again.               *)
FairSpec == Spec /\ WF_vars(ReadHeader \/ DecodeStep \/ Check \/ Drain \/ Body)

-----------------------------------------------------------------------------
(* Every variable holds a value of its type.                               *)
TypeOK ==
    /\ pos \in 0..Len(Wire)
    /\ rpc \in {"idle", "len", "check", "drain", "body"}
    /\ hdr \in 0..255 /\ remLen \in 0..MQTT_MAX_PAYLOAD_SIZE
    /\ nLen \in 0..MAX_NO_OF_REMAINING_LENGTH_BYTES + 1
    /\ total \in MinTotal..MQTT_MAX_PAYLOAD_SIZE
    /\ b2r \in 0..ReadBufSize
    /\ broken \in BOOLEAN /\ cut \in BOOLEAN /\ overflow \in BOOLEAN

(* While no read inside a packet has come back short, each call of        *)
(* mqtt_read_packet starts at a packet boundary of the broker's stream,   *)
(* and dispatch has been handed exactly the packets before it that fit    *)
(* the read buffer, in order, with their types and remaining lengths:     *)
(* the oversized ones were drained to the byte.                            *)
ParsedAreSent ==
    (~cut /\ rpc = "idle") =>
        \E n \in 0..Len(Sent) :
            /\ pos = Boundary(n)
            /\ parsed = [k \in 1..Len(SelectSeq(SubSeq(Sent, 1, n), Fits)) |->
                           Frame(SelectSeq(SubSeq(Sent, 1, n), Fits)[k])]

(* Spec 4.1: draining a packet too large for the read buffer does not     *)
(* disturb the framing: every call of mqtt_read_packet, after a drain or  *)
(* a timeout, starts at a packet boundary.                                 *)
StaysFramed ==
    rpc = "idle" => \E n \in 0..Len(Sent) : pos = Boundary(n)

(* mqtt_read_packet stores only inside mqtt_read_buf.                      *)
NoReadBufOverflow == ~overflow

(* mqtt_packet_drain returns: the yield thread gets back to keep-alive    *)
(* and reconnect, also when the connection fails in the middle.            *)
DrainTerminates == rpc = "drain" ~> rpc # "drain"
=============================================================================
