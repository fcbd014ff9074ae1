------------------------------- MODULE DTS6012M -------------------------------
(***************************************************************************)
(* The DTS6012M serial rangefinder: the driver's get_reading, with its    *)
(* line buffer and find_signature_in_buffer resynchronisation, reading    *)
(* the 23-byte frames that the sensor (as SITL's packet_for_alt builds    *)
(* them) streams over a UART that may lose, garble or insert bytes.      *)
(* The sensor writes only while the receive buffer has room.            *)
(*                                                                         *)
(* A byte is its value, abstracted to the values the driver compares      *)
(* with ("A5", "03", ...) and "X" for every other value, together with    *)
(* its origin: the frame kind and offset it was sent at, or "noise".      *)
(* Two frames of one kind have the same bytes, so the CRC-16 of a buffer  *)
(* matches exactly when its 23 bytes are one kind's bytes at offsets      *)
(* 0..22 (a CRC collision on a garbled frame is not modelled).            *)
(***************************************************************************)
EXTENDS Integers, Sequences, SequencesExt, FiniteSets

CONSTANTS
    Kinds,      \* frames the sensor sends, see FrameByte
    Chunks,     \* offsets at which the sensor's writes of a frame may pause
    RxCap,      \* bytes the UART receive buffer holds
    MaxFaults,  \* line faults over a behaviour: lost, garbled, inserted bytes
    MaxResets,  \* sensor power cycles over a behaviour
    Faults      \* which of "line", "reset" may happen

ASSUME Kinds \subseteq {"near", "a5dist", "a5crc", "out"} /\ Kinds # {}
ASSUME RxCap \in Nat \ {0} /\ MaxFaults \in Nat /\ MaxResets \in Nat
ASSUME Faults \subseteq {"line", "reset"}
ASSUME Chunks \subseteq 1..22

FrameLen == 23      \* DTS6012M_FRAME_LEN = 7 + 14 + 2
Vals == {"A5", "03", "20", "01", "00", "0E", "FF", "10", "27", "X"}
Bytes == [v : Vals, k : -1..(FrameLen - 1), kind : Kinds \cup {"noise"}]

\* packet_for_alt: the byte at offset k of a frame.  "near" is a distance
\* under 20 m whose bytes are not 0xA5, "a5dist" one whose low byte is 0xA5,
\* "a5crc" one whose CRC high byte is 0xA5, "out" the 0xFFFF sent beyond 20 m.
FrameByte(kind, k) ==
    CASE k = 0 -> "A5"
      [] k = 1 -> "03"
      [] k = 2 -> "20"
      [] k = 3 -> "01"
      [] k = 6 -> "0E"
      [] k \in {7, 8} -> "FF"
      [] k = 13 -> (CASE kind = "out" -> "FF" [] kind = "a5dist" -> "A5"
                     [] OTHER -> "X")
      [] k = 14 -> (IF kind = "out" THEN "FF" ELSE "X")
      [] k = 17 -> "10"
      [] k = 18 -> "27"
      [] k = 21 -> (IF kind = "a5crc" THEN "A5" ELSE "X")
      [] k = 22 -> "X"
      [] OTHER -> "00"

Sent(kind, k) == [v |-> FrameByte(kind, k), k |-> k, kind |-> kind]
Noise(val) == [v |-> val, k |-> -1, kind |-> "noise"]

VARIABLES
    buf,         \* frame as bytes, Len(buf) = linebuf_len
    gotReading,  \* got_reading
    reading,     \* the last reading_m returned: "none", "dist" or "beyond"
    fresh,       \* the last call of get_reading returned true
    accepted,    \* ghost: the frame kind the last reading was decoded from
    wire,        \* bytes in the UART receive buffer
    connected,   \* the sensor is powered and attached
    streaming,   \* the sensor has been started and streams frames
    pos,         \* offset of the next byte of the frame being sent
    kind,        \* kind of the frame being sent
    faults,      \* line faults so far
    resets       \* sensor power cycles so far

vars == <<buf, gotReading, reading, fresh, accepted, wire, connected,
          streaming, pos, kind, faults, resets>>

TypeOK ==
    /\ buf \in Seq(Bytes) /\ Len(buf) <= FrameLen
    /\ wire \in Seq(Bytes) /\ Len(wire) <= RxCap
    /\ {gotReading, fresh, connected, streaming} \subseteq BOOLEAN
    /\ reading \in {"none", "dist", "beyond"}
    /\ accepted \in Kinds \cup {"none"}
    /\ pos \in {0} \cup Chunks /\ kind \in Kinds
    /\ faults \in 0..MaxFaults /\ resets \in 0..MaxResets

\* mutant: the search includes the byte at offset start
FindSignatureFromStart(b, start) ==
    LET i == SelectInSubSeq(b, start, Len(b), LAMBDA x : x.v = "A5")
    IN IF i = 0 THEN <<>> ELSE SubSeq(b, i, Len(b))

\* find_signature_in_buffer(start): drop the bytes before the first 0xA5 at
\* or after offset start, or everything when there is none
FindSignatureInBuffer(b, start) ==
    LET i == SelectInSubSeq(b, start + 1, Len(b), LAMBDA x : x.v = "A5")
    IN IF i = 0 THEN <<>> ELSE SubSeq(b, i, Len(b))

\* the header fields and be16toh(frame.data_len) == DTS6012M_DATA_LEN
HeaderValid(b) ==
    /\ b[2].v = "03" /\ b[3].v = "20" /\ b[4].v = "01"
    /\ b[6].v = "00" /\ b[7].v = "0E"

\* calc_crc_modbus over bytes 0..20 equals the big-endian CRC in 21..22
CrcValid(b) == \A i \in 1..FrameLen : b[i] = Sent(b[1].kind, i - 1)

\* mutant: the secondary target's distance is decoded
BeyondSecondary(b) == b[8].v = "FF" /\ b[9].v = "FF"

\* le16toh(frame.primary_distance_mm) is 0xFFFF (or above 20000 mm)
Beyond(b) == b[14].v = "FF" /\ b[15].v = "FF"

\* mutant: the read size is sizeof(frame), without - linebuf_len
ReadCountNoOffset(b, w) == IF Len(w) < FrameLen THEN Len(w) ELSE FrameLen

\* uart->read(&buf[linebuf_len], sizeof(frame) - linebuf_len)
ReadCount(b, w) == IF Len(w) < FrameLen - Len(b) THEN Len(w) ELSE FrameLen - Len(b)

\* mutant: a frame that fails validation empties the buffer instead of
\* searching it for the next header
ParseResetOnReject(b) ==
    CASE Len(b) = 0 -> [r |-> "wait", b |-> b]
      [] b[1].v # "A5" -> [r |-> "reject", b |-> FindSignatureInBuffer(b, 1)]
      [] Len(b) < FrameLen -> [r |-> "wait", b |-> b]
      [] ~HeaderValid(b) \/ ~CrcValid(b) -> [r |-> "reject", b |-> <<>>]
      [] OTHER -> [r |-> "accept", b |-> <<>>]

\* the checks of get_reading after the bulk read: "reject" with the buffer
\* left by find_signature_in_buffer(1), "wait" for more bytes, or "accept"
Parse(b) ==
    CASE Len(b) = 0 -> [r |-> "wait", b |-> b]
      [] b[1].v # "A5" -> [r |-> "reject", b |-> FindSignatureInBuffer(b, 1)]
      [] Len(b) < FrameLen -> [r |-> "wait", b |-> b]
      [] ~HeaderValid(b) \/ ~CrcValid(b) ->
            [r |-> "reject", b |-> FindSignatureInBuffer(b, 1)]
      [] OTHER -> [r |-> "accept", b |-> <<>>]

Init ==
    /\ buf = <<>>
    /\ gotReading = FALSE
    /\ reading = "none"
    /\ fresh = FALSE
    /\ accepted = "none"
    /\ wire = <<>>
    /\ connected \in BOOLEAN
    /\ streaming = FALSE
    /\ pos = 0
    /\ kind \in Kinds
    /\ faults = 0
    /\ resets = 0

\* AP_RangeFinder_DTS6012M::get_reading, called from the backend's update
GetReading ==
    LET n == ReadCount(buf, wire)
        p == Parse(buf \o SubSeq(wire, 1, n))
    IN
    /\ streaming' = (streaming \/ (~gotReading /\ connected))
    /\ buf' = p.b
    /\ fresh' = (p.r = "accept")
    /\ IF p.r = "accept"
       THEN /\ wire' = <<>>
            /\ gotReading' = TRUE
            /\ reading' = IF Beyond(buf \o SubSeq(wire, 1, n))
                          THEN "beyond" ELSE "dist"
            /\ accepted' = (buf \o SubSeq(wire, 1, n))[1].kind
       ELSE /\ wire' = SubSeq(wire, n + 1, Len(wire))
            /\ UNCHANGED <<gotReading, reading, accepted>>
    /\ UNCHANGED <<connected, pos, kind, faults, resets>>

\* line noise on the bytes at offsets j..: the byte at j is lost, garbled
\* or has a byte inserted before it
Faulted(s, j, mode) ==
    CASE mode = "lost" -> SubSeq(s, 1, j - 1) \o SubSeq(s, j + 1, Len(s))
      [] mode \in {"A5", "X"} -> [s EXCEPT ![j] = Noise(mode)]
      [] OTHER -> SubSeq(s, 1, j - 1) \o <<Noise("X")>> \o SubSeq(s, j, Len(s))

\* the sensor writes the bytes of its frame from pos up to the next offset
\* in Chunks (or the frame's end) to the UART, once the receive buffer has
\* room for them and for one inserted byte.  With "line" a fault may hit one byte of the write.
Emit ==
    /\ streaming
    /\ LET e == CHOOSE c \in Chunks \cup {FrameLen} :
                    c > pos /\ \A d \in Chunks : d > pos => c <= d
       IN
        /\ Len(wire) + (e - pos) < RxCap
        /\ LET s == [i \in 1..(e - pos) |-> Sent(kind, pos + i - 1)] IN
           \/ /\ wire' = wire \o s
              /\ UNCHANGED faults
           \/ /\ "line" \in Faults
              /\ faults < MaxFaults
              /\ faults' = faults + 1
              /\ \E j \in 1..Len(s), mode \in {"lost", "A5", "X", "inserted"} :
                    wire' = wire \o Faulted(s, j, mode)
        /\ pos' = e % FrameLen
        /\ kind' \in IF e = FrameLen THEN Kinds ELSE {kind}
    /\ UNCHANGED <<buf, gotReading, reading, fresh, accepted, connected,
                   streaming, resets>>

Connect ==
    /\ ~connected
    /\ connected' = TRUE
    /\ UNCHANGED <<buf, gotReading, reading, fresh, accepted, wire, streaming,
                   pos, kind, faults, resets>>

\* the sensor loses power and comes back: it waits for a start command
SensorReset ==
    /\ "reset" \in Faults
    /\ resets < MaxResets
    /\ streaming
    /\ resets' = resets + 1
    /\ streaming' = FALSE
    /\ pos' = 0
    /\ UNCHANGED <<buf, gotReading, reading, fresh, accepted, wire, connected,
                   kind, faults>>

Next == GetReading \/ Emit \/ Connect \/ SensorReset

\* the backend's update calls get_reading at the scheduler's rate and a
\* started sensor keeps streaming; the link and the power get no fairness
Fairness == WF_vars(GetReading) /\ WF_vars(Emit)

Spec == Init /\ [][Next]_vars /\ Fairness

(***************************************************************************)
(* Properties.                                                             *)
(***************************************************************************)

\* the sensor's frame-start bytes among the bytes in s
FrameStarts(s) == Cardinality({i \in 1..Len(s) : s[i].k = 0})

\* A call of get_reading that returns no reading never loses the start of
\* a frame that follows the buffer's first byte: find_signature_in_buffer(1)
\* keeps everything from the next 0xA5 on, so after line noise or a false
\* header (a 0xA5 inside a distance or CRC) the driver resynchronises on
\* the next frame rather than discarding it.
ResyncKeepsFrameStarts ==
    [][~fresh' /\ buf \o wire # <<>> =>
          FrameStarts(buf' \o wire') >= FrameStarts(Tail(buf \o wire))]_vars

\* Every reading get_reading returns is the primary distance of the frame it
\* decoded: beyond the maximum exactly for the 0xFFFF that packet_for_alt
\* sends above 20 m, a measured distance otherwise.
DecodesPrimaryDistance ==
    fresh => reading = IF accepted = "out" THEN "beyond" ELSE "dist"

\* While the sensor streams, get_reading keeps returning readings: after
\* any finite amount of line noise, and after a false header, the parser
\* finds the frames again (unless the sensor stops streaming).
ReadsWhileStreaming == [](streaming => <>(fresh \/ ~streaming))

\* Once the sensor is connected, get_reading keeps returning readings: the
\* start command, sent until the first frame arrives, starts the sensor,
\* as the driver's comment has it, after a slow start-up or a late
\* connection.
KeepsReading == [](connected => <>fresh)

=============================================================================
