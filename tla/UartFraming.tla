---------------------------- MODULE UartFraming ----------------------------
(***************************************************************************)
(* The serial line from the Lisa autopilot to a BeagleBone: frames of      *)
(* start byte, length, body and two checksums, sent byte by byte over a    *)
(* line that may lose, invent and change bytes; the reader                 *)
(* serial_input_get_lisa_data (bbones/shared/uart_communication.c); and    *)
(* what lisa_to_pc (bbones/planebone/main_plane.c) sends on, with a time   *)
(* stamp put in by add_timestamp (bbones/shared/data_decoding.c).          *)
(*                                                                         *)
(* Bytes are 0..Base-1 and a time stamp has StampSize bytes (256 and 16 in *)
(* the code).  Sequences count from one, the arrays of the code from zero. *)
(***************************************************************************)
EXTENDS Integers, SequencesExt

CONSTANTS Base,        \* the number of values of a byte
          START,       \* 0x99
          Bodies,      \* bodies of frames, before their number
          Stamps,      \* possible time stamps
          StampSize,
          MaxFrames,   \* frames sent
          MaxFaults    \* bytes lost, invented or changed; interrupted reads

UartByte == 0..Base-1

\* The length byte counts the whole frame: a body, its number and four bytes.
ASSUME UartAssumption ==
    /\ Base \in Nat /\ Base > 1
    /\ START \in UartByte \ {0}
    /\ StampSize \in Nat
    /\ MaxFrames \in Nat /\ MaxFrames < Base
    /\ MaxFaults \in Nat
    /\ Bodies \subseteq Seq(UartByte)
    /\ \A body \in Bodies : Len(body) + 5 < Base
    /\ Stamps \subseteq [1..StampSize -> UartByte]

VARIABLES sentFrames,   \* the frames the autopilot has begun to send
          rest,         \* the bytes of the last one still to be sent
          line,         \* the serial port's input queue
          phase,        \* the read serial_input_get_lisa_data is in
          buffer,       \* the bytes it has read
          arrived,      \* the frames it has returned
          datagrams,    \* what lisa_to_pc made of them
          faults,
          aligned,      \* history: no fault since the reader and the line
                        \* were idle and a frame began
          waiting       \* history: frames sent whole while aligned, which
                        \* have been neither returned nor cut off since

senderVars == <<sentFrames, rest>>
readerVars == <<phase, buffer, arrived, datagrams>>
uartVars == <<senderVars, line, readerVars, faults, aligned, waiting>>

-----------------------------------------------------------------------------
(* Frames                                                                  *)

\* Fault: the sums are kept in wider integers than the frame's bytes.
SumsNoWrap(bytes) ==
    LET first[i \in 0..Len(bytes)] ==
          IF i = 0 THEN 0 ELSE first[i - 1] + bytes[i]
    IN <<first[Len(bytes)], first[Len(bytes)]>>

\* The two sums that calculate_checksum and the reader run over the bytes.
Sums(bytes) ==
    LET first[i \in 0..Len(bytes)] ==
          IF i = 0 THEN 0 ELSE (first[i - 1] + bytes[i]) % Base
        second[i \in 0..Len(bytes)] ==
          IF i = 0 THEN 0 ELSE (second[i - 1] + first[i]) % Base
    IN <<first[Len(bytes)], second[Len(bytes)]>>

\* The bytes that are summed: all after the start byte, as far as the length
\* byte of the frame says.
Summed(frame) == SubSeq(frame, 2, frame[2] - 2)

WithSums(bytes) == bytes \o Sums(Summed(bytes))

\* What the autopilot sends, and what data_encode makes without its time stamp.
Frame(body) == WithSums(<<START, Len(body) + 4>> \o body)

\* The checks of the reader and of data_decode, at the places the length byte
\* gives.
SumsAgree(frame) ==
    LET len == frame[2] IN
    /\ {len - 1, len} \subseteq DOMAIN frame
    /\ <<frame[len - 1], frame[len]>> = Sums(Summed(frame))

Decodable(frame) == frame[1] = START /\ SumsAgree(frame)

\* Fault: the time stamp goes behind the checksums.
add_timestampAfterSums(frame, tv) ==
    WithSums(<<frame[1], (frame[2] + StampSize) % Base>>
               \o SubSeq(frame, 3, frame[2]) \o tv)

\* The time stamp goes where the checksums were.  The length byte may wrap.
add_timestamp(frame, tv) ==
    LET len == frame[2] IN
    WithSums(<<frame[1], (len + StampSize) % Base>>
               \o SubSeq(frame, 3, len - 2) \o tv)

strip_timestamp(frame) ==
    LET new == frame[2] - StampSize IN
    WithSums(<<frame[1], new % Base>> \o SubSeq(frame, 3, new - 2))

-----------------------------------------------------------------------------
UartTypeOK ==
    /\ sentFrames \in Seq(Seq(UartByte)) /\ Len(sentFrames) <= MaxFrames
    /\ rest \in Seq(UartByte)
    /\ line \in Seq(UartByte)
    /\ phase \in {"start", "length", "message"}
    /\ buffer \in Seq(UartByte)
    /\ phase # "start" => Len(buffer) = (IF phase = "length" THEN 1 ELSE 2)
                          /\ buffer[1] = START
    /\ arrived \in Seq(Seq(UartByte))
    /\ datagrams \in Seq(Seq(UartByte)) /\ Len(datagrams) = Len(arrived)
    /\ faults \in 0..MaxFaults
    /\ aligned \in BOOLEAN
    /\ waiting \in Seq(Seq(UartByte))

UartInit ==
    /\ sentFrames = << >> /\ rest = << >> /\ line = << >>
    /\ phase = "start" /\ buffer = << >>
    /\ arrived = << >> /\ datagrams = << >>
    /\ faults = 0 /\ aligned = TRUE /\ waiting = << >>

-----------------------------------------------------------------------------
(* The autopilot and the line                                              *)

Idle == phase = "start" /\ line = << >>

BeginFrame ==
    /\ rest = << >> /\ Len(sentFrames) < MaxFrames
    /\ \E body \in Bodies :
         LET f == Frame(Append(body, Len(sentFrames) + 1)) IN
         /\ sentFrames' = Append(sentFrames, f)
         /\ rest' = f
    /\ aligned' = (aligned \/ Idle)
    /\ UNCHANGED <<line, readerVars, faults, waiting>>

SendByte ==
    /\ rest # << >>
    /\ line' = Append(line, Head(rest))
    /\ rest' = Tail(rest)
    /\ waiting' = IF Len(rest) = 1 /\ aligned
                    THEN Append(waiting, Last(sentFrames)) ELSE waiting
    /\ UNCHANGED <<sentFrames, readerVars, faults, aligned>>

Fault == faults < MaxFaults /\ faults' = faults + 1 /\ aligned' = FALSE

LoseByte == /\ Fault /\ rest # << >>
            /\ rest' = Tail(rest)
            /\ UNCHANGED <<sentFrames, line, readerVars, waiting>>

ChangeByte == /\ Fault /\ rest # << >>
              /\ \E b \in UartByte \ {Head(rest)} : line' = Append(line, b)
              /\ rest' = Tail(rest)
              /\ UNCHANGED <<sentFrames, readerVars, waiting>>

InventByte == /\ Fault
              /\ \E b \in UartByte : line' = Append(line, b)
              /\ UNCHANGED <<senderVars, readerVars, waiting>>

-----------------------------------------------------------------------------
(* serial_input_get_lisa_data, called again and again by lisa_to_pc         *)

\* Fault: the bytes already read are waited for again.
StillToReadAll == buffer[2]

\* Fault: one byte more is read than the length says.
StillToReadMore == buffer[2] - 1

\* The start byte and the length are already in the buffer.
StillToRead == buffer[2] - 2

\* The bytes that the read the reader is in asks for.
Asked == IF phase = "message" THEN StillToRead ELSE 1

\* serial_port_read waits for data and for as many bytes as it was asked for.
CanRead(n) == line # << >> /\ Len(line) >= n

\* serial_port_flush_input, on every error; the caller then tries again.
Flush == /\ line' = << >>
         /\ phase' = "start" /\ buffer' = << >>
         /\ UNCHANGED <<arrived, datagrams>>

ReadStart ==
    /\ phase = "start" /\ CanRead(1)
    /\ buffer' = <<Head(line)>>
    /\ line' = Tail(line)
    /\ phase' = IF Head(line) = START THEN "length" ELSE "start"
    /\ UNCHANGED <<senderVars, arrived, datagrams, faults, aligned, waiting>>

ReadLength ==
    /\ phase = "length" /\ CanRead(1)
    /\ buffer' = Append(buffer, Head(line))
    /\ line' = Tail(line)
    /\ phase' = "message"
    /\ UNCHANGED <<senderVars, arrived, datagrams, faults, aligned, waiting>>

\* The message and its checksums.  read() refuses a negative count.  A frame
\* that passes is given its time stamp and sent on.
ReadMessage ==
    /\ phase = "message" /\ CanRead(StillToRead)
    /\ IF StillToRead < 0 THEN Flush /\ UNCHANGED waiting
       ELSE LET frame == buffer \o SubSeq(line, 1, StillToRead) IN
            IF ~SumsAgree(frame) THEN Flush /\ UNCHANGED waiting
            ELSE /\ arrived' = Append(arrived, frame)
                 /\ \E tv \in Stamps :
                      datagrams' = Append(datagrams, add_timestamp(frame, tv))
                 /\ line' = SubSeq(line, StillToRead + 1, Len(line))
                 /\ phase' = "start" /\ buffer' = << >>
                 /\ waiting' = IF waiting # << >> /\ frame = Head(waiting)
                                 THEN Tail(waiting) ELSE waiting
    /\ UNCHANGED <<senderVars, faults, aligned>>

\* read fails, in any of the three reads, once there are bytes enough; a poll
\* that is interrupted counts as data.
ReadFails == /\ Fault /\ Len(line) >= Asked
             /\ Flush
             /\ waiting' = << >>
             /\ UNCHANGED senderVars

Reader == ReadStart \/ ReadLength \/ ReadMessage

UartNext == \/ BeginFrame \/ SendByte
            \/ LoseByte \/ ChangeByte \/ InventByte
            \/ Reader \/ ReadFails

UartSpec == UartInit /\ [][UartNext]_uartVars

\* The reader runs whenever it is not blocked; a frame once begun is sent.
FairUartSpec == UartSpec /\ WF_uartVars(Reader) /\ WF_uartVars(SendByte)

-----------------------------------------------------------------------------
(* Properties                                                              *)

Line == INSTANCE LossyLine WITH disturbed <- ~aligned

\* A frame that begins when reader and line are idle, or follows such a frame,
\* and is sent without a fault is owed to the caller: whatever bytes are lost,
\* changed or invented after it, the next frames returned are those owed, whole
\* and in order, each once.  Only a failing read cuts them off.
ImplementsLossyLine == Line!Spec

\* lisa_to_pc's callers downstream accept what it sends: with the time stamp
\* a frame passes data_decode's checks, and without it (strip_timestamp) it is
\* again the frame that was read, unless the frame is so long that the stamp
\* makes its length byte wrap.  The autopilot sends none of that length.
StampedIsDecodable ==
    \A i \in DOMAIN datagrams :
        arrived[i][2] + StampSize < Base =>
            /\ Decodable(datagrams[i])
            /\ strip_timestamp(datagrams[i]) = arrived[i]

\* Every frame that is owed is returned, unless a failing read cuts it off: the
\* reader has found back to the beginning of a frame whatever happened before.
CleanFramesArrive ==
    \A k \in 1..MaxFrames :
        LET Waits == k \in DOMAIN sentFrames /\ Contains(waiting, sentFrames[k])
        IN  Waits ~> ~Waits

=============================================================================
