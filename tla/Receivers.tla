----------------------------- MODULE Receivers -----------------------------
(***************************************************************************)
(* The programs that receive the BeagleBones' UDP packets and read them    *)
(* with the decoding library, each in a process of its own: the two        *)
(* programs of bbones/server, which print, and the two components, which   *)
(* write what they read to their ports with a new time stamp:              *)
(* LineAngleSensor2, fed by armbone/main_arm.c, and ArmboneLisaSensors,    *)
(* fed by armbone/main_arm_lisa.c.  A behaviour is one of the four with    *)
(* its sender.                                                             *)
(*                                                                         *)
(* No receive times out: openUDPSocket puts 1000 seconds into tv_usec,     *)
(* which setsockopt refuses, and openUDPServerSocket does not look at its  *)
(* result.  recvfrom still fails when a signal interrupts it.              *)
(***************************************************************************)
EXTENDS DataDecoding, Sequences

CONSTANTS Programs,   \* the receivers considered
          MaxSent,    \* bound on the packets sent
          QueueSize   \* packets that the socket's buffer holds

ASSUME ReceiversAssumption ==
    /\ Programs \subseteq {"main_server", "main_line_angle",
                           "LineAngleSensor2", "ArmboneLisaSensors"}
    /\ Programs # {}
    /\ MaxSent \in Nat
    /\ QueueSize \in Nat

VARIABLES program,
          net,            \* the socket's buffer
          sent,           \* packets sent so far
          task,           \* "Running", "Stopped", or "exited"
          input_stream,
          decoder,
          value,          \* the component's measurements; what a server read
          port,           \* last sample on each port
          stamped,        \* history: the ports written in the last step
          decoded, before \* history: last message accepted, and its predecessor

history == <<decoded, before>>
vars == <<program, net, sent, task, input_stream, decoder, value, port, stamped,
          history>>

Servers == {"main_server", "main_line_angle"}

\* sizeof(input_stream); the servers insist on 30 bytes, the length of a line
\* angle message.
StreamSize(p) == CASE p = "main_server" -> 255
                   [] p = "ArmboneLisaSensors" -> 18
                   [] OTHER -> 30
ExpectedLength == 30

Packet(sender, id, len) == [sender |-> sender, id |-> id, len |-> len]

\* sendError sends its whole array, not the message at its beginning.
ErrorPacket == Packet("BONE_PLANE", "BEAGLE_ERROR", 255)

\* The packets each program is sent: those of the plane have a time stamp of
\* 16 bytes, main_arm_lisa.c forwards its three messages as they came.
Traffic(p) ==
    CASE p = "main_server" ->
           {Packet("LISA", "BARO_RAW", 30), Packet("LISA", "IMU_GYRO_RAW", 34),
            Packet("LISA", "AIRSPEED_ETS", 30), ErrorPacket}
      [] p = "ArmboneLisaSensors" ->
           {Packet("LISA", id, 18) :
               id \in {"IMU_GYRO_RAW", "IMU_ACCEL_RAW", "IMU_MAG_RAW"}}
             \cup {ErrorPacket}
      [] OTHER -> {Packet("BONE_ARM", "LINE_ANGLE_ID", 30), ErrorPacket}

Datagram == [sender : Senders, id : Ids, len : 0..255, n : 1..MaxSent]

NoStream == [start |-> FALSE, sum |-> FALSE, sender |-> "LISA",
             id |-> "SVINFO", n |-> 0]
NoValues == [id \in Ids |-> Zeros(id)]

TypeOK ==
    /\ program \in Programs
    /\ net \in Seq(Datagram) /\ Len(net) <= QueueSize
    /\ sent \in 0..MaxSent
    /\ task \in {"Running", "Stopped", "exited"}
    /\ input_stream \in Stream
    /\ decoder \in Decoder
    /\ decoder.read # decoder.write
    /\ value \in [Ids -> Value]
    /\ port \in [Ids -> Value]
    /\ stamped \in SUBSET Ids
    /\ decoded \in Value /\ before \in Value

Init ==
    /\ program \in Programs
    /\ net = << >> /\ sent = 0
    /\ task = IF program \in Servers THEN "Running" ELSE "Stopped"
    /\ input_stream = NoStream
    /\ decoder = init_decoding
    /\ value = NoValues /\ port = NoValues /\ stamped = {}
    /\ decoded = Zeros("SVINFO") /\ before = Zeros("SVINFO")

-----------------------------------------------------------------------------
(* The sender: packets get lost, and the socket's buffer drops them when full *)

Send(p) ==
    /\ sent < MaxSent
    /\ sent' = sent + 1
    /\ net' = IF Len(net) < QueueSize
                THEN Append(net, [sender |-> p.sender, id |-> p.id,
                                  len |-> p.len, n |-> sent + 1])
                ELSE net
    /\ stamped' = {}
    /\ UNCHANGED <<program, task, input_stream, decoder, value, port, history>>

Lose ==
    /\ sent < MaxSent
    /\ sent' = sent + 1
    /\ stamped' = {}
    /\ UNCHANGED <<program, net, task, input_stream, decoder, value, port,
                   history>>

-----------------------------------------------------------------------------
(* Receiving                                                               *)

\* What recvfrom may do: the number of bytes it returns, the array after it,
\* and the packets left.  A packet longer than the array is cut, and the
\* checksums are then looked for in the memory behind the array.  When a signal
\* interrupts the call the array stays as it was.
Receptions ==
    {[recv_len |-> -1, stream |-> input_stream, net |-> net]}
      \cup
    IF net = << >> THEN {}
    ELSE LET g == Head(net)
             size == StreamSize(program)
         IN {[recv_len |-> IF g.len > size THEN size ELSE g.len,
              stream |-> [start |-> TRUE, sum |-> sum, sender |-> g.sender,
                          id |-> g.id, n |-> g.n],
              net |-> Tail(net)] :
                sum \in IF g.len > size THEN BOOLEAN ELSE {TRUE}}

\* Fault: the halves are exchanged after an error as well.
AcceptedAnyChecksum(stream) == stream.start

Accepted(stream) == DecodeError(stream) = "DEC_ERR_NONE"

\* data_decode, and the halves change places if the message was accepted.
Decode(stream) ==
    /\ decoder' = LET d == data_decode(decoder, stream)
                  IN IF Accepted(stream) THEN switch_read_write(d) ELSE d
    /\ decoded' = IF Accepted(stream) THEN [id |-> stream.id, n |-> stream.n]
                                      ELSE decoded
    /\ before' = IF Accepted(stream) THEN decoded ELSE before

\* The servers decode packets of the right length only.
RightLength(r) == r.recv_len = ExpectedLength

\* A server calls get_read_pointer after the exchange.
ReadByServer == get_read_pointer(decoder')

\* The servers exit at a message that they cannot decode.
TaskAfter(stream) == IF Accepted(stream) THEN "Running" ELSE "exited"

\* One round of a server's loop.
ServerLoop ==
    /\ program \in Servers /\ task = "Running"
    /\ \E r \in Receptions :
         /\ net' = r.net
         /\ input_stream' = r.stream
         /\ IF ~RightLength(r)
              THEN UNCHANGED <<task, decoder, value, history>>
              ELSE /\ Decode(r.stream)
                   /\ value' = IF Accepted(r.stream)
                                 THEN [value EXCEPT ![r.stream.id] =
                                         ReadByServer[r.stream.id]]
                                 ELSE value
                   /\ task' = TaskAfter(r.stream)
    /\ stamped' = {}
    /\ UNCHANGED <<program, sent, port>>

-----------------------------------------------------------------------------
(* The components                                                          *)

Measured == IF program = "LineAngleSensor2"
              THEN {"LINE_ANGLE_ID"}
              ELSE {"IMU_GYRO_RAW", "IMU_MAG_RAW", "IMU_ACCEL_RAW"}

\* ArmboneReceiver::read and ArmboneLisaReceiver::read go on after a failed
\* receive ("exception();" makes an object and drops it) and decode whatever
\* the array holds.  Their read pointer is the one from before the exchange.
ReadByComponent(stream) == get_read_pointer(data_decode(decoder, stream))

read(r) ==
    /\ net' = r.net
    /\ input_stream' = r.stream
    /\ Decode(r.stream)
    /\ value' = IF Accepted(r.stream) /\ r.stream.id \in Measured
                  THEN [value EXCEPT ![r.stream.id] =
                          ReadByComponent(r.stream)[r.stream.id]]
                  ELSE value

\* The ports updateHook writes: the angles always, an IMU message only when
\* read() has just returned its type.
Written(r) ==
    IF program = "LineAngleSensor2" THEN Measured
    ELSE IF Accepted(r.stream) THEN Measured \cap {r.stream.id}
    ELSE {}

startHook ==
    /\ program \notin Servers /\ task = "Stopped"
    /\ \E r \in Receptions : read(r)
    /\ task' = "Running"
    /\ stamped' = {}
    /\ UNCHANGED <<program, sent, port>>

updateHook ==
    /\ program \notin Servers /\ task = "Running"
    /\ \E r \in Receptions :
         /\ read(r)
         /\ stamped' = Written(r)
    /\ port' = [id \in Ids |-> IF id \in stamped' THEN value'[id] ELSE port[id]]
    /\ UNCHANGED <<program, sent, task>>

stopHook ==
    /\ program \notin Servers /\ task = "Running"
    /\ task' = "Stopped"
    /\ stamped' = {}
    /\ UNCHANGED <<program, net, sent, input_stream, decoder, value, port,
                   history>>

Next ==
    \/ \E p \in Traffic(program) : Send(p)
    \/ Lose
    \/ ServerLoop
    \/ startHook \/ updateHook \/ stopHook

Spec == Init /\ [][Next]_vars

-----------------------------------------------------------------------------
(* Properties                                                              *)

\* The two halves always hold the last two messages accepted, each in the half
\* it was decoded into, whatever was refused, lost or repeated in between and
\* however often the component was restarted ("one writes to ping and another
\* can read data from pong and upside down").
LastTwoKept ==
    /\ get_read_pointer(decoder)[decoded.id].n = decoded.n
    /\ decoder.data[decoder.write][before.id].n = before.n

\* What any program shows or publishes of a kind was sent as that kind: the
\* fields of the two halves never mix messages.
OnlyWhatWasSent ==
    \A id \in Ids : /\ value[id].id = id /\ port[id].id = id
                    /\ value[id].n <= sent

\* A server shows the very message it has just decoded.
ServersShowTheLatest ==
    program \in Servers => value[decoded.id].n = decoded.n

\* The line angle published with a received packet is the one of the packet
\* accepted before it, unless that was an error packet, whose half still holds an
\* older angle.
OneBehind ==
    [][ /\ program = "LineAngleSensor2" /\ decoded' # decoded
        /\ decoded'.id = "LINE_ANGLE_ID" /\ before'.id # "BEAGLE_ERROR"
        => value'["LINE_ANGLE_ID"].n = before'.n ]_vars

\* "Do blocking wait for new line angle measurements here": a sample written
\* with a new time stamp is a new measurement.  The code breaks this, a failed
\* receive is decoded like the others (README, section 4).
StampedIsNew ==
    [][ "LINE_ANGLE_ID" \in stamped' =>
          port'["LINE_ANGLE_ID"].n > port["LINE_ANGLE_ID"].n ]_vars

=============================================================================
