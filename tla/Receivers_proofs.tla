--------------------------- MODULE Receivers_proofs ---------------------------
(***************************************************************************)
(* The two halves of the decoding library, in every receiver, with any     *)
(* number of packets and any size of the socket's buffer: they hold the    *)
(* last two messages accepted, messages of different kinds never mix, a    *)
(* server shows the message it has just decoded, and a line angle is       *)
(* published with the packet after it.                                     *)
(***************************************************************************)
EXTENDS Receivers, SequenceTheorems, TLAPS

-----------------------------------------------------------------------------
(* Kinds of messages.                                                      *)

LEMMA SendersAre == Senders = {"LISA", "BONE_PLANE", "BONE_WIND", "BONE_ARM"}
  BY DEF Senders, KnownIds

LEMMA IdsAreKnown ==
  /\ KnownIds["LISA"] \subseteq Ids /\ KnownIds["BONE_PLANE"] \subseteq Ids
  /\ KnownIds["BONE_ARM"] \subseteq Ids
  BY SendersAre DEF Ids

LEMMA SomeIds ==
  {"SVINFO", "BARO_RAW", "IMU_GYRO_RAW", "IMU_ACCEL_RAW", "IMU_MAG_RAW",
   "AIRSPEED_ETS", "BEAGLE_ERROR", "LINE_ANGLE_ID"} \subseteq Ids
  BY IdsAreKnown DEF KnownIds

\* Every packet a program is sent is of a kind that exists.
LEMMA TrafficIsKnown ==
  ASSUME NEW p, NEW k \in Traffic(p)
  PROVE  k.sender \in Senders /\ k.id \in Ids /\ k.len \in 0..255
  BY SendersAre, SomeIds DEF Traffic, ErrorPacket, Packet

LEMMA ZerosAreValues == ASSUME NEW id \in Ids PROVE Zeros(id) \in Value
  BY DEF Zeros, Value

-----------------------------------------------------------------------------
(* The decoding library.                                                   *)

LEMMA InitIsDecoder ==
  init_decoding \in Decoder /\ init_decoding.read # init_decoding.write
  BY ZerosAreValues DEF init_decoding, Decoder, Halves

\* data_write changes one field of the half being written.
LEMMA WriteEffect ==
  ASSUME NEW d \in Decoder, NEW s \in Stream
  PROVE  /\ data_write(d, s) \in Decoder
         /\ data_write(d, s).read = d.read
         /\ data_write(d, s).write = d.write
         /\ \A h \in Halves, id \in Ids :
              data_write(d, s).data[h][id] =
                IF h = d.write /\ id = s.id THEN [id |-> s.id, n |-> s.n]
                                            ELSE d.data[h][id]
<1> DEFINE new == [id \in Ids |-> IF id \in {s.id} THEN [id |-> s.id, n |-> s.n]
                                  ELSE d.data[d.write][id]]
<1>1. /\ d.read \in Halves /\ d.write \in Halves
      /\ d.data \in [Halves -> [Ids -> Value]]
      /\ d = [read |-> d.read, write |-> d.write, data |-> d.data]
  BY DEF Decoder
<1>2. s.id \in Ids /\ [id |-> s.id, n |-> s.n] \in Value
  BY DEF Stream, Value
<1>3. new \in [Ids -> Value]
  BY <1>1, <1>2
<1>4. data_write(d, s) = [read |-> d.read, write |-> d.write,
                          data |-> [d.data EXCEPT ![d.write] = new]]
  <2>1. data_write(d, s) = [d EXCEPT !.data = [d.data EXCEPT ![d.write] = new]]
    BY Zenon DEF data_write, FieldsWritten
  <2> HIDE DEF new
  <2> QED BY <1>1, <2>1
<1> HIDE DEF new
<1>5. [d.data EXCEPT ![d.write] = new] \in [Halves -> [Ids -> Value]]
  BY <1>1, <1>3
<1>6. ASSUME NEW h \in Halves, NEW id \in Ids
      PROVE  [d.data EXCEPT ![d.write] = new][h][id] =
                IF h = d.write /\ id = s.id THEN [id |-> s.id, n |-> s.n]
                                            ELSE d.data[h][id]
  BY <1>1 DEF new
<1> QED BY <1>1, <1>4, <1>5, <1>6 DEF Decoder

LEMMA SwitchEffect ==
  ASSUME NEW d \in Decoder
  PROVE  /\ switch_read_write(d) \in Decoder
         /\ switch_read_write(d).read = d.write
         /\ switch_read_write(d).write = d.read
         /\ switch_read_write(d).data = d.data
  BY DEF switch_read_write, Decoder

-----------------------------------------------------------------------------
(* Receiving.                                                              *)

\* A receive leaves the array as it was, or fills it from the oldest packet.
LEMMA ReceptionEffect ==
  ASSUME TypeOK, NEW r \in Receptions
  PROVE  \/ r.stream = input_stream /\ r.net = net
         \/ /\ net # << >> /\ r.net = Tail(net)
            /\ r.stream \in Stream
            /\ r.stream.id = Head(net).id /\ r.stream.n = Head(net).n
<1>1. CASE r = [recv_len |-> -1, stream |-> input_stream, net |-> net]
  BY <1>1
<1>2. CASE r # [recv_len |-> -1, stream |-> input_stream, net |-> net]
  <2>1. net # << >>
    BY <1>2 DEF Receptions
  <2>2. Head(net) \in Datagram
    BY <2>1, HeadTailProperties DEF TypeOK
  <2> DEFINE size == StreamSize(program)
             cut == Head(net).len > size
             filled(sum) == [recv_len |-> IF cut THEN size ELSE Head(net).len,
                             stream |-> [start |-> TRUE, sum |-> sum,
                                         sender |-> Head(net).sender,
                                         id |-> Head(net).id, n |-> Head(net).n],
                             net |-> Tail(net)]
  <2>3. PICK sum \in IF cut THEN BOOLEAN ELSE {TRUE} : r = filled(sum)
    <3> HIDE DEF size
    <3>1. r \in {filled(sum) : sum \in IF cut THEN BOOLEAN ELSE {TRUE}}
      BY <1>2, <2>1, Zenon DEF Receptions, size
    <3> QED BY <3>1
  <2>4. r.stream \in Stream
    <3>1. Head(net).sender \in Senders /\ Head(net).id \in Ids /\ Head(net).n \in Nat
      BY <2>2, ReceiversAssumption DEF Datagram
    <3> QED BY <2>3, <3>1 DEF Stream
  <2> QED BY <2>1, <2>3, <2>4
<1> QED BY <1>1, <1>2

LEMMA ReceptionType ==
  ASSUME TypeOK, NEW r \in Receptions
  PROVE  r.stream \in Stream /\ r.net \in Seq(Datagram) /\ Len(r.net) <= QueueSize
<1>1. CASE r.stream = input_stream /\ r.net = net
  BY <1>1 DEF TypeOK
<1>2. CASE net # << >> /\ r.net = Tail(net) /\ r.stream \in Stream
  <2>1. net \in Seq(Datagram) /\ Len(net) <= QueueSize
    BY DEF TypeOK
  <2>2. Tail(net) \in Seq(Datagram) /\ Len(Tail(net)) = Len(net) - 1
    BY <2>1, <1>2, HeadTailProperties
  <2>3. QueueSize \in Nat /\ Len(net) \in Nat
    BY <2>1, ReceiversAssumption
  <2> QED BY <1>2, <2>1, <2>2, <2>3
<1> QED BY <1>1, <1>2, ReceptionEffect

\* What Decode does to the halves and to the history.
LEMMA DecodeRefused ==
  ASSUME TypeOK, NEW s \in Stream, Decode(s), ~Accepted(s)
  PROVE  decoder' = decoder /\ decoded' = decoded /\ before' = before
  BY DEF Decode, Accepted, data_decode

LEMMA DecodeAccepted ==
  ASSUME TypeOK, NEW s \in Stream, Decode(s), Accepted(s)
  PROVE  /\ decoder' \in Decoder
         /\ decoder'.read = decoder.write /\ decoder'.write = decoder.read
         /\ \A h \in Halves, id \in Ids :
              decoder'.data[h][id] =
                IF h = decoder.write /\ id = s.id THEN [id |-> s.id, n |-> s.n]
                                                  ELSE decoder.data[h][id]
         /\ decoded' = [id |-> s.id, n |-> s.n] /\ decoded' \in Value
         /\ before' = decoded
<1>1. decoder \in Decoder
  BY DEF TypeOK
<1>2. decoder' = switch_read_write(data_write(decoder, s))
  BY DEF Decode, Accepted, data_decode
<1>3. [id |-> s.id, n |-> s.n] \in Value
  BY DEF Stream, Value
<1> QED BY <1>1, <1>2, <1>3, WriteEffect, SwitchEffect DEF Decode

-----------------------------------------------------------------------------
(* Types.                                                                  *)

LEMMA InitTypeOK == Init => TypeOK
<1> SUFFICES ASSUME Init PROVE TypeOK
  OBVIOUS
<1>1. \A id \in Ids : Zeros(id) \in Value
  BY ZerosAreValues
<1>2. NoValues \in [Ids -> Value]
  BY <1>1 DEF NoValues
<1>3. NoStream \in Stream
  BY SendersAre, SomeIds DEF NoStream, Stream
<1>4. net \in Seq(Datagram) /\ Len(net) <= QueueSize
  BY ReceiversAssumption DEF Init
<1>5. Zeros("SVINFO") \in Value
  BY <1>1, SomeIds
<1>6. sent \in 0..MaxSent /\ stamped \in SUBSET Ids
  BY ReceiversAssumption DEF Init
<1>7. decoder \in Decoder /\ decoder.read # decoder.write
  BY InitIsDecoder DEF Init
<1>8. task \in {"Running", "Stopped", "exited"} /\ program \in Programs
  BY DEF Init
<1> QED BY <1>2, <1>3, <1>4, <1>5, <1>6, <1>7, <1>8 DEF Init, TypeOK

\* What decoding a reception keeps of the types.
LEMMA DecodeType ==
  ASSUME TypeOK, NEW s \in Stream, Decode(s)
  PROVE  /\ decoder' \in Decoder /\ decoder'.read # decoder'.write
         /\ decoded' \in Value /\ before' \in Value
<1>1. decoder.read # decoder.write /\ decoded \in Value /\ before \in Value
      /\ decoder \in Decoder
  BY DEF TypeOK
<1>2. CASE Accepted(s)
  BY <1>1, <1>2, DecodeAccepted
<1>3. CASE ~Accepted(s)
  BY <1>1, <1>3, DecodeRefused
<1> QED BY <1>2, <1>3

\* The fields of the half being read are values.
LEMMA FieldType ==
  ASSUME NEW d \in Decoder PROVE get_read_pointer(d) \in [Ids -> Value]
  BY DEF get_read_pointer, Decoder

LEMMA SendType ==
  ASSUME TypeOK, NEW p \in Traffic(program), Send(p) PROVE TypeOK'
<1>1. sent \in Nat /\ sent < MaxSent /\ MaxSent \in Nat /\ sent' = sent + 1
  BY ReceiversAssumption DEF TypeOK, Send
<1> DEFINE g == [sender |-> p.sender, id |-> p.id, len |-> p.len, n |-> sent + 1]
<1>2. g \in Datagram
  BY <1>1, TrafficIsKnown DEF Datagram
<1> HIDE DEF g
<1>3. net' \in Seq(Datagram) /\ Len(net') <= QueueSize
  <2>1. net' = IF Len(net) < QueueSize THEN Append(net, g) ELSE net
    BY DEF Send, g
  <2>2. net \in Seq(Datagram) /\ Len(net) <= QueueSize /\ QueueSize \in Nat
    BY ReceiversAssumption DEF TypeOK
  <2>3. Append(net, g) \in Seq(Datagram) /\ Len(Append(net, g)) = Len(net) + 1
    BY <1>2, <2>2, AppendProperties
  <2>4. Len(net) \in Nat
    BY <2>2
  <2> QED BY <2>1, <2>2, <2>3, <2>4
<1>4. sent' \in 0..MaxSent
  BY <1>1
<1> QED BY <1>3, <1>4 DEF TypeOK, Send, history

LEMMA ServerLoopType == ASSUME TypeOK, ServerLoop PROVE TypeOK'
<1>1. PICK r \in Receptions :
        /\ net' = r.net
        /\ input_stream' = r.stream
        /\ IF ~RightLength(r)
             THEN UNCHANGED <<task, decoder, value, history>>
             ELSE /\ Decode(r.stream)
                  /\ value' = IF Accepted(r.stream)
                                THEN [value EXCEPT ![r.stream.id] =
                                        ReadByServer[r.stream.id]]
                                ELSE value
                  /\ task' \in {"Running", "exited"}
  BY DEF ServerLoop, TaskAfter
<1>2. net' \in Seq(Datagram) /\ Len(net') <= QueueSize /\ input_stream' \in Stream
  BY <1>1, ReceptionType
<1>3. program' = program /\ sent' = sent /\ port' = port /\ stamped' = {}
  BY DEF ServerLoop
<1>4. CASE ~RightLength(r)
  BY <1>1, <1>2, <1>3, <1>4 DEF TypeOK, history
<1>5. CASE RightLength(r)
  <2>1. Decode(r.stream) /\ r.stream \in Stream
    BY <1>1, <1>5, ReceptionType
  <2>2. /\ decoder' \in Decoder /\ decoder'.read # decoder'.write
        /\ decoded' \in Value /\ before' \in Value
    BY <2>1, DecodeType
  <2>3. ReadByServer \in [Ids -> Value]
    BY <2>2, FieldType DEF ReadByServer
  <2>4. r.stream.id \in Ids
    BY <2>1 DEF Stream
  <2>5. value' \in [Ids -> Value]
    BY <1>1, <1>5, <2>3, <2>4 DEF TypeOK
  <2>6. task' \in {"Running", "Stopped", "exited"}
    BY <1>1, <1>5 DEF TypeOK
  <2> QED BY <1>2, <1>3, <2>2, <2>5, <2>6 DEF TypeOK
<1> QED BY <1>4, <1>5

LEMMA readType ==
  ASSUME TypeOK, NEW r \in Receptions, read(r)
  PROVE  /\ net' \in Seq(Datagram) /\ Len(net') <= QueueSize
         /\ input_stream' \in Stream
         /\ decoder' \in Decoder /\ decoder'.read # decoder'.write
         /\ decoded' \in Value /\ before' \in Value
         /\ value' \in [Ids -> Value]
<1>1. r.stream \in Stream /\ net' = r.net /\ input_stream' = r.stream
      /\ Decode(r.stream)
  BY ReceptionType DEF read
<1>2. data_decode(decoder, r.stream) \in Decoder
  BY <1>1, WriteEffect DEF TypeOK, data_decode
<1>3. ReadByComponent(r.stream) \in [Ids -> Value]
  BY <1>2, FieldType DEF ReadByComponent
<1>4. r.stream.id \in Ids
  BY <1>1 DEF Stream
<1>5. value' \in [Ids -> Value]
  BY <1>3, <1>4 DEF TypeOK, read
<1> QED BY <1>1, <1>5, ReceptionType, DecodeType

LEMMA NextTypeOK == TypeOK /\ [Next]_vars => TypeOK'
<1> SUFFICES ASSUME TypeOK, [Next]_vars PROVE TypeOK'
  OBVIOUS
<1>1. ASSUME NEW p \in Traffic(program), Send(p) PROVE TypeOK'
  BY <1>1, SendType
<1>2. CASE Lose
  <2>1. sent' \in 0..MaxSent
    BY <1>2, ReceiversAssumption DEF TypeOK, Lose
  <2> QED BY <1>2, <2>1 DEF TypeOK, Lose, history
<1>3. CASE ServerLoop
  BY <1>3, ServerLoopType
<1>4. CASE startHook
  <2>1. PICK r \in Receptions : read(r)
    BY <1>4 DEF startHook
  <2> QED BY <1>4, <2>1, readType DEF TypeOK, startHook
<1>5. CASE updateHook
  <2>1. PICK r \in Receptions : read(r) /\ stamped' = Written(r)
    BY <1>5 DEF updateHook
  <2>2. value' \in [Ids -> Value]
    BY <2>1, readType
  <2>3. stamped' \subseteq Ids
    BY <2>1, SomeIds DEF Written, Measured
  <2>4. port' \in [Ids -> Value]
    BY <1>5, <2>2 DEF TypeOK, updateHook
  <2> QED BY <1>5, <2>1, <2>3, <2>4, readType DEF TypeOK, updateHook
<1>6. CASE stopHook
  BY <1>6 DEF TypeOK, stopHook, history
<1>7. CASE UNCHANGED vars
  BY <1>7 DEF TypeOK, vars, history
<1> QED BY <1>1, <1>2, <1>3, <1>4, <1>5, <1>6, <1>7 DEF Next

\* Whatever is received, the buffers, the halves, the values read and the ports
\* keep their types, and the two pointers never name the same half.
THEOREM TypeCorrect == Spec => []TypeOK
  BY InitTypeOK, NextTypeOK, PTL DEF Spec

-----------------------------------------------------------------------------
(* The last two messages.                                                  *)

\* The steps that decode nothing.
LEMMA OtherSteps ==
  ASSUME \/ \E p \in Traffic(program) : Send(p)
         \/ Lose \/ stopHook \/ UNCHANGED vars
  PROVE  UNCHANGED <<program, input_stream, decoder, value, port, history>>
  BY DEF Send, Lose, stopHook, vars

\* Every step decodes a reception or leaves the decoder and the history alone.
LEMMA DecodesOrNot ==
  ASSUME TypeOK, [Next]_vars
  PROVE  \/ UNCHANGED <<decoder, history>>
         \/ \E r \in Receptions : r.stream \in Stream /\ Decode(r.stream)
<1>1. CASE \E p \in Traffic(program) : Send(p)
  BY <1>1, OtherSteps
<1>2. CASE Lose \/ stopHook \/ UNCHANGED vars
  BY <1>2, OtherSteps
<1>3. CASE ServerLoop
  <2>1. PICK r \in Receptions :
          IF ~RightLength(r) THEN UNCHANGED <<task, decoder, value, history>>
                             ELSE Decode(r.stream)
    BY <1>3, Zenon DEF ServerLoop
  <2> QED BY <2>1, ReceptionType
<1>4. CASE startHook \/ updateHook
  <2>1. PICK r \in Receptions : Decode(r.stream)
    BY <1>4, Zenon DEF startHook, updateHook, read
  <2> QED BY <2>1, ReceptionType
<1> QED BY <1>1, <1>2, <1>3, <1>4 DEF Next

LEMMA InitLastTwo == Init => LastTwoKept
<1> SUFFICES ASSUME Init PROVE LastTwoKept
  OBVIOUS
<1>1. \A h \in Halves : decoder.data[h]["SVINFO"] = Zeros("SVINFO")
  BY SomeIds DEF Init, init_decoding
<1> QED BY <1>1 DEF Init, LastTwoKept, init_decoding, get_read_pointer, Zeros, Halves

\* The half that was read last is not touched before the halves change places.
LEMMA DecodeKeepsTwo ==
  ASSUME TypeOK, LastTwoKept, NEW s \in Stream, Decode(s) PROVE LastTwoKept'
<1>1. CASE ~Accepted(s)
  BY <1>1, DecodeRefused DEF LastTwoKept, get_read_pointer
<1>2. CASE Accepted(s)
  <2>1. /\ decoder'.read = decoder.write /\ decoder'.write = decoder.read
        /\ decoded' = [id |-> s.id, n |-> s.n] /\ before' = decoded
    BY <1>2, DecodeAccepted
  <2>2. /\ decoder.read \in Halves /\ decoder.write \in Halves
        /\ decoder.read # decoder.write
        /\ decoded.id \in Ids /\ s.id \in Ids
    BY DEF TypeOK, Decoder, Value, Stream
  <2>3. decoder'.data[decoder.write][s.id] = [id |-> s.id, n |-> s.n]
    BY <1>2, <2>2, DecodeAccepted
  <2>4. decoder'.data[decoder.read][decoded.id] = decoder.data[decoder.read][decoded.id]
    BY <1>2, <2>2, DecodeAccepted
  <2> QED BY <2>1, <2>3, <2>4 DEF LastTwoKept, get_read_pointer
<1> QED BY <1>1, <1>2

LEMMA NextLastTwo == TypeOK /\ LastTwoKept /\ [Next]_vars => LastTwoKept'
<1> SUFFICES ASSUME TypeOK, LastTwoKept, [Next]_vars PROVE LastTwoKept'
  OBVIOUS
<1>1. CASE UNCHANGED <<decoder, history>>
  BY <1>1 DEF LastTwoKept, get_read_pointer, history
<1>2. CASE \E r \in Receptions : r.stream \in Stream /\ Decode(r.stream)
  BY <1>2, DecodeKeepsTwo
<1> QED BY <1>1, <1>2, DecodesOrNot

\* In every receiver the two halves hold the last two messages accepted, the
\* later one in the half that is read.
THEOREM KeepsTheLastTwo == Spec => []LastTwoKept
  BY TypeCorrect, InitLastTwo, NextLastTwo, PTL DEF Spec

-----------------------------------------------------------------------------
(* The servers.                                                            *)

LEMMA InitShows == Init => ServersShowTheLatest
<1> SUFFICES ASSUME Init PROVE ServersShowTheLatest
  OBVIOUS
<1>1. value["SVINFO"] = Zeros("SVINFO") /\ decoded = Zeros("SVINFO")
  BY SomeIds DEF Init, NoValues
<1> QED BY <1>1 DEF ServersShowTheLatest, Zeros

LEMMA NextShows ==
  TypeOK /\ ServersShowTheLatest /\ [Next]_vars => ServersShowTheLatest'
<1> SUFFICES ASSUME TypeOK, ServersShowTheLatest, [Next]_vars
             PROVE  ServersShowTheLatest'
  OBVIOUS
<1>1. CASE (\E p \in Traffic(program) : Send(p)) \/ Lose \/ stopHook \/ UNCHANGED vars
  BY <1>1, OtherSteps DEF ServersShowTheLatest, history
<1>2. CASE startHook \/ updateHook
  BY <1>2 DEF ServersShowTheLatest, startHook, updateHook
<1>3. CASE ServerLoop
  <2>1. PICK r \in Receptions :
          IF ~RightLength(r)
            THEN UNCHANGED <<task, decoder, value, history>>
            ELSE /\ Decode(r.stream)
                 /\ value' = IF Accepted(r.stream)
                               THEN [value EXCEPT ![r.stream.id] =
                                       ReadByServer[r.stream.id]]
                               ELSE value
    BY <1>3, Zenon DEF ServerLoop
  <2>2. CASE ~RightLength(r) \/ ~Accepted(r.stream)
    BY <1>3, <2>1, <2>2, ReceptionType, DecodeRefused
       DEF ServersShowTheLatest, history, ServerLoop
  <2>3. CASE RightLength(r) /\ Accepted(r.stream)
    <3> DEFINE s == r.stream
    <3>1. s \in Stream /\ Decode(s) /\ Accepted(s)
      BY <2>1, <2>3, ReceptionType
    <3>2. s.id \in Ids /\ decoder.write \in Halves /\ value \in [Ids -> Value]
      BY <3>1 DEF Stream, TypeOK, Decoder
    <3>3. decoder'.data[decoder.write][s.id] = [id |-> s.id, n |-> s.n]
      BY <3>1, <3>2, DecodeAccepted
    <3>4. ReadByServer[s.id] = [id |-> s.id, n |-> s.n]
      BY <3>1, <3>3, DecodeAccepted DEF ReadByServer, get_read_pointer
    <3>5. value'[s.id] = [id |-> s.id, n |-> s.n]
      BY <2>1, <2>3, <3>2, <3>4
    <3>6. decoded' = [id |-> s.id, n |-> s.n]
      BY <3>1, DecodeAccepted
    <3> QED BY <3>5, <3>6 DEF ServersShowTheLatest
  <2> QED BY <2>2, <2>3
<1> QED BY <1>1, <1>2, <1>3 DEF Next

\* What a server prints is the message it has just decoded.
THEOREM ServersAreCurrent == Spec => []ServersShowTheLatest
  BY TypeCorrect, InitShows, NextShows, PTL DEF Spec

-----------------------------------------------------------------------------
(* The kinds of messages do not mix.                                       *)

\* Nothing is newer than what was sent, and every field holds its own kind.
Genuine ==
    /\ \A i \in 1..Len(net) : net[i].n <= sent
    /\ input_stream.n <= sent
    /\ \A h \in Halves, id \in Ids :
         decoder.data[h][id].id = id /\ decoder.data[h][id].n <= sent
    /\ OnlyWhatWasSent

LEMMA InitGenuine == Init => Genuine
<1> SUFFICES ASSUME Init PROVE Genuine
  OBVIOUS
<1>1. \A id \in Ids : NoValues[id] = Zeros(id)
  BY DEF NoValues
<1>2. \A h \in Halves, id \in Ids : decoder.data[h][id] = Zeros(id)
  BY DEF Init, init_decoding
<1>3. sent = 0 /\ Len(net) = 0 /\ input_stream.n = 0 /\ value = NoValues /\ port = NoValues
  BY DEF Init, NoStream
<1>4. \A id \in Ids : Zeros(id).id = id /\ Zeros(id).n = 0
  BY DEF Zeros
<1>5. \A i \in 1..Len(net) : net[i].n <= sent
  BY <1>3
<1>6. \A h \in Halves, id \in Ids :
        decoder.data[h][id].id = id /\ decoder.data[h][id].n <= sent
  BY <1>2, <1>3, <1>4
<1>7. OnlyWhatWasSent
  BY <1>1, <1>3, <1>4 DEF OnlyWhatWasSent
<1> QED BY <1>3, <1>5, <1>6, <1>7 DEF Genuine

\* A reception brings nothing newer than what was sent.
LEMMA ReceptionGenuine ==
  ASSUME TypeOK, Genuine, NEW r \in Receptions
  PROVE  r.stream.n <= sent /\ \A i \in 1..Len(r.net) : r.net[i].n <= sent
<1>1. CASE r.stream = input_stream /\ r.net = net
  BY <1>1 DEF Genuine
<1>2. CASE net # << >> /\ r.net = Tail(net) /\ r.stream.n = Head(net).n
  <2>1. net \in Seq(Datagram)
    BY DEF TypeOK
  <2>2. /\ Len(Tail(net)) = Len(net) - 1
        /\ \A i \in 1..Len(Tail(net)) : Tail(net)[i] = net[i + 1]
    BY <1>2, <2>1, HeadTailProperties
  <2>3. Head(net) = net[1] /\ Len(net) \in Nat /\ Len(net) > 0
    BY <1>2, <2>1
  <2> QED BY <1>2, <2>2, <2>3 DEF Genuine
<1> QED BY <1>1, <1>2, ReceptionEffect

\* Decoding keeps every field to its kind.
LEMMA DecodeGenuine ==
  ASSUME TypeOK, Genuine, NEW s \in Stream, s.n <= sent,
         NEW h \in Halves, NEW id \in Ids
  PROVE  /\ data_decode(decoder, s).data[h][id].id = id
         /\ data_decode(decoder, s).data[h][id].n <= sent
         /\ Decode(s) => /\ decoder'.data[h][id].id = id
                         /\ decoder'.data[h][id].n <= sent
<1>1. /\ decoder \in Decoder
      /\ decoder.data[h][id].id = id /\ decoder.data[h][id].n <= sent
  BY DEF TypeOK, Genuine
<1> DEFINE new == [id |-> s.id, n |-> s.n]
<1>0. new.id = s.id /\ new.n <= sent
  OBVIOUS
<1> HIDE DEF new
<1>2. /\ data_decode(decoder, s).data[h][id].id = id
      /\ data_decode(decoder, s).data[h][id].n <= sent
  <2>1. data_write(decoder, s).data[h][id]
          = IF h = decoder.write /\ id = s.id THEN new ELSE decoder.data[h][id]
    BY <1>1, WriteEffect DEF new
  <2> QED BY <1>0, <1>1, <2>1 DEF data_decode
<1>3. ASSUME Decode(s)
      PROVE  decoder'.data[h][id].id = id /\ decoder'.data[h][id].n <= sent
  <2>1. CASE Accepted(s)
    <3>1. decoder'.data[h][id]
            = IF h = decoder.write /\ id = s.id THEN new ELSE decoder.data[h][id]
      BY <1>3, <2>1, DecodeAccepted DEF new
    <3> QED BY <1>0, <1>1, <3>1
  <2>2. CASE ~Accepted(s)
    BY <1>1, <1>3, <2>2, DecodeRefused
  <2> QED BY <2>1, <2>2
<1> QED BY <1>2, <1>3

LEMMA SendGenuine ==
  ASSUME TypeOK, Genuine, NEW p \in Traffic(program), Send(p) PROVE Genuine'
<1>1. sent' = sent + 1 /\ sent \in Nat /\ net \in Seq(Datagram)
  BY ReceiversAssumption DEF Send, TypeOK
<1> DEFINE g == [sender |-> p.sender, id |-> p.id, len |-> p.len, n |-> sent + 1]
<1>2. net' = Append(net, g) \/ net' = net
  BY DEF Send
<1>3. g.n = sent + 1
  OBVIOUS
<1> HIDE DEF g
<1>4. \A i \in 1..Len(net) : net[i].n \in Nat /\ net[i].n <= sent'
  <2>1. ASSUME NEW i \in 1..Len(net) PROVE net[i].n \in Nat /\ net[i].n <= sent'
    <3>1. net[i] \in Datagram /\ net[i].n <= sent
      BY <1>1, ElementOfSeq DEF Genuine
    <3>2. net[i].n \in Nat
      BY <3>1, ReceiversAssumption DEF Datagram
    <3> QED BY <1>1, <3>1, <3>2
  <2> QED BY <2>1
<1>5. \A i \in 1..Len(net') : net'[i].n <= sent'
  BY <1>1, <1>2, <1>3, <1>4
<1>6. /\ input_stream.n \in Nat
      /\ \A h \in Halves, id \in Ids : decoder.data[h][id].n \in Nat
      /\ \A id \in Ids : value[id].n \in Nat
  BY DEF TypeOK, Decoder, Value, Stream
<1> QED BY <1>1, <1>5, <1>6 DEF Genuine, OnlyWhatWasSent, Send, history

LEMMA LoseGenuine == ASSUME TypeOK, Genuine, Lose PROVE Genuine'
<1>1. sent' = sent + 1 /\ sent \in Nat /\ net \in Seq(Datagram) /\ net' = net
  BY ReceiversAssumption DEF Lose, TypeOK
<1>2. \A i \in 1..Len(net) : net[i].n \in Nat
  <2>1. \A i \in 1..Len(net) : net[i] \in Datagram
    BY <1>1, ElementOfSeq
  <2> QED BY <2>1, ReceiversAssumption DEF Datagram
<1>3. /\ input_stream.n \in Nat
      /\ \A h \in Halves, id \in Ids : decoder.data[h][id].n \in Nat
      /\ \A id \in Ids : value[id].n \in Nat
  BY DEF TypeOK, Decoder, Value, Stream
<1> QED BY <1>1, <1>2, <1>3 DEF Genuine, OnlyWhatWasSent, Lose, history

LEMMA ServerLoopGenuine == ASSUME TypeOK, Genuine, ServerLoop PROVE Genuine'
<1>1. PICK r \in Receptions :
        /\ net' = r.net /\ input_stream' = r.stream
        /\ IF ~RightLength(r)
             THEN UNCHANGED <<task, decoder, value, history>>
             ELSE /\ Decode(r.stream)
                  /\ value' = IF Accepted(r.stream)
                                THEN [value EXCEPT ![r.stream.id] =
                                        ReadByServer[r.stream.id]]
                                ELSE value
  BY Zenon DEF ServerLoop
<1>2. sent' = sent /\ port' = port /\ r.stream \in Stream /\ r.stream.n <= sent
  BY ReceptionType, ReceptionGenuine DEF ServerLoop
<1>3. \A i \in 1..Len(net') : net'[i].n <= sent
  BY <1>1, ReceptionGenuine
<1>4. CASE ~RightLength(r)
  BY <1>1, <1>2, <1>3, <1>4 DEF Genuine, OnlyWhatWasSent
<1>5. CASE RightLength(r)
  <2>1. \A h \in Halves, id \in Ids :
          decoder'.data[h][id].id = id /\ decoder'.data[h][id].n <= sent
    BY <1>1, <1>2, <1>5, DecodeGenuine
  <2>2. decoder'.read \in Halves
    BY <1>1, <1>2, <1>5, DecodeType DEF Decoder
  <2>3. \A id \in Ids : ReadByServer[id].id = id /\ ReadByServer[id].n <= sent
    BY <2>1, <2>2 DEF ReadByServer, get_read_pointer
  <2>4. r.stream.id \in Ids /\ value \in [Ids -> Value]
    BY <1>2 DEF Stream, TypeOK
  <2>5. \A id \in Ids : value'[id].id = id /\ value'[id].n <= sent
    BY <1>1, <1>5, <2>3, <2>4 DEF Genuine, OnlyWhatWasSent
  <2> QED BY <1>1, <1>2, <1>3, <2>1, <2>5 DEF Genuine, OnlyWhatWasSent
<1> QED BY <1>4, <1>5

\* What a component reads.
LEMMA readGenuine ==
  ASSUME TypeOK, Genuine, NEW r \in Receptions, read(r)
  PROVE  /\ \A i \in 1..Len(net') : net'[i].n <= sent
         /\ input_stream'.n <= sent
         /\ \A h \in Halves, id \in Ids :
              decoder'.data[h][id].id = id /\ decoder'.data[h][id].n <= sent
         /\ \A id \in Ids : value'[id].id = id /\ value'[id].n <= sent
<1>1. /\ r.stream \in Stream /\ r.stream.n <= sent /\ Decode(r.stream)
      /\ net' = r.net /\ input_stream' = r.stream
  BY ReceptionType, ReceptionGenuine DEF read
<1>2. decoder \in Decoder /\ data_decode(decoder, r.stream) \in Decoder
  BY <1>1, WriteEffect DEF TypeOK, data_decode
<1>3. data_decode(decoder, r.stream).read \in Halves
  BY <1>2 DEF Decoder
<1>4. \A id \in Ids : /\ ReadByComponent(r.stream)[id].id = id
                      /\ ReadByComponent(r.stream)[id].n <= sent
  BY <1>1, <1>3, DecodeGenuine DEF ReadByComponent, get_read_pointer
<1>5. r.stream.id \in Ids /\ value \in [Ids -> Value]
  BY <1>1 DEF Stream, TypeOK
<1>6. \A id \in Ids : value'[id].id = id /\ value'[id].n <= sent
  BY <1>4, <1>5 DEF read, Genuine, OnlyWhatWasSent
<1> QED BY <1>1, <1>6, ReceptionGenuine, DecodeGenuine

LEMMA NextGenuine == TypeOK /\ Genuine /\ [Next]_vars => Genuine'
<1> SUFFICES ASSUME TypeOK, Genuine, [Next]_vars PROVE Genuine'
  OBVIOUS
<1>1. ASSUME NEW p \in Traffic(program), Send(p) PROVE Genuine'
  BY <1>1, SendGenuine
<1>2. CASE Lose
  BY <1>2, LoseGenuine
<1>3. CASE ServerLoop
  BY <1>3, ServerLoopGenuine
<1>4. CASE startHook
  <2>1. PICK r \in Receptions : read(r)
    BY <1>4 DEF startHook
  <2> QED BY <1>4, <2>1, readGenuine DEF Genuine, OnlyWhatWasSent, startHook
<1>5. CASE updateHook
  <2>1. PICK r \in Receptions : read(r)
    BY <1>5 DEF updateHook
  <2>2. \A id \in Ids : value'[id].id = id /\ value'[id].n <= sent
    BY <2>1, readGenuine
  <2>3. \A id \in Ids : port'[id].id = id
    BY <1>5, <2>2 DEF updateHook, Genuine, OnlyWhatWasSent
  <2> QED BY <1>5, <2>1, <2>2, <2>3, readGenuine
          DEF Genuine, OnlyWhatWasSent, updateHook
<1>6. CASE stopHook
  BY <1>6 DEF Genuine, OnlyWhatWasSent, stopHook, history
<1>7. CASE UNCHANGED vars
  BY <1>7 DEF Genuine, OnlyWhatWasSent, vars
<1> QED BY <1>1, <1>2, <1>3, <1>4, <1>5, <1>6, <1>7 DEF Next

\* What any program shows or publishes of a kind was sent as that kind.
THEOREM KindsDoNotMix == Spec => []OnlyWhatWasSent
<1>1. Genuine => OnlyWhatWasSent
  BY DEF Genuine
<1> QED BY <1>1, TypeCorrect, InitGenuine, NextGenuine, PTL DEF Spec

-----------------------------------------------------------------------------
(* The line angle sensor.                                                  *)

Angles == {"LINE_ANGLE_ID", "BEAGLE_ERROR"}

\* Nothing but line angles and errors reaches the component, and before the
\* first of them the half it reads holds zeros.
OnlyAngles ==
    program = "LineAngleSensor2" =>
      /\ \A i \in 1..Len(net) : net[i].id \in Angles
      /\ input_stream.start => input_stream.id \in Angles
      /\ \/ decoded.id \in Angles
         \/ decoded.n = 0 /\ get_read_pointer(decoder)["LINE_ANGLE_ID"].n = 0

LEMMA InitOnlyAngles == Init => OnlyAngles
<1> SUFFICES ASSUME Init PROVE OnlyAngles
  OBVIOUS
<1>1. Len(net) = 0 /\ ~input_stream.start /\ decoded = Zeros("SVINFO")
  BY DEF Init, NoStream
<1>2. \A h \in Halves : decoder.data[h]["LINE_ANGLE_ID"] = Zeros("LINE_ANGLE_ID")
  BY SomeIds DEF Init, init_decoding
<1>3. decoder.read \in Halves
  BY DEF Init, init_decoding, Halves
<1> QED BY <1>1, <1>2, <1>3 DEF OnlyAngles, get_read_pointer, Zeros

LEMMA AcceptedStarts == ASSUME NEW s \in Stream, Accepted(s) PROVE s.start
  BY DEF Accepted, DecodeError, Stream

LEMMA ReceptionAngles ==
  ASSUME TypeOK, OnlyAngles, program = "LineAngleSensor2", NEW r \in Receptions
  PROVE  /\ \A i \in 1..Len(r.net) : r.net[i].id \in Angles
         /\ r.stream.start => r.stream.id \in Angles
<1>1. CASE r.stream = input_stream /\ r.net = net
  BY <1>1 DEF OnlyAngles
<1>2. CASE net # << >> /\ r.net = Tail(net) /\ r.stream.id = Head(net).id
  <2>1. net \in Seq(Datagram)
    BY DEF TypeOK
  <2>2. /\ Len(Tail(net)) = Len(net) - 1
        /\ \A i \in 1..Len(Tail(net)) : Tail(net)[i] = net[i + 1]
    BY <1>2, <2>1, HeadTailProperties
  <2>3. Head(net) = net[1] /\ Len(net) \in Nat /\ Len(net) > 0
    BY <1>2, <2>1
  <2> QED BY <1>2, <2>2, <2>3 DEF OnlyAngles
<1> QED BY <1>1, <1>2, ReceptionEffect

LEMMA readAngles ==
  ASSUME TypeOK, OnlyAngles, program = "LineAngleSensor2", NEW r \in Receptions,
         read(r)
  PROVE  /\ \A i \in 1..Len(net') : net'[i].id \in Angles
         /\ input_stream'.start => input_stream'.id \in Angles
         /\ \/ decoded'.id \in Angles
            \/ /\ decoded'.n = 0
               /\ get_read_pointer(decoder')["LINE_ANGLE_ID"].n = 0
<1>1. r.stream \in Stream /\ Decode(r.stream) /\ net' = r.net
      /\ input_stream' = r.stream
  BY ReceptionType DEF read
<1>2. CASE Accepted(r.stream)
  <2>1. r.stream.id \in Angles
    BY <1>1, <1>2, AcceptedStarts, ReceptionAngles
  <2>2. decoded'.id = r.stream.id
    <3>1. decoded' = [id |-> r.stream.id, n |-> r.stream.n]
      BY <1>1, <1>2, DecodeAccepted
    <3> QED BY <3>1
  <2> QED BY <1>1, <2>1, <2>2, ReceptionAngles
<1>3. CASE ~Accepted(r.stream)
  <2>1. decoder' = decoder /\ decoded' = decoded
    BY <1>1, <1>3, DecodeRefused
  <2>2. \/ decoded'.id \in Angles
        \/ decoded'.n = 0 /\ get_read_pointer(decoder')["LINE_ANGLE_ID"].n = 0
    BY <2>1 DEF OnlyAngles, get_read_pointer
  <2> QED BY <1>1, <2>2, ReceptionAngles
<1> QED BY <1>2, <1>3

LEMMA NextOnlyAngles == TypeOK /\ OnlyAngles /\ [Next]_vars => OnlyAngles'
<1> SUFFICES ASSUME TypeOK, OnlyAngles, [Next]_vars,
                    program' = "LineAngleSensor2"
             PROVE  OnlyAngles'
  BY DEF OnlyAngles
<1>0. program = program'
  BY DEF Next, Send, Lose, ServerLoop, startHook, updateHook, stopHook, vars
<1>1. ASSUME NEW p \in Traffic(program), Send(p) PROVE OnlyAngles'
  <2>1. net \in Seq(Datagram)
    BY DEF TypeOK
  <2>2. p.id \in Angles
    BY <1>0, <1>1 DEF Traffic, ErrorPacket, Packet, Angles
  <2> DEFINE g == [sender |-> p.sender, id |-> p.id, len |-> p.len, n |-> sent + 1]
  <2>3. net' = Append(net, g) \/ net' = net
    BY <1>1 DEF Send
  <2>4. g.id \in Angles
    BY <2>2
  <2> HIDE DEF g
  <2>5. \A i \in 1..Len(net') : net'[i].id \in Angles
    BY <1>0, <2>1, <2>3, <2>4 DEF OnlyAngles
  <2> QED BY <1>0, <1>1, <2>5 DEF OnlyAngles, Send, history, get_read_pointer
<1>2. CASE Lose \/ stopHook \/ UNCHANGED vars
  BY <1>0, <1>2 DEF OnlyAngles, get_read_pointer, Lose, stopHook, vars, history
<1>3. CASE ServerLoop
  BY <1>0, <1>3 DEF ServerLoop, Servers
<1>4. CASE startHook \/ updateHook
  <2>1. PICK r \in Receptions : read(r)
    BY <1>4 DEF startHook, updateHook
  <2> QED BY <1>0, <2>1, readAngles DEF OnlyAngles
<1> QED BY <1>1, <1>2, <1>3, <1>4 DEF Next

\* The pointer fetched before the exchange shows the message before.
LEMMA ReadsTheOneBefore ==
  ASSUME TypeOK, LastTwoKept, OnlyAngles, program = "LineAngleSensor2",
         NEW r \in Receptions, read(r),
         decoded' # decoded, decoded'.id = "LINE_ANGLE_ID",
         before'.id # "BEAGLE_ERROR"
  PROVE  value'["LINE_ANGLE_ID"].n = before'.n
<1> DEFINE s == r.stream
           angle == "LINE_ANGLE_ID"
<1>1. s \in Stream /\ Decode(s)
  BY ReceptionType DEF read
<1>2. Accepted(s)
  BY <1>1, DecodeRefused
<1>3. before' = decoded /\ s.id = angle
  <2>1. before' = decoded /\ decoded' = [id |-> s.id, n |-> s.n]
    BY <1>1, <1>2, DecodeAccepted
  <2>2. decoded'.id = s.id
    BY <2>1
  <2> QED BY <2>1, <2>2
<1>4. angle \in Ids /\ decoder \in Decoder /\ decoder.read \in Halves
      /\ decoder.read # decoder.write /\ value \in [Ids -> Value]
  BY SomeIds DEF TypeOK, Decoder
<1>5. ReadByComponent(s)[angle] = get_read_pointer(decoder)[angle]
  <2>1. data_decode(decoder, s) = data_write(decoder, s)
    BY <1>2 DEF data_decode, Accepted
  <2>2. data_write(decoder, s).read = decoder.read
    BY <1>1, <1>4, WriteEffect
  <2>3. data_write(decoder, s).data[decoder.read][angle]
          = decoder.data[decoder.read][angle]
    BY <1>1, <1>4, WriteEffect
  <2> QED BY <2>1, <2>2, <2>3 DEF ReadByComponent, get_read_pointer
<1>6. value'[angle] = get_read_pointer(decoder)[angle]
  BY <1>2, <1>3, <1>4, <1>5 DEF read, Measured
<1>7. get_read_pointer(decoder)[angle].n = decoded.n
  <2>1. CASE decoded.id = angle
    BY <2>1 DEF LastTwoKept
  <2>2. CASE decoded.id # angle
    BY <1>3, <2>2 DEF OnlyAngles, Angles
  <2> QED BY <2>1, <2>2
<1> QED BY <1>3, <1>6, <1>7

\* A line angle is published with the next packet accepted, unless an error packet
\* came between: then an older one is.
THEOREM OneBehindUnlessError == Spec => OneBehind
<1>1. TypeOK /\ LastTwoKept /\ OnlyAngles /\ [Next]_vars =>
        [ /\ program = "LineAngleSensor2" /\ decoded' # decoded
          /\ decoded'.id = "LINE_ANGLE_ID" /\ before'.id # "BEAGLE_ERROR"
          => value'["LINE_ANGLE_ID"].n = before'.n ]_vars
  <2> SUFFICES ASSUME TypeOK, LastTwoKept, OnlyAngles, Next,
                      program = "LineAngleSensor2", decoded' # decoded,
                      decoded'.id = "LINE_ANGLE_ID", before'.id # "BEAGLE_ERROR"
               PROVE  value'["LINE_ANGLE_ID"].n = before'.n
    OBVIOUS
  <2>1. ~(\E p \in Traffic(program) : Send(p)) /\ ~Lose /\ ~stopHook
    BY DEF Send, Lose, stopHook, history
  <2>2. ~ServerLoop
    BY DEF ServerLoop, Servers
  <2>3. PICK r \in Receptions : read(r)
    BY <2>1, <2>2 DEF Next, startHook, updateHook
  <2> QED BY <2>3, ReadsTheOneBefore
<1> QED BY <1>1, TypeCorrect, KeepsTheLastTwo, InitOnlyAngles, NextOnlyAngles, PTL
        DEF Spec, OneBehind
=============================================================================
