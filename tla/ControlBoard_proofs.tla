------------------------ MODULE ControlBoard_proofs ------------------------
(***************************************************************************)
(* The control board for any number of connections, any batches of         *)
(* commands and any timeout: there is one telnet session, replies go to the*)
(* sender, the stream's flag stands for one packet, and a sensor reply is  *)
(* one sample as long as the IMU interrupts it at most once.               *)
(***************************************************************************)
EXTENDS ControlBoard, SequenceTheorems, TLAPS

USE DEF connVars, flowVars, imuVars, replyVars

\* Q15 references give pulses between 0.9 and 2.1 ms (RC_DUTY_SCALE).
LEMMA PulseInRange ==
    ASSUME NEW v \in INT16
    PROVE  RC_DUTY_SCALE(v) \in Pulses
<1> USE DEF INT16, Pulses
<1>1. (750 * v) \div 32768 <= 750 /\ -750 <= (750 * v) \div 32768
  OBVIOUS
<1> QED BY <1>1 DEF RC_DUTY_SCALE

\* The other buffer is another one.
LEMMA OtherBuffer ==
    ASSUME NEW b \in Buffers
    PROVE  Other(b) \in Buffers /\ Other(b) # b
BY DEF Buffers, Other

-----------------------------------------------------------------------------
(* The session                                                             *)

\* The type invariant in three parts: the session, the flags and the rest.
SessionTypes == /\ tcp \in [Conns -> {"none", "up", "closing", "freed"}]
                /\ pcb \in Conns \cup {NULL}
                /\ timeout \in 0..(UI_CONNECTION_TIMEOUT + 1)

FlagTypes == /\ unacked \in BOOLEAN
             /\ enable \in BOOLEAN /\ send \in BOOLEAN
             /\ data \in BOOLEAN

OtherTypes == /\ queued \in Int
              /\ imu_read \in Buffers
              /\ imu \in [Buffers -> 0..(Versions - 1)]
              /\ samples \in 0..(Versions - 1)
              /\ pwm \in Pulses
              /\ eth \in {"idle", "scan", "sensor", "stream", "return"}
              /\ cur \in Conns \cup {NULL}
              /\ pending \in Seq(Commands)
              /\ ptr \in Buffers
              /\ reply \in Seq(0..(Versions - 1))
              /\ latest \in 0..(Versions - 1)
              /\ preempts \in 0..MaxPreempt

LEMMA TypesInParts == TypeOK => SessionTypes /\ FlagTypes /\ OtherTypes
BY DEF TypeOK, SessionTypes, FlagTypes, OtherTypes

LEMMA InitSession == Init => TypeOK /\ OneConnection /\ SessionInv
<1> SUFFICES ASSUME Init PROVE TypeOK /\ OneConnection /\ SessionInv
  OBVIOUS
<1> USE BoardAssumption DEF Init
<1>1. RC_DUTY_SCALE(0) \in Pulses
  <2>1. 0 \in INT16
    BY DEF INT16
  <2> QED BY <2>1, PulseInRange
<1>2. TypeOK
  <2>1. imu = [b \in Buffers |-> 0] /\ 0 \in 0..(Versions - 1)
    OBVIOUS
  <2>2. SessionTypes
    BY DEF SessionTypes
  <2>3. FlagTypes
    BY DEF FlagTypes
  <2>4. OtherTypes
    BY <1>1, <2>1 DEF OtherTypes, Buffers
  <2> QED
    BY <2>2, <2>3, <2>4
       DEF TypeOK, SessionTypes, FlagTypes, OtherTypes
<1>3. OneConnection
  BY DEF OneConnection
<1>4. SessionInv
  BY DEF SessionInv
<1> QED BY <1>2, <1>3, <1>4

\* A connection that is called back for is the one g_psTelnetPCB points to.
LEMMA CalledIsSession ==
    ASSUME OneConnection, NEW c \in Conns, Calls(c)
    PROVE  pcb = c /\ pcb # NULL
BY BoardAssumption DEF OneConnection, Calls

\* Aborting leaves lwIP with no connection to call back for.
LEMMA AbortEndsSession ==
    ASSUME TypeOK, OneConnection, Abort
    PROVE  /\ OneConnection'
           /\ tcp' \in [Conns -> {"none", "up", "closing", "freed"}]
           /\ pcb' = NULL /\ unacked' = FALSE
<1>1. tcp \in [Conns -> {"none", "up", "closing", "freed"}]
  BY DEF TypeOK
<1>2. pcb' = NULL /\ unacked' = FALSE
  BY DEF Abort
<1>3. tcp' \in [Conns -> {"none", "up", "closing", "freed"}]
  BY <1>1 DEF Abort
<1>4. \A c \in Conns : tcp'[c] # "up"
  BY <1>1 DEF Abort, OneConnection
<1> QED BY <1>2, <1>3, <1>4 DEF OneConnection

\* Accepting ends the session there was and begins one on c.
LEMMA AcceptOpensSession ==
    ASSUME TypeOK, OneConnection, NEW c \in Conns, UIEthernetAccept(c)
    PROVE  /\ OneConnection'
           /\ tcp' \in [Conns -> {"none", "up", "closing", "freed"}]
<1> DEFINE closed == IF pcb # NULL THEN UIEthernetClose(pcb) ELSE tcp
<1>1. tcp \in [Conns -> {"none", "up", "closing", "freed"}]
  BY DEF TypeOK
<1>2. /\ closed \in [Conns -> {"none", "up", "closing", "freed"}]
      /\ \A d \in Conns : closed[d] # "up"
  BY <1>1 DEF UIEthernetClose, OneConnection
<1>3. tcp' = [closed EXCEPT ![c] = "up"] /\ pcb' = c
  BY DEF UIEthernetAccept
<1> HIDE DEF closed
<1>4. /\ tcp' \in [Conns -> {"none", "up", "closing", "freed"}]
      /\ \A d \in Conns : tcp'[d] = "up" <=> d = c
  BY <1>2, <1>3
<1> QED BY <1>3, <1>4, BoardAssumption DEF OneConnection

\* Closing, by the host or on an error, ends the session.
LEMMA CloseEndsSession ==
    ASSUME TypeOK, OneConnection, NEW c \in Conns, NEW how \in {"closing", "freed"},
           Calls(c), tcp' = [tcp EXCEPT ![c] = how], pcb' = NULL
    PROVE  /\ OneConnection'
           /\ tcp' \in [Conns -> {"none", "up", "closing", "freed"}]
<1>1. tcp \in [Conns -> {"none", "up", "closing", "freed"}]
  BY DEF TypeOK
<1>2. \A d \in Conns : tcp[d] = "up" => d = c
  BY CalledIsSession DEF OneConnection
<1>3. \A d \in Conns : tcp'[d] # "up"
  BY <1>1, <1>2
<1> QED BY <1>1, <1>3 DEF OneConnection

LEMMA NextSession ==
    TypeOK /\ OneConnection /\ SessionInv /\ [Next]_vars
        => (TypeOK /\ OneConnection /\ SessionInv)'
<1> SUFFICES ASSUME TypeOK, OneConnection, SessionInv, [Next]_vars
             PROVE  (TypeOK /\ OneConnection /\ SessionInv)'
  OBVIOUS
<1> USE BoardAssumption
<1>1. CASE IMUIntHandler
  <2>1. Other(imu_read) \in Buffers /\ (samples + 1) % Versions \in 0..(Versions - 1)
    BY OtherBuffer DEF TypeOK
  <2> QED
    BY <1>1, <2>1 DEF IMUIntHandler, TypeOK, OneConnection, SessionInv
<1>2. CASE UIEthernetSendRealTimeData
  BY <1>2 DEF UIEthernetSendRealTimeData, TypeOK, OneConnection, SessionInv
<1>3. CASE HostTimer
  BY <1>3 DEF HostTimer, TypeOK, OneConnection, SessionInv
<1>4. ASSUME NEW cmd \in Queries, Query(cmd)
      PROVE  (TypeOK /\ OneConnection /\ SessionInv)'
  BY <1>4 DEF Query, Scans, UIEthernetTransmit, TypeOK, OneConnection, SessionInv
<1>5. ASSUME NEW ref \in Refs, SetMotorRefs(ref)
      PROVE  (TypeOK /\ OneConnection /\ SessionInv)'
  <2>1. pwm' \in Pulses
    BY <1>5, PulseInRange DEF SetMotorRefs
  <2> QED
    BY <1>5, <2>1 DEF SetMotorRefs, Scans, UIEthernetTransmit, TypeOK,
                      OneConnection, SessionInv
<1>6. CASE Upgrade
  <2>1. Abort
    BY <1>6 DEF Upgrade
  <2>2. OneConnection' /\ SessionInv'
    BY <1>6, <2>1, AbortEndsSession DEF Upgrade, SessionInv
  <2>3. SessionTypes'
    BY <1>6, <2>1, AbortEndsSession DEF Upgrade, SessionTypes, TypeOK
  <2>4. FlagTypes'
    BY <1>6, <2>1, AbortEndsSession, TypesInParts DEF Upgrade, FlagTypes
  <2>5. OtherTypes'
    BY <1>6, TypesInParts DEF Upgrade, Scans, OtherTypes
  <2> QED
    BY <2>2, <2>3, <2>4, <2>5
       DEF TypeOK, SessionTypes, FlagTypes, OtherTypes
<1>7. CASE StartDataStream
  BY <1>7 DEF StartDataStream, Scans, UIEthernetTransmit, TypeOK, OneConnection,
              SessionInv
<1>8. CASE StopDataStream
  <2>1. SessionTypes' /\ OtherTypes'
    BY <1>8, TypesInParts DEF StopDataStream, Scans, SessionTypes, OtherTypes
  <2>2. FlagTypes'
    BY <1>8, TypesInParts DEF StopDataStream, UIEthernetTransmit, FlagTypes
  <2>3. (OneConnection /\ SessionInv)'
    BY <1>8 DEF StopDataStream, OneConnection, SessionInv
  <2> QED
    BY <2>1, <2>2, <2>3
       DEF TypeOK, SessionTypes, FlagTypes, OtherTypes
<1>9. CASE Ignore
  BY <1>9 DEF Ignore, Scans, TypeOK, OneConnection, SessionInv
<1>10. CASE GetSensorData
  BY <1>10 DEF GetSensorData, Scans, TypeOK, OneConnection, SessionInv
<1>11. CASE CopyField
  BY <1>11 DEF CopyField, TypeOK, OneConnection, SessionInv
<1>12. CASE SendSensorData
  BY <1>12 DEF SendSensorData, UIEthernetTransmit, TypeOK, OneConnection,
               SessionInv, Buffers
<1>13. CASE ScanDone
  BY <1>13 DEF ScanDone, TypeOK, OneConnection, SessionInv
<1>14. CASE ReturnOK
  BY <1>14 DEF ReturnOK, TypeOK, OneConnection, SessionInv
<1>15. CASE SendStream
  <2>1. unacked' \in BOOLEAN /\ send' \in BOOLEAN
    BY <1>15 DEF SendStream
  <2>2. queued' \in Int
    BY <1>15 DEF SendStream, TypeOK
  <2>3. TypeOK'
    BY <1>15, <2>1, <2>2 DEF SendStream, TypeOK
  <2>4. (OneConnection /\ SessionInv)'
    BY <1>15 DEF SendStream, OneConnection, SessionInv
  <2> QED BY <2>3, <2>4
<1>16. ASSUME NEW c \in Conns, UIEthernetAccept(c)
       PROVE  (TypeOK /\ OneConnection /\ SessionInv)'
  <2>1. OneConnection' /\ SessionTypes'
    <3>1. timeout' = 0 /\ pcb' = c
      BY <1>16 DEF UIEthernetAccept
    <3> QED BY <1>16, <3>1, AcceptOpensSession DEF SessionTypes
  <2>2. FlagTypes' /\ OtherTypes'
    BY <1>16, TypesInParts DEF UIEthernetAccept, FlagTypes, OtherTypes
  <2>3. SessionInv'
    BY <1>16 DEF UIEthernetAccept, SessionInv
  <2> QED
    BY <2>1, <2>2, <2>3
       DEF TypeOK, SessionTypes, FlagTypes, OtherTypes
<1>17. ASSUME NEW c \in Conns, ReceiveClose(c)
       PROVE  (TypeOK /\ OneConnection /\ SessionInv)'
  <2>1. Calls(c) /\ tcp' = [tcp EXCEPT ![c] = "closing"] /\ pcb' = NULL
    BY <1>17 DEF ReceiveClose, UIEthernetClose
  <2> QED
    BY <1>17, <2>1, CloseEndsSession DEF ReceiveClose, TypeOK, SessionInv
<1>18. ASSUME NEW c \in Conns, UIEthernetError(c)
       PROVE  (TypeOK /\ OneConnection /\ SessionInv)'
  <2>1. Calls(c) /\ tcp' = [tcp EXCEPT ![c] = "freed"] /\ pcb' = NULL
    BY <1>18 DEF UIEthernetError
  <2> QED
    BY <1>18, <2>1, CloseEndsSession DEF UIEthernetError, TypeOK, SessionInv
<1>19. ASSUME NEW c \in Conns, UIEthernetSent(c)
       PROVE  (TypeOK /\ OneConnection /\ SessionInv)'
  <2>1. SessionTypes' /\ OtherTypes'
    BY <1>19, TypesInParts DEF UIEthernetSent, SessionTypes, OtherTypes
  <2>2. FlagTypes'
    BY <1>19, TypesInParts DEF UIEthernetSent, FlagTypes
  <2>3. (OneConnection /\ SessionInv)'
    BY <1>19 DEF UIEthernetSent, OneConnection, SessionInv
  <2> QED
    BY <2>1, <2>2, <2>3
       DEF TypeOK, SessionTypes, FlagTypes, OtherTypes
<1>20. ASSUME NEW c \in Conns, UIEthernetPoll(c)
       PROVE  (TypeOK /\ OneConnection /\ SessionInv)'
  <2>1. pcb = c /\ pcb # NULL
    BY <1>20, CalledIsSession DEF UIEthernetPoll
  <2>2. timeout \in 0..UI_CONNECTION_TIMEOUT
    BY <2>1 DEF SessionInv, TypeOK
  <2>3. CASE timeout + 1 > UI_CONNECTION_TIMEOUT
    <3>1. Abort
      BY <1>20, <2>3 DEF UIEthernetPoll
    <3>2. OneConnection' /\ SessionTypes'
      BY <1>20, <2>2, <3>1, AbortEndsSession DEF UIEthernetPoll, SessionTypes
    <3>3. FlagTypes'
      BY <1>20, <3>1, AbortEndsSession, TypesInParts DEF UIEthernetPoll, FlagTypes
    <3>4. OtherTypes'
      BY <1>20, TypesInParts DEF UIEthernetPoll, OtherTypes
    <3>5. SessionInv'
      BY <1>20, <3>1, AbortEndsSession DEF UIEthernetPoll, SessionInv
    <3> QED
      BY <3>2, <3>3, <3>4, <3>5
         DEF TypeOK, SessionTypes, FlagTypes, OtherTypes
  <2>4. CASE ~(timeout + 1 > UI_CONNECTION_TIMEOUT)
    BY <1>20, <2>2, <2>4 DEF UIEthernetPoll, TypeOK, OneConnection, SessionInv
  <2> QED BY <2>3, <2>4
<1>21. ASSUME NEW c \in Conns, NEW cmds \in Batches, Receive(c, cmds)
       PROVE  (TypeOK /\ OneConnection /\ SessionInv)'
  <2>1. pcb = c
    BY <1>21, CalledIsSession DEF Receive
  <2> QED
    BY <1>21, <2>1 DEF Receive, TypeOK, OneConnection, SessionInv
<1>22. CASE UNCHANGED vars
  BY <1>22 DEF vars, TypeOK, OneConnection, SessionInv
<1> QED
  BY <1>1, <1>2, <1>3, <1>4, <1>5, <1>6, <1>7, <1>8, <1>9, <1>10, <1>11, <1>12,
     <1>13, <1>14, <1>15, <1>16, <1>17, <1>18, <1>19, <1>20, <1>21, <1>22
     DEF Next, Handler, Callback

LEMMA SessionInductive == Spec => [](TypeOK /\ OneConnection /\ SessionInv)
BY InitSession, NextSession, PTL DEF Spec

\* Every variable keeps to its type; in particular no reference a host can
\* send takes a servo beyond its pulses, and the count of idle polls stops.
THEOREM TypeCorrect == Spec => []TypeOK
BY SessionInductive, PTL

\* However accepting, closing, failing, timing out and upgrading follow each
\* other, lwIP calls back for g_psTelnetPCB only and the pointer never dangles.
THEOREM OneTelnetSession == Spec => []OneConnection
BY SessionInductive, PTL

-----------------------------------------------------------------------------
(* Replies                                                                 *)

\* A transmission in a handler goes to the connection of its callback.
LEMMA TransmitReplies ==
    ASSUME SessionInv, eth \in {"scan", "sensor"}, NEW cmd, NEW id,
           UIEthernetTransmit(cmd, id)
    PROVE  RepliesToTheSender'
<1>1. out'.to = pcb /\ out'.from = cur /\ pcb \in {cur, NULL}
  BY DEF UIEthernetTransmit, SessionInv
<1> QED BY <1>1 DEF RepliesToTheSender

LEMMA NextReplies ==
    SessionInv /\ RepliesToTheSender /\ [Next]_vars => RepliesToTheSender'
<1> SUFFICES ASSUME SessionInv, RepliesToTheSender, [Next]_vars
             PROVE  RepliesToTheSender'
  OBVIOUS
<1>1. CASE out' = out
  BY <1>1 DEF RepliesToTheSender
<1>2. ASSUME NEW cmd \in Queries, Query(cmd)
      PROVE  RepliesToTheSender'
  BY <1>2, TransmitReplies DEF Query, Scans
<1>3. ASSUME NEW ref \in Refs, SetMotorRefs(ref)
      PROVE  RepliesToTheSender'
  BY <1>3, TransmitReplies DEF SetMotorRefs, Scans
<1>4. CASE StartDataStream
  BY <1>4, TransmitReplies DEF StartDataStream, Scans
<1>5. CASE StopDataStream
  BY <1>5, TransmitReplies DEF StopDataStream, Scans
<1>6. CASE SendSensorData
  BY <1>6, TransmitReplies DEF SendSensorData
<1>7. CASE ReturnOK
  BY <1>7 DEF ReturnOK, RepliesToTheSender
<1>8. CASE SendStream
  <2>1. out'.cmd = "none"
    BY <1>8 DEF SendStream
  <2> QED BY <2>1 DEF RepliesToTheSender
<1>9. CASE IMUIntHandler \/ UIEthernetSendRealTimeData \/ HostTimer \/ Upgrade
             \/ Ignore \/ GetSensorData \/ CopyField \/ ScanDone
             \/ UNCHANGED vars
  BY <1>1, <1>9 DEF IMUIntHandler, UIEthernetSendRealTimeData, HostTimer, Upgrade,
                    Ignore, GetSensorData, CopyField, ScanDone, vars
<1>10. CASE Callback
  BY <1>1, <1>10 DEF Callback, UIEthernetAccept, ReceiveClose, UIEthernetError,
                     UIEthernetSent, UIEthernetPoll, Receive
<1> QED
  BY <1>2, <1>3, <1>4, <1>5, <1>6, <1>7, <1>8, <1>9, <1>10 DEF Next, Handler

\* What a command is answered with goes to the connection it came from, or
\* nowhere, although every handler writes to g_psTelnetPCB.
THEOREM RepliesReachTheSender == Spec => []RepliesToTheSender
<1>1. Init => RepliesToTheSender
  BY DEF Init, RepliesToTheSender
<1> QED BY <1>1, NextReplies, SessionInductive, PTL DEF Spec

-----------------------------------------------------------------------------
(* The stream                                                              *)

LEMMA NextStream ==
    StreamInv /\ StreamHandshake /\ [Next]_vars => (StreamInv /\ StreamHandshake)'
<1> SUFFICES ASSUME StreamInv, StreamHandshake, [Next]_vars
             PROVE  (StreamInv /\ StreamHandshake)'
  OBVIOUS
<1> USE DEF StreamInv, StreamHandshake
<1>1. CASE UIEthernetSendRealTimeData
  <2>1. ~send /\ send' = TRUE /\ queued' = queued + 1
    BY <1>1 DEF UIEthernetSendRealTimeData
  <2>2. queued' = 1
    BY <2>1
  <2> QED BY <2>1, <2>2
<1>2. CASE SendStream
  <2>1. eth = "stream" /\ send' = FALSE /\ queued' = queued - 1 /\ eth' = "idle"
    BY <1>2 DEF SendStream
  <2>2. send
    BY <2>1
  <2>3. queued' = 0
    BY <2>1, <2>2
  <2> QED BY <2>1, <2>3
<1>3. CASE HostTimer
  BY <1>3 DEF HostTimer
<1>4. CASE /\ UNCHANGED <<send, queued>>
           /\ eth' = "stream" => eth = "stream"
  BY <1>4
<1>5. CASE Callback
  BY <1>4, <1>5 DEF Callback, UIEthernetAccept, ReceiveClose, UIEthernetError,
                    UIEthernetSent, UIEthernetPoll, Receive
<1>6. CASE (\E cmd \in Queries : Query(cmd)) \/ (\E ref \in Refs : SetMotorRefs(ref))
             \/ Upgrade \/ StartDataStream \/ StopDataStream \/ Ignore
  BY <1>4, <1>6 DEF Query, SetMotorRefs, Upgrade, StartDataStream, StopDataStream,
                    Ignore
<1>7. CASE IMUIntHandler \/ GetSensorData \/ CopyField \/ SendSensorData \/ ScanDone
             \/ ReturnOK \/ UNCHANGED vars
  BY <1>4, <1>7 DEF IMUIntHandler, GetSensorData, CopyField, SendSensorData,
                    ScanDone, ReturnOK, vars
<1> QED
  BY <1>1, <1>2, <1>3, <1>5, <1>6, <1>7 DEF Next, Handler

LEMMA StreamInductive == Spec => [](StreamInv /\ StreamHandshake)
<1>1. Init => StreamInv /\ StreamHandshake
  BY DEF Init, StreamInv, StreamHandshake
<1> QED BY <1>1, NextStream, PTL DEF Spec

\* g_bSendRealTimeData stands for exactly one packet that has been built and
\* not sent, whatever commands and interrupts come between.
THEOREM OnePacketAtATime == Spec => []StreamHandshake
BY StreamInductive, PTL

\* The interrupt that builds packets never writes to the one being sent.
THEOREM PacketIsStable == Spec => StreamPacketStable
<1>1. StreamInv /\ [Next]_vars => [eth = "stream" => UNCHANGED data]_vars
  <2> SUFFICES ASSUME StreamInv, Next, eth = "stream" PROVE UNCHANGED data
    OBVIOUS
  <2>1. CASE UIEthernetSendRealTimeData
    BY <2>1 DEF UIEthernetSendRealTimeData, StreamInv
  <2>2. CASE Callback
    BY <2>2 DEF Callback, Calls, UIEthernetAccept, ReceiveClose, UIEthernetError,
                UIEthernetSent, UIEthernetPoll, Receive
  <2>3. CASE Handler
    BY <2>3 DEF Handler, Query, SetMotorRefs, Upgrade, StartDataStream, Scans,
                StopDataStream, Ignore, GetSensorData, CopyField, SendSensorData,
                ScanDone, ReturnOK, SendStream
  <2> QED BY <2>1, <2>2, <2>3 DEF Next, IMUIntHandler, HostTimer
<1> QED BY <1>1, StreamInductive, PTL DEF Spec, StreamPacketStable

-----------------------------------------------------------------------------
(* The sensor reply                                                        *)

\* The interrupt leaves the buffer that is being copied alone.
LEMMA InterruptKeepsSample ==
    ASSUME TypeOK, SampleInv, MaxPreempt \in {0, 1}, IMUIntHandler
    PROVE  SampleInv'
<1>1. /\ imu_read \in Buffers /\ imu \in [Buffers -> 0..(Versions - 1)]
      /\ ptr \in Buffers /\ preempts \in 0..MaxPreempt
  BY DEF TypeOK
<1>2. /\ imu' = [imu EXCEPT ![Other(imu_read)] = samples']
      /\ imu_read' = Other(imu_read)
      /\ eth' = eth /\ ptr' = ptr /\ reply' = reply /\ latest' = latest
      /\ preempts' = IF eth = "sensor" THEN preempts + 1 ELSE preempts
      /\ eth = "sensor" => preempts < MaxPreempt
  BY DEF IMUIntHandler
<1>3. Other(imu_read) \in Buffers /\ Other(imu_read) # imu_read
  BY <1>1, OtherBuffer
<1>4. imu'[imu_read'] = samples'
  BY <1>1, <1>2, <1>3
<1>5. ASSUME eth = "sensor"
      PROVE  imu'[ptr'] = latest' /\ ptr' = Other(imu_read') /\ preempts' # 0
  <2>1. preempts = 0 /\ preempts' = 1
    BY <1>1, <1>2, <1>5
  <2>2. ptr = imu_read /\ imu[ptr] = latest
    BY <1>5, <2>1 DEF SampleInv
  <2>3. Other(Other(imu_read)) = imu_read
    BY <1>1 DEF Other, Buffers
  <2> QED BY <1>1, <1>2, <1>3, <2>1, <2>2, <2>3
<1> QED BY <1>2, <1>4, <1>5 DEF SampleInv

LEMMA NextSample ==
    MaxPreempt \in {0, 1} =>
        (TypeOK /\ SampleInv /\ SensorReplyWhole /\ [Next]_vars
            => (SampleInv /\ SensorReplyWhole)')
<1> SUFFICES ASSUME MaxPreempt \in {0, 1}, TypeOK, SampleInv, SensorReplyWhole,
                    [Next]_vars
             PROVE  (SampleInv /\ SensorReplyWhole)'
  OBVIOUS
<1>1. CASE IMUIntHandler
  <2>1. SensorReplyWhole'
    BY <1>1 DEF IMUIntHandler, SensorReplyWhole
  <2> QED BY <1>1, <2>1, InterruptKeepsSample
<1>2. CASE GetSensorData
  <2>1. /\ ptr' = imu_read /\ reply' = << >> /\ latest' = samples
        /\ eth' = "sensor" /\ eth # "sensor"
        /\ UNCHANGED <<imu_read, imu, samples, preempts>>
    BY <1>2 DEF GetSensorData, Scans
  <2> QED BY <2>1 DEF SampleInv, SensorReplyWhole
<1>3. CASE CopyField
  <2>1. /\ eth = "sensor" /\ eth' = eth /\ reply' = Append(reply, imu[ptr])
        /\ UNCHANGED <<imu_read, imu, samples, preempts, ptr, latest>>
    BY <1>3 DEF CopyField
  <2>2. imu[ptr] = latest
    BY <2>1 DEF SampleInv
  <2>3. \A k \in DOMAIN reply' : reply'[k] = latest
    <3>1. reply \in Seq(0..(Versions - 1)) /\ imu[ptr] \in 0..(Versions - 1)
      BY DEF TypeOK
    <3> QED BY <2>1, <2>2, <3>1, AppendProperties DEF SensorReplyWhole
  <2> QED BY <2>1, <2>3 DEF SampleInv, SensorReplyWhole
<1>4. CASE SendSensorData
  BY <1>4 DEF SendSensorData, SampleInv, SensorReplyWhole
<1>5. CASE /\ UNCHANGED <<imu_read, imu, samples, preempts, ptr, reply, latest>>
           /\ (eth' = "sensor") <=> (eth = "sensor")
  BY <1>5 DEF SampleInv, SensorReplyWhole
<1>6. CASE Callback
  BY <1>5, <1>6 DEF Callback, Calls, UIEthernetAccept, ReceiveClose,
                    UIEthernetError, UIEthernetSent, UIEthernetPoll, Receive
<1>7. CASE (\E cmd \in Queries : Query(cmd)) \/ (\E ref \in Refs : SetMotorRefs(ref))
             \/ Upgrade \/ StartDataStream \/ StopDataStream \/ Ignore
  BY <1>5, <1>7 DEF Query, SetMotorRefs, Upgrade, StartDataStream, StopDataStream,
                    Ignore
<1>8. CASE UIEthernetSendRealTimeData \/ HostTimer \/ SendStream \/ ScanDone
             \/ ReturnOK \/ UNCHANGED vars
  BY <1>5, <1>8 DEF UIEthernetSendRealTimeData, HostTimer, SendStream, ScanDone,
                    ReturnOK, vars
<1> QED
  BY <1>1, <1>2, <1>3, <1>4, <1>6, <1>7, <1>8 DEF Next, Handler

\* With at most one interrupt of the IMU during a reply, however long the reply
\* is, it is one sample and the newest one when it was asked for.  With two it
\* would not be: the second writes to the buffer that is being copied.
THEOREM ReplyIsOneSample ==
    MaxPreempt \in {0, 1} => (Spec => []SensorReplyWhole)
<1> SUFFICES ASSUME MaxPreempt \in {0, 1} PROVE Spec => []SensorReplyWhole
  OBVIOUS
<1>1. Init => SampleInv /\ SensorReplyWhole
  BY DEF Init, SampleInv, SensorReplyWhole, Buffers
<1>2. TypeOK /\ SampleInv /\ SensorReplyWhole /\ [Next]_vars
          => (SampleInv /\ SensorReplyWhole)'
  BY NextSample
<1> QED BY <1>1, <1>2, SessionInductive, PTL DEF Spec
=============================================================================
