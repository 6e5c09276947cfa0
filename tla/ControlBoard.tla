---------------------------- MODULE ControlBoard ----------------------------
(***************************************************************************)
(* The carousel's control board (stellaris_mcu_board/mcu_sw): it answers   *)
(* the commands of one telnet connection, streams real-time data, samples  *)
(* an inertial sensor and drives three servos.  main() only loops; "all    *)
(* the work is done in interrupt handlers", whose priorities bsp.c sets:   *)
(* the IMU's pre-empts SysTick's, which pre-empts the Ethernet controller's.*)
(*                                                                         *)
(* A handler that is not pre-empted by another user of its data is one     *)
(* step.  Only the Ethernet handler is not, so it alone has a control      *)
(* state: eth.  lwIP's connections are modelled by what ui_ethernet.c      *)
(* needs of them, the bytes of the commands in module ReceiveRing.         *)
(***************************************************************************)
EXTENDS Integers, Sequences

CONSTANTS Conns,        \* connections lwIP can hold over time (its pcbs)
          NULL,
          UI_CONNECTION_TIMEOUT,
          Refs,         \* motor references a host sends, INT16
          Fields,       \* values in a sensor reply
          Versions,     \* IMU samples are told apart modulo this number
          MaxPreempt,   \* IMU interrupts during one sensor reply
          Batches       \* sequences of commands a TCP segment may hold

\* Commands whose handlers have an effect, and three that stand for the ones
\* that only answer (CMD_GET_PARAMS, CMD_RUN, CMD_ESTOP, ...): the one parameter
\* is read-only and the application's hooks (UIRun, UIStop, UIParamLoad, ...)
\* are empty.
Queries  == {"CMD_ID_TARGET", "CMD_LOAD_PARAMS", "CMD_SAVE_PARAMS"}
Commands == Queries \cup {"CMD_UPGRADE", "CMD_START_DATA_STREAM",
                          "CMD_STOP_DATA_STREAM", "CMD_SET_MOTOR_REFS",
                          "CMD_GET_SENSOR_DATA", "unrecognized"}

INT16 == {v \in Int : -32768 <= v /\ v <= 32767}

ASSUME BoardAssumption ==
    /\ NULL \notin Conns
    /\ UI_CONNECTION_TIMEOUT \in Nat \ {0}
    /\ Refs \subseteq INT16
    /\ Fields \in Nat \ {0}
    /\ Versions \in Nat /\ Versions > MaxPreempt + 1
    /\ MaxPreempt \in Nat
    /\ Batches \subseteq Seq(Commands)

VARIABLES tcp,      \* lwIP: "none", "up" (callbacks set), "closing" or "freed"
          unacked,  \* lwIP: the session has data not yet acknowledged
          pcb,      \* g_psTelnetPCB
          timeout,  \* g_ulConnectionTimeout
          enable,   \* g_bEnableRealTimeData
          send,     \* g_bSendRealTimeData
          data,     \* g_pucUIEthernetData, flipped when it is rebuilt
          queued,   \* history: stream packets built and not yet transmitted
          imu_read, \* the buffer imu_read points to; imu_write is the other
          imu,      \* the sample in each of the two buffers
          samples,  \* samples taken, modulo Versions
          pwm,      \* pulse widths of the servos
          eth,      \* "idle", "scan", "sensor", "stream" or "return"
          cur,      \* the connection whose callback is running
          pending,  \* commands still to be scanned
          ptr,      \* sIMUSensorData
          reply,    \* the values copied into the sensor reply
          latest,   \* history: the newest sample when that reply began
          preempts, \* IMU interrupts since then
          out       \* the last packet the callback gave to tcp_write

connVars  == <<tcp, unacked, pcb, timeout>>
flowVars  == <<enable, send, data, queued>>
imuVars   == <<imu_read, imu, samples, preempts>>
replyVars == <<ptr, reply, latest>>
vars == <<connVars, flowVars, imuVars, replyVars, pwm, eth, cur, pending, out>>

Buffers == {"ping", "pong"}
Other(b) == IF b = "ping" THEN "pong" ELSE "ping"

NoPacket == [to |-> "nobody"]

\* Fault: the reference is taken for Q14.
RC_DUTY_SCALE_Q14(v) == ((750 * v) \div 16384) + 1875

\* Pulse width for a reference in Q15 format.
RC_DUTY_SCALE(v) == ((750 * v) \div 32768) + 1875

Init == /\ tcp = [c \in Conns |-> "none"]
        /\ unacked = FALSE
        /\ pcb = NULL
        /\ timeout = 0
        /\ enable = FALSE
        /\ send = FALSE
        /\ data = FALSE
        /\ queued = 0
        /\ imu_read = "ping"
        /\ imu = [b \in Buffers |-> 0]
        /\ samples = 0
        /\ pwm = RC_DUTY_SCALE(0)
        /\ eth = "idle"
        /\ cur = NULL
        /\ pending = << >>
        /\ ptr = "ping"
        /\ reply = << >>
        /\ latest = 0
        /\ preempts = 0
        /\ out = NoPacket

-----------------------------------------------------------------------------
(* The IMU and SysTick interrupts.                                         *)

\* IMUReadSensorData fills the write buffer and exchanges the pointers.
\* Fault: the sample goes to the buffer that is being read.
IMUIntHandlerInPlace ==
    /\ eth = "sensor" => preempts < MaxPreempt
    /\ samples' = (samples + 1) % Versions
    /\ imu' = [imu EXCEPT ![imu_read] = samples']
    /\ preempts' = IF eth = "sensor" THEN preempts + 1 ELSE preempts
    /\ UNCHANGED <<imu_read, connVars, flowVars, replyVars, pwm, eth, cur,
                   pending, out>>

IMUIntHandler ==
    /\ eth = "sensor" => preempts < MaxPreempt
    /\ samples' = (samples + 1) % Versions
    /\ imu' = [imu EXCEPT ![Other(imu_read)] = samples']
    /\ imu_read' = Other(imu_read)
    /\ preempts' = IF eth = "sensor" THEN preempts + 1 ELSE preempts
    /\ UNCHANGED <<connVars, flowVars, replyVars, pwm, eth, cur, pending, out>>

\* The handler gives up a tick while the last packet has not been sent.
\* Fault: the packet is rebuilt although the last one has not been sent.
SendRealTimeDataAnyway ==
    /\ enable
    /\ data' = ~data
    /\ queued' = queued + 1
    /\ send' = TRUE
    /\ queued < 3
    /\ UNCHANGED <<connVars, enable, imuVars, replyVars, pwm, eth, cur, pending,
                   out>>

UIEthernetSendRealTimeData ==
    /\ enable
    /\ ~send
    /\ data' = ~data
    /\ queued' = queued + 1
    /\ send' = TRUE
    /\ UNCHANGED <<connVars, enable, imuVars, replyVars, pwm, eth, cur, pending,
                   out>>

-----------------------------------------------------------------------------
(* The connection: lwIP calls back from the Ethernet interrupt.            *)

Calls(c) == eth = "idle" /\ tcp[c] = "up"

\* Fault: the callbacks of a closed connection stay.
CloseKeepsCallbacks(c) == tcp

UIEthernetClose(c) == [tcp EXCEPT ![c] = "closing"]

UIEthernetAccept(c) ==
    /\ eth = "idle"
    /\ tcp[c] = "none"
    /\ LET closed == IF pcb # NULL THEN UIEthernetClose(pcb) ELSE tcp
       IN  tcp' = [closed EXCEPT ![c] = "up"]
    /\ timeout' = 0
    /\ pcb' = c
    /\ unacked' = FALSE
    /\ UNCHANGED <<flowVars, imuVars, replyVars, pwm, eth, cur, pending,
                   out>>

\* The host has closed: UIEthernetReceive is called without a pbuf.
ReceiveClose(c) == /\ Calls(c)
                   /\ tcp' = UIEthernetClose(c)
                   /\ pcb' = NULL
                   /\ unacked' = FALSE
                   /\ UNCHANGED <<timeout, flowVars, imuVars, replyVars,
                                  pwm, eth, cur, pending, out>>

UIEthernetError(c) == /\ Calls(c)
                      /\ tcp' = [tcp EXCEPT ![c] = "freed"]
                      /\ pcb' = NULL
                      /\ unacked' = FALSE
                      /\ UNCHANGED <<timeout, flowVars, imuVars, replyVars,
                                     pwm, eth, cur, pending, out>>

UIEthernetSent(c) == /\ Calls(c)
                     /\ unacked
                     /\ unacked' = FALSE
                     /\ timeout' = 0
                     /\ UNCHANGED <<tcp, pcb, flowVars, imuVars, replyVars, pwm,
                                    eth, cur, pending, out>>

\* tcp_abort(g_psTelnetPCB) frees the pcb; then the pointer is cleared.
Abort == /\ tcp' = IF pcb \in Conns THEN [tcp EXCEPT ![pcb] = "freed"] ELSE tcp
         /\ pcb' = NULL
         /\ unacked' = FALSE

\* Fault: an idle connection is not aborted.
PollNeverAborts(c) ==
    /\ Calls(c)
    /\ timeout' = IF timeout > UI_CONNECTION_TIMEOUT THEN timeout ELSE timeout + 1
    /\ eth' = "return"
    /\ cur' = c
    /\ UNCHANGED <<tcp, pcb, unacked, flowVars, imuVars, replyVars, pwm, pending,
                   out>>

UIEthernetPoll(c) ==
    /\ Calls(c)
    /\ IF timeout + 1 > UI_CONNECTION_TIMEOUT
       THEN Abort
       ELSE UNCHANGED <<tcp, pcb, unacked>>
    /\ timeout' = timeout + 1
    /\ eth' = "return"
    /\ cur' = c
    /\ UNCHANGED <<flowVars, imuVars, replyVars, pwm, pending, out>>

\* UIEthernetPoll and UIEthernetReceive return ERR_OK: lwIP goes on with the
\* pcb it has called back for.
ReturnOK == /\ eth = "return"
            /\ eth' = "idle"
            /\ cur' = NULL
            /\ out' = NoPacket
            /\ UNCHANGED <<connVars, flowVars, imuVars, replyVars, pwm, pending>>

-----------------------------------------------------------------------------
(* Commands.                                                               *)

\* UIEthernetTransmit: tcp_write to g_psTelnetPCB.
UIEthernetTransmit(cmd, id) ==
    /\ out' = [to |-> pcb, from |-> cur, cmd |-> cmd, id |-> id]
    /\ unacked' = (pcb # NULL)

Receive(c, cmds) == /\ Calls(c)
                    /\ pending' = cmds
                    /\ cur' = c
                    /\ eth' = "scan"
                    /\ UNCHANGED <<connVars, flowVars, imuVars, replyVars, pwm,
                                   out>>

Scans(cmd) == /\ eth = "scan"
              /\ pending # << >>
              /\ Head(pending) = cmd
              /\ pending' = Tail(pending)

\* CMD_SAVE_PARAMS answers with the identifier of CMD_LOAD_PARAMS.
ReplyId(cmd) == IF cmd = "CMD_SAVE_PARAMS" THEN "CMD_LOAD_PARAMS" ELSE cmd

Query(cmd) == /\ Scans(cmd)
              /\ UIEthernetTransmit(cmd, ReplyId(cmd))
              /\ UNCHANGED <<tcp, pcb, timeout, flowVars, imuVars, replyVars, pwm,
                             eth, cur>>

\* A second upgrade in the same segment clears the callbacks of a null control
\* block: the processor faults, and the handler goes no further.
Upgrade == /\ Scans("CMD_UPGRADE")
           /\ pcb # NULL
           /\ Abort
           /\ UNCHANGED <<timeout, flowVars, imuVars, replyVars, pwm, eth, cur,
                          out>>

StartDataStream == /\ Scans("CMD_START_DATA_STREAM")
                   /\ UIEthernetTransmit("CMD_START_DATA_STREAM",
                                         "CMD_START_DATA_STREAM")
                   /\ enable' = TRUE
                   /\ UNCHANGED <<tcp, pcb, timeout, send, data, queued, imuVars,
                                  replyVars, pwm, eth, cur>>

StopDataStream == /\ Scans("CMD_STOP_DATA_STREAM")
                  /\ enable' = FALSE
                  /\ UIEthernetTransmit("CMD_STOP_DATA_STREAM",
                                        "CMD_STOP_DATA_STREAM")
                  /\ UNCHANGED <<tcp, pcb, timeout, send, data, queued, imuVars,
                                 replyVars, pwm, eth, cur>>

SetMotorRefs(ref) == /\ Scans("CMD_SET_MOTOR_REFS")
                     /\ pwm' = RC_DUTY_SCALE(ref)
                     /\ UIEthernetTransmit("CMD_SET_MOTOR_REFS",
                                           "CMD_SET_MOTOR_REFS")
                     /\ UNCHANGED <<tcp, pcb, timeout, flowVars, imuVars,
                                    replyVars, eth, cur>>

Ignore == /\ Scans("unrecognized")
          /\ UNCHANGED <<connVars, flowVars, imuVars, replyVars, pwm, eth, cur,
                         out>>

\* CMD_GET_SENSOR_DATA: IMUGetSensorData returns imu_read; the values are then
\* copied one by one while the IMU may interrupt.
GetSensorData == /\ Scans("CMD_GET_SENSOR_DATA")
                 /\ ptr' = imu_read
                 /\ reply' = << >>
                 /\ latest' = samples
                 /\ eth' = "sensor"
                 /\ UNCHANGED <<connVars, flowVars, imuVars, pwm, cur, out>>

CopyField == /\ eth = "sensor"
             /\ Len(reply) < Fields
             /\ reply' = Append(reply, imu[ptr])
             /\ UNCHANGED <<connVars, flowVars, imuVars, ptr, latest, pwm, eth,
                            cur, pending, out>>

SendSensorData == /\ eth = "sensor"
                  /\ Len(reply) = Fields
                  /\ UIEthernetTransmit("CMD_GET_SENSOR_DATA",
                                        "CMD_GET_SENSOR_DATA")
                  /\ eth' = "scan"
                  /\ ptr' = "ping"
                  /\ reply' = << >>
                  /\ latest' = 0
                  /\ preempts' = 0
                  /\ UNCHANGED <<tcp, pcb, timeout, flowVars, imu_read, imu,
                                 samples, pwm, cur, pending>>

ScanDone == /\ eth = "scan"
            /\ pending = << >>
            /\ eth' = "return"
            /\ UNCHANGED <<connVars, flowVars, imuVars, replyVars, pwm, cur,
                           pending, out>>

-----------------------------------------------------------------------------
(* lwIPHostTimerHandler, which lwIP's timers call in the same interrupt.   *)

HostTimer == /\ eth = "idle"
             /\ send
             /\ eth' = "stream"
             /\ UNCHANGED <<connVars, flowVars, imuVars, replyVars, pwm, cur,
                            pending, out>>

SendStream == /\ eth = "stream"
              /\ out' = [to |-> pcb, from |-> NULL, cmd |-> "none", id |-> "data"]
              /\ unacked' = (pcb # NULL)
              /\ queued' = queued - 1
              /\ send' = FALSE
              /\ eth' = "idle"
              /\ UNCHANGED <<tcp, pcb, timeout, enable, data, imuVars, replyVars,
                             pwm, cur, pending>>

-----------------------------------------------------------------------------
Handler == \/ \E cmd \in Queries : Query(cmd)
           \/ \E ref \in Refs : SetMotorRefs(ref)
           \/ Upgrade \/ StartDataStream \/ StopDataStream \/ Ignore
           \/ GetSensorData \/ CopyField \/ SendSensorData
           \/ ScanDone \/ ReturnOK \/ SendStream

Callback == \E c \in Conns :
                \/ UIEthernetAccept(c) \/ ReceiveClose(c) \/ UIEthernetError(c)
                \/ UIEthernetSent(c) \/ UIEthernetPoll(c)
                \/ \E cmds \in Batches : Receive(c, cmds)

Next == IMUIntHandler \/ UIEthernetSendRealTimeData \/ HostTimer \/ Handler
        \/ Callback

Spec == Init /\ [][Next]_vars

\* A handler that has started runs on.  lwIP's slow timer polls an open
\* connection again and again, whatever else the interrupt has to do.
FairSpec == /\ Spec
            /\ WF_vars(Handler)
            /\ \A c \in Conns : SF_vars(UIEthernetPoll(c))

-----------------------------------------------------------------------------
Pulses == {p \in Int : 1125 <= p /\ p <= 2625}

\* Types; every reference gives the servos a pulse between 0.9 and 2.1 ms, and
\* the count of polls stops at its limit.
TypeOK == /\ tcp \in [Conns -> {"none", "up", "closing", "freed"}]
          /\ unacked \in BOOLEAN
          /\ pcb \in Conns \cup {NULL}
          /\ timeout \in 0..(UI_CONNECTION_TIMEOUT + 1)
          /\ enable \in BOOLEAN /\ send \in BOOLEAN
          /\ data \in BOOLEAN
          /\ queued \in Int
          /\ imu_read \in Buffers
          /\ imu \in [Buffers -> 0..(Versions - 1)]
          /\ samples \in 0..(Versions - 1)
          /\ pwm \in Pulses
          /\ eth \in {"idle", "scan", "sensor", "stream", "return"}
          /\ cur \in Conns \cup {NULL}
          /\ pending \in Seq(Commands)
          /\ ptr \in Buffers
          /\ reply \in Seq(0..(Versions - 1))
          /\ latest \in 0..(Versions - 1)
          /\ preempts \in 0..MaxPreempt

\* There is one telnet session: lwIP calls back for no other connection than
\* the one g_psTelnetPCB points to, and that pointer is never left on a
\* connection that lwIP has closed or freed, whichever of accepting, closing,
\* timing out, failing and upgrading came in between.
OneConnection == {c \in Conns : tcp[c] = "up"} = {pcb} \ {NULL}

\* A command is answered on the connection that it came from although the
\* reply is sent to g_psTelnetPCB, unless that connection is gone by then.
RepliesToTheSender ==
    (out # NoPacket /\ out.cmd # "none") => out.to \in {out.from, NULL}

\* A sensor reply is one sample, the newest one when it was asked for, although
\* the IMU interrupt may exchange the buffers while the reply is built.
SensorReplyWhole == \A k \in DOMAIN reply : reply[k] = latest

\* A stream packet is built only when the last one is gone, and g_bSendRealTimeData
\* stands for exactly one that is not: none is sent twice or built for nothing.
StreamHandshake == queued = IF send THEN 1 ELSE 0

\* SysTick does not write to the packet that the Ethernet handler is sending.
StreamPacketStable == [][eth = "stream" => UNCHANGED data]_vars

\* "It can be used to reset an idle connection": a connection that stays is one
\* on which data is acknowledged again and again.
IdleIsReset == \A c \in Conns : <>[](pcb = c) => []<>(pcb = c /\ timeout = 0)

-----------------------------------------------------------------------------
(* The inductive invariants behind these properties.                       *)

\* A handler replies to the connection it was called for or, after an upgrade
\* in the same segment, to nobody; a session that has timed out is over.
SessionInv == /\ eth \in {"scan", "sensor"} => pcb \in {cur, NULL}
              /\ timeout > UI_CONNECTION_TIMEOUT => pcb = NULL

\* The transmitting handler runs only with a packet to send.
StreamInv == eth = "stream" => send

\* imu_read is on the newest sample, and the first interrupt during a reply
\* leaves the buffer that is being copied alone: only the second would not.
SampleInv ==
    /\ imu[imu_read] = samples
    /\ eth # "sensor" => reply = << >> /\ preempts = 0
    /\ eth = "sensor" => /\ imu[ptr] = latest
                         /\ ptr = IF preempts = 0 THEN imu_read
                                                  ELSE Other(imu_read)

-----------------------------------------------------------------------------
(* What comments say of this code.                                         *)

\* tcp_write's pcb is the "control block of the TCP connection to enqueue data
\* for": a packet is transmitted on a connection.  The code breaks this, a stream
\* outlives its connection (README, section 4).
TransmitsOnConnection == out # NoPacket => out.to # NULL
=============================================================================
