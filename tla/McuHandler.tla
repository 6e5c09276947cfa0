----------------------------- MODULE McuHandler -----------------------------
(***************************************************************************)
(* The host side of the carousel's control board                           *)
(* (components/carousel1/mcuHandler): at every trigger the component asks  *)
(* the board for an inertial sample, works out the new position of the     *)
(* control surfaces, sends it, and publishes sample and positions.  When   *)
(* it stops, by command or by exception, it sends neutral positions first. *)
(*                                                                         *)
(* The component is one thread; a step is one system call or the code      *)
(* between two.  RTT's exception() runs stopHook inside the hook that      *)
(* calls it and then returns to that hook, so the state has a stack of     *)
(* hooks.  The other side of the connection is the board and the network.  *)
(*                                                                         *)
(* The three surfaces are handled alike: there is one, in steps in which   *)
(* +-Limit is the end of its travel and Ts is 1.  A reply is its header,   *)
(* its data and its checksum; only the sensor reply has data.              *)
(***************************************************************************)
EXTENDS Integers, Sequences

CONSTANTS Limit,              \* end of a surface's travel
          Positions,          \* positions a controller sends
          Derivatives,        \* derivatives a controller sends
          MAX_ERRORS_ALLOWED,
          SPLIT,              \* TRUE: a reply may arrive in pieces
          BREAKS              \* TRUE: the connection may break

ASSUME McuAssumption == /\ Limit \in Nat
                        /\ Positions \subseteq Int
                        /\ Derivatives \subseteq Int
                        /\ MAX_ERRORS_ALLOWED \in Nat \ {0}
                        /\ SPLIT \in BOOLEAN /\ BREAKS \in BOOLEAN

VARIABLES task,       \* RTT: the component's state
          stack,      \* the hooks that are running, innermost first
          sock,       \* tcpSocket: "open" or "closed"
          link,       \* the connection: "up", "fin" or "reset" by the board
          requests,   \* requests on their way to the board
          replies,    \* pieces of replies on their way to the host
          servo,      \* the board's servo reference
          tcpStatus,  \* OK, or not OK
          want,       \* numOfBytesToBeReceived
          buf,        \* receiveBuffer
          exec,       \* execControls
          data,       \* the sample last published on the port "data"
          turn,       \* parity of the trigger
          upTimeCnt,
          numErrors,
          late,       \* history: updates in a row that missed the deadline
          intact      \* history: the connection has delivered each reply at
                      \* once so far

netVars == <<sock, link, requests, replies, servo>>
ioVars  == <<tcpStatus, want, buf, numErrors, intact>>
outVars == <<data, turn, upTimeCnt, late>>
vars == <<task, stack, netVars, ioVars, exec, outVars>>

Size(cmd) == IF cmd = "CMD_GET_SENSOR_DATA" THEN 3 ELSE 2

\* A piece of a reply; sample is the parity of the trigger it belongs to.
Piece == [cmd : {"CMD_GET_SENSOR_DATA", "CMD_SET_MOTOR_REFS", "none"},
          pos : 0..3, sample : 0..1]

\* Fault: no lower limit.
ClipAbove(u) == IF u > Limit THEN Limit ELSE u

Clip(u) == IF u > Limit THEN Limit ELSE IF u < -Limit THEN -Limit ELSE u

Neutral == [u |-> 0, d |-> 0]

\* A hook about to do its first exchange with the board.
Hook(fn, cmd) == [fn |-> fn, cmd |-> cmd, at |-> "send", i |-> 0]

Init == /\ task = "PreOperational"
        /\ stack = << >>
        /\ sock = "closed"
        /\ link = "up"
        /\ requests = << >>
        /\ replies = << >>
        /\ servo = 0
        /\ tcpStatus \in {"OK", "error"}  \* the constructor does not set it
        /\ want = 0
        /\ buf = [k \in 1..3 |-> [cmd |-> "none", pos |-> 0, sample |-> 0]]
        /\ exec = Neutral
        /\ data = 0
        /\ turn = 0
        /\ upTimeCnt = 0
        /\ numErrors = 0
        /\ late = 0
        /\ intact = TRUE

-----------------------------------------------------------------------------
(* RTT.  exception() runs stopHook if the component is running; either way *)
(* the caller then continues as frames says.  stopHook resets the controls *)
(* and, in the state Exception, recovers.                                  *)

\* Fault: the controls are not reset.
SendAsIs == UNCHANGED exec /\ want' = Size("CMD_SET_MOTOR_REFS")

SendReset == exec' = Neutral /\ want' = Size("CMD_SET_MOTOR_REFS")

Exception(frames) ==
    /\ task' = "Exception"
    /\ tcpStatus' = "error"
    /\ IF task = "Running"
       THEN /\ stack' = <<Hook("stopHook", "CMD_SET_MOTOR_REFS")>> \o frames
            /\ SendReset
       ELSE stack' = frames /\ UNCHANGED <<exec, want>>

\* Continue as frames says, with an exception if failed holds and none has
\* been raised since tcpStatus was last set to OK.
Proceed(failed, frames) ==
    IF failed /\ tcpStatus = "OK"
    THEN Exception(frames)
    ELSE stack' = frames /\ UNCHANGED <<task, tcpStatus, exec, want>>

Idle == stack = << >>
Top  == Head(stack)
In(at) == ~Idle /\ Top.at = at

Continue(at, i) == <<[Top EXCEPT !.at = at, !.i = i]>> \o Tail(stack)

-----------------------------------------------------------------------------
(* What the deployer, the trigger and the operator ask of the component,   *)
(* one at a time.                                                          *)

configure == /\ Idle /\ task = "PreOperational"
             /\ task' = "Stopped"
             /\ UNCHANGED <<stack, netVars, ioVars, exec, outVars>>

\* startHook up to the exchange; tcpStatus keeps its value.  A failing connect
\* leaves everything modelled as it is.
start == /\ Idle /\ task = "Stopped"
         /\ sock' = "open" /\ link' = "up"
         /\ requests' = << >> /\ replies' = << >>
         /\ stack' = <<Hook("startHook", "CMD_SET_MOTOR_REFS")>>
         /\ SendReset
         /\ intact' = TRUE
         /\ UNCHANGED <<task, servo, tcpStatus, buf, numErrors, outVars>>

stop == /\ Idle /\ task = "Running"
        /\ stack' = <<Hook("stopHook", "CMD_SET_MOTOR_REFS")>>
        /\ SendReset
        /\ UNCHANGED <<task, netVars, tcpStatus, buf, numErrors, intact, outVars>>

\* updateHook up to the first exchange.
\* Fault: numOfBytesToBeReceived is left at the motor command's.
TriggerShort ==
    /\ Idle /\ task = "Running"
    /\ turn' = 1 - turn
    /\ tcpStatus' = "OK"
    /\ want' = Size("CMD_SET_MOTOR_REFS")
    /\ stack' = <<Hook("updateHook", "CMD_GET_SENSOR_DATA")>>
    /\ UNCHANGED <<task, netVars, buf, numErrors, intact, exec, data, upTimeCnt,
                   late>>

trigger == /\ Idle /\ task = "Running"
           /\ turn' = 1 - turn
           /\ tcpStatus' = "OK"
           /\ want' = Size("CMD_GET_SENSOR_DATA")
           /\ stack' = <<Hook("updateHook", "CMD_GET_SENSOR_DATA")>>
           /\ UNCHANGED <<task, netVars, buf, numErrors, intact, exec, data,
                          upTimeCnt, late>>

\* The operation leaves the derivative alone.  It is meant for a running
\* component, and nothing enforces that.
setControlsRadians(u) ==
    /\ Idle /\ task = "Running"
    /\ exec' = [exec EXCEPT !.u = Clip(u)]
    /\ want' = Size("CMD_SET_MOTOR_REFS")
    /\ stack' = <<Hook("setControls", "CMD_SET_MOTOR_REFS")>>
    /\ UNCHANGED <<task, netVars, tcpStatus, buf, numErrors, intact, outVars>>

-----------------------------------------------------------------------------
(* ethernetTransmitReceive                                                 *)

Usable == sock = "open" /\ link # "reset"

Send == /\ In("send")
        /\ Proceed(~Usable, Continue("recv", 0))
        /\ requests' = IF sock = "open" /\ link = "up"
                       THEN Append(requests, [cmd |-> Top.cmd, u |-> Clip(exec.u)])
                       ELSE requests
        /\ UNCHANGED <<sock, link, replies, servo, buf, numErrors, intact, outVars>>

\* recv stores whatever has come at the start of receiveBuffer ...
Recv(j) ==
    /\ In("recv") /\ Top.i < want
    /\ sock = "open" /\ link # "reset"
    /\ j \in 1..want /\ j <= Len(replies)
    /\ SPLIT \/ j = want \/ j = Len(replies)
    /\ buf' = [k \in 1..3 |-> IF k <= j THEN replies[k] ELSE buf[k]]
    /\ replies' = SubSeq(replies, j + 1, Len(replies))
    /\ stack' = Continue("recv", Top.i + j)
    /\ intact' = (intact /\ j = want)
    /\ UNCHANGED <<task, sock, link, requests, servo, tcpStatus, want, numErrors,
                   exec, outVars>>

\* ... and returns 0 at the end of the stream and -1 on an error; the loop adds
\* that to i like a number of bytes.  Below -1 it makes no difference.
RecvFails ==
    /\ In("recv") /\ Top.i < want
    /\ ~Usable \/ (link = "fin" /\ replies = << >>)
    /\ LET j == IF Usable THEN 0 ELSE -1
       IN  Proceed(TRUE, Continue("recv", IF Top.i + j < -1 THEN -1 ELSE Top.i + j))
    /\ UNCHANGED <<netVars, buf, numErrors, intact, outVars>>

\* Fault: the loop stops one piece early.
RecvDoneEarly == /\ In("recv") /\ Top.i >= want - 1
                 /\ stack' = Continue("sum", Top.i)
                 /\ UNCHANGED <<task, netVars, ioVars, exec, outVars>>

\* Fault: the loop goes on until it has more than a reply.
RecvDoneLate == /\ In("recv") /\ Top.i >= want
                /\ stack' = IF Top.i > want THEN Continue("sum", Top.i) ELSE stack
                /\ UNCHANGED <<task, netVars, ioVars, exec, outVars>>

RecvDone == /\ In("recv") /\ Top.i >= want
            /\ stack' = Continue("sum", Top.i)
            /\ UNCHANGED <<task, netVars, ioVars, exec, outVars>>

\* The bytes in receiveBuffer are one reply.
Whole == \A k \in 1..want : buf[k].pos = k /\ buf[k].sample = buf[1].sample

\* The checksum of anything else may be right or wrong.
Checksum(ok) ==
    /\ In("sum")
    /\ Whole => ok
    /\ LET raises == ~ok /\ tcpStatus = "OK" /\ numErrors + 1 > MAX_ERRORS_ALLOWED
       IN  /\ Proceed(raises, Continue("done", 0))
           /\ numErrors' = IF raises THEN numErrors + 1 ELSE 0
    /\ UNCHANGED <<netVars, buf, intact, outVars>>

-----------------------------------------------------------------------------
(* The hooks behind the exchange.                                          *)

Returns(fn) == In("done") /\ Top.fn = fn

startHook == /\ Returns("startHook")
             /\ upTimeCnt' = 0
             /\ task' = "Running"
             /\ stack' = Tail(stack)
             /\ UNCHANGED <<netVars, ioVars, exec, data, turn, late>>

setControls == /\ Returns("setControls")
               /\ stack' = Tail(stack)
               /\ UNCHANGED <<task, netVars, ioVars, exec, outVars>>

stopHook == /\ Returns("stopHook")
            /\ sock' = "closed"
            /\ task' = IF task = "Exception" THEN "PreOperational" ELSE "Stopped"
            /\ stack' = Tail(stack)
            /\ UNCHANGED <<link, requests, replies, servo, ioVars, exec, outVars>>

\* receiveSensorData looks at one byte of the header; a byte of anything else
\* may look like it.
CheckCommand(ok) ==
    /\ Returns("updateHook") /\ Top.cmd = "CMD_GET_SENSOR_DATA"
    /\ buf[1].pos = 1 => (ok <=> buf[1].cmd = "CMD_GET_SENSOR_DATA")
    /\ IF ok THEN stack' = Continue("filled", 0) /\ UNCHANGED <<task, tcpStatus, exec, want>>
             ELSE Exception(Continue("filled", 0))
    /\ UNCHANGED <<netVars, buf, numErrors, intact, outVars>>

\* What the port "controls" holds: nothing new, a position, or a derivative.
Controls == [kind : {"none"}, v : {0}] \cup [kind : {"position"}, v : Positions]
                \cup [kind : {"derivative"}, v : Derivatives]

\* A new derivative counts from the next sample on.
UpdateControls(c) == CASE c.kind = "none"       -> [exec EXCEPT !.u = @ + exec.d]
                       [] c.kind = "derivative" -> [u |-> exec.u + exec.d, d |-> c.v]
                       [] c.kind = "position"   -> [u |-> c.v, d |-> 0]

\* The positions are written back clipped (sendMotorReferences).
\* Fault: the positions are clipped for the board only.
NotTrimmed(e) == e

Trimmed(e) == [e EXCEPT !.u = Clip(@)]

updateControls(c) ==
    /\ In("filled")
    /\ exec' = Trimmed(UpdateControls(c))
    /\ tcpStatus' = "OK"
    /\ want' = Size("CMD_SET_MOTOR_REFS")
    /\ stack' = <<Hook("updateHook", "CMD_SET_MOTOR_REFS")>> \o Tail(stack)
    /\ data' = IF buf[2].pos = 2 /\ buf[2].cmd = "CMD_GET_SENSOR_DATA"
               THEN buf[2].sample ELSE 2
    /\ UNCHANGED <<task, netVars, buf, numErrors, intact, turn, upTimeCnt, late>>

\* The end of updateHook, with elapsed telling whether it took longer than Ts.
\* The counter is reset unless the limit is exceeded.
updateHook(elapsed) ==
    /\ Returns("updateHook") /\ Top.cmd = "CMD_SET_MOTOR_REFS"
    /\ LET raises == elapsed /\ upTimeCnt + 1 > MAX_ERRORS_ALLOWED
       IN  /\ upTimeCnt' = IF raises THEN upTimeCnt + 1 ELSE 0
           /\ IF raises THEN Exception(Tail(stack))
              ELSE stack' = Tail(stack) /\ UNCHANGED <<task, tcpStatus, exec, want>>
    /\ late' = IF ~elapsed THEN 0
               ELSE IF late > MAX_ERRORS_ALLOWED THEN late ELSE late + 1
    /\ UNCHANGED <<netVars, buf, numErrors, intact, data, turn>>

-----------------------------------------------------------------------------
(* The board answers in the order of the requests; see ControlBoard.       *)

BoardAnswers ==
    /\ link = "up" /\ requests # << >>
    /\ LET r == Head(requests)
       IN  /\ servo' = IF r.cmd = "CMD_SET_MOTOR_REFS" THEN r.u ELSE servo
           /\ replies' = replies \o [k \in 1..Size(r.cmd) |->
                             [cmd |-> r.cmd, pos |-> k, sample |-> turn]]
    /\ requests' = Tail(requests)
    /\ UNCHANGED <<task, stack, sock, link, ioVars, exec, outVars>>

\* The board closes or resets the connection, or the network fails.
Breaks(how) == /\ BREAKS
               /\ sock = "open" /\ link # "reset"
               /\ how \in {"fin", "reset"} /\ how # link
               /\ link' = how
               /\ requests' = << >>
               /\ intact' = FALSE
               /\ UNCHANGED <<task, stack, sock, replies, servo, tcpStatus, want,
                              buf, numErrors, exec, outVars>>

-----------------------------------------------------------------------------
Hooks == \/ Send \/ (\E j \in 1..3 : Recv(j)) \/ RecvFails \/ RecvDone
         \/ (\E ok \in BOOLEAN : Checksum(ok) \/ CheckCommand(ok))
         \/ (\E c \in Controls : updateControls(c))
         \/ (\E elapsed \in BOOLEAN : updateHook(elapsed))
         \/ startHook \/ setControls \/ stopHook

Next == \/ configure \/ start \/ stop \/ trigger
        \/ \E u \in Positions : setControlsRadians(u)
        \/ Hooks
        \/ BoardAnswers
        \/ \E how \in {"fin", "reset"} : Breaks(how)

Spec == Init /\ [][Next]_vars

\* The component's thread runs on and a connected board answers.
FairSpec == Spec /\ WF_vars(Hooks) /\ WF_vars(BoardAnswers)

-----------------------------------------------------------------------------
Commands == {"CMD_GET_SENSOR_DATA", "CMD_SET_MOTOR_REFS"}

Frame == [fn : {"startHook", "updateHook", "stopHook", "setControls"},
          cmd : Commands,
          at : {"send", "recv", "sum", "done", "filled"},
          i : -1..3]

TypeOK == /\ task \in {"PreOperational", "Stopped", "Running", "Exception"}
          /\ stack \in Seq(Frame)
          /\ sock \in {"open", "closed"}
          /\ link \in {"up", "fin", "reset"}
          /\ requests \in Seq([cmd : Commands, u : -Limit..Limit])
          /\ replies \in Seq(Piece)
          /\ servo \in -Limit..Limit
          /\ tcpStatus \in {"OK", "error"}
          /\ want \in {0, 2, 3}
          /\ buf \in [1..3 -> Piece]
          /\ exec \in [u : -Limit..Limit, d : Derivatives \cup {0}]
          /\ data \in 0..2 /\ turn \in 0..1
          /\ upTimeCnt \in 0..MAX_ERRORS_ALLOWED
          /\ numErrors \in 0..MAX_ERRORS_ALLOWED

\* The "last resort signal to the MCU" works: however the component came to
\* stop, and although exception() runs stopHook in the middle of an exchange,
\* the surfaces are neutral once the socket is closed, and stay so while the
\* interrupted hook goes on, unless the connection broke.
NeutralWhenStopped == (sock = "closed" /\ link = "up") => servo = 0

\* Between two updates the board holds the position that execControls says,
\* which is the one that was published: the clipped one, not the sum of
\* derivatives that the surfaces could not follow.
ServoHoldsControls ==
    (Idle /\ task = "Running" /\ link = "up") => servo = exec.u

\* The component and the board alternate: there is never a second request
\* before the reply to the first has been read.
OneExchange == Len(requests) + (IF replies = << >> THEN 0 ELSE 1) <= 1

\* A sample is published with the time stamp of the trigger that asked for it:
\* while replies arrive whole, no update publishes the sample of an earlier one.
FreshSample == (Returns("updateHook") /\ Top.cmd = "CMD_SET_MOTOR_REFS" /\ intact)
                   => data = turn

\* A hook that has been entered returns while replies arrive whole.
HookReturns == ~Idle ~> (Idle \/ ~intact)

-----------------------------------------------------------------------------
(* The inductive invariant these properties rest on, in parts (proofs in   *)
(* McuHandler_proofs).                                                     *)

\* A hook is interrupted by stopHook alone, once, and where exception() is
\* called; a component that runs, or starts, has its socket.  Neither error
\* counter ever passes zero, so neither of them raises an exception.
StackInv ==
    /\ Len(stack) <= 2
    /\ \A k \in 1..Len(stack) :
           /\ stack[k].cmd = "CMD_GET_SENSOR_DATA" => stack[k].fn = "updateHook"
           /\ stack[k].at = "filled" => stack[k].cmd = "CMD_GET_SENSOR_DATA"
    /\ Len(stack) = 2 =>
           /\ Top.fn = "stopHook" /\ task = "Exception"
           /\ stack[2].at \in {"recv", "filled"} /\ stack[2].fn # "startHook"
           /\ stack[2].fn = "stopHook" => link # "up"
    /\ (~Idle /\ Top.fn = "startHook") => sock = "open" /\ task # "Running"
    /\ task = "Running" => sock = "open"
    /\ In("send") => want = Size(Top.cmd)
    /\ upTimeCnt = 0 /\ numErrors = 0

\* What is on the way belongs to the exchange of the innermost hook: the
\* request, or the rest of the reply, until the connection is reset.
ExchangeInv ==
    \/ link = "reset" /\ requests = << >>
    \/ requests = << >> /\ replies = << >>
    \/ /\ In("recv") /\ sock = "open"
       /\ requests = << >> /\ Top.i + Len(replies) = want
    \/ /\ In("recv") /\ sock = "open" /\ link = "up"
       /\ Top.i = 0 /\ want = Size(Top.cmd)
       /\ requests = <<[cmd |-> Top.cmd, u |-> exec.u]>> /\ replies = << >>

\* Once a motor command is answered the servo is where execControls says;
\* stopHook says neutral, and its connection is open unless it broke.
PositionInv ==
    ~Idle /\ link = "up" =>
        /\ (/\ sock = "open" /\ Top.cmd = "CMD_SET_MOTOR_REFS"
            /\ Top.at # "send") => servo = exec.u \/ requests # << >>
        /\ Top.fn = "stopHook" => sock = "open" /\ exec.u = 0

\* The pieces of the sensor reply to the current trigger, in their order.
Sample(s) == \A k \in 1..3 :
                 s[k] = [cmd |-> "CMD_GET_SENSOR_DATA", pos |-> k, sample |-> turn]

\* While replies arrive whole nothing is interrupted, and what the update has
\* read, or published, is the sample of its own trigger.
IntactInv ==
    intact =>
        /\ link = "up" /\ Len(stack) <= 1
        /\ ~Idle => sock = "open"
        /\ (In("send") \/ In("recv")) => want = Size(Top.cmd)
        /\ In("recv") => \/ requests # << >>
                         \/ Top.i = 0 /\ replies # << >>
                         \/ Top.i = want
        /\ (~Idle /\ Top.fn = "updateHook") =>
               IF Top.cmd = "CMD_SET_MOTOR_REFS" THEN data = turn
               ELSE IF Top.at = "send" \/ requests # << >> THEN TRUE
               ELSE IF replies # << >> THEN Sample(replies)
               ELSE Sample(buf)

McuInv == StackInv /\ ExchangeInv /\ PositionInv /\ IntactInv

-----------------------------------------------------------------------------
(* What comments say of this code.                                         *)

\* "In case we do not meet the deadline, abort": a component that is still
\* running has not missed more deadlines in a row than it may.  The code breaks
\* this, the counter never passes one (README, section 4).
DeadlineAborts == (Idle /\ task = "Running") => late <= MAX_ERRORS_ALLOWED

\* "In case of ANY error, it triggers the error hook": when the connection
\* breaks during an exchange, the component gets out of its running state.
ErrorHook == (In("recv") /\ link # "up") ~> (Idle /\ task # "Running")
=============================================================================
