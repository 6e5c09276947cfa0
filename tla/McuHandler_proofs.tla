-------------------------- MODULE McuHandler_proofs --------------------------
(***************************************************************************)
(* The host side of the control board for any travel of the surfaces, any  *)
(* positions and derivatives, any limit on the errors, replies whole or in *)
(* pieces and a connection that breaks or not.                             *)
(***************************************************************************)
EXTENDS McuHandler, SequenceTheorems, TLAPS

USE DEF netVars, ioVars, outVars

-----------------------------------------------------------------------------
(* The stack of hooks                                                      *)

LEMMA HeadIsFirst ==
    ASSUME NEW S, NEW s \in Seq(S), Len(s) # 0
    PROVE  s # << >> /\ Head(s) = s[1]
<1>1. s # << >>
  BY EmptySeq
<1>2. Head(s) = s[1]
  BY <1>1
<1> QED BY <1>1, <1>2

LEMMA TailOfTwo ==
    ASSUME NEW S, NEW s \in Seq(S), Len(s) = 2
    PROVE  Tail(s) # << >> /\ Head(Tail(s)) = s[2] /\ Tail(s)[1] = s[2]
<1> DEFINE t == Tail(s)
<1>1. s # << >>
  BY EmptySeq
<1>2. t \in Seq(S) /\ Len(t) = 1
  BY <1>1, HeadTailProperties
<1>3. t[1] = s[2]
  BY <1>1, <1>2, HeadTailProperties
<1> HIDE DEF t
<1>4. t # << >> /\ Head(t) = t[1]
  BY <1>2, HeadIsFirst
<1> QED BY <1>3, <1>4 DEF t

\* The innermost hook, and what is left when it returns.
LEMMA TopOfStack ==
    ASSUME stack \in Seq(Frame), ~Idle
    PROVE  /\ Top \in Frame /\ Top = stack[1]
           /\ Len(stack) \in Nat \ {0}
           /\ Tail(stack) \in Seq(Frame) /\ Len(Tail(stack)) = Len(stack) - 1
           /\ \A k \in 1..(Len(stack) - 1) : Tail(stack)[k] = stack[k + 1]
BY HeadTailProperties DEF Idle, Top

\* A hook on top of others.
LEMMA Pushed ==
    ASSUME NEW f \in Frame, NEW s \in Seq(Frame), stack' = <<f>> \o s
    PROVE  /\ stack' \in Seq(Frame) /\ ~Idle' /\ Top' = f /\ stack'[1] = f
           /\ Len(stack') = Len(s) + 1
           /\ \A k \in 1..Len(s) : stack'[k + 1] = s[k]
<1>1. <<f>> \in Seq(Frame) /\ Len(<<f>>) = 1 /\ <<f>>[1] = f
  OBVIOUS
<1>2. /\ stack' \in Seq(Frame)
      /\ Len(stack') = 1 + Len(s)
      /\ \A k \in 1..(1 + Len(s)) :
             stack'[k] = IF k <= 1 THEN <<f>>[k] ELSE s[k - 1]
  BY <1>1, ConcatProperties
<1>3. Len(s) \in Nat
  OBVIOUS
<1>4. stack'[1] = f
  BY <1>1, <1>2, <1>3
<1>5. \A k \in 1..Len(s) : stack'[k + 1] = s[k]
  BY <1>2, <1>3
<1>6. stack' # << >>
  BY <1>2, <1>3
<1> QED BY <1>2, <1>3, <1>4, <1>5, <1>6 DEF Idle, Top

\* The innermost hook goes on; the ones below stay.
LEMMA Continued ==
    ASSUME stack \in Seq(Frame), ~Idle,
           NEW at \in {"send", "recv", "sum", "done", "filled"}, NEW i \in -1..3,
           stack' = Continue(at, i)
    PROVE  /\ stack' \in Seq(Frame) /\ ~Idle' /\ Len(stack') = Len(stack)
           /\ Top' = [Top EXCEPT !.at = at, !.i = i] /\ stack'[1] = Top'
           /\ Top'.fn = Top.fn /\ Top'.cmd = Top.cmd
           /\ Top'.at = at /\ Top'.i = i
           /\ Len(stack) = 2 => stack'[2] = stack[2]
<1> DEFINE f == [Top EXCEPT !.at = at, !.i = i]
<1>1. Top \in Frame /\ Tail(stack) \in Seq(Frame)
      /\ Len(Tail(stack)) = Len(stack) - 1 /\ Len(stack) \in Nat
      /\ (Len(stack) = 2 => Tail(stack)[1] = stack[2])
  BY TopOfStack
<1>2. f \in Frame /\ f.fn = Top.fn /\ f.cmd = Top.cmd /\ f.at = at /\ f.i = i
  BY <1>1 DEF Frame
<1>3. stack' = <<f>> \o Tail(stack)
  BY DEF Continue
<1> HIDE DEF f
<1>4. /\ stack' \in Seq(Frame) /\ ~Idle' /\ Top' = f /\ stack'[1] = f
      /\ Len(stack') = Len(Tail(stack)) + 1
      /\ \A k \in 1..Len(Tail(stack)) : stack'[k + 1] = Tail(stack)[k]
  BY <1>1, <1>2, <1>3, Pushed
<1>5. Len(stack) = 2 => stack'[2] = stack[2]
  <2> SUFFICES ASSUME Len(stack) = 2 PROVE stack'[2] = stack[2]
    OBVIOUS
  <2>3. Len(Tail(stack)) = 1
    BY <1>1
  <2>1. 1 \in 1..Len(Tail(stack))
    BY <2>3
  <2>2. stack'[1 + 1] = Tail(stack)[1]
    BY <1>4, <2>1
  <2> QED BY <1>1, <2>2
<1> QED BY <1>1, <1>2, <1>4, <1>5 DEF f

\* stopHook interrupts the innermost hook.
LEMMA Interrupted ==
    ASSUME stack \in Seq(Frame), ~Idle,
           NEW at \in {"send", "recv", "sum", "done", "filled"}, NEW i \in -1..3,
           stack' = <<Hook("stopHook", "CMD_SET_MOTOR_REFS")>> \o Continue(at, i)
    PROVE  /\ stack' \in Seq(Frame) /\ ~Idle' /\ Len(stack') = Len(stack) + 1
           /\ Top' = Hook("stopHook", "CMD_SET_MOTOR_REFS") /\ stack'[1] = Top'
           /\ stack'[2] = [Top EXCEPT !.at = at, !.i = i]
<1> DEFINE f == [Top EXCEPT !.at = at, !.i = i]
           t == <<f>> \o Tail(stack)
           h == Hook("stopHook", "CMD_SET_MOTOR_REFS")
<1>1. Top \in Frame /\ Tail(stack) \in Seq(Frame)
      /\ Len(Tail(stack)) = Len(stack) - 1 /\ Len(stack) \in Nat
  BY TopOfStack
<1>2. f \in Frame
  BY <1>1 DEF Frame
<1>3. stack' = <<h>> \o t
  BY DEF Continue
<1>4. h \in Frame
  BY DEF Hook, Frame, Commands
<1> HIDE DEF f, h
<1>5. <<f>> \in Seq(Frame) /\ Len(<<f>>) = 1 /\ <<f>>[1] = f
  BY <1>2
<1>6. t \in Seq(Frame) /\ Len(t) = 1 + Len(Tail(stack)) /\ t[1] = f
  BY <1>1, <1>5, ConcatProperties
<1> HIDE DEF t
<1>7. /\ stack' \in Seq(Frame) /\ ~Idle' /\ Top' = h /\ stack'[1] = h
      /\ Len(stack') = Len(t) + 1
      /\ \A k \in 1..Len(t) : stack'[k + 1] = t[k]
  BY <1>3, <1>4, <1>6, Pushed
<1>8. stack'[2] = f
  BY <1>1, <1>6, <1>7
<1> QED BY <1>1, <1>6, <1>7, <1>8 DEF f, h

\* A hook is called when none runs.
LEMMA Entered ==
    ASSUME NEW fn \in {"startHook", "updateHook", "stopHook", "setControls"},
           NEW cmd \in Commands, stack' = <<Hook(fn, cmd)>>
    PROVE  /\ stack' \in Seq(Frame) /\ ~Idle' /\ Len(stack') = 1
           /\ Top' = Hook(fn, cmd) /\ stack'[1] = Top'
           /\ Top'.fn = fn /\ Top'.cmd = cmd /\ Top'.at = "send"
<1>1. Hook(fn, cmd) \in Frame
  BY DEF Hook, Frame
<1>2. Hook(fn, cmd).fn = fn /\ Hook(fn, cmd).cmd = cmd /\ Hook(fn, cmd).at = "send"
  BY DEF Hook
<1>3. stack' # << >> /\ Head(stack') = Hook(fn, cmd)
  OBVIOUS
<1> QED BY <1>1, <1>2, <1>3 DEF Idle, Top

\* The innermost hook returns.
LEMMA Returned ==
    ASSUME stack \in Seq(Frame), ~Idle, Len(stack) <= 2, stack' = Tail(stack)
    PROVE  /\ stack' \in Seq(Frame) /\ Len(stack') = Len(stack) - 1
           /\ Len(stack) = 1 => Idle'
           /\ Len(stack) = 2 => ~Idle' /\ Top' = stack[2] /\ stack'[1] = stack[2]
<1>1. /\ stack' \in Seq(Frame) /\ Len(stack') = Len(stack) - 1
      /\ Len(stack) \in Nat \ {0}
      /\ \A k \in 1..(Len(stack) - 1) : stack'[k] = stack[k + 1]
  BY TopOfStack
<1>2. Len(stack) = 1 => stack' = << >>
  BY <1>1
<1>3. Len(stack) = 2 => /\ stack' # << >> /\ Head(stack') = stack[2]
                       /\ stack'[1] = stack[2]
  BY TailOfTwo
<1> QED BY <1>1, <1>2, <1>3 DEF Idle, Top
-----------------------------------------------------------------------------
(* The inductive invariant                                                 *)

Inv == TypeOK /\ McuInv /\ NeutralWhenStopped /\ ServoHoldsControls

LEMMA ClipInTravel ==
    ASSUME NEW u \in Int
    PROVE  Clip(u) \in -Limit..Limit
BY McuAssumption DEF Clip

\* A position within the travel is sent as it is.
LEMMA ClipKeeps ==
    ASSUME NEW u \in -Limit..Limit
    PROVE  Clip(u) = u
BY McuAssumption DEF Clip

LEMMA NeutralIsTyped ==
    /\ Neutral \in [u : -Limit..Limit, d : Derivatives \cup {0}]
    /\ Neutral.u = 0
BY McuAssumption DEF Neutral

LEMMA Initially == Init => Inv
<1> SUFFICES ASSUME Init PROVE Inv
  OBVIOUS
<1> USE McuAssumption DEF Init
<1>1. stack \in Seq(Frame) /\ Len(stack) = 0 /\ Idle
  BY EmptySeq DEF Idle
<1>2. /\ requests \in Seq([cmd : Commands, u : -Limit..Limit])
      /\ replies \in Seq(Piece)
  BY EmptySeq
<1>3. buf \in [1..3 -> Piece]
  BY DEF Piece
<1>4. TypeOK
  BY <1>1, <1>2, <1>3, NeutralIsTyped DEF TypeOK
<1>5. StackInv
  BY <1>1 DEF StackInv, In
<1>6. ExchangeInv /\ PositionInv
  BY <1>1 DEF ExchangeInv, PositionInv
<1>7. IntactInv
  BY <1>1 DEF IntactInv, In
<1>8. NeutralWhenStopped /\ ServoHoldsControls
  BY DEF NeutralWhenStopped, ServoHoldsControls
<1> QED BY <1>4, <1>5, <1>6, <1>7, <1>8 DEF Inv, McuInv

-----------------------------------------------------------------------------
(* What is asked of the component                                          *)

LEMMA configureStep == Inv /\ configure => Inv'
<1> SUFFICES ASSUME Inv, configure PROVE Inv'
  OBVIOUS
<1> USE DEF configure
<1>1. TypeOK /\ StackInv /\ ExchangeInv /\ PositionInv /\ IntactInv
      /\ NeutralWhenStopped
  BY DEF Inv, McuInv
<1>2. Idle' /\ stack' = stack /\ Len(stack) = 0
  BY DEF Idle
<1>3. TypeOK'
  BY <1>1 DEF TypeOK
<1>4. StackInv'
  BY <1>1, <1>2 DEF StackInv, In, Top, Idle
<1>5. ExchangeInv'
  BY <1>1, <1>2 DEF ExchangeInv, In, Top, Idle
<1>6. PositionInv'
  BY <1>2 DEF PositionInv
<1>7. IntactInv'
  BY <1>1, <1>2 DEF IntactInv, In
<1>8. NeutralWhenStopped'
  BY <1>1 DEF NeutralWhenStopped
<1>9. ServoHoldsControls'
  BY DEF ServoHoldsControls
<1> QED BY <1>3, <1>4, <1>5, <1>6, <1>7, <1>8, <1>9 DEF Inv, McuInv

LEMMA startStep == Inv /\ start => Inv'
<1> SUFFICES ASSUME Inv, start PROVE Inv'
  OBVIOUS
<1> USE DEF start
<1>1. TypeOK /\ StackInv
  BY DEF Inv, McuInv
<1>2. /\ stack' \in Seq(Frame) /\ ~Idle' /\ Len(stack') = 1
      /\ Top' = stack'[1] /\ Top'.fn = "startHook"
      /\ Top'.cmd = "CMD_SET_MOTOR_REFS" /\ Top'.at = "send"
  BY Entered DEF Commands
<1>3. exec' = Neutral /\ want' = Size("CMD_SET_MOTOR_REFS") /\ want' = 2
  BY DEF SendReset, Size
<1>4. TypeOK'
  BY <1>1, <1>2, <1>3, EmptySeq, NeutralIsTyped DEF TypeOK
<1>5. StackInv'
  BY <1>1, <1>2, <1>3 DEF StackInv, In
<1>6. ExchangeInv'
  BY DEF ExchangeInv
<1>7. PositionInv'
  BY <1>2 DEF PositionInv
<1>8. IntactInv'
  BY <1>2, <1>3 DEF IntactInv, In
<1>9. NeutralWhenStopped' /\ ServoHoldsControls'
  BY <1>2 DEF NeutralWhenStopped, ServoHoldsControls
<1> QED BY <1>4, <1>5, <1>6, <1>7, <1>8, <1>9 DEF Inv, McuInv

\* Between two updates nothing is on its way, unless the connection was reset.
LEMMA IdleIsQuiet ==
    ASSUME ExchangeInv, Idle
    PROVE  requests = << >> /\ (link = "reset" \/ replies = << >>)
BY DEF ExchangeInv, In

LEMMA stopStep == Inv /\ stop => Inv'
<1> SUFFICES ASSUME Inv, stop PROVE Inv'
  OBVIOUS
<1> USE DEF stop
<1>1. TypeOK /\ StackInv /\ ExchangeInv /\ IntactInv /\ NeutralWhenStopped
  BY DEF Inv, McuInv
<1>2. /\ stack' \in Seq(Frame) /\ ~Idle' /\ Len(stack') = 1
      /\ Top' = stack'[1] /\ Top'.fn = "stopHook"
      /\ Top'.cmd = "CMD_SET_MOTOR_REFS" /\ Top'.at = "send"
  BY Entered DEF Commands
<1>3. want' = Size("CMD_SET_MOTOR_REFS") /\ want' \in {2, 3}
  BY DEF SendReset, Size
<1>4. requests = << >> /\ (link = "reset" \/ replies = << >>) /\ sock = "open"
  BY <1>1, IdleIsQuiet DEF StackInv
<1>5. exec' \in [u : -Limit..Limit, d : Derivatives \cup {0}] /\ exec'.u = 0
  BY NeutralIsTyped DEF SendReset
<1>6. TypeOK'
  BY <1>1, <1>2, <1>3, <1>5 DEF TypeOK
<1>7. StackInv'
  BY <1>1, <1>2, <1>3, <1>4 DEF StackInv, In
<1>8. ExchangeInv'
  BY <1>1, <1>4 DEF ExchangeInv
<1>9. PositionInv'
  BY <1>2, <1>4, <1>5 DEF PositionInv
<1>10. IntactInv'
  BY <1>1, <1>2, <1>3, <1>4 DEF IntactInv, In
<1>11. NeutralWhenStopped' /\ ServoHoldsControls'
  BY <1>2, <1>4 DEF NeutralWhenStopped, ServoHoldsControls
<1> QED BY <1>6, <1>7, <1>8, <1>9, <1>10, <1>11 DEF Inv, McuInv

LEMMA triggerStep == Inv /\ trigger => Inv'
<1> SUFFICES ASSUME Inv, trigger PROVE Inv'
  OBVIOUS
<1> USE DEF trigger
<1>1. TypeOK /\ StackInv /\ ExchangeInv /\ IntactInv /\ NeutralWhenStopped
  BY DEF Inv, McuInv
<1>2. /\ stack' \in Seq(Frame) /\ ~Idle' /\ Len(stack') = 1
      /\ Top' = stack'[1] /\ Top'.fn = "updateHook"
      /\ Top'.cmd = "CMD_GET_SENSOR_DATA" /\ Top'.at = "send"
  BY Entered DEF Commands
<1>3. want' = Size("CMD_GET_SENSOR_DATA") /\ want' \in {2, 3}
  BY DEF SendReset, Size
<1>4. requests = << >> /\ (link = "reset" \/ replies = << >>) /\ sock = "open"
  BY <1>1, IdleIsQuiet DEF StackInv
<1>5. exec' \in [u : -Limit..Limit, d : Derivatives \cup {0}]
  BY <1>1 DEF TypeOK
<1>6. TypeOK'
  BY <1>1, <1>2, <1>3, <1>5 DEF TypeOK
<1>7. StackInv'
  BY <1>1, <1>2, <1>3, <1>4 DEF StackInv, In
<1>8. ExchangeInv'
  BY <1>1, <1>4 DEF ExchangeInv
<1>9. PositionInv'
  BY <1>2, <1>4 DEF PositionInv
<1>10. IntactInv'
  BY <1>1, <1>2, <1>3, <1>4 DEF IntactInv, In
<1>11. NeutralWhenStopped' /\ ServoHoldsControls'
  BY <1>2, <1>4 DEF NeutralWhenStopped, ServoHoldsControls
<1> QED BY <1>6, <1>7, <1>8, <1>9, <1>10, <1>11 DEF Inv, McuInv

LEMMA setControlsRadiansStep == 
    \A u \in Positions : Inv /\ setControlsRadians(u) => Inv'
<1> SUFFICES ASSUME Inv, NEW u \in Positions, setControlsRadians(u) PROVE Inv'
  OBVIOUS
<1> USE DEF setControlsRadians
<1>1. TypeOK /\ StackInv /\ ExchangeInv /\ IntactInv /\ NeutralWhenStopped
  BY DEF Inv, McuInv
<1>2. /\ stack' \in Seq(Frame) /\ ~Idle' /\ Len(stack') = 1
      /\ Top' = stack'[1] /\ Top'.fn = "setControls"
      /\ Top'.cmd = "CMD_SET_MOTOR_REFS" /\ Top'.at = "send"
  BY Entered DEF Commands
<1>3. want' = Size("CMD_SET_MOTOR_REFS") /\ want' \in {2, 3}
  BY DEF SendReset, Size
<1>4. requests = << >> /\ (link = "reset" \/ replies = << >>) /\ sock = "open"
  BY <1>1, IdleIsQuiet DEF StackInv
<1>5. exec' \in [u : -Limit..Limit, d : Derivatives \cup {0}]
  BY <1>1, ClipInTravel, McuAssumption DEF TypeOK
<1>6. TypeOK'
  BY <1>1, <1>2, <1>3, <1>5 DEF TypeOK
<1>7. StackInv'
  BY <1>1, <1>2, <1>3, <1>4 DEF StackInv, In
<1>8. ExchangeInv'
  BY <1>1, <1>4 DEF ExchangeInv
<1>9. PositionInv'
  BY <1>2, <1>4 DEF PositionInv
<1>10. IntactInv'
  BY <1>1, <1>2, <1>3, <1>4 DEF IntactInv, In
<1>11. NeutralWhenStopped' /\ ServoHoldsControls'
  BY <1>2, <1>4 DEF NeutralWhenStopped, ServoHoldsControls
<1> QED BY <1>6, <1>7, <1>8, <1>9, <1>10, <1>11 DEF Inv, McuInv

-----------------------------------------------------------------------------
(* ethernetTransmitReceive                                                 *)

\* Outside of recv nothing is on its way, unless the connection was reset.
LEMMA QuietOutsideRecv ==
    ASSUME ExchangeInv, ~In("recv")
    PROVE  requests = << >> /\ (link = "reset" \/ replies = << >>)
BY DEF ExchangeInv

LEMMA StackSizes ==
    ASSUME TypeOK, StackInv, ~Idle
    PROVE  /\ stack \in Seq(Frame) /\ (Len(stack) = 1 \/ Len(stack) = 2)
           /\ Top \in Frame /\ Top = stack[1]
<1>1. stack \in Seq(Frame)
  BY DEF TypeOK
<1>2. Len(stack) <= 2
  BY DEF StackInv
<1>3. Top \in Frame /\ Top = stack[1] /\ Len(stack) \in Nat \ {0}
  BY <1>1, TopOfStack
<1>4. Len(stack) = 1 \/ Len(stack) = 2
  <2> DEFINE n == Len(stack)
  <2>1. n \in Nat \ {0} /\ n <= 2
    BY <1>2, <1>3
  <2> HIDE DEF n
  <2>2. n = 1 \/ n = 2
    BY <2>1
  <2> QED BY <2>2 DEF n
<1> QED BY <1>1, <1>3, <1>4

\* An exception in an exchange, or behind one, that the connection let down.
LEMMA ExceptionStep ==
    ASSUME Inv, ~Idle, ~intact',
           NEW at \in {"recv", "filled"}, NEW i \in -1..3,
           Exception(Continue(at, i)),
           UNCHANGED <<netVars, buf, numErrors, outVars>>,
           requests = << >>, link = "reset" \/ replies = << >>,
           at = "filled" => Top.cmd = "CMD_GET_SENSOR_DATA",
           Top.fn = "stopHook" => link # "up",
           (link = "up" /\ sock = "open") => Top.cmd = "CMD_GET_SENSOR_DATA"
    PROVE  Inv'
<1>1. TypeOK /\ StackInv /\ NeutralWhenStopped
  BY DEF Inv, McuInv
<1>2. /\ stack \in Seq(Frame) /\ (Len(stack) = 1 \/ Len(stack) = 2)
      /\ Top = stack[1]
  BY <1>1, StackSizes
<1>3. task' = "Exception" /\ tcpStatus' = "error"
  BY DEF Exception
<1>4. CASE task = "Running"
  <2>1. /\ stack' = <<Hook("stopHook", "CMD_SET_MOTOR_REFS")>> \o Continue(at, i)
        /\ exec' = Neutral /\ want' = Size("CMD_SET_MOTOR_REFS") /\ want' = 2
    BY <1>4 DEF Exception, SendReset, Size
  <2>2. Len(stack) = 1 /\ Top.fn # "startHook" /\ sock = "open"
    BY <1>1, <1>2, <1>4 DEF StackInv
  <2>3. /\ stack' \in Seq(Frame) /\ ~Idle' /\ Len(stack') = 2
        /\ Top' = Hook("stopHook", "CMD_SET_MOTOR_REFS") /\ stack'[1] = Top'
        /\ stack'[2] = [Top EXCEPT !.at = at, !.i = i]
    <3>1. /\ stack' \in Seq(Frame) /\ ~Idle' /\ Len(stack') = Len(stack) + 1
          /\ Top' = Hook("stopHook", "CMD_SET_MOTOR_REFS") /\ stack'[1] = Top'
          /\ stack'[2] = [Top EXCEPT !.at = at, !.i = i]
      <4>1. at \in {"send", "recv", "sum", "done", "filled"}
        OBVIOUS
      <4>2. stack \in Seq(Frame)
        BY <1>2
      <4>3. stack' = <<Hook("stopHook", "CMD_SET_MOTOR_REFS")>> \o Continue(at, i)
        BY <2>1
      <4> QED BY <4>1, <4>2, <4>3, Interrupted
    <3> QED BY <2>2, <3>1
  <2>4. /\ Top'.fn = "stopHook" /\ Top'.cmd = "CMD_SET_MOTOR_REFS"
        /\ Top'.at = "send"
    BY <2>3 DEF Hook
  <2>5. /\ stack'[2].fn = Top.fn /\ stack'[2].cmd = Top.cmd /\ stack'[2].at = at
    BY <1>1, <1>2, <2>3, TopOfStack DEF Frame
  <2>6. TypeOK'
    BY <1>1, <1>3, <2>1, <2>3, NeutralIsTyped DEF TypeOK
  <2>7. StackInv'
    BY <1>1, <1>2, <1>3, <2>1, <2>2, <2>3, <2>4, <2>5 DEF StackInv, In
  <2>8. PositionInv'
    BY <2>1, <2>2, <2>4, NeutralIsTyped DEF PositionInv
  <2> QED
    BY <1>1, <1>3, <2>6, <2>7, <2>8
       DEF Inv, McuInv, ExchangeInv, IntactInv, NeutralWhenStopped,
           ServoHoldsControls
<1>5. CASE task # "Running"
  <2>1. stack' = Continue(at, i) /\ exec' = exec /\ want' = want
    BY <1>5 DEF Exception
  <2>2. /\ stack' \in Seq(Frame) /\ ~Idle' /\ Len(stack') = Len(stack)
        /\ stack'[1] = Top' /\ Top'.fn = Top.fn /\ Top'.cmd = Top.cmd
        /\ Top'.at = at /\ (Len(stack) = 2 => stack'[2] = stack[2])
    BY <1>2, <2>1, Continued
  <2>3. TypeOK'
    BY <1>1, <1>3, <2>1, <2>2 DEF TypeOK
  <2>4. StackInv'
    BY <1>1, <1>2, <1>3, <2>1, <2>2 DEF StackInv, In
  <2>5. PositionInv'
    BY <2>1, <2>2 DEF PositionInv
  <2> QED
    BY <1>1, <1>3, <2>1, <2>3, <2>4, <2>5
       DEF Inv, McuInv, ExchangeInv, IntactInv, NeutralWhenStopped,
           ServoHoldsControls
<1> QED BY <1>4, <1>5

\* A hook that goes on keeps the shape of the stack.
LEMMA ContinueKeepsStack ==
    ASSUME TypeOK, StackInv, ~Idle,
           NEW at \in {"recv", "sum", "done", "filled"}, NEW i \in -1..3,
           at = "filled" => Top.cmd = "CMD_GET_SENSOR_DATA",
           stack' = Continue(at, i),
           UNCHANGED <<task, sock, link>>, upTimeCnt' = 0, numErrors' = 0
    PROVE  /\ stack' \in Seq(Frame) /\ StackInv' /\ ~Idle'
           /\ Top'.fn = Top.fn /\ Top'.cmd = Top.cmd
           /\ Top'.at = at /\ Top'.i = i /\ Len(stack') = Len(stack)
<1>1. /\ stack \in Seq(Frame) /\ (Len(stack) = 1 \/ Len(stack) = 2)
      /\ Top = stack[1]
  BY StackSizes
<1>2. /\ stack' \in Seq(Frame) /\ ~Idle' /\ Len(stack') = Len(stack)
      /\ stack'[1] = Top' /\ Top'.fn = Top.fn /\ Top'.cmd = Top.cmd
      /\ Top'.at = at /\ Top'.i = i /\ (Len(stack) = 2 => stack'[2] = stack[2])
  BY <1>1, Continued
<1>3. StackInv'
  BY <1>1, <1>2 DEF StackInv, In
<1> QED BY <1>2, <1>3

LEMMA SendStep == Inv /\ Send => Inv'
<1> SUFFICES ASSUME Inv, Send PROVE Inv'
  OBVIOUS
<1>1. TypeOK /\ StackInv /\ ExchangeInv /\ PositionInv /\ IntactInv
      /\ NeutralWhenStopped
  BY DEF Inv, McuInv
<1>2. /\ ~Idle /\ Top.at = "send"
      /\ UNCHANGED <<sock, link, replies, servo, buf, numErrors, intact, outVars>>
      /\ requests' = IF sock = "open" /\ link = "up"
                     THEN Append(requests, [cmd |-> Top.cmd, u |-> Clip(exec.u)])
                     ELSE requests
  BY DEF Send, In
<1>3. requests = << >> /\ (link = "reset" \/ replies = << >>)
  BY <1>1, <1>2, QuietOutsideRecv DEF In
<1>4. Top \in Frame
  BY <1>1, <1>2, TopOfStack DEF TypeOK
<1>5. want = Size(Top.cmd)
  BY <1>1, <1>2 DEF StackInv, In
<1>6. CASE ~Usable /\ tcpStatus = "OK"
  <2>1. Exception(Continue("recv", 0))
    BY <1>6 DEF Send, Proceed
  <2>2. requests' = requests /\ ~(sock = "open" /\ link = "up")
    BY <1>2, <1>6 DEF Usable
  <2>3. ~intact'
    BY <1>1, <1>2, <2>2 DEF IntactInv
  <2>4. Top.fn = "stopHook" => link # "up"
    BY <1>1, <1>2, <2>2 DEF PositionInv
  <2> QED
    BY <1>2, <1>3, <2>1, <2>2, <2>3, <2>4, ExceptionStep
<1>7. CASE ~(~Usable /\ tcpStatus = "OK")
  <2>1. stack' = Continue("recv", 0) /\ UNCHANGED <<task, tcpStatus, exec, want>>
    BY <1>7 DEF Send, Proceed
  <2>2. numErrors' = 0 /\ upTimeCnt' = 0
    BY <1>1, <1>2 DEF StackInv
  <2>3. /\ stack' \in Seq(Frame) /\ StackInv' /\ ~Idle'
        /\ Top'.fn = Top.fn /\ Top'.cmd = Top.cmd
        /\ Top'.at = "recv" /\ Top'.i = 0 /\ Len(stack') = Len(stack)
    BY <1>1, <1>2, <2>1, <2>2, ContinueKeepsStack
  <2>4. CASE sock = "open" /\ link = "up"
    <3>1. requests' = <<[cmd |-> Top.cmd, u |-> exec.u]>>
      BY <1>1, <1>2, <1>3, <2>4, ClipKeeps DEF TypeOK
    <3>2. requests' \in Seq([cmd : Commands, u : -Limit..Limit]) /\ requests' # << >>
      BY <1>1, <1>4, <3>1 DEF TypeOK, Frame
    <3>3. TypeOK'
      BY <1>1, <1>2, <2>1, <2>3, <3>2 DEF TypeOK
    <3>4. replies = << >>
      BY <1>3, <2>4
    <3>5. ExchangeInv'
      BY <1>2, <1>5, <2>1, <2>3, <2>4, <3>1, <3>4 DEF ExchangeInv, In
    <3>6. PositionInv'
      BY <1>1, <1>2, <2>1, <2>3, <3>2 DEF PositionInv
    <3>7. IntactInv'
      BY <1>1, <1>2, <1>5, <2>1, <2>3, <2>4, <3>2 DEF IntactInv, In
    <3>8. NeutralWhenStopped' /\ ServoHoldsControls'
      BY <1>1, <1>2, <2>3 DEF NeutralWhenStopped, ServoHoldsControls
    <3> QED BY <2>3, <3>3, <3>5, <3>6, <3>7, <3>8 DEF Inv, McuInv
  <2>5. CASE ~(sock = "open" /\ link = "up")
    <3>1. requests' = requests /\ ~intact'
      BY <1>1, <1>2, <2>5 DEF IntactInv
    <3>2. TypeOK'
      BY <1>1, <1>2, <2>1, <2>3, <3>1 DEF TypeOK
    <3>3. ExchangeInv'
      BY <1>2, <1>3, <3>1 DEF ExchangeInv
    <3>4. PositionInv'
      BY <1>1, <1>2, <2>1, <2>3, <2>5 DEF PositionInv
    <3>5. IntactInv'
      BY <3>1 DEF IntactInv
    <3>6. NeutralWhenStopped' /\ ServoHoldsControls'
      BY <1>1, <1>2, <2>3 DEF NeutralWhenStopped, ServoHoldsControls
    <3> QED BY <2>3, <3>2, <3>3, <3>4, <3>5, <3>6 DEF Inv, McuInv
  <2> QED BY <2>4, <2>5
<1> QED BY <1>6, <1>7

LEMMA RecvStep == \A j \in 1..3 : Inv /\ Recv(j) => Inv'
<1> SUFFICES ASSUME Inv, NEW j \in 1..3, Recv(j) PROVE Inv'
  OBVIOUS
<1>1. TypeOK /\ StackInv /\ ExchangeInv /\ PositionInv /\ IntactInv
      /\ NeutralWhenStopped
  BY DEF Inv, McuInv
<1>2. /\ ~Idle /\ Top.at = "recv" /\ Top.i < want
      /\ sock = "open" /\ link # "reset" /\ j <= want /\ j <= Len(replies)
      /\ buf' = [k \in 1..3 |-> IF k <= j THEN replies[k] ELSE buf[k]]
      /\ replies' = SubSeq(replies, j + 1, Len(replies))
      /\ stack' = Continue("recv", Top.i + j)
      /\ UNCHANGED <<task, sock, link, requests, servo, tcpStatus, want, numErrors,
                     exec, outVars>>
  BY DEF Recv, In
<1>3. intact' => intact /\ j = want
  BY DEF Recv
<1>4. replies \in Seq(Piece) /\ Len(replies) \in Nat /\ replies # << >>
  BY <1>1, <1>2, EmptySeq DEF TypeOK
<1>5. requests = << >> /\ Top.i + Len(replies) = want
  BY <1>1, <1>2, <1>4 DEF ExchangeInv
<1>6. Top.i \in -1..3 /\ want \in {0, 2, 3}
  BY <1>1, <1>2, TopOfStack DEF TypeOK, Frame
<1>7. Top.i + j \in -1..3 /\ Top.i + j <= want
  BY <1>2, <1>4, <1>5, <1>6
<1>8. /\ replies' \in Seq(Piece) /\ Len(replies') = Len(replies) - j
  BY <1>2, <1>4, SubSeqProperties
<1>9. buf' \in [1..3 -> Piece]
  <2>1. \A k \in 1..3 : k <= j => replies[k] \in Piece
    BY <1>2, <1>4
  <2> QED BY <1>1, <1>2, <2>1 DEF TypeOK
<1>10. numErrors' = 0 /\ upTimeCnt' = 0
  BY <1>1, <1>2 DEF StackInv
<1>11. /\ stack' \in Seq(Frame) /\ StackInv' /\ ~Idle'
       /\ Top'.fn = Top.fn /\ Top'.cmd = Top.cmd
       /\ Top'.at = "recv" /\ Top'.i = Top.i + j /\ Len(stack') = Len(stack)
  BY <1>1, <1>2, <1>7, <1>10, ContinueKeepsStack
<1>12. TypeOK'
  BY <1>1, <1>2, <1>8, <1>9, <1>11 DEF TypeOK
<1>13. ExchangeInv'
  <2>1. Top'.i + Len(replies') = want'
    BY <1>2, <1>4, <1>5, <1>6, <1>8, <1>11
  <2> QED BY <1>2, <1>5, <1>11, <2>1 DEF ExchangeInv, In
<1>14. PositionInv'
  BY <1>1, <1>2, <1>11 DEF PositionInv
<1>15. ASSUME intact' PROVE IntactInv'
  <2>1. intact /\ j = want /\ link = "up" /\ Len(stack) <= 1 /\ want = Size(Top.cmd)
    BY <1>1, <1>2, <1>3, <1>15 DEF IntactInv, In
  <2>2. Top.i = 0 /\ Len(replies) = want
    BY <1>1, <1>2, <1>4, <1>5, <1>6, <2>1 DEF IntactInv, In
  <2>3. Top'.i = want' /\ requests' = << >>
    BY <1>2, <1>5, <1>11, <2>1, <2>2
  <2>4. replies' = << >>
    <3>1. Len(replies') = 0
      BY <1>2, <1>4, <1>8, <2>1, <2>2
    <3> QED BY <1>8, <3>1, EmptySeq
  <2>5. Top.fn = "updateHook" /\ Top.cmd # "CMD_SET_MOTOR_REFS" => Sample(buf)'
    <3> SUFFICES ASSUME Top.fn = "updateHook", Top.cmd # "CMD_SET_MOTOR_REFS"
                 PROVE  Sample(buf)'
      OBVIOUS
    <3>1. Sample(replies)
      BY <1>1, <1>2, <1>4, <1>5, <2>1 DEF IntactInv
    <3>2. want = 3
      BY <1>1, <1>2, <2>1, TopOfStack DEF TypeOK, Frame, Commands, Size
    <3>3. \A k \in 1..3 : buf'[k] = replies[k]
      BY <1>2, <2>1, <3>2
    <3>4. turn' = turn
      BY <1>2
    <3> QED BY <3>1, <3>3, <3>4 DEF Sample
  <2>6. Top.fn = "updateHook" /\ Top.cmd = "CMD_SET_MOTOR_REFS" => data' = turn'
    BY <1>1, <1>2, <2>1 DEF IntactInv
  <2> QED
    BY <1>2, <1>11, <2>1, <2>3, <2>4, <2>5, <2>6 DEF IntactInv, In
<1>16. IntactInv'
  BY <1>15 DEF IntactInv
<1>17. NeutralWhenStopped' /\ ServoHoldsControls'
  BY <1>1, <1>2, <1>11 DEF NeutralWhenStopped, ServoHoldsControls
<1> QED BY <1>11, <1>12, <1>13, <1>14, <1>16, <1>17 DEF Inv, McuInv

LEMMA RecvFailsStep == Inv /\ RecvFails => Inv'
<1> SUFFICES ASSUME Inv, RecvFails PROVE Inv'
  OBVIOUS
<1> DEFINE j == IF Usable THEN 0 ELSE -1
           n == IF Top.i + j < -1 THEN -1 ELSE Top.i + j
<1>1. TypeOK /\ StackInv /\ ExchangeInv /\ PositionInv /\ IntactInv
      /\ NeutralWhenStopped
  BY DEF Inv, McuInv
<1>2. /\ ~Idle /\ Top.at = "recv" /\ Top.i < want
      /\ ~Usable \/ (link = "fin" /\ replies = << >>)
      /\ UNCHANGED <<netVars, buf, numErrors, intact, outVars>>
      /\ Proceed(TRUE, Continue("recv", n))
  BY DEF RecvFails, In
<1>3. n \in -1..3
  <2>1. Top.i \in -1..3
    BY <1>1, <1>2, TopOfStack DEF TypeOK, Frame
  <2> QED BY <2>1
<1> HIDE DEF n
<1>4. ~(sock = "open" /\ link = "up")
  BY <1>2 DEF Usable
<1>5. requests = << >> /\ (link = "reset" \/ replies = << >>)
  BY <1>1, <1>2 DEF ExchangeInv, Usable
<1>6. ~intact'
  BY <1>1, <1>2, <1>4 DEF IntactInv
<1>7. Top.fn = "stopHook" => link # "up"
  BY <1>1, <1>2, <1>4 DEF PositionInv
<1>8. CASE tcpStatus = "OK"
  <2>1. Exception(Continue("recv", n))
    BY <1>2, <1>8 DEF Proceed
  <2>2. UNCHANGED <<netVars, buf, numErrors, outVars>>
    BY <1>2
  <2> QED BY <1>2, <1>3, <1>4, <1>5, <1>6, <1>7, <2>1, <2>2, ExceptionStep
<1>9. CASE tcpStatus # "OK"
  <2>1. stack' = Continue("recv", n) /\ UNCHANGED <<task, tcpStatus, exec, want>>
    BY <1>2, <1>9 DEF Proceed
  <2>2. numErrors' = 0 /\ upTimeCnt' = 0
    BY <1>1, <1>2 DEF StackInv
  <2>3. /\ stack' \in Seq(Frame) /\ StackInv' /\ ~Idle'
        /\ Top'.fn = Top.fn /\ Top'.cmd = Top.cmd
    BY <1>1, <1>2, <1>3, <2>1, <2>2, ContinueKeepsStack
  <2>4. TypeOK'
    BY <1>1, <1>2, <2>1, <2>3 DEF TypeOK
  <2>5. ExchangeInv'
    BY <1>2, <1>5 DEF ExchangeInv
  <2>6. PositionInv'
    BY <1>2, <1>4, <1>7, <2>1, <2>3 DEF PositionInv
  <2>7. IntactInv'
    BY <1>6 DEF IntactInv
  <2>8. NeutralWhenStopped' /\ ServoHoldsControls'
    BY <1>1, <1>2, <2>3 DEF NeutralWhenStopped, ServoHoldsControls
  <2> QED BY <2>3, <2>4, <2>5, <2>6, <2>7, <2>8 DEF Inv, McuInv
<1> QED BY <1>8, <1>9

\* A step of a hook, between two system calls, that changes nothing but where
\* the hook is, and does so when nothing is on its way.
LEMMA QuietContinue ==
    ASSUME Inv, ~Idle, NEW at \in {"sum", "done", "filled"}, NEW i \in -1..3,
           at = "filled" => Top.cmd = "CMD_GET_SENSOR_DATA",
           stack' = Continue(at, i),
           UNCHANGED <<task, netVars, ioVars, exec, outVars>>,
           requests = << >>, link = "reset" \/ replies = << >>,
           Top.at # "send"
    PROVE  Inv'
<1>1. TypeOK /\ StackInv /\ PositionInv /\ IntactInv /\ NeutralWhenStopped
  BY DEF Inv, McuInv
<1>2. numErrors' = 0 /\ upTimeCnt' = 0 /\ UNCHANGED <<task, sock, link>>
  BY <1>1 DEF StackInv
<1>3. /\ stack' \in Seq(Frame) /\ StackInv' /\ ~Idle'
      /\ Top'.fn = Top.fn /\ Top'.cmd = Top.cmd
      /\ Top'.at = at /\ Top'.i = i /\ Len(stack') = Len(stack)
  <2>1. at \in {"recv", "sum", "done", "filled"}
    OBVIOUS
  <2> QED BY <1>1, <1>2, <2>1, ContinueKeepsStack
<1>4. TypeOK'
  BY <1>1, <1>3 DEF TypeOK
<1>5. ExchangeInv'
  BY DEF ExchangeInv
<1>6. PositionInv'
  BY <1>1, <1>3 DEF PositionInv
<1>7. ASSUME intact' PROVE IntactInv'
  <2>1. intact
    BY <1>7
  <2>2. link = "up" /\ Len(stack) <= 1 /\ sock = "open" /\ replies = << >>
    BY <1>1, <2>1 DEF IntactInv
  <2>3. Top.fn = "updateHook" =>
            IF Top.cmd = "CMD_SET_MOTOR_REFS" THEN data = turn ELSE Sample(buf)
    BY <1>1, <2>1, <2>2 DEF IntactInv
  <2>4. Sample(buf) => Sample(buf)'
    BY DEF Sample
  <2>5. at # "recv" /\ at # "send"
    OBVIOUS
  <2> QED BY <1>3, <2>2, <2>3, <2>4, <2>5 DEF IntactInv, In
<1>8. IntactInv'
  BY <1>7 DEF IntactInv
<1>9. NeutralWhenStopped' /\ ServoHoldsControls'
  BY <1>1, <1>3 DEF NeutralWhenStopped, ServoHoldsControls
<1> QED BY <1>3, <1>4, <1>5, <1>6, <1>8, <1>9 DEF Inv, McuInv

LEMMA RecvDoneStep == Inv /\ RecvDone => Inv'
<1> SUFFICES ASSUME Inv, RecvDone PROVE Inv'
  OBVIOUS
<1>1. TypeOK /\ ExchangeInv
  BY DEF Inv, McuInv
<1>2. /\ ~Idle /\ Top.at = "recv" /\ Top.i >= want
      /\ stack' = Continue("sum", Top.i)
      /\ UNCHANGED <<task, netVars, ioVars, exec, outVars>>
  BY DEF RecvDone, In
<1>3. Top \in Frame /\ Top.i \in -1..3
  BY <1>1, <1>2, TopOfStack DEF TypeOK, Frame
<1>4. requests = << >> /\ (link = "reset" \/ replies = << >>)
  <2>1. Size(Top.cmd) >= 2
    BY DEF Size
  <2>2. Len(replies) \in Nat /\ (Len(replies) = 0 => replies = << >>)
    BY <1>1, EmptySeq DEF TypeOK
  <2>3. want \in {0, 2, 3}
    BY <1>1 DEF TypeOK
  <2>4. Top.i + Len(replies) = want => replies = << >>
    BY <1>2, <1>3, <2>2, <2>3
  <2>5. ~(Top.i = 0 /\ want = Size(Top.cmd))
    BY <1>2, <2>1, <2>3
  <2> QED BY <1>1, <2>4, <2>5 DEF ExchangeInv
<1> QED BY <1>2, <1>3, <1>4, QuietContinue

\* One wrong checksum is one too few for an exception, and the count of errors
\* starts again with every other.
LEMMA ChecksumStep == \A ok \in BOOLEAN : Inv /\ Checksum(ok) => Inv'
<1> SUFFICES ASSUME Inv, NEW ok \in BOOLEAN, Checksum(ok) PROVE Inv'
  OBVIOUS
<1> DEFINE raises == ~ok /\ tcpStatus = "OK" /\ numErrors + 1 > MAX_ERRORS_ALLOWED
<1>1. TypeOK /\ StackInv /\ ExchangeInv
  BY DEF Inv, McuInv
<1>2. ~raises
  BY <1>1, McuAssumption DEF StackInv
<1>3. /\ ~Idle /\ Top.at = "sum"
      /\ UNCHANGED <<netVars, buf, intact, outVars>>
      /\ Proceed(raises, Continue("done", 0))
      /\ numErrors' = IF raises THEN numErrors + 1 ELSE 0
  BY DEF Checksum, In
<1> HIDE DEF raises
<1>4. numErrors' = numErrors /\ stack' = Continue("done", 0)
      /\ UNCHANGED <<task, tcpStatus, exec, want>>
  BY <1>1, <1>2, <1>3 DEF Proceed, StackInv
<1>5. requests = << >> /\ (link = "reset" \/ replies = << >>)
  BY <1>1, <1>3, QuietOutsideRecv DEF In
<1>6. UNCHANGED <<task, netVars, ioVars, exec, outVars>>
  BY <1>3, <1>4
<1> QED BY <1>3, <1>4, <1>5, <1>6, QuietContinue

LEMMA CheckCommandStep == \A ok \in BOOLEAN : Inv /\ CheckCommand(ok) => Inv'
<1> SUFFICES ASSUME Inv, NEW ok \in BOOLEAN, CheckCommand(ok) PROVE Inv'
  OBVIOUS
<1>1. TypeOK /\ StackInv /\ ExchangeInv /\ IntactInv
  BY DEF Inv, McuInv
<1>2. /\ ~Idle /\ Top.at = "done" /\ Top.fn = "updateHook"
      /\ Top.cmd = "CMD_GET_SENSOR_DATA"
      /\ buf[1].pos = 1 => (ok <=> buf[1].cmd = "CMD_GET_SENSOR_DATA")
      /\ UNCHANGED <<netVars, buf, numErrors, intact, outVars>>
  BY DEF CheckCommand, Returns, In
<1>3. requests = << >> /\ (link = "reset" \/ replies = << >>)
  BY <1>1, <1>2, QuietOutsideRecv DEF In
<1>4. CASE ok
  <2>1. stack' = Continue("filled", 0)
        /\ UNCHANGED <<task, netVars, ioVars, exec, outVars>>
    BY <1>2, <1>4 DEF CheckCommand
  <2> QED BY <1>2, <1>3, <2>1, QuietContinue
<1>5. CASE ~ok
  <2>1. Exception(Continue("filled", 0))
    BY <1>5 DEF CheckCommand
  <2>2. ~intact'
    <3> SUFFICES ASSUME intact PROVE FALSE
      BY <1>2
    <3>1. Sample(buf)
      BY <1>1, <1>2, <1>3 DEF IntactInv
    <3>2. buf[1].pos = 1 /\ buf[1].cmd = "CMD_GET_SENSOR_DATA"
      BY <3>1 DEF Sample
    <3> QED BY <1>2, <1>5, <3>2
  <2>3. UNCHANGED <<netVars, buf, numErrors, outVars>>
    BY <1>2
  <2> QED BY <1>2, <1>3, <2>1, <2>2, <2>3, ExceptionStep
<1> QED BY <1>4, <1>5

-----------------------------------------------------------------------------
(* The hooks behind the exchange                                           *)

\* Whatever the controllers send, the positions stay within the travel.
LEMMA ControlsInTravel ==
    ASSUME TypeOK, NEW c \in Controls
    PROVE  /\ Trimmed(UpdateControls(c)) \in [u : -Limit..Limit, d : Derivatives \cup {0}]
<1> DEFINE E == [u : Int, d : Derivatives \cup {0}]
<1>1. /\ exec \in E /\ exec.u \in Int
      /\ exec.d \in Derivatives \cup {0} /\ exec.d \in Int
  <2>1. exec \in [u : -Limit..Limit, d : Derivatives \cup {0}]
    BY DEF TypeOK
  <2>2. -Limit..Limit \subseteq Int /\ Derivatives \cup {0} \subseteq Int
    BY McuAssumption
  <2> QED BY <2>1, <2>2
<1>2. exec.u + exec.d \in Int
  BY <1>1
<1>3. UpdateControls(c) \in E
  <2>1. CASE c.kind = "none"
    BY <1>1, <1>2, <2>1 DEF UpdateControls
  <2>2. CASE c.kind = "derivative"
    <3>1. c.v \in Derivatives
      BY <2>2 DEF Controls
    <3> QED BY <1>2, <2>2, <3>1 DEF UpdateControls
  <2>3. CASE c.kind = "position"
    <3>1. c.v \in Int
      BY <2>3, McuAssumption DEF Controls
    <3> QED BY <2>3, <3>1 DEF UpdateControls
  <2> QED BY <2>1, <2>2, <2>3 DEF Controls
<1> DEFINE e == UpdateControls(c)
<1>4. e \in E
  BY <1>3
<1> HIDE DEF e
<1>5. Clip(e.u) \in -Limit..Limit
  BY <1>4, ClipInTravel
<1>6. Trimmed(e) \in [u : -Limit..Limit, d : Derivatives \cup {0}]
  BY <1>4, <1>5 DEF Trimmed
<1> QED BY <1>6 DEF e

LEMMA updateControlsStep == \A c \in Controls : Inv /\ updateControls(c) => Inv'
<1> SUFFICES ASSUME Inv, NEW c \in Controls, updateControls(c) PROVE Inv'
  OBVIOUS
<1> DEFINE h == Hook("updateHook", "CMD_SET_MOTOR_REFS")
<1>1. TypeOK /\ StackInv /\ ExchangeInv /\ IntactInv /\ NeutralWhenStopped
  BY DEF Inv, McuInv
<1>2. /\ ~Idle /\ Top.at = "filled"
      /\ exec' = Trimmed(UpdateControls(c)) /\ tcpStatus' = "OK"
      /\ want' = Size("CMD_SET_MOTOR_REFS")
      /\ stack' = <<h>> \o Tail(stack)
      /\ data' = IF buf[2].pos = 2 /\ buf[2].cmd = "CMD_GET_SENSOR_DATA"
                 THEN buf[2].sample ELSE 2
      /\ UNCHANGED <<task, netVars, buf, numErrors, intact, turn, upTimeCnt, late>>
  BY DEF updateControls, In
<1>3. requests = << >> /\ (link = "reset" \/ replies = << >>)
  BY <1>1, <1>2, QuietOutsideRecv DEF In
<1>4. Top.cmd = "CMD_GET_SENSOR_DATA" /\ Top.fn = "updateHook" /\ Len(stack) = 1
  BY <1>1, <1>2, StackSizes DEF StackInv
<1>5. /\ h \in Frame /\ h.fn = "updateHook" /\ h.cmd = "CMD_SET_MOTOR_REFS"
      /\ h.at = "send"
  BY DEF Hook, Frame, Commands
<1> HIDE DEF h
<1>6. Tail(stack) \in Seq(Frame) /\ Len(Tail(stack)) = 0
  BY <1>1, <1>2, <1>4, TopOfStack DEF TypeOK
<1>7. /\ stack' \in Seq(Frame) /\ ~Idle' /\ Len(stack') = 1
      /\ Top' = h /\ stack'[1] = h
  <2>1. stack' = <<h>> \o Tail(stack)
    BY <1>2
  <2>2. /\ stack' \in Seq(Frame) /\ ~Idle' /\ Top' = h /\ stack'[1] = h
        /\ Len(stack') = Len(Tail(stack)) + 1
    BY <1>5, <1>6, <2>1, Pushed
  <2> QED BY <1>6, <2>2
<1>8. want' = 2 /\ want' = Size(h.cmd)
  BY <1>2, <1>5 DEF Size
<1>9. data' \in 0..2
  BY <1>1, <1>2 DEF TypeOK, Piece
<1>10. TypeOK'
  BY <1>1, <1>2, <1>7, <1>8, <1>9, ControlsInTravel DEF TypeOK
<1>11. StackInv'
  <2>1. upTimeCnt' = 0 /\ numErrors' = 0 /\ (task' = "Running" => sock' = "open")
    BY <1>1, <1>2 DEF StackInv
  <2>2. Len(stack') <= 2 /\ Len(stack') # 2 /\ 1..Len(stack') = {1}
    BY <1>7
  <2>3. /\ stack'[1] = Top' /\ Top'.fn = "updateHook" /\ Top'.at = "send"
        /\ Top'.cmd = "CMD_SET_MOTOR_REFS" /\ want' = Size(Top'.cmd)
    BY <1>5, <1>7, <1>8
  <2> QED BY <2>1, <2>2, <2>3 DEF StackInv, In
<1>12. ExchangeInv'
  BY <1>2, <1>3 DEF ExchangeInv
<1>13. PositionInv'
  BY <1>5, <1>7 DEF PositionInv
<1>14. ASSUME intact' PROVE IntactInv'
  <2>1. intact
    BY <1>2, <1>14
  <2>2. link = "up" /\ sock = "open" /\ Sample(buf)
    BY <1>1, <1>2, <1>3, <1>4, <2>1 DEF IntactInv
  <2>3. data' = turn
    BY <1>2, <2>2 DEF Sample
  <2>4. /\ Top'.fn = "updateHook" /\ Top'.cmd = "CMD_SET_MOTOR_REFS"
        /\ Top'.at = "send" /\ want' = Size(Top'.cmd)
    BY <1>5, <1>7, <1>8
  <2>5. link' = "up" /\ sock' = "open" /\ data' = turn' /\ Len(stack') <= 1
    <3>1. link' = link /\ sock' = sock /\ turn' = turn
      BY <1>2
    <3>2. Len(stack') = 1
      BY <1>7
    <3> QED BY <2>2, <2>3, <3>1, <3>2
  <2> QED BY <2>4, <2>5 DEF IntactInv, In
<1>15. IntactInv'
  BY <1>14 DEF IntactInv
<1>16. NeutralWhenStopped' /\ ServoHoldsControls'
  BY <1>1, <1>2, <1>7 DEF NeutralWhenStopped, ServoHoldsControls
<1> QED BY <1>10, <1>11, <1>12, <1>13, <1>15, <1>16 DEF Inv, McuInv

\* A hook that has moved the surfaces returns: the board has them there.
LEMMA ReturnStep ==
    ASSUME Inv, In("done"), Top.fn # "stopHook", Top.cmd = "CMD_SET_MOTOR_REFS",
           stack' = Tail(stack), task' = "Running" \/ task' = task,
           task' = "Running" => sock = "open",
           UNCHANGED <<netVars, ioVars, exec, data, turn>>, upTimeCnt' = 0
    PROVE  Inv'
<1>1. TypeOK /\ StackInv /\ ExchangeInv /\ PositionInv /\ IntactInv
      /\ NeutralWhenStopped
  BY DEF Inv, McuInv
<1>2. ~Idle /\ Top.at = "done"
  BY DEF In
<1>3. requests = << >> /\ (link = "reset" \/ replies = << >>)
  BY <1>1, <1>2, QuietOutsideRecv DEF In
<1>4. Len(stack) = 1
  BY <1>1, <1>2, StackSizes DEF StackInv
<1>5. stack' \in Seq(Frame) /\ Len(stack') = 0 /\ Idle'
  BY <1>1, <1>2, <1>4, Returned DEF TypeOK
<1>6. TypeOK'
  <2>1. upTimeCnt' \in 0..MAX_ERRORS_ALLOWED
    BY McuAssumption
  <2> QED BY <1>1, <1>5, <2>1 DEF TypeOK
<1>7. StackInv'
  <2>1. numErrors' = 0 /\ (task' = "Running" => sock' = "open")
    BY <1>1 DEF StackInv
  <2>2. Len(stack') <= 2 /\ Len(stack') # 2 /\ 1..Len(stack') = {}
    BY <1>5
  <2> QED BY <1>5, <2>1, <2>2 DEF StackInv, In
<1>8. ExchangeInv'
  BY <1>3 DEF ExchangeInv
<1>9. PositionInv'
  BY <1>5 DEF PositionInv
<1>10. IntactInv'
  BY <1>1, <1>5 DEF IntactInv, In
<1>11. NeutralWhenStopped'
  BY <1>1 DEF NeutralWhenStopped
<1>12. ServoHoldsControls'
  <2> SUFFICES ASSUME task' = "Running", link = "up" PROVE servo = exec.u
    BY DEF ServoHoldsControls
  <2> QED BY <1>1, <1>2, <1>3 DEF PositionInv
<1> QED BY <1>6, <1>7, <1>8, <1>9, <1>10, <1>11, <1>12 DEF Inv, McuInv

LEMMA startHookStep == Inv /\ startHook => Inv'
<1> SUFFICES ASSUME Inv, startHook PROVE Inv'
  OBVIOUS
<1>1. /\ In("done") /\ ~Idle /\ Top.fn = "startHook" /\ upTimeCnt' = 0
      /\ task' = "Running" /\ stack' = Tail(stack)
      /\ UNCHANGED <<netVars, ioVars, exec, data, turn>>
  BY DEF startHook, Returns, In
<1>2. TypeOK /\ StackInv
  BY DEF Inv, McuInv
<1>3. Top = stack[1] /\ 1 \in 1..Len(stack) /\ Top.cmd \in Commands
  BY <1>1, <1>2, StackSizes DEF Frame
<1>4. sock = "open" /\ Top.cmd = "CMD_SET_MOTOR_REFS"
  BY <1>1, <1>2, <1>3 DEF StackInv, Commands
<1> QED BY <1>1, <1>4, ReturnStep

LEMMA setControlsStep == Inv /\ setControls => Inv'
<1> SUFFICES ASSUME Inv, setControls PROVE Inv'
  OBVIOUS
<1>1. /\ In("done") /\ ~Idle /\ Top.fn = "setControls"
      /\ task' = task /\ stack' = Tail(stack)
      /\ UNCHANGED <<netVars, ioVars, exec, data, turn, upTimeCnt>>
  BY DEF setControls, Returns, In
<1>2. TypeOK /\ StackInv
  BY DEF Inv, McuInv
<1>3. Top.cmd = "CMD_SET_MOTOR_REFS"
  BY <1>1, <1>2, StackSizes DEF StackInv, Frame, Commands
<1>4. upTimeCnt' = 0 /\ (task = "Running" => sock = "open")
  BY <1>1, <1>2 DEF StackInv
<1>5. UNCHANGED <<netVars, ioVars, exec, data, turn>>
  BY <1>1
<1> QED BY <1>1, <1>3, <1>4, <1>5, ReturnStep

\* The count of missed deadlines is zero whenever an update ends: no update
\* raises the exception.
LEMMA updateHookStep == \A elapsed \in BOOLEAN : Inv /\ updateHook(elapsed) => Inv'
<1> SUFFICES ASSUME Inv, NEW elapsed \in BOOLEAN, updateHook(elapsed) PROVE Inv'
  OBVIOUS
<1> DEFINE raises == elapsed /\ upTimeCnt + 1 > MAX_ERRORS_ALLOWED
<1>1. TypeOK /\ StackInv
  BY DEF Inv, McuInv
<1>2. ~raises
  BY <1>1, McuAssumption DEF StackInv
<1>3. /\ In("done") /\ ~Idle /\ Top.fn = "updateHook"
      /\ Top.cmd = "CMD_SET_MOTOR_REFS"
      /\ upTimeCnt' = IF raises THEN upTimeCnt + 1 ELSE 0
      /\ IF raises THEN Exception(Tail(stack))
         ELSE stack' = Tail(stack) /\ UNCHANGED <<task, tcpStatus, exec, want>>
      /\ UNCHANGED <<netVars, buf, numErrors, intact, data, turn>>
  BY DEF updateHook, Returns, In
<1> HIDE DEF raises
<1>4. /\ upTimeCnt' = 0 /\ stack' = Tail(stack) /\ task' = task
      /\ UNCHANGED <<netVars, ioVars, exec, data, turn>>
  BY <1>2, <1>3
<1>5. task' = "Running" => sock = "open"
  BY <1>1, <1>4 DEF StackInv
<1> QED BY <1>3, <1>4, <1>5, ReturnStep

LEMMA stopHookStep == Inv /\ stopHook => Inv'
<1> SUFFICES ASSUME Inv, stopHook PROVE Inv'
  OBVIOUS
<1>1. TypeOK /\ StackInv /\ ExchangeInv /\ PositionInv /\ IntactInv
  BY DEF Inv, McuInv
<1>2. /\ ~Idle /\ Top.at = "done" /\ Top.fn = "stopHook" /\ sock' = "closed"
      /\ task' \in {"PreOperational", "Stopped"} /\ stack' = Tail(stack)
      /\ UNCHANGED <<link, requests, replies, servo, ioVars, exec, outVars>>
  BY DEF stopHook, Returns, In
<1>3. requests = << >> /\ (link = "reset" \/ replies = << >>)
  BY <1>1, <1>2, QuietOutsideRecv DEF In
<1>4. /\ stack \in Seq(Frame) /\ (Len(stack) = 1 \/ Len(stack) = 2)
      /\ Top = stack[1] /\ Top.cmd = "CMD_SET_MOTOR_REFS"
  BY <1>1, <1>2, StackSizes DEF StackInv, Frame, Commands
<1>5. Len(stack) <= 2
  BY <1>1 DEF StackInv
<1>6. /\ stack' \in Seq(Frame) /\ Len(stack') = Len(stack) - 1
      /\ Len(stack) = 1 => Idle'
      /\ Len(stack) = 2 => ~Idle' /\ Top' = stack[2] /\ stack'[1] = stack[2]
  BY <1>2, <1>4, <1>5, Returned
<1>7. TypeOK'
  BY <1>1, <1>2, <1>6 DEF TypeOK
<1>8. StackInv'
  <2>1. upTimeCnt' = 0 /\ numErrors' = 0
    BY <1>1, <1>2 DEF StackInv
  <2>2. CASE Len(stack) = 1
    <3>1. Len(stack') = 0 /\ Idle'
      BY <1>6, <2>2
    <3>2. Len(stack') <= 2 /\ Len(stack') # 2 /\ 1..Len(stack') = {}
      BY <3>1
    <3> QED BY <1>2, <2>1, <3>1, <3>2 DEF StackInv, In
  <2>3. CASE Len(stack) = 2
    <3>1. /\ ~Idle' /\ Len(stack') = 1 /\ Top' = stack[2] /\ stack'[1] = stack[2]
      BY <1>6, <2>3
    <3>2. /\ stack[2].cmd = "CMD_GET_SENSOR_DATA" => stack[2].fn = "updateHook"
          /\ stack[2].at = "filled" => stack[2].cmd = "CMD_GET_SENSOR_DATA"
          /\ stack[2].at \in {"recv", "filled"} /\ stack[2].fn # "startHook"
      BY <1>1, <2>3 DEF StackInv
    <3>3. Len(stack') <= 2 /\ Len(stack') # 2 /\ 1..Len(stack') = {1}
      BY <3>1
    <3>4. task' # "Running"
      BY <1>2
    <3> QED BY <2>1, <3>1, <3>2, <3>3, <3>4 DEF StackInv, In
  <2> QED BY <1>4, <2>2, <2>3
<1>9. ExchangeInv'
  BY <1>2, <1>3 DEF ExchangeInv
<1>10. PositionInv'
  BY <1>1, <1>2, <1>4, <1>6 DEF PositionInv, StackInv
<1>11. IntactInv'
  BY <1>1, <1>2, <1>4, <1>6 DEF IntactInv, In
<1>12. NeutralWhenStopped'
  BY <1>1, <1>2, <1>3, <1>4 DEF NeutralWhenStopped, PositionInv
<1>13. ServoHoldsControls'
  BY <1>2 DEF ServoHoldsControls
<1> QED BY <1>7, <1>8, <1>9, <1>10, <1>11, <1>12, <1>13 DEF Inv, McuInv

-----------------------------------------------------------------------------
(* The board and the connection                                            *)

LEMMA BoardAnswersStep == Inv /\ BoardAnswers => Inv'
<1> SUFFICES ASSUME Inv, BoardAnswers PROVE Inv'
  OBVIOUS
<1> DEFINE r == Head(requests)
           reply == [k \in 1..Size(r.cmd) |->
                        [cmd |-> r.cmd, pos |-> k, sample |-> turn]]
<1>1. TypeOK /\ StackInv /\ ExchangeInv /\ PositionInv /\ IntactInv
  BY DEF Inv, McuInv
<1>2. /\ link = "up" /\ requests # << >>
      /\ servo' = IF r.cmd = "CMD_SET_MOTOR_REFS" THEN r.u ELSE servo
      /\ replies' = replies \o reply /\ requests' = Tail(requests)
      /\ UNCHANGED <<task, stack, sock, link, ioVars, exec, outVars>>
  BY DEF BoardAnswers
<1>3. /\ ~Idle /\ Top.at = "recv" /\ sock = "open" /\ Top.i = 0
      /\ want = Size(Top.cmd) /\ replies = << >>
      /\ requests = <<[cmd |-> Top.cmd, u |-> exec.u]>>
  BY <1>1, <1>2 DEF ExchangeInv, In
<1>4. r = [cmd |-> Top.cmd, u |-> exec.u] /\ requests' = << >>
  BY <1>2, <1>3
<1>5. Top.cmd \in Commands /\ exec.u \in -Limit..Limit /\ turn \in 0..1
  BY <1>1, <1>3, TopOfStack DEF TypeOK, Frame
<1>6. r.cmd = Top.cmd /\ r.u = exec.u /\ Size(r.cmd) = want /\ want \in {2, 3}
  BY <1>3, <1>4, <1>5 DEF Commands, Size
<1> HIDE DEF r
<1>7. \A k \in 1..want : [cmd |-> Top.cmd, pos |-> k, sample |-> turn] \in Piece
  BY <1>5, <1>6 DEF Piece, Commands
<1>8. reply \in Seq(Piece) /\ Len(reply) = want /\ reply # << >>
      /\ \A k \in 1..want : reply[k] = [cmd |-> Top.cmd, pos |-> k, sample |-> turn]
  <2>1. reply = [k \in 1..want |-> [cmd |-> Top.cmd, pos |-> k, sample |-> turn]]
    BY <1>6
  <2>2. reply \in [1..want -> Piece]
    BY <1>7, <2>1
  <2>3. reply \in Seq(Piece) /\ Len(reply) = want
    BY <1>6, <2>2
  <2>4. reply # << >>
    BY <1>6, <2>3, EmptySeq
  <2> QED BY <2>1, <2>3, <2>4
<1> HIDE DEF reply
<1>9. replies' = reply
  BY <1>2, <1>3, <1>8, ConcatEmptySeq
<1>10. servo' \in -Limit..Limit
  BY <1>1, <1>2, <1>5, <1>6 DEF TypeOK
<1>11. Top' = Top /\ (Idle' <=> Idle)
  BY <1>2 DEF Top, Idle
<1>12. TypeOK'
  BY <1>1, <1>2, <1>4, <1>8, <1>9, <1>10, EmptySeq DEF TypeOK
<1>13. StackInv'
  <2>1. UNCHANGED <<task, stack, sock, link, want, numErrors, upTimeCnt>>
    BY <1>2
  <2> QED BY <1>1, <1>11, <2>1 DEF StackInv, In
<1>14. ExchangeInv'
  <2>1. Top.i + Len(reply) = want
    BY <1>3, <1>6, <1>8
  <2> QED BY <1>2, <1>3, <1>4, <1>9, <1>11, <2>1 DEF ExchangeInv, In
<1>15. PositionInv'
  BY <1>1, <1>2, <1>6, <1>11 DEF PositionInv
<1>16. ASSUME intact' PROVE IntactInv'
  <2>1. intact
    BY <1>2, <1>16
  <2>2. Top.fn = "updateHook" =>
            IF Top.cmd = "CMD_SET_MOTOR_REFS" THEN data = turn ELSE Sample(replies)'
    <3>1. Top.cmd = "CMD_SET_MOTOR_REFS" /\ Top.fn = "updateHook" => data = turn
      BY <1>1, <1>3, <2>1 DEF IntactInv
    <3>2. Top.cmd = "CMD_GET_SENSOR_DATA" => Sample(replies)'
      <4> SUFFICES ASSUME Top.cmd = "CMD_GET_SENSOR_DATA" PROVE Sample(replies)'
        OBVIOUS
      <4>1. want = 3
        BY <1>3 DEF Size
      <4> QED BY <1>2, <1>8, <1>9, <4>1 DEF Sample
    <3> QED BY <1>5, <3>1, <3>2 DEF Commands
  <2> QED
    BY <1>1, <1>2, <1>3, <1>8, <1>9, <1>11, <2>1, <2>2 DEF IntactInv, In
<1>17. IntactInv'
  BY <1>16 DEF IntactInv
<1>18. NeutralWhenStopped' /\ ServoHoldsControls'
  BY <1>2, <1>3, <1>11 DEF NeutralWhenStopped, ServoHoldsControls
<1> QED BY <1>12, <1>13, <1>14, <1>15, <1>17, <1>18 DEF Inv, McuInv

LEMMA BreaksStep == \A how \in {"fin", "reset"} : Inv /\ Breaks(how) => Inv'
<1> SUFFICES ASSUME Inv, NEW how \in {"fin", "reset"}, Breaks(how) PROVE Inv'
  OBVIOUS
<1>1. TypeOK /\ StackInv /\ ExchangeInv
  BY DEF Inv, McuInv
<1>2. /\ sock = "open" /\ link # "reset" /\ how # link
      /\ link' = how /\ requests' = << >> /\ ~intact'
      /\ UNCHANGED <<task, stack, sock, replies, servo, tcpStatus, want, buf,
                     numErrors, exec, outVars>>
  BY DEF Breaks
<1>3. Top' = Top /\ (Idle' <=> Idle) /\ link' # "up"
  BY <1>2 DEF Top, Idle
<1>4. TypeOK'
  BY <1>1, <1>2, EmptySeq DEF TypeOK
<1>5. StackInv'
  BY <1>1, <1>2, <1>3 DEF StackInv, In
<1>6. ExchangeInv'
  BY <1>1, <1>2, <1>3 DEF ExchangeInv, In
<1>7. PositionInv' /\ IntactInv' /\ NeutralWhenStopped' /\ ServoHoldsControls'
  BY <1>2, <1>3 DEF PositionInv, IntactInv, NeutralWhenStopped, ServoHoldsControls
<1> QED BY <1>4, <1>5, <1>6, <1>7 DEF Inv, McuInv

LEMMA Unchanged == Inv /\ UNCHANGED vars => Inv'
<1> SUFFICES ASSUME Inv, UNCHANGED vars PROVE Inv'
  OBVIOUS
<1> USE DEF vars
<1>1. Top' = Top /\ (Idle' <=> Idle)
  BY DEF Top, Idle
<1>2. (TypeOK /\ StackInv)'
  BY <1>1 DEF Inv, McuInv, TypeOK, StackInv, In
<1>3. (ExchangeInv /\ PositionInv)'
  BY <1>1 DEF Inv, McuInv, ExchangeInv, PositionInv, In
<1>4. IntactInv'
  BY <1>1 DEF Inv, McuInv, IntactInv, In, Sample
<1>5. (NeutralWhenStopped /\ ServoHoldsControls)'
  BY <1>1 DEF Inv, NeutralWhenStopped, ServoHoldsControls
<1> QED BY <1>2, <1>3, <1>4, <1>5 DEF Inv, McuInv

LEMMA Inductive == Spec => []Inv
<1>1. Inv /\ [Next]_vars => Inv'
  BY configureStep, startStep, stopStep, triggerStep, setControlsRadiansStep,
     SendStep, RecvStep, RecvFailsStep, RecvDoneStep, ChecksumStep,
     CheckCommandStep, updateControlsStep, updateHookStep, startHookStep,
     setControlsStep, stopHookStep, BoardAnswersStep, BreaksStep, Unchanged
     DEF Next, Hooks
<1> QED BY Initially, <1>1, PTL DEF Spec

-----------------------------------------------------------------------------
(* The properties                                                          *)

\* Every variable keeps to its type: positions stay within the travel whatever
\* the controllers send, and recv never counts more than a reply.
THEOREM TypeCorrect == Spec => []TypeOK
<1>1. Inv => TypeOK
  BY DEF Inv
<1> QED BY Inductive, <1>1, PTL

\* However the component came to stop, a connection that did not break is only
\* closed with the surfaces neutral, and they stay so.
THEOREM LastResort == Spec => []NeutralWhenStopped
<1>1. Inv => NeutralWhenStopped
  BY DEF Inv
<1> QED BY Inductive, <1>1, PTL

\* Between updates the board has the surfaces where execControls says.
THEOREM ServosFollow == Spec => []ServoHoldsControls
<1>1. Inv => ServoHoldsControls
  BY DEF Inv
<1> QED BY Inductive, <1>1, PTL

\* There is never a second request, or a request and a reply, on the way:
\* also when replies come in pieces and exception() interrupts an exchange.
THEOREM RequestsAlternate == Spec => []OneExchange
<1>1. Inv => OneExchange
  <2>1. Inv => (Len(requests) = 0 \/ (Len(requests) = 1 /\ replies = << >>))
    BY DEF Inv, McuInv, ExchangeInv
  <2> QED BY <2>1 DEF OneExchange
<1> QED BY Inductive, <1>1, PTL

\* While replies arrive whole an update publishes the sample it asked for.
THEOREM SamplesAreFresh == Spec => []FreshSample
<1>1. Inv => FreshSample
  BY DEF Inv, McuInv, IntactInv, FreshSample, Returns, In
<1> QED BY Inductive, <1>1, PTL

\* exception() runs stopHook inside another hook once at most, and neither
\* error counter ever leaves zero.
THEOREM HooksNestOnce == Spec => []StackInv
<1>1. Inv => StackInv
  BY DEF Inv, McuInv
<1> QED BY Inductive, <1>1, PTL
=============================================================================
