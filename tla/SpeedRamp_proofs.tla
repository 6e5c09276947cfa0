-------------------------- MODULE SpeedRamp_proofs --------------------------
(***************************************************************************)
(* The soft limit of the ramp generator holds for every limit, threshold,  *)
(* number of retries, set of ramps and initial speed, and the text on the  *)
(* port info is always the one of the generator's state.                   *)
(***************************************************************************)
EXTENDS SpeedRamp, TLAPS

Within(x) == x \in Int /\ Abs(x) <= Softlimit

\* A command is computed from the last sample, which shows the drive as an
\* earlier command left it: all of them have to stay within the limit.
Bounded == /\ Within(command) /\ Within(setpoint) /\ Within(speed)
           /\ Within(currentSetpoint) /\ Within(currentSpeed)

IInv == TypeOK /\ Bounded

LEMMA LimitInNat == Softlimit \in Nat /\ Step \in Nat
  BY RampAssumption

LEMMA WithinIsInterval ==
  ASSUME NEW x PROVE Within(x) <=> x \in Int /\ -Softlimit <= x /\ x <= Softlimit
  BY LimitInNat DEF Within, Abs

-----------------------------------------------------------------------------
(* The functions of updateHook.                                            *)

\* The step towards a target within the limit does not leave it.
LEMMA RegulateStaysWithin ==
  ASSUME NEW sp, NEW v, Within(sp), Within(v), Within(targetSpeed),
         stepheight \in Nat, state \in 0..6
  PROVE  Within(Regulate(sp, v).next) /\ Regulate(sp, v).state \in 0..6
<1> USE LimitInNat
<1>0. /\ sp \in Int /\ v \in Int /\ targetSpeed \in Int
      /\ -Softlimit <= sp /\ sp <= Softlimit
      /\ -Softlimit <= targetSpeed /\ targetSpeed <= Softlimit
  BY WithinIsInterval
<1>1. CASE SpeedIsCloser(sp, v)
  <2>1. Regulate(sp, v) = [next |-> v, state |-> state]
    BY <1>1 DEF Regulate, SpeedIsCloser
  <2> QED BY <2>1
<1>2. CASE ~Reached(sp, v) /\ ~SpeedIsCloser(sp, v)
  <2>1. Regulate(sp, v) = [next |-> sp, state |-> 5]
    BY <1>2 DEF Regulate
  <2> QED BY <2>1
<1>3. CASE Reached(sp, v) /\ Abs(sp - targetSpeed) < stepheight
  <2>1. ~SpeedIsCloser(sp, v)
    BY <1>3 DEF SpeedIsCloser
  <2>2. Regulate(sp, v) = [next |-> targetSpeed, state |-> 2]
    BY <1>0, <1>3, <2>1 DEF Regulate, Abs
  <2> QED BY <2>2
<1>4. CASE Reached(sp, v) /\ Abs(sp - targetSpeed) >= stepheight /\ sp > targetSpeed
  <2>1. ~SpeedIsCloser(sp, v)
    BY <1>4 DEF SpeedIsCloser
  <2>2. Regulate(sp, v) = [next |-> Larger(targetSpeed, sp - stepheight), state |-> 3]
    BY <1>0, <1>4, <2>1 DEF Regulate, Abs
  <2>3. Within(Larger(targetSpeed, sp - stepheight))
    BY <1>0, WithinIsInterval DEF Larger
  <2> QED BY <2>2, <2>3
<1>5. CASE Reached(sp, v) /\ Abs(sp - targetSpeed) >= stepheight /\ sp <= targetSpeed
  <2>1. ~SpeedIsCloser(sp, v)
    BY <1>5 DEF SpeedIsCloser
  <2>2. Regulate(sp, v) = [next |-> Smaller(targetSpeed, sp + stepheight), state |-> 4]
    BY <1>0, <1>5, <2>1 DEF Regulate, Abs
  <2>3. Within(Smaller(targetSpeed, sp + stepheight))
    BY <1>0, WithinIsInterval DEF Smaller
  <2> QED BY <2>2, <2>3
<1> QED BY <1>0, <1>1, <1>2, <1>3, <1>4, <1>5 DEF Abs

\* The target of an abort, speed zero, is within the limit as well.
LEMMA AbortStaysWithin ==
  ASSUME NEW sp, Within(sp), stepheight \in Nat
  PROVE  Within(Larger(0, sp - stepheight))
  BY WithinIsInterval, LimitInNat DEF Larger

LEMMA RetrysTyped ==
  ASSUME NEW sp, NEW v, sp \in Int, v \in Int, retrys \in -2..RETRYS
  PROVE  Retrys(sp, v) \in -2..RETRYS
<1>1. RETRYS \in Nat
  BY RampAssumption
<1> QED BY <1>1 DEF Retrys

-----------------------------------------------------------------------------
LEMMA InitIInv == Init => IInv
<1> SUFFICES ASSUME Init PROVE IInv
  OBVIOUS
<1>1. /\ RETRYS \in Nat /\ Softlimit \in Nat
      /\ InitSpeeds \subseteq -Softlimit..Softlimit
  BY RampAssumption
<1>2. TypeOK
  <2>1. setpoint \in Int /\ speed \in Int /\ command \in Int
    BY <1>1 DEF Init
  <2>2. request \in [targetSpeed : Int, stepheight : Nat]
    BY DEF Init
  <2>3. retrys \in -2..RETRYS
    BY <1>1 DEF Init
  <2>4. /\ targetSpeed \in Int /\ stepheight \in Nat
        /\ currentSetpoint \in Int /\ currentSpeed \in Int
        /\ state \in 0..6 /\ info \in 0..6
    BY DEF Init
  <2>5. /\ task \in {"Stopped", "Running"}
        /\ script \in {"ready", "waiting", "leaving", "done"}
        /\ sensed \in BOOLEAN /\ updated \in BOOLEAN
    BY DEF Init
  <2> QED BY <2>1, <2>2, <2>3, <2>4, <2>5 DEF TypeOK
<1>3. Bounded
  BY <1>1, WithinIsInterval DEF Init, Bounded
<1> QED BY <1>2, <1>3 DEF IInv

LEMMA UpdateIInv ==
  ASSUME IInv, NEW new \in BOOLEAN, Update(new)
  PROVE  IInv'
<1> DEFINE sp == IF new THEN setpoint ELSE currentSetpoint
           v  == IF new THEN speed ELSE currentSpeed
<1>1. Within(sp) /\ Within(v)
  BY DEF IInv, Bounded
<1>2. Within(targetSpeed)
  BY DEF IInv, TypeOK, Update, Within
<1>3. stepheight \in Nat /\ state \in 0..6 /\ retrys \in -2..RETRYS /\ info \in 0..6
  BY DEF IInv, TypeOK
<1>4. currentSetpoint' = sp /\ currentSpeed' = v /\ retrys' = Retrys(sp, v)
  BY DEF Update
<1>5. retrys' \in -2..RETRYS
  BY <1>1, <1>3, <1>4, RetrysTyped DEF Within
<1>6. Within(command') /\ state' \in 0..6 /\ targetSpeed' \in Int /\ stepheight' \in Nat
  <2>1. CASE retrys' < -1
    <3>1. state' = 6 /\ targetSpeed' = 0 /\ stepheight' = Step
          /\ command' = Larger(0, sp - stepheight)
      BY <2>1 DEF Update
    <3>2. Within(Larger(0, sp - stepheight))
      BY <1>1, <1>3, AbortStaysWithin
    <3> QED BY <3>1, <3>2, LimitInNat
  <2>2. CASE ~(retrys' < -1)
    <3>1. state' = Regulate(sp, v).state /\ command' = Regulate(sp, v).next
          /\ targetSpeed' = targetSpeed /\ stepheight' = stepheight
      BY <2>2 DEF Update
    <3>2. Within(Regulate(sp, v).next) /\ Regulate(sp, v).state \in 0..6
      BY <1>1, <1>2, <1>3, RegulateStaysWithin
    <3> QED BY <1>2, <1>3, <3>1, <3>2 DEF Within
  <2> QED BY <2>1, <2>2
<1>7. info' \in 0..6
  BY <1>3, <1>6 DEF Update, Publish
<1>8. Bounded'
  <2>1. setpoint' = setpoint /\ speed' = speed
    BY DEF Update
  <2> QED BY <1>1, <1>4, <1>6, <2>1 DEF IInv, Bounded, Within
<1>9. TypeOK'
  <2>1. /\ task' = task /\ script' = script /\ request' = request
        /\ sensed' = TRUE /\ updated' = TRUE
    BY DEF Update, scriptVars
  <2>2. currentSetpoint' \in Int /\ currentSpeed' \in Int /\ command' \in Int
    BY <1>1, <1>4, <1>6 DEF Within
  <2>3. setpoint' = setpoint /\ speed' = speed
    BY DEF Update
  <2> QED BY <1>5, <1>6, <1>7, <2>1, <2>2, <2>3 DEF IInv, TypeOK
<1> QED BY <1>8, <1>9 DEF IInv

LEMMA NextIInv == IInv /\ [Next]_vars => IInv'
<1> SUFFICES ASSUME IInv, [Next]_vars PROVE IInv'
  OBVIOUS
<1> USE DEF IInv, driveVars, scriptVars, rampVars
<1>1. CASE Refuse
  BY <1>1 DEF Refuse, TypeOK, Bounded, Within
<1>2. ASSUME NEW new \in BOOLEAN, Update(new) PROVE IInv'
  BY <1>2, UpdateIInv
<1>3. ASSUME NEW r \in Requests, ramp_with(r) PROVE IInv'
  <2>1. r \in [targetSpeed : Int, stepheight : Nat \ {0}]
    BY RampAssumption
  <2>2. r.targetSpeed \in Int /\ r.stepheight \in Nat
        /\ r \in [targetSpeed : Int, stepheight : Nat]
    BY <2>1
  <2>3. TypeOK'
    BY <1>3, <2>2 DEF ramp_with, TypeOK
  <2>4. Bounded'
    BY <1>3 DEF ramp_with, Bounded, Within
  <2> QED BY <2>3, <2>4
<1>4. CASE SeeGoal
  BY <1>4 DEF SeeGoal, TypeOK, Bounded, Within
<1>5. CASE wait_till_ramp_is_done
  BY <1>5, LimitInNat DEF wait_till_ramp_is_done, TypeOK, Bounded, Within
<1>6. CASE Apply
  BY <1>6 DEF Apply, TypeOK, Bounded, Within
<1>7. CASE Follow
  \* The speed moves between two speeds within the limit.
  <2>1. Within(speed')
    BY <1>7, WithinIsInterval, LimitInNat DEF Follow, Bounded
  <2>2. /\ UNCHANGED <<task, rampVars, command, setpoint, scriptVars, sensed, updated>>
    BY <1>7 DEF Follow
  <2>3. Bounded'
    BY <2>1, <2>2 DEF Bounded, Within
  <2>4. TypeOK'
    BY <2>1, <2>2 DEF TypeOK, Within
  <2> QED BY <2>3, <2>4
<1>8. CASE UNCHANGED vars
  BY <1>8 DEF vars, TypeOK, Bounded, Within
<1> QED BY <1>1, <1>2, <1>3, <1>4, <1>5, <1>6, <1>7, <1>8 DEF Next

\* The types, and that no value the generator works with leaves the limit.
THEOREM Invariance == Spec => []IInv
<1>1. Init => IInv
  BY InitIInv
<1>2. IInv /\ [Next]_vars => IInv'
  BY NextIInv
<1> QED BY <1>1, <1>2, PTL DEF Spec

\* Whatever ramp is asked for, no command leaves the soft limit.
THEOREM NeverBeyondLimit == Spec => []WithinSoftLimit
<1>1. IInv => WithinSoftLimit
  BY DEF IInv, Bounded, Within, WithinSoftLimit
<1> QED BY <1>1, Invariance, PTL

-----------------------------------------------------------------------------
\* The script reads the text of the generator's present state.
THEOREM InfoIsCurrent == Spec => []InfoTellsState
<1> USE DEF InfoTellsState
<1>1. Init => InfoTellsState
  BY DEF Init
<1>2. InfoTellsState /\ [Next]_vars => InfoTellsState'
  <2> SUFFICES ASSUME InfoTellsState, [Next]_vars PROVE InfoTellsState'
    OBVIOUS
  <2> USE DEF driveVars, scriptVars, rampVars
  <2>1. CASE Refuse
    BY <2>1 DEF Refuse
  <2>2. ASSUME NEW new \in BOOLEAN, Update(new) PROVE InfoTellsState'
    <3>1. info' = IF state' # state \/ state' = 5 THEN state' ELSE info
      BY <2>2 DEF Update, Publish
    <3> QED BY <3>1
  <2>3. ASSUME NEW r \in Requests, ramp_with(r) PROVE InfoTellsState'
    BY <2>3 DEF ramp_with
  <2>4. CASE SeeGoal
    BY <2>4 DEF SeeGoal
  <2>5. CASE wait_till_ramp_is_done
    BY <2>5 DEF wait_till_ramp_is_done
  <2>6. CASE Apply
    BY <2>6 DEF Apply
  <2>7. CASE Follow
    BY <2>7 DEF Follow
  <2>8. CASE UNCHANGED vars
    BY <2>8 DEF vars
  <2> QED BY <2>1, <2>2, <2>3, <2>4, <2>5, <2>6, <2>7, <2>8 DEF Next
<1> QED BY <1>1, <1>2, PTL DEF Spec

-----------------------------------------------------------------------------
(* What a single new command may do.                                       *)

\* Only updateHook sends commands.
LEMMA OnlyUpdateCommands ==
  ASSUME [Next]_vars, command' # command
  PROVE  \E new \in BOOLEAN : Update(new)
BY DEF Next, vars, driveVars, scriptVars, rampVars, Refuse, ramp_with, SeeGoal,
       wait_till_ramp_is_done, Apply, Follow

\* The five ways in which the setpoint is chosen.
LEMMA RegulateCases ==
  ASSUME NEW sp \in Int, NEW v \in Int, targetSpeed \in Int, stepheight \in Nat
  PROVE  LET n == Regulate(sp, v).next
         IN  \/ SpeedIsCloser(sp, v) /\ n = v
             \/ n = sp
             \/ Abs(sp - targetSpeed) < stepheight /\ n = targetSpeed
             \/ sp > targetSpeed /\ n = Larger(targetSpeed, sp - stepheight)
             \/ sp <= targetSpeed /\ n = Smaller(targetSpeed, sp + stepheight)
<1>1. CASE SpeedIsCloser(sp, v)
  <2>1. Regulate(sp, v) = [next |-> v, state |-> state]
    BY <1>1 DEF Regulate, SpeedIsCloser
  <2> QED BY <1>1, <2>1
<1>2. CASE ~Reached(sp, v) /\ ~SpeedIsCloser(sp, v)
  <2>1. Regulate(sp, v) = [next |-> sp, state |-> 5]
    BY <1>2 DEF Regulate
  <2> QED BY <2>1
<1>3. CASE Reached(sp, v) /\ Abs(sp - targetSpeed) < stepheight
  <2>1. ~SpeedIsCloser(sp, v)
    BY <1>3 DEF SpeedIsCloser
  <2>2. Regulate(sp, v) = [next |-> targetSpeed, state |-> 2]
    BY <1>3, <2>1 DEF Regulate, Abs
  <2> QED BY <1>3, <2>2
<1>4. CASE Reached(sp, v) /\ Abs(sp - targetSpeed) >= stepheight /\ sp > targetSpeed
  <2>1. ~SpeedIsCloser(sp, v)
    BY <1>4 DEF SpeedIsCloser
  <2>2. Regulate(sp, v) = [next |-> Larger(targetSpeed, sp - stepheight), state |-> 3]
    BY <1>4, <2>1 DEF Regulate, Abs
  <2> QED BY <1>4, <2>2
<1>5. CASE Reached(sp, v) /\ Abs(sp - targetSpeed) >= stepheight /\ sp <= targetSpeed
  <2>1. ~SpeedIsCloser(sp, v)
    BY <1>5 DEF SpeedIsCloser
  <2>2. Regulate(sp, v) = [next |-> Smaller(targetSpeed, sp + stepheight), state |-> 4]
    BY <1>5, <2>1 DEF Regulate, Abs
  <2> QED BY <1>5, <2>2
<1> QED BY <1>1, <1>2, <1>3, <1>4, <1>5 DEF Abs

\* What an update that is no abort does to the command.
LEMMA Step_Regulated ==
  ASSUME IInv, NEW new \in BOOLEAN, Update(new), ~(retrys' < -1)
  PROVE  /\ currentSetpoint' \in Int /\ currentSpeed' \in Int
         /\ targetSpeed' = targetSpeed /\ targetSpeed \in Int /\ stepheight \in Nat
         /\ command' = Regulate(currentSetpoint', currentSpeed').next
BY DEF IInv, TypeOK, Update

LEMMA AbortSlowsDown ==
  ASSUME NEW sp \in Int, NEW h \in Nat
  PROVE  Abs(Larger(0, sp - h) - 0) <= Abs(sp - 0)
BY DEF Larger, Abs

\* A new command is not farther from the target than the setpoint was.
LEMMA UpdateTowards ==
  ASSUME IInv, NEW new \in BOOLEAN, Update(new)
  PROVE  Abs(command' - targetSpeed') <= Abs(currentSetpoint' - targetSpeed')
<1>1. CASE retrys' < -1
  <2>1. /\ targetSpeed' = 0 /\ stepheight \in Nat /\ currentSetpoint' \in Int
        /\ command' = Larger(0, currentSetpoint' - stepheight)
    BY <1>1 DEF IInv, TypeOK, Update
  <2> QED BY <2>1, AbortSlowsDown
<1>2. CASE ~(retrys' < -1)
  <2> DEFINE sp == currentSetpoint'
             v  == currentSpeed'
  <2>1. /\ sp \in Int /\ v \in Int /\ targetSpeed' = targetSpeed
        /\ targetSpeed \in Int /\ stepheight \in Nat
        /\ command' = Regulate(sp, v).next
    BY <1>2, Step_Regulated
  <2> HIDE DEF sp, v
  <2>2. \/ SpeedIsCloser(sp, v) /\ command' = v
        \/ command' = sp
        \/ Abs(sp - targetSpeed) < stepheight /\ command' = targetSpeed
        \/ sp > targetSpeed /\ command' = Larger(targetSpeed, sp - stepheight)
        \/ sp <= targetSpeed /\ command' = Smaller(targetSpeed, sp + stepheight)
    BY <2>1, RegulateCases
  <2>3. Abs(command' - targetSpeed) <= Abs(sp - targetSpeed)
    <3>1. CASE SpeedIsCloser(sp, v) /\ command' = v
      BY <2>1, <3>1 DEF SpeedIsCloser, Abs
    <3>2. CASE command' = sp
      BY <2>1, <3>2 DEF Abs
    <3>3. CASE command' = targetSpeed
      BY <2>1, <3>3 DEF Abs
    <3>4. CASE sp > targetSpeed /\ command' = Larger(targetSpeed, sp - stepheight)
      BY <2>1, <3>4 DEF Larger, Abs
    <3>5. CASE sp <= targetSpeed /\ command' = Smaller(targetSpeed, sp + stepheight)
      BY <2>1, <3>5 DEF Smaller, Abs
    <3> QED BY <2>2, <3>1, <3>2, <3>3, <3>4, <3>5
  <2> QED BY <2>1, <2>3 DEF sp, Abs
<1> QED BY <1>1, <1>2

\* Apart from an abort, a new command is at most a step farther from the speed.
LEMMA UpdateWithoutJump ==
  ASSUME IInv, NEW new \in BOOLEAN, Update(new), state' # 6
  PROVE  Abs(command' - currentSpeed') <= Abs(currentSetpoint' - currentSpeed') + stepheight
<1>1. ~(retrys' < -1)
  BY DEF Update
<1> DEFINE sp == currentSetpoint'
           v  == currentSpeed'
<1>2. /\ sp \in Int /\ v \in Int /\ targetSpeed \in Int /\ stepheight \in Nat
      /\ command' = Regulate(sp, v).next
  BY <1>1, Step_Regulated
<1> HIDE DEF sp, v
<1>3. \/ SpeedIsCloser(sp, v) /\ command' = v
      \/ command' = sp
      \/ Abs(sp - targetSpeed) < stepheight /\ command' = targetSpeed
      \/ sp > targetSpeed /\ command' = Larger(targetSpeed, sp - stepheight)
      \/ sp <= targetSpeed /\ command' = Smaller(targetSpeed, sp + stepheight)
  BY <1>2, RegulateCases
<1>4. Abs(command' - v) <= Abs(sp - v) + stepheight
  <2>1. CASE command' = v \/ command' = sp
    BY <1>2, <2>1 DEF Abs
  <2>2. CASE Abs(sp - targetSpeed) < stepheight /\ command' = targetSpeed
    BY <1>2, <2>2 DEF Abs
  <2>3. CASE sp > targetSpeed /\ command' = Larger(targetSpeed, sp - stepheight)
    BY <1>2, <2>3 DEF Larger, Abs
  <2>4. CASE sp <= targetSpeed /\ command' = Smaller(targetSpeed, sp + stepheight)
    BY <1>2, <2>4 DEF Smaller, Abs
  <2> QED BY <1>3, <2>1, <2>2, <2>3, <2>4
<1> QED BY <1>4 DEF sp, v

\* The generator steers towards its target, also when it aborts.
THEOREM SteersTowardsTarget == Spec => TowardsTarget
<1>1. IInv /\ [Next]_vars =>
        [command' # command =>
            Abs(command' - targetSpeed') <= Abs(currentSetpoint' - targetSpeed')]_vars
  BY OnlyUpdateCommands, UpdateTowards
<1> QED BY <1>1, Invariance, PTL DEF Spec, TowardsTarget

\* The generator does not tear at the drive, except when it aborts.
THEOREM NeverTears == Spec => NoJump
<1>1. IInv /\ [Next]_vars =>
        [command' # command /\ state' # 6 =>
            Abs(command' - currentSpeed')
                <= Abs(currentSetpoint' - currentSpeed') + stepheight]_vars
  BY OnlyUpdateCommands, UpdateWithoutJump
<1> QED BY <1>1, Invariance, PTL DEF Spec, NoJump
=============================================================================
