------------------------------ MODULE SpeedRamp ------------------------------
(***************************************************************************)
(* Bringing the carousel from one speed to another: the component          *)
(* RampGenerator (components/carousel2/rampGenerator), the script that     *)
(* starts it and waits for its message "Ramp goal achieved!"               *)
(* (ramp_with and wait_till_ramp_is_done, lua/carousel2/                   *)
(* experiment_helpers.lua), and the drive.  Generator and script run in    *)
(* threads of their own and share the generator's properties and the last  *)
(* text on its port "info".                                                *)
(*                                                                         *)
(* Speeds are integers in some unit; the property acceleration is          *)
(* represented by stepheight = dt * acceleration.  info is represented by  *)
(* the state in which its text was written; state 1 writes none.           *)
(***************************************************************************)
EXTENDS Integers

CONSTANTS Softlimit,    \* softlimit
          Threshold,    \* threshold
          RETRYS,       \* retrys in configureHook
          Step,         \* stepheight after an abort and between ramps
          Requests,     \* the ramps a script may ask for
          InitSpeeds,   \* speeds at which another program left the drive
          PATIENT       \* TRUE: the script's sleep outlasts the first update

ASSUME RampAssumption ==
    /\ Softlimit \in Nat
    /\ Threshold \in Nat \ {0}
    /\ RETRYS \in Nat
    /\ Step \in Nat \ {0}
    /\ Requests \subseteq [targetSpeed : Int, stepheight : Nat \ {0}]
    /\ InitSpeeds \subseteq -Softlimit..Softlimit
    /\ PATIENT \in BOOLEAN

VARIABLES task,             \* the generator: "Stopped" or "Running"
          targetSpeed, stepheight,
          currentSetpoint, currentSpeed,
          state, retrys, info,
          command,          \* the last command sent to the drive
          setpoint, speed,  \* the drive
          script,           \* "ready", "waiting", "leaving" or "done"
          request,          \* what the script asked for
          sensed,           \* history: driveState has been read
          updated           \* history: updateHook has run since the start

driveVars  == <<command, setpoint, speed>>
scriptVars == <<script, request>>
rampVars   == <<targetSpeed, stepheight, currentSetpoint, currentSpeed, state,
                retrys, info>>
vars == <<task, rampVars, driveVars, scriptVars, sensed, updated>>

Abs(x) == IF x < 0 THEN -x ELSE x
Larger(x, y)  == IF x < y THEN y ELSE x
Smaller(x, y) == IF x < y THEN x ELSE y

Init == /\ task = "Stopped"
        /\ targetSpeed = 0 /\ stepheight = 0
        /\ currentSetpoint = 0 /\ currentSpeed = 0
        /\ state = 0 /\ retrys = RETRYS /\ info = 0
        /\ setpoint \in InitSpeeds /\ speed = setpoint
        /\ command = setpoint
        /\ script = "ready"
        /\ request = [targetSpeed |-> 0, stepheight |-> 0]
        /\ sensed = FALSE /\ updated = FALSE

-----------------------------------------------------------------------------
(* RampGenerator::updateHook                                               *)

\* The requested speed is outside the soft limit: nothing is sent, and the
\* text says so without being written to the port.
Refuse == /\ task = "Running"
          /\ Abs(targetSpeed) > Softlimit
          /\ state' = 1
          /\ updated' = TRUE
          /\ UNCHANGED <<task, targetSpeed, stepheight, currentSetpoint, currentSpeed,
                         retrys, info, driveVars, scriptVars, sensed>>

Reached(sp, v) == Abs(sp - v) < Threshold

\* Fault: the speed's distance to the target is not compared.
SpeedIsElsewhere(sp, v) == ~Reached(sp, v) /\ Abs(sp - v) > stepheight

\* The speed is more than a step closer to the target than the setpoint is.
SpeedIsCloser(sp, v) ==
    /\ ~Reached(sp, v)
    /\ Abs(sp - targetSpeed) - Abs(v - targetSpeed) > stepheight

\* Fault: the step is not limited to the target, and always upwards.
RegulateUnlimited(sp, v) ==
    CASE SpeedIsCloser(sp, v) -> [next |-> v, state |-> state]
      [] ~Reached(sp, v) /\ ~SpeedIsCloser(sp, v) -> [next |-> sp, state |-> 5]
      [] Reached(sp, v) ->
            IF Abs(sp - targetSpeed) < stepheight
            THEN [next |-> targetSpeed, state |-> 2]
            ELSE [next |-> sp + stepheight, state |-> 4]

\* Fault: the whole way in one step.
RegulateAtOnce(sp, v) ==
    CASE SpeedIsCloser(sp, v) -> [next |-> v, state |-> state]
      [] ~Reached(sp, v) /\ ~SpeedIsCloser(sp, v) -> [next |-> sp, state |-> 5]
      [] Reached(sp, v) -> [next |-> targetSpeed, state |-> 2]

\* The next setpoint, and the state, before a stuck ramp is looked for.
Regulate(sp, v) ==
    CASE SpeedIsCloser(sp, v) -> [next |-> v, state |-> state]
      [] ~Reached(sp, v) /\ ~SpeedIsCloser(sp, v) -> [next |-> sp, state |-> 5]
      [] Reached(sp, v) ->
            CASE Abs(sp - targetSpeed) < stepheight ->
                    [next |-> targetSpeed, state |-> 2]
              [] Abs(sp - targetSpeed) >= stepheight /\ sp > targetSpeed ->
                    [next |-> Larger(targetSpeed, sp - stepheight), state |-> 3]
              [] Abs(sp - targetSpeed) >= stepheight /\ sp <= targetSpeed ->
                    [next |-> Smaller(targetSpeed, sp + stepheight), state |-> 4]

\* Below -2 the count makes no difference.
Retrys(sp, v) == IF Reached(sp, v) THEN RETRYS
                 ELSE IF SpeedIsCloser(sp, v) \/ retrys = -2 THEN retrys
                 ELSE retrys - 1

\* Fault: only the texts of retries are written.
PublishRetries == info' = IF state' = 5 THEN state' ELSE info

Publish == info' = IF state' # state \/ state' = 5 THEN state' ELSE info

\* new tells whether a sample of the drive has arrived since the last reading.
\* SiemensSensors starts before and waits for a first sample.
Update(new) ==
    /\ task = "Running"
    /\ Abs(targetSpeed) <= Softlimit
    /\ new \/ sensed
    /\ LET sp == IF new THEN setpoint ELSE currentSetpoint
           v  == IF new THEN speed ELSE currentSpeed
       IN  /\ currentSetpoint' = sp
           /\ currentSpeed' = v
           /\ retrys' = Retrys(sp, v)
           /\ IF retrys' < -1
              THEN /\ state' = 6
                   /\ targetSpeed' = 0
                   /\ stepheight' = Step
                   /\ command' = Larger(0, sp - stepheight)
              ELSE /\ state' = Regulate(sp, v).state
                   /\ command' = Regulate(sp, v).next
                   /\ UNCHANGED <<targetSpeed, stepheight>>
    /\ Publish
    /\ sensed' = TRUE
    /\ updated' = TRUE
    /\ UNCHANGED <<task, setpoint, speed, scriptVars>>

-----------------------------------------------------------------------------
(* The script.                                                             *)

\* ramp_with sets the two properties and starts the generator.  (startHook does
\* nothing: state and retrys are those of the last ramp.)
ramp_with(r) == /\ script \in {"ready", "done"}
                /\ request' = r
                /\ stepheight' = r.stepheight
                /\ targetSpeed' = r.targetSpeed
                /\ task' = "Running"
                /\ script' = "waiting"
                /\ updated' = FALSE
                /\ UNCHANGED <<currentSetpoint, currentSpeed, state, retrys, info,
                               driveVars, sensed>>

\* The text the loop reads is the one of state 2.
SeeGoal == /\ script = "waiting"
           /\ PATIENT => updated
           /\ info = 2
           /\ script' = "leaving"
           /\ UNCHANGED <<task, rampVars, driveVars, request, sensed, updated>>

\* The script stops the generator, which may have run since, sets the properties
\* back and says "done.".
wait_till_ramp_is_done == /\ script = "leaving"
                          /\ task' = "Stopped"
                          /\ stepheight' = Step
                          /\ targetSpeed' = 0
                          /\ script' = "done"
                          /\ UNCHANGED <<currentSetpoint, currentSpeed, state, retrys,
                                         info, driveVars, request, sensed, updated>>

-----------------------------------------------------------------------------
(* The drive, as far as the code relies on it: a command may be lost or be *)
(* late, and the speed follows the setpoint unless the drive is stuck.     *)

Apply == /\ setpoint # command
         /\ setpoint' = command
         /\ UNCHANGED <<task, rampVars, command, speed, scriptVars, sensed, updated>>

Follow == /\ speed # setpoint
          /\ speed' = IF speed < setpoint THEN speed + 1 ELSE speed - 1
          /\ UNCHANGED <<task, rampVars, command, setpoint, scriptVars, sensed, updated>>

Next == \/ Refuse \/ (\E new \in BOOLEAN : Update(new))
        \/ (\E r \in Requests : ramp_with(r)) \/ SeeGoal \/ wait_till_ramp_is_done
        \/ Apply \/ Follow

Spec == Init /\ [][Next]_vars

\* The generator is periodic and the script loops; samples keep coming, not
\* every command is lost, and the drive is enabled.
FairSpec == /\ Spec
            /\ WF_vars(Update(TRUE))
            /\ WF_vars(SeeGoal) /\ WF_vars(wait_till_ramp_is_done)
            /\ WF_vars(Apply) /\ WF_vars(Follow)

-----------------------------------------------------------------------------
TypeOK == /\ task \in {"Stopped", "Running"}
          /\ targetSpeed \in Int /\ stepheight \in Nat
          /\ currentSetpoint \in Int /\ currentSpeed \in Int
          /\ state \in 0..6 /\ info \in 0..6
          /\ retrys \in -2..RETRYS
          /\ command \in Int /\ setpoint \in Int /\ speed \in Int
          /\ script \in {"ready", "waiting", "leaving", "done"}
          /\ request \in [targetSpeed : Int, stepheight : Nat]
          /\ sensed \in BOOLEAN /\ updated \in BOOLEAN

\* Whatever is asked for, and however commands and samples are lost or late,
\* no command leaves the soft limit.
WithinSoftLimit == Abs(command) <= Softlimit

\* Although a text is written only when the state changes or a retry is
\* counted, the last text on the port is the one of the present state, so that
\* the script cannot miss the end of a ramp (state 1 has no text there).
InfoTellsState == state # 1 => info = state

\* The generator steers towards its target: a new command is not farther from
\* it than the setpoint that was read, also when the ramp is aborted and when
\* the setpoint is moved to the measured speed.
TowardsTarget ==
    [][command' # command =>
          Abs(command' - targetSpeed') <= Abs(currentSetpoint' - targetSpeed')]_vars

\* The generator does not tear at the drive: apart from an abort, a command is at
\* most one step farther from the measured speed than the setpoint was.
NoJump ==
    [][command' # command /\ state' # 6 =>
          Abs(command' - currentSpeed')
              <= Abs(currentSetpoint' - currentSpeed') + stepheight]_vars

\* A script that waits for a ramp within the limits gets to go on, be it after an
\* abort, as long as the drive follows.
RampEnds == (script = "waiting" /\ Abs(request.targetSpeed) <= Softlimit)
                ~> script = "done"

-----------------------------------------------------------------------------
(* What the texts say of this code.                                        *)

\* "Ramp goal achieved! Stoping rampGenerator...": when the script goes on, the
\* drive's setpoint is within a step of what the script asked for.  The code
\* breaks this, an aborted ramp ends with the same text (README, section 4).
DoneMeansThere ==
    script = "done" =>
        Abs(setpoint - request.targetSpeed) < request.stepheight
=============================================================================
