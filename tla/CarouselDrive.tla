---------------------------- MODULE CarouselDrive ----------------------------
(***************************************************************************)
(* The carousel in open loop: two generators of setpoints, the component   *)
(* SiemensActuators with its SiemensSender, the drive behind a UDP link,   *)
(* and the scripts that start and stop all of them                         *)
(* (components/carousel2/functionGenerator, rampGenerator,                 *)
(* siemensActuators, siemensDrives, siemensSensors and                     *)
(* lua/carousel2/experiment_helpers.lua).                                  *)
(*                                                                         *)
(* Each generator has a connection of its own to the port "controls",      *)
(* which holds its last sample.  The generators, the actuators, the        *)
(* sensors and the script run in threads of their own.                     *)
(*                                                                         *)
(* Speeds are integers.  The drive's speed is its setpoint; what the ramp  *)
(* generator does while it is not is in SpeedRamp.  The winch, whose soft  *)
(* limit is zero, is left out.                                             *)
(***************************************************************************)
EXTENDS Integers, Sequences

CONSTANTS Limit,        \* carouselSoftSpeedLimit
          Targets,      \* the speeds ramps go to
          HandSpeeds,   \* the speeds set by hand
          Amplitude,    \* of the sine
          InitSpeeds,   \* speeds at which another program left the drive
          PROMPT,       \* TRUE: commands and samples take less than a period
          MaxFaults     \* bound on commands not sent or lost

ASSUME DriveAssumption ==
    /\ Limit \in Nat \ {0} /\ Amplitude \in Nat \ {0}
    /\ Targets \subseteq -Limit..Limit
    /\ HandSpeeds \subseteq Int
    /\ InitSpeeds \subseteq -Limit..Limit
    /\ PROMPT \in BOOLEAN /\ MaxFaults \in Nat

VARIABLES
    task,       \* which components run
    prop,       \* their properties; those of the sine together
    begun,      \* the function generator's sine has left its zero
    goal,       \* the text on port "info" is "Ramp goal achieved!"
    chan,       \* the connections of port "controls": the sample not read yet
    from,       \* the one read last
    due,        \* updateHook of the actuators has been triggered
    current,    \* currentCarouselCommand
    drive,      \* the drive's setpoint
    sample,     \* port "data" of the sensors
    todo,       \* the script: what it still has to do
    faults,     \* commands not sent or lost so far
    manual,     \* history: the speed set by hand, until the actuators start
    sent,       \* history: a command has been sent
    smooth      \* history: nothing was asked for that is a jump by itself,
                \* or everything was quiet afterwards

generatorVars == <<begun, goal>>
senderVars == <<current, drive, faults, sent>>
historyVars == <<manual, smooth>>
vars == <<task, prop, generatorVars, chan, from, due, senderVars, sample, todo,
          historyVars>>

Writers == {"functionGenerator", "rampGenerator"}
Components == Writers \cup {"siemensActuators"}
Sines == [whichDrive : {0, 1}, amplitude : {0, Amplitude}, offset : -Limit..Limit]
NoSine == [whichDrive |-> 0, amplitude |-> 0, offset |-> 0]

Abs(x) == IF x < 0 THEN -x ELSE x
Larger(x, y)  == IF x < y THEN y ELSE x
Smaller(x, y) == IF x < y THEN x ELSE y

Running(c) == task[c] = "Running"

\* load_hardware.lua starts the actuators; nothing has been sent yet.
Init ==
    /\ task = [c \in Components |->
                 IF c = "siemensActuators" THEN "Running" ELSE "Stopped"]
    /\ prop = [sine |-> NoSine, targetSpeed |-> 0]
    /\ begun = FALSE /\ goal = FALSE
    /\ chan = [w \in Writers |-> {}]
    /\ from = "functionGenerator"
    /\ due = FALSE
    /\ current = 0 /\ drive \in InitSpeeds /\ sample = drive
    /\ todo = <<>>
    /\ faults = 0
    /\ manual = {} /\ sent = FALSE /\ smooth = TRUE

-----------------------------------------------------------------------------
(* SiemensSender                                                           *)

Clip(v) == Larger(-Limit, Smaller(Limit, v))

\* send_reference_speeds: the current command is remembered when it has been
\* sent, whether or not it arrives.
Send(v, outcome) ==
    /\ outcome # "delivered" => faults < MaxFaults
    /\ faults' = IF outcome = "delivered" THEN faults ELSE faults + 1
    /\ current' = IF outcome = "failed" THEN current ELSE Clip(v)
    /\ drive' = IF outcome = "delivered" THEN Clip(v) ELSE drive
    /\ sent' = (sent \/ outcome # "failed")

Outcomes == {"failed", "lost", "delivered"}

-----------------------------------------------------------------------------
(* SiemensActuators                                                        *)

\* Fault: only the connection that was read last is looked at.
ReadLastOnly == {from} \ {w \in Writers : chan[w] = {}}

\* An input port reads the connection it read last and, if there is nothing
\* new, the others.
ReadFrom == IF chan[from] # {} THEN {from} ELSE {w \in Writers : chan[w] # {}}

updateHook(outcome) ==
    /\ Running("siemensActuators") /\ due
    /\ due' = FALSE
    /\ IF ReadFrom = {}
         THEN outcome = "delivered" /\ UNCHANGED <<chan, from, senderVars>>
         ELSE \E w \in ReadFrom :
                /\ from' = w
                /\ chan' = [chan EXCEPT ![w] = {}]
                /\ \E v \in chan[w] : Send(v, outcome)
    /\ UNCHANGED <<task, prop, generatorVars, sample, todo, historyVars>>

\* The actuators are triggered by events and run with a real-time priority, and
\* the drive reports its state more often than a generator runs.
Settled == PROMPT => ~due /\ sample = drive

\* A sample is written to the connection, which triggers the actuators.
WritePort(w, v) ==
    /\ Settled
    /\ chan' = [chan EXCEPT ![w] = {v}]
    /\ due' = Running("siemensActuators")

-----------------------------------------------------------------------------
(* The generators                                                          *)

\* FunctionGenerator::updateHook; s is the value of the sine, zero at first.
FunctionUpdate(s) ==
    /\ Running("functionGenerator")
    /\ begun \/ s = 0
    /\ begun' = TRUE
    /\ WritePort("functionGenerator",
                 IF prop.sine.whichDrive = 1
                 THEN prop.sine.offset + prop.sine.amplitude * s ELSE 0)
    /\ UNCHANGED <<task, prop, goal, from, senderVars, sample, todo, historyVars>>

\* RampGenerator::updateHook for a drive that follows: a step, or the goal.
RampUpdate ==
    /\ Running("rampGenerator")
    /\ LET t == prop.targetSpeed
       IN  /\ goal' = (sample = t)
           /\ WritePort("rampGenerator",
                        IF sample > t THEN Larger(t, sample - 1)
                        ELSE Smaller(t, sample + 1))
    /\ UNCHANGED <<task, prop, begun, from, senderVars, sample, todo, historyVars>>

\* SiemensSensors::updateHook.
Sense ==
    /\ sample # drive /\ sample' = drive
    /\ UNCHANGED <<task, prop, generatorVars, chan, from, due, senderVars, todo,
                   historyVars>>

-----------------------------------------------------------------------------
(* The functions of experiment_helpers.lua as sequences of instructions.   *)

Set(p, v) == [do |-> "set", what |-> p, v |-> v]
Start(c) == [do |-> "start", what |-> c]
Stop(c) == [do |-> "stop", what |-> c]
Wait == [do |-> "wait"]
SetCarouselSpeed(v) == [do |-> "setCarouselSpeed", v |-> v]

set_functionGenerator_properties(whichDrive, amplitude, offset) ==
    Set("sine", [whichDrive |-> whichDrive, amplitude |-> amplitude,
                 offset |-> offset])

\* Fault: the generator is left running.
stop_functionGeneratorNot == <<set_functionGenerator_properties(0, 0, 0)>>

stop_functionGenerator ==
    <<Stop("functionGenerator"), set_functionGenerator_properties(0, 0, 0)>>

ramp_with(target) ==
    stop_functionGenerator \o
    <<Set("targetSpeed", target), Start("rampGenerator"), Wait,
      Stop("rampGenerator"), Set("targetSpeed", 0)>>

\* The offset is read before anything else is done, from a report that may be
\* older than the last command.  sin_around_offset is ramp_with followed by this.
sin_around_setpoint(offset) ==
    <<set_functionGenerator_properties(1, Amplitude, offset),
      Start("siemensActuators"), Stop("functionGenerator"),
      Start("functionGenerator")>>

sin_around_current_setpoint == sin_around_setpoint(sample)

\* Fault: the generators are not cut off.
set_carousel_speedOnly(v) == <<SetCarouselSpeed(v)>>

set_carousel_speed(v) == <<Stop("siemensActuators"), SetCarouselSpeed(v)>>

-----------------------------------------------------------------------------
(* The script                                                              *)

\* Nothing is under way.
Quiet == /\ sample = drive /\ current = drive /\ ~due
         /\ \A w \in Writers : chan[w] = {} /\ ~Running(w)

\* The operator calls a function.  To begin a sine while another one runs is to
\* ask for a jump: its offset changes before it is stopped.
Call(instructions, jumps) ==
    /\ todo = <<>>
    /\ todo' = instructions
    /\ smooth' = (~jumps /\ (smooth \/ Quiet))
    /\ UNCHANGED <<task, prop, generatorVars, chan, from, due, senderVars, sample,
                   manual>>

\* The next instruction, which goes from the script when it is done.
Step(instruction) == todo # <<>> /\ Head(todo).do = instruction
Done == todo' = Tail(todo)

SetProperty ==
    /\ Step("set") /\ Done
    /\ prop' = [prop EXCEPT ![Head(todo).what] = Head(todo).v]
    /\ UNCHANGED <<task, generatorVars, chan, from, due, senderVars, sample,
                   historyVars>>

\* Starting a component that runs has no effect.  The actuators are triggered
\* once.
StartComponent ==
    /\ Step("start") /\ Done
    /\ LET c == Head(todo).what
           starts == ~Running(c)
       IN  /\ task' = [task EXCEPT ![c] = "Running"]
           /\ due' = (due \/ (starts /\ c = "siemensActuators"))
           /\ manual' = IF c = "siemensActuators" THEN {} ELSE manual
    /\ UNCHANGED <<prop, generatorVars, chan, from, senderVars, sample, smooth>>

\* A sine begins at its zero when the generator is started again.
StopComponent ==
    /\ Step("stop") /\ Done
    /\ begun' = (begun /\ Head(todo).what # "functionGenerator")
    /\ task' = [task EXCEPT ![Head(todo).what] = "Stopped"]
    /\ due' = (due /\ Head(todo).what # "siemensActuators")
    /\ UNCHANGED <<prop, goal, chan, from, senderVars, sample, historyVars>>

\* The loop of wait_till_ramp_is_done ends with the generator's text.
WaitTillRampIsDone ==
    /\ Step("wait") /\ goal /\ Done
    /\ UNCHANGED <<task, prop, generatorVars, chan, from, due, senderVars, sample,
                   historyVars>>

\* An operation of the actuators, run by their thread in any state.
DoSetCarouselSpeed(outcome) ==
    /\ Step("setCarouselSpeed") /\ Done
    /\ Send(Head(todo).v, outcome)
    /\ manual' = IF outcome = "failed" THEN manual ELSE {Clip(Head(todo).v)}
    /\ smooth' = FALSE
    /\ UNCHANGED <<task, prop, generatorVars, chan, from, due, sample>>

\* setWinchSpeed sends the carousel's current command once more, which is zero
\* before anything has been sent.
setWinchSpeed(outcome) ==
    /\ todo = <<>>
    /\ Send(current, outcome)
    /\ smooth' = (smooth /\ sent)
    /\ UNCHANGED <<task, prop, generatorVars, chan, from, due, sample, todo, manual>>

-----------------------------------------------------------------------------
Next ==
    \/ \E outcome \in Outcomes :
         updateHook(outcome) \/ DoSetCarouselSpeed(outcome) \/ setWinchSpeed(outcome)
    \/ \E s \in -1..1 : FunctionUpdate(s)
    \/ RampUpdate
    \/ Sense
    \/ \E v \in Targets : Call(ramp_with(v), FALSE)
    \/ \E v \in HandSpeeds : Call(set_carousel_speed(v), FALSE)
    \/ Call(sin_around_current_setpoint, Running("functionGenerator"))
    \/ SetProperty \/ StartComponent \/ StopComponent \/ WaitTillRampIsDone

Spec == Init /\ [][Next]_vars

\* Every thread goes on: the generator is periodic, the actuators are triggered,
\* the drive reports its state, and the script runs.
FairSpec ==
    /\ Spec
    /\ WF_vars(RampUpdate)
    /\ WF_vars(\E outcome \in Outcomes : updateHook(outcome))
    /\ WF_vars(Sense)
    /\ WF_vars(SetProperty \/ StartComponent \/ StopComponent \/ WaitTillRampIsDone)

-----------------------------------------------------------------------------
(* Properties                                                              *)

Speeds == -Limit..Limit

TypeOK ==
    /\ task \in [Components -> {"Stopped", "Running"}]
    /\ prop \in [sine : Sines, targetSpeed : Targets \cup {0}]
    /\ begun \in BOOLEAN /\ goal \in BOOLEAN
    /\ chan \in [Writers -> SUBSET Int] /\ from \in Writers
    /\ due \in BOOLEAN
    /\ current \in Speeds /\ drive \in Speeds /\ sample \in Speeds
    /\ faults \in 0..MaxFaults
    /\ manual \subseteq Speeds /\ sent \in BOOLEAN
    /\ smooth \in BOOLEAN

\* What the drive may be told to move by, with one fault at most.
Reach(losses) == IF losses = 0 THEN 2 * Amplitude ELSE 3 * Amplitude

\* "avoid jumps": whichever generator drives, whatever is handed over, and even
\* if the script takes the offset of a sine from an old report, the drive is
\* never told to jump farther than the sine is wide, or after a command lost or
\* not sent its amplitude more.  Generators write when the last sample has been
\* read and reported (PROMPT).  Two calls of the scripts do ask for a jump, and
\* are left out: a sine while another one runs, and an operation of the winch
\* before the carousel has been given a command (README, section 4).
NoJump == [][smooth' => Abs(drive' - drive) <= Reach(faults')]_<<drive, smooth>>

\* A speed set by hand is the last that has been sent until the actuators are
\* started again, although the generators go on.
LastWordHolds == manual \subseteq {current}

\* With running actuators a ramp ends: the script goes on.
Waiting == todo # <<>> /\ Head(todo).do = "wait"
RampEnds == (Waiting /\ Running("siemensActuators")) ~> ~Waiting

-----------------------------------------------------------------------------
(* The inductive invariant behind NoJump, for prompt threads and one fault *)
(* at most (proof in CarouselDrive_proofs).                                *)

Near(x, y, n) == x <= y + n /\ y <= x + n

\* What is left of a function when some of its instructions are done.
RestOf(t, f) == /\ Len(t) \in 1..Len(f)
                /\ \A i \in 1..Len(t) : t[i] = f[Len(f) - Len(t) + i]

\* Who runs where in each of the three functions.
Ramping ==
    \E v \in Targets :
        /\ RestOf(todo, ramp_with(v))
        /\ Running("rampGenerator") => Len(todo) \in {2, 3}
        /\ Running("functionGenerator") => Len(todo) = 7

BeginningSine ==
    /\ \E o \in Speeds : RestOf(todo, sin_around_setpoint(o))
    /\ ~Running("rampGenerator")
    /\ Len(todo) <= 3 => prop.sine.whichDrive = 1 /\ prop.sine.amplitude = Amplitude
    /\ Len(todo) <= 2 => Running("siemensActuators")

SettingByHand ==
    /\ \E v \in HandSpeeds : RestOf(todo, set_carousel_speed(v))
    /\ ~Running("rampGenerator")

ScriptInv ==
    /\ begun => Running("functionGenerator")
    /\ Running("functionGenerator") =>
           prop.sine.whichDrive = 1 /\ prop.sine.amplitude = Amplitude
    /\ \/ todo = <<>> /\ ~Running("rampGenerator")
       \/ Ramping \/ BeginningSine \/ SettingByHand

\* The speed that is about to be set by hand is not smooth anyway.
Doomed == todo # <<>> /\ Head(todo).do = "setCarouselSpeed"

\* A sine is being set up, and the speed that it swings around.
SineBegins == todo # <<>> /\ todo[Len(todo)] = Start("functionGenerator")

SineOffset == IF SineBegins /\ Len(todo) = 4 THEN Head(todo).v.offset
                                             ELSE prop.sine.offset

\* Everything is within the sine.
WithinSine(o) ==
    /\ Near(drive, o, Amplitude)
    /\ sent => Near(current, o, Amplitude)
    /\ \A w \in Writers : \A v \in chan[w] : Near(v, o, Amplitude)

\* The report that gave the offset was old, or a lost command may still come: all
\* is as far away as one command can be, and the sine has not begun to swing.
BeforeSine(o) ==
    /\ Near(drive, o, Reach(faults))
    /\ sent => Near(current, o, Reach(faults))
    /\ \A w \in Writers : \A v \in chan[w] : Near(v, o, Reach(faults))
    /\ begun => chan["functionGenerator"] = {o} /\ chan["rampGenerator"] = {}

\* The zero it began with was the command that did not arrive.
MissedZero(o) ==
    /\ faults # 0
    /\ Near(drive, o, 2 * Amplitude)
    /\ sent => Near(current, o, 2 * Amplitude)
    /\ \A v \in chan["functionGenerator"] : Near(v, o, Amplitude)
    /\ chan["rampGenerator"] = {}

AroundSine(o) == WithinSine(o) \/ BeforeSine(o) \/ MissedZero(o)

\* The remembered command differs from the drive's after a loss only; the report
\* is one command old at most; running actuators that are not triggered have
\* read everything.
SenderInv ==
    /\ sent => /\ Near(current, drive, 2 * Amplitude)
               /\ Near(current, sample, Reach(faults))
               /\ faults = 0 => current = drive
    /\ Near(drive, sample, Reach(faults))
    /\ Running("siemensActuators") /\ ~due => \A w \in Writers : chan[w] = {}
    /\ \E w \in Writers : chan[w] = {}

\* No sample that waits is a jump, from the drive's setpoint, from the one that a
\* winch operation may bring it to, or from the one that a sine may begin at.
WaitingInv ==
    \A w \in Writers : \A v \in chan[w] :
        /\ Near(v, drive, Reach(faults))
        /\ Near(v, sample, Reach(faults))
        /\ sent => Near(v, current, Reach(faults))

\* With stopped actuators nothing moves but the ramp's sample.
StoppedInv ==
    ~Running("siemensActuators") =>
        ~Running("functionGenerator") /\ chan["functionGenerator"] = {}

SineInv ==
    /\ SineBegins => ~Running("functionGenerator")
    /\ SineBegins \/ Running("functionGenerator") => AroundSine(SineOffset)

SmoothInv ==
    smooth /\ ~Doomed => SenderInv /\ WaitingInv /\ StoppedInv /\ SineInv
=============================================================================
