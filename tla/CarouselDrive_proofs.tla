-------------------------- MODULE CarouselDrive_proofs --------------------------
(***************************************************************************)
(* For every speed limit, every set of targets, hand-set speeds and faults *)
(* of the link, prompt threads or not: commands stay within the soft limit *)
(* and a speed set by hand is the last word.  For prompt threads and one   *)
(* fault at most, every amplitude: nothing jumps.                          *)
(***************************************************************************)
EXTENDS CarouselDrive, SequenceTheorems, TLAPS

-----------------------------------------------------------------------------
(* Speeds and instructions.                                                *)

LEMMA Constants ==
  /\ Limit \in Nat /\ Amplitude \in Nat /\ MaxFaults \in Nat
  /\ Targets \subseteq Speeds /\ InitSpeeds \subseteq Speeds /\ HandSpeeds \subseteq Int
  /\ 0 \in Speeds /\ Speeds \subseteq Int
  BY DriveAssumption DEF Speeds

LEMMA ClipType ==
  ASSUME NEW v \in Int
  PROVE  Clip(v) \in Speeds /\ (v \in Speeds => Clip(v) = v)
  BY Constants DEF Clip, Larger, Smaller, Speeds

Harmless ==
  {Set("sine", s) : s \in Sines} \cup {Set("targetSpeed", t) : t \in Targets \cup {0}}
    \cup {Start(c) : c \in Components} \cup {Stop(c) : c \in Components} \cup {Wait}
Instructions == Harmless \cup {SetCarouselSpeed(v) : v \in HandSpeeds}

LEMMA HarmlessFields ==
  ASSUME NEW i \in Harmless
  PROVE  /\ i.do # "setCarouselSpeed"
         /\ i.do = "set" => \/ i.what = "sine" /\ i.v \in Sines
                            \/ i.what = "targetSpeed" /\ i.v \in Targets \cup {0}
         /\ i.do \in {"start", "stop"} => i.what \in Components
<1>1. CASE \E s \in Sines : i = Set("sine", s)
  BY <1>1 DEF Set
<1>2. CASE \E t \in Targets \cup {0} : i = Set("targetSpeed", t)
  BY <1>2 DEF Set
<1>3. CASE \E c \in Components : i = Start(c)
  BY <1>3 DEF Start
<1>4. CASE \E c \in Components : i = Stop(c)
  BY <1>4 DEF Stop
<1>5. CASE i = Wait
  BY <1>5 DEF Wait
<1> QED BY <1>1, <1>2, <1>3, <1>4, <1>5 DEF Harmless

LEMMA InstructionFields ==
  ASSUME NEW i \in Instructions
  PROVE  /\ i.do = "set" => \/ i.what = "sine" /\ i.v \in Sines
                            \/ i.what = "targetSpeed" /\ i.v \in Targets \cup {0}
         /\ i.do \in {"start", "stop"} => i.what \in Components
         /\ i.do = "setCarouselSpeed" => i.v \in HandSpeeds
<1>1. CASE i \in Harmless
  BY <1>1, HarmlessFields
<1>2. CASE \E v \in HandSpeeds : i = SetCarouselSpeed(v)
  BY <1>2 DEF SetCarouselSpeed
<1> QED BY <1>1, <1>2 DEF Instructions

LEMMA SineTypes ==
  /\ NoSine \in Sines
  /\ set_functionGenerator_properties(0, 0, 0) \in Harmless
  /\ \A o \in Speeds : set_functionGenerator_properties(1, Amplitude, o) \in Harmless
<1>1. \A o \in Speeds : [whichDrive |-> 1, amplitude |-> Amplitude, offset |-> o] \in Sines
  BY DEF Sines, Speeds
<1>2. NoSine \in Sines /\ [whichDrive |-> 0, amplitude |-> 0, offset |-> 0] \in Sines
  BY Constants DEF NoSine, Sines, Speeds
<1> QED BY <1>1, <1>2 DEF set_functionGenerator_properties, Harmless

LEMMA HarmlessScripts ==
  /\ \A v \in Targets : ramp_with(v) \in Seq(Harmless)
  /\ sample \in Speeds => sin_around_current_setpoint \in Seq(Harmless)
<1>1. /\ \A c \in Components : Start(c) \in Harmless /\ Stop(c) \in Harmless
      /\ Wait \in Harmless
      /\ \A t \in Targets \cup {0} : Set("targetSpeed", t) \in Harmless
      /\ {"functionGenerator", "rampGenerator", "siemensActuators"} \subseteq Components
  BY DEF Harmless, Components, Writers
<1>2. stop_functionGenerator \in Seq(Harmless)
  BY <1>1, SineTypes DEF stop_functionGenerator
<1>3. ASSUME NEW v \in Targets PROVE ramp_with(v) \in Seq(Harmless)
  <2> DEFINE rest == <<Set("targetSpeed", v), Start("rampGenerator"), Wait,
                       Stop("rampGenerator"), Set("targetSpeed", 0)>>
  <2>1. rest \in Seq(Harmless)
    BY <1>1
  <2>2. ramp_with(v) = stop_functionGenerator \o rest
    BY DEF ramp_with
  <2> HIDE DEF rest
  <2> QED BY <1>2, <2>1, <2>2, ConcatProperties
<1>4. ASSUME sample \in Speeds PROVE sin_around_current_setpoint \in Seq(Harmless)
  <2>1. set_functionGenerator_properties(1, Amplitude, sample) \in Harmless
    BY <1>4, SineTypes
  <2> QED BY <1>1, <2>1 DEF sin_around_current_setpoint, sin_around_setpoint
<1> QED BY <1>3, <1>4

-----------------------------------------------------------------------------
(* The invariant.  By hand a speed is set only while the actuators are     *)
(* stopped, or right behind the instruction that stops them.               *)

ByHand(t) ==
  \A i \in 1..Len(t) : t[i].do = "setCarouselSpeed" =>
    \/ i = 1 /\ ~Running("siemensActuators")
    \/ i = 2 /\ t[1] = Stop("siemensActuators")

IInv ==
  /\ TypeOK
  /\ todo \in Seq(Instructions)
  /\ ByHand(todo)
  /\ manual # {} => ~Running("siemensActuators")
  /\ LastWordHolds

LEMMA SendEffect ==
  ASSUME TypeOK, NEW v \in Int, NEW outcome, Send(v, outcome)
  PROVE  /\ current' \in Speeds /\ drive' \in Speeds
         /\ faults' \in 0..MaxFaults /\ sent' \in BOOLEAN
         /\ current' = IF outcome = "failed" THEN current ELSE Clip(v)
<1>1. Clip(v) \in Speeds /\ faults \in 0..MaxFaults
      /\ current \in Speeds /\ drive \in Speeds
  BY ClipType DEF TypeOK
<1>2. /\ outcome # "delivered" => faults < MaxFaults
      /\ faults' = IF outcome = "delivered" THEN faults ELSE faults + 1
      /\ current' = IF outcome = "failed" THEN current ELSE Clip(v)
      /\ drive' = IF outcome = "delivered" THEN Clip(v) ELSE drive
  BY DEF Send
<1>3. sent' \in BOOLEAN
  <2>1. sent' = (sent \/ outcome # "failed")
    BY Zenon DEF Send
  <2> QED BY <2>1, Zenon
<1>4. faults' \in 0..MaxFaults
  BY <1>1, <1>2, Constants
<1> QED BY <1>1, <1>2, <1>3, <1>4

\* The next instruction is taken from the script.
LEMMA DoneEffect ==
  ASSUME IInv, todo # <<>>, Done
  PROVE  /\ Head(todo) \in Instructions /\ todo' \in Seq(Instructions)
         /\ Head(todo).do # "setCarouselSpeed" \/ ~Running("siemensActuators")
         /\ \A i \in 1..Len(todo') : todo'[i].do = "setCarouselSpeed" =>
              i = 1 /\ Head(todo) = Stop("siemensActuators")
<1>1. todo \in Seq(Instructions) /\ ByHand(todo) /\ todo' = Tail(todo)
  BY DEF IInv, Done
<1>2. Head(todo) \in Instructions /\ Tail(todo) \in Seq(Instructions)
      /\ Head(todo) = todo[1] /\ Len(todo) \in Nat /\ Len(todo) >= 1
      /\ Len(Tail(todo)) = Len(todo) - 1
      /\ \A i \in 1..Len(Tail(todo)) : Tail(todo)[i] = todo[i + 1]
  BY <1>1, HeadTailProperties, LenProperties
<1>3. ASSUME Head(todo).do = "setCarouselSpeed" PROVE ~Running("siemensActuators")
  BY <1>1, <1>2, <1>3 DEF ByHand
<1>4. ASSUME NEW i \in 1..Len(todo'), todo'[i].do = "setCarouselSpeed"
      PROVE  i = 1 /\ Head(todo) = Stop("siemensActuators")
  <2>1. i \in Nat /\ i >= 1 /\ i + 1 \in 1..Len(todo)
        /\ todo[i + 1].do = "setCarouselSpeed"
    BY <1>1, <1>2, <1>4
  <2>2. \/ i + 1 = 1 /\ ~Running("siemensActuators")
        \/ i + 1 = 2 /\ todo[1] = Stop("siemensActuators")
    BY <1>1, <2>1 DEF ByHand
  <2> QED BY <1>2, <2>1, <2>2
<1> QED BY <1>1, <1>2, <1>3, <1>4

LEMMA InitInv == Init => IInv
<1> SUFFICES ASSUME Init PROVE IInv
  OBVIOUS
<1>1. task \in [Components -> {"Stopped", "Running"}]
  BY DEF Init
<1>2. prop \in [sine : Sines, targetSpeed : Targets \cup {0}]
  BY SineTypes DEF Init
<1>3. chan \in [Writers -> SUBSET Int] /\ from \in Writers
  BY DEF Init, Writers
<1>4. begun \in BOOLEAN /\ goal \in BOOLEAN /\ due \in BOOLEAN /\ sent \in BOOLEAN
      /\ smooth \in BOOLEAN
  BY Zenon DEF Init
<1>5. current \in Speeds /\ drive \in Speeds /\ sample \in Speeds
      /\ faults \in 0..MaxFaults /\ manual = {}
  BY Constants DEF Init
<1>6. todo \in Seq(Instructions) /\ ByHand(todo)
  BY DEF Init, ByHand
<1> QED BY <1>1, <1>2, <1>3, <1>4, <1>5, <1>6 DEF IInv, TypeOK, LastWordHolds

-----------------------------------------------------------------------------
(* The steps, by what they leave alone.                                    *)

LEMMA WriteEffect ==
  ASSUME TypeOK, NEW w \in Writers, NEW v \in Int, WritePort(w, v)
  PROVE  chan' \in [Writers -> SUBSET Int] /\ due' \in BOOLEAN
<1>1. chan' = [chan EXCEPT ![w] = {v}] /\ chan \in [Writers -> SUBSET Int]
  BY DEF WritePort, TypeOK
<1>2. due' = Running("siemensActuators")
  BY Zenon DEF WritePort
<1>3. Running("siemensActuators") \in BOOLEAN
  BY Zenon DEF Running
<1>4. due' \in BOOLEAN
  BY <1>2, <1>3, Zenon
<1> QED BY <1>1, <1>4

LEMMA UpdateHookStep ==
  ASSUME IInv, NEW outcome \in Outcomes, updateHook(outcome) PROVE IInv'
<1>1. /\ Running("siemensActuators")
      /\ UNCHANGED <<task, prop, begun, goal, sample, todo, manual, smooth>>
      /\ due' = FALSE
  BY DEF updateHook, generatorVars, historyVars
<1>2. manual = {}
  BY <1>1 DEF IInv
<1>3. /\ chan' \in [Writers -> SUBSET Int] /\ from' \in Writers
      /\ current' \in Speeds /\ drive' \in Speeds
      /\ faults' \in 0..MaxFaults /\ sent' \in BOOLEAN
  <2>1. CASE UNCHANGED <<chan, from, senderVars>>
    BY <2>1 DEF IInv, TypeOK, senderVars
  <2>2. CASE ~UNCHANGED <<chan, from, senderVars>>
    <3>1. PICK w \in ReadFrom : /\ from' = w /\ chan' = [chan EXCEPT ![w] = {}]
                                /\ \E v \in chan[w] : Send(v, outcome)
      BY <2>2, Zenon DEF updateHook
    <3>2. w \in Writers
      BY DEF ReadFrom, IInv, TypeOK
    <3>3. PICK v \in chan[w] : Send(v, outcome)
      BY <3>1
    <3>4. v \in Int
      BY <3>2 DEF IInv, TypeOK
    <3>5. /\ current' \in Speeds /\ drive' \in Speeds
          /\ faults' \in 0..MaxFaults /\ sent' \in BOOLEAN
      BY <3>3, <3>4, SendEffect DEF IInv
    <3> QED BY <3>1, <3>2, <3>5 DEF IInv, TypeOK
  <2> QED BY <2>1, <2>2
<1>4. due' \in BOOLEAN
  BY <1>1
<1>5. TypeOK'
  BY <1>1, <1>3, <1>4 DEF IInv, TypeOK
<1> QED BY <1>1, <1>2, <1>5 DEF IInv, ByHand, Running, LastWordHolds

\* The script, what was set by hand and what was sent stay; the rest is typed.
LEMMA GeneratorStep ==
  ASSUME IInv, UNCHANGED <<task, prop, from, senderVars, todo, historyVars>>,
         begun' \in BOOLEAN, goal' \in BOOLEAN, due' \in BOOLEAN,
         chan' \in [Writers -> SUBSET Int], sample' \in Speeds
  PROVE  IInv'
<1>1. TypeOK'
  BY DEF IInv, TypeOK, senderVars, historyVars
<1> QED BY <1>1 DEF IInv, ByHand, Running, LastWordHolds, senderVars, historyVars

LEMMA FunctionStep ==
  ASSUME IInv, NEW s \in -1..1, FunctionUpdate(s) PROVE IInv'
<1> DEFINE o == prop.sine.offset
           a == prop.sine.amplitude
           v == IF prop.sine.whichDrive = 1 THEN o + a * s ELSE 0
<1>1. prop.sine \in Sines
  BY DEF IInv, TypeOK
<1>2. o \in Int /\ a \in Int
  <2>1. o \in Speeds /\ a \in {0, Amplitude}
    BY <1>1 DEF Sines, Speeds
  <2> HIDE DEF o, a
  <2>2. o \in Int
    BY <2>1, Constants
  <2>3. a \in Int
    BY <2>1, Constants
  <2> QED BY <2>2, <2>3 DEF o, a
<1>3. WritePort("functionGenerator", v) /\ begun' = TRUE /\ goal' = goal
      /\ UNCHANGED <<task, prop, from, senderVars, todo, historyVars, sample>>
  BY DEF FunctionUpdate
<1> HIDE DEF o, a
<1>4. s = -1 \/ s = 0 \/ s = 1
  OBVIOUS
<1>5. a * s \in Int
  BY <1>2, <1>4
<1>6. v \in Int
  BY <1>2, <1>5
<1> HIDE DEF v
<1>7. chan' \in [Writers -> SUBSET Int] /\ due' \in BOOLEAN
  BY <1>3, <1>6, WriteEffect DEF IInv, Writers
<1>8. begun' \in BOOLEAN /\ goal' \in BOOLEAN /\ sample' \in Speeds
  BY <1>3 DEF IInv, TypeOK
<1> QED BY <1>3, <1>7, <1>8, GeneratorStep

LEMMA RampStep == ASSUME IInv, RampUpdate PROVE IInv'
<1> DEFINE t == prop.targetSpeed
           v == IF sample > t THEN Larger(t, sample - 1) ELSE Smaller(t, sample + 1)
<1>1. t \in Int /\ sample \in Int /\ sample \in Speeds
  BY Constants DEF IInv, TypeOK
<1>2. v \in Int
  BY <1>1 DEF Larger, Smaller
<1>3. /\ goal' = (sample = t) /\ WritePort("rampGenerator", v)
      /\ UNCHANGED <<task, prop, begun, from, senderVars, todo, historyVars, sample>>
  BY DEF RampUpdate
<1>4. (sample = t) \in BOOLEAN
  OBVIOUS
<1> HIDE DEF t, v
<1>5. goal' \in BOOLEAN
  BY <1>3, <1>4, Zenon
<1>6. chan' \in [Writers -> SUBSET Int] /\ due' \in BOOLEAN
  BY <1>2, <1>3, WriteEffect DEF IInv, Writers
<1>7. begun' \in BOOLEAN /\ sample' \in Speeds
  BY <1>1, <1>3 DEF IInv, TypeOK
<1> QED BY <1>3, <1>5, <1>6, <1>7, GeneratorStep

LEMMA SenseStep == ASSUME IInv, Sense PROVE IInv'
<1>1. /\ sample' = drive
      /\ UNCHANGED <<task, prop, begun, goal, chan, from, due, senderVars, todo, historyVars>>
  BY DEF Sense, generatorVars
<1> QED BY <1>1, GeneratorStep DEF IInv, TypeOK

\* The operator calls a function.
LEMMA CallStep ==
  ASSUME IInv, NEW instructions \in Seq(Instructions), ByHand(instructions),
         NEW jumps \in BOOLEAN, Call(instructions, jumps)
  PROVE  IInv'
<1>1. /\ todo' = instructions
      /\ UNCHANGED <<task, prop, begun, goal, chan, from, due, current, drive,
                     faults, sent, sample, manual>>
  BY DEF Call, generatorVars, senderVars
<1>2. smooth' = (~jumps /\ (smooth \/ Quiet))
  BY Zenon DEF Call
<1>3. smooth' \in BOOLEAN
  BY <1>2, Zenon
<1>4. TypeOK'
  BY <1>1, <1>3 DEF IInv, TypeOK
<1>5. ByHand(todo)'
  BY <1>1 DEF ByHand, Running
<1> QED BY <1>1, <1>4, <1>5 DEF IInv, ByHand, Running, LastWordHolds

LEMMA CallHarmless ==
  ASSUME IInv, NEW instructions \in Seq(Harmless),
         NEW jumps \in BOOLEAN, Call(instructions, jumps)
  PROVE  IInv'
<1>1. ByHand(instructions)
  <2>1. \A i \in 1..Len(instructions) : instructions[i] \in Harmless
    BY ElementOfSeq
  <2> QED BY <2>1, HarmlessFields DEF ByHand
<1>2. instructions \in Seq(Instructions)
  <2>1. Harmless \subseteq Instructions
    BY DEF Instructions
  <2> QED BY <2>1
<1> QED BY <1>1, <1>2, CallStep

LEMMA CallByHand ==
  ASSUME IInv, NEW v \in HandSpeeds, Call(set_carousel_speed(v), FALSE) PROVE IInv'
<1> DEFINE t == <<Stop("siemensActuators"), SetCarouselSpeed(v)>>
<1>1. Stop("siemensActuators") \in Instructions /\ SetCarouselSpeed(v) \in Instructions
  BY DEF Instructions, Harmless, Components
<1>2. t \in Seq(Instructions)
  BY <1>1
<1>3. Stop("siemensActuators").do # "setCarouselSpeed"
  BY DEF Stop
<1>4. Len(t) = 2 /\ t[1] = Stop("siemensActuators")
  OBVIOUS
<1>5. set_carousel_speed(v) = t
  BY DEF set_carousel_speed
<1> HIDE DEF t
<1>6. ByHand(t)
  BY <1>3, <1>4 DEF ByHand
<1> QED BY <1>2, <1>5, <1>6, CallStep

\* The script goes on: what stays of it is behind the instruction that is done.
LEMMA ScriptStep ==
  ASSUME IInv, todo # <<>>, Done, TypeOK',
         LastWordHolds',
         manual' # {} => ~Running("siemensActuators")',
         Head(todo) = Stop("siemensActuators") => ~Running("siemensActuators")'
  PROVE  IInv'
<1>1. /\ todo' \in Seq(Instructions)
      /\ \A i \in 1..Len(todo') : todo'[i].do = "setCarouselSpeed" =>
           i = 1 /\ Head(todo) = Stop("siemensActuators")
  BY DoneEffect
<1>2. ByHand(todo)'
  BY <1>1 DEF ByHand
<1> QED BY <1>1, <1>2 DEF IInv

LEMMA SetPropertyStep == ASSUME IInv, SetProperty PROVE IInv'
<1>1. /\ todo # <<>> /\ Head(todo).do = "set" /\ Done
      /\ prop' = [prop EXCEPT ![Head(todo).what] = Head(todo).v]
      /\ UNCHANGED <<task, begun, goal, chan, from, due, senderVars, sample, historyVars>>
  BY DEF SetProperty, Step, generatorVars
<1>2. \/ Head(todo).what = "sine" /\ Head(todo).v \in Sines
      \/ Head(todo).what = "targetSpeed" /\ Head(todo).v \in Targets \cup {0}
  <2>1. Head(todo) \in Instructions
    BY <1>1, DoneEffect
  <2> QED BY <1>1, <2>1, InstructionFields
<1>3. prop' \in [sine : Sines, targetSpeed : Targets \cup {0}]
  BY <1>1, <1>2 DEF IInv, TypeOK
<1>4. TypeOK'
  BY <1>1, <1>3 DEF IInv, TypeOK, senderVars, historyVars
<1>5. Head(todo) # Stop("siemensActuators")
  BY <1>1 DEF Stop
<1>6. UNCHANGED <<task, manual, current>>
  BY <1>1 DEF senderVars, historyVars
<1> QED BY <1>1, <1>4, <1>5, <1>6, ScriptStep DEF IInv, Running, LastWordHolds

LEMMA WaitStep == ASSUME IInv, WaitTillRampIsDone PROVE IInv'
<1>1. /\ todo # <<>> /\ Head(todo).do = "wait" /\ Done
      /\ UNCHANGED <<task, prop, begun, goal, chan, from, due, senderVars, sample, historyVars>>
  BY DEF WaitTillRampIsDone, Step, generatorVars
<1>2. TypeOK'
  BY <1>1 DEF IInv, TypeOK, senderVars, historyVars
<1>3. Head(todo) # Stop("siemensActuators")
  BY <1>1 DEF Stop
<1>4. UNCHANGED <<task, manual, current>>
  BY <1>1 DEF senderVars, historyVars
<1> QED BY <1>1, <1>2, <1>3, <1>4, ScriptStep DEF IInv, Running, LastWordHolds

LEMMA StartStep == ASSUME IInv, StartComponent PROVE IInv'
<1> DEFINE c == Head(todo).what
<1>1. /\ todo # <<>> /\ Head(todo).do = "start" /\ Done
      /\ task' = [task EXCEPT ![c] = "Running"]
      /\ manual' = IF c = "siemensActuators" THEN {} ELSE manual
      /\ UNCHANGED <<prop, begun, goal, chan, from, senderVars, sample, smooth>>
  BY DEF StartComponent, Step, generatorVars
<1>2. due' = (due \/ (~Running(c) /\ c = "siemensActuators"))
  BY Zenon DEF StartComponent
<1>3. c \in Components
  <2>1. Head(todo) \in Instructions
    BY <1>1, DoneEffect
  <2> QED BY <1>1, <2>1, InstructionFields
<1>4. due' \in BOOLEAN
  BY <1>2, Zenon
<1>5. Head(todo) # Stop("siemensActuators")
  BY <1>1 DEF Stop
<1> HIDE DEF c
<1>6. TypeOK'
  BY <1>1, <1>3, <1>4 DEF IInv, TypeOK, senderVars
<1>7. manual' # {} => ~Running("siemensActuators")'
  BY <1>1, <1>3 DEF IInv, TypeOK, Running, Components
<1>8. LastWordHolds'
  BY <1>1 DEF IInv, LastWordHolds, senderVars
<1> QED BY <1>1, <1>5, <1>6, <1>7, <1>8, ScriptStep

LEMMA StopStep == ASSUME IInv, StopComponent PROVE IInv'
<1> DEFINE c == Head(todo).what
<1>1. /\ todo # <<>> /\ Head(todo).do = "stop" /\ Done
      /\ task' = [task EXCEPT ![c] = "Stopped"]
      /\ UNCHANGED <<prop, goal, chan, from, senderVars, sample, manual, smooth>>
  BY DEF StopComponent, Step, historyVars
<1>2. /\ begun' = (begun /\ c # "functionGenerator")
      /\ due' = (due /\ c # "siemensActuators")
  BY Zenon DEF StopComponent
<1>3. c \in Components
  <2>1. Head(todo) \in Instructions
    BY <1>1, DoneEffect
  <2> QED BY <1>1, <2>1, InstructionFields
<1>4. due' \in BOOLEAN /\ begun' \in BOOLEAN
  BY <1>2, Zenon
<1>5. Head(todo) = Stop("siemensActuators") => c = "siemensActuators"
  BY DEF Stop
<1> HIDE DEF c
<1>6. TypeOK'
  BY <1>1, <1>3, <1>4 DEF IInv, TypeOK, senderVars
<1>7. /\ manual' # {} => ~Running("siemensActuators")'
      /\ c = "siemensActuators" => ~Running("siemensActuators")'
  BY <1>1, <1>3 DEF IInv, TypeOK, Running, Components
<1>8. LastWordHolds'
  BY <1>1 DEF IInv, LastWordHolds, senderVars
<1> QED BY <1>1, <1>5, <1>6, <1>7, <1>8, ScriptStep

LEMMA SetSpeedStep ==
  ASSUME IInv, NEW outcome \in Outcomes, DoSetCarouselSpeed(outcome) PROVE IInv'
<1> DEFINE v == Head(todo).v
<1>1. /\ todo # <<>> /\ Head(todo).do = "setCarouselSpeed" /\ Done
      /\ Send(v, outcome)
      /\ manual' = IF outcome = "failed" THEN manual ELSE {Clip(v)}
      /\ smooth' = FALSE
      /\ UNCHANGED <<task, prop, begun, goal, chan, from, due, sample>>
  BY DEF DoSetCarouselSpeed, Step, generatorVars
<1>2. Head(todo) \in Instructions /\ ~Running("siemensActuators")
  BY <1>1, DoneEffect
<1>3. v \in Int
  BY <1>1, <1>2, InstructionFields, Constants
<1>4. Head(todo) # Stop("siemensActuators")
  BY <1>1 DEF Stop
<1> HIDE DEF v
<1>5. /\ current' \in Speeds /\ drive' \in Speeds
      /\ faults' \in 0..MaxFaults /\ sent' \in BOOLEAN
      /\ current' = IF outcome = "failed" THEN current ELSE Clip(v)
  BY <1>1, <1>3, SendEffect DEF IInv
<1>6. manual' \subseteq Speeds /\ LastWordHolds'
  BY <1>1, <1>3, <1>5, ClipType DEF IInv, TypeOK, LastWordHolds
<1>7. smooth' \in BOOLEAN
  BY <1>1
<1>8. TypeOK'
  BY <1>1, <1>5, <1>6, <1>7 DEF IInv, TypeOK
<1>9. ~Running("siemensActuators")'
  BY <1>1, <1>2 DEF Running
<1> QED BY <1>1, <1>6, <1>8, <1>9, ScriptStep

\* An operation of the winch resends the carousel's command.
LEMMA SetWinchStep ==
  ASSUME IInv, NEW outcome \in Outcomes, setWinchSpeed(outcome) PROVE IInv'
<1>1. /\ Send(current, outcome) /\ smooth' = (smooth /\ sent)
      /\ UNCHANGED <<task, prop, begun, goal, chan, from, due, sample, todo, manual>>
  BY DEF setWinchSpeed, generatorVars
<1>2. current \in Int /\ current \in Speeds
  BY Constants DEF IInv, TypeOK
<1>3. /\ current' \in Speeds /\ drive' \in Speeds
      /\ faults' \in 0..MaxFaults /\ sent' \in BOOLEAN
      /\ current' = current
  BY <1>1, <1>2, SendEffect, ClipType DEF IInv
<1>4. smooth' \in BOOLEAN
  BY <1>1, Zenon
<1>5. TypeOK'
  BY <1>1, <1>3, <1>4 DEF IInv, TypeOK
<1> QED BY <1>1, <1>3, <1>5 DEF IInv, ByHand, Running, LastWordHolds

LEMMA NextInv == IInv /\ [Next]_vars => IInv'
<1> SUFFICES ASSUME IInv, [Next]_vars PROVE IInv'
  OBVIOUS
<1>1. CASE \E outcome \in Outcomes :
             updateHook(outcome) \/ DoSetCarouselSpeed(outcome) \/ setWinchSpeed(outcome)
  BY <1>1, UpdateHookStep, SetSpeedStep, SetWinchStep
<1>2. CASE \E s \in -1..1 : FunctionUpdate(s)
  BY <1>2, FunctionStep
<1>3. CASE RampUpdate \/ Sense \/ SetProperty \/ StartComponent \/ StopComponent
             \/ WaitTillRampIsDone
  BY <1>3, RampStep, SenseStep, SetPropertyStep, StartStep, StopStep, WaitStep
<1>4. CASE \E v \in Targets : Call(ramp_with(v), FALSE)
  BY <1>4, HarmlessScripts, CallHarmless
<1>5. CASE \E v \in HandSpeeds : Call(set_carousel_speed(v), FALSE)
  BY <1>5, CallByHand
<1>6. CASE Call(sin_around_current_setpoint, Running("functionGenerator"))
  <2>1. sin_around_current_setpoint \in Seq(Harmless)
    BY HarmlessScripts DEF IInv, TypeOK
  <2>2. Running("functionGenerator") \in BOOLEAN
    BY Zenon DEF Running
  <2> QED BY <1>6, <2>1, <2>2, CallHarmless
<1>7. CASE UNCHANGED vars
  BY <1>7 DEF vars, generatorVars, senderVars, historyVars, IInv, TypeOK, ByHand,
              Running, LastWordHolds
<1> QED BY <1>1, <1>2, <1>3, <1>4, <1>5, <1>6, <1>7 DEF Next

-----------------------------------------------------------------------------
(* The theorems.                                                           *)

LEMMA Inductive == Spec => []IInv
  BY InitInv, NextInv, PTL DEF Spec

\* Whatever the generators write, the operator sets or the sensors show, the
\* drive's setpoint and the remembered command stay within carouselSoftSpeedLimit
\* (the clipping of send_reference_speeds in front of every send).
THEOREM WithinSoftLimit == Spec => []TypeOK
<1>1. IInv => TypeOK
  BY DEF IInv
<1> QED BY <1>1, Inductive, PTL

\* A speed set by hand (set_carousel_speed of experiment_helpers.lua, which stops
\* the actuators first) is the last that was sent until they are started again.
THEOREM ByHandIsTheLastWord == Spec => []LastWordHolds
<1>1. IInv => LastWordHolds
  BY DEF IInv
<1> QED BY <1>1, Inductive, PTL
-----------------------------------------------------------------------------
(* No jump.  First what the scripts are, instruction by instruction.       *)

\* Doing the next instruction of a function leaves the rest of it, or nothing.
LEMMA RestShrinks ==
  ASSUME NEW f, Len(f) \in Nat, NEW t \in Seq(Instructions), RestOf(t, f)
  PROVE  /\ t # <<>> /\ Len(t) \in 1..Len(f)
         /\ Head(t) = f[Len(f) - Len(t) + 1]
         /\ t[Len(t)] = f[Len(f)]
         /\ \/ Tail(t) = <<>> /\ Len(t) = 1
            \/ RestOf(Tail(t), f) /\ Len(Tail(t)) = Len(t) - 1
<1> DEFINE n == Len(t)
<1>1. n \in 1..Len(f) /\ \A i \in 1..n : t[i] = f[Len(f) - n + i]
  BY DEF RestOf
<1>2. t # <<>>
  BY <1>1
<1>3. /\ Head(t) = t[1] /\ Tail(t) \in Seq(Instructions) /\ Len(Tail(t)) = n - 1
      /\ \A i \in 1..Len(Tail(t)) : Tail(t)[i] = t[i + 1]
  BY <1>2, HeadTailProperties, LenProperties
<1> HIDE DEF n
<1>4. t[1] = f[Len(f) - n + 1] /\ t[n] = f[Len(f)]
  BY <1>1
<1>5. CASE n = 1
  <2>1. Tail(t) = <<>>
    <3> DEFINE u == Tail(t)
    <3>1. u \in Seq(Instructions) /\ Len(u) = 0
      BY <1>3, <1>5
    <3> HIDE DEF u
    <3>2. u = <<>>
      BY <3>1, EmptySeq
    <3> QED BY <3>2 DEF u
  <2> QED BY <1>1, <1>2, <1>3, <1>4, <1>5, <2>1 DEF n
<1>6. CASE n # 1
  <2>1. Len(Tail(t)) \in 1..Len(f)
    BY <1>1, <1>3, <1>6
  <2>2. ASSUME NEW i \in 1..Len(Tail(t)) PROVE Tail(t)[i] = f[Len(f) - Len(Tail(t)) + i]
    <3>1. i + 1 \in 1..n /\ Tail(t)[i] = t[i + 1]
      BY <1>1, <1>3, <1>6
    <3>2. t[i + 1] = f[Len(f) - n + (i + 1)]
      BY <1>1, <3>1
    <3>3. Len(f) - n + (i + 1) = Len(f) - Len(Tail(t)) + i
      BY <1>1, <1>3
    <3> QED BY <3>1, <3>2, <3>3
  <2>3. RestOf(Tail(t), f)
    BY <2>1, <2>2 DEF RestOf
  <2> QED BY <1>1, <1>2, <1>3, <1>4, <2>3 DEF n
<1> QED BY <1>5, <1>6

LEMMA RampElements ==
  ASSUME NEW v \in Targets
  PROVE  /\ Len(ramp_with(v)) = 7
         /\ ramp_with(v)[1] = Stop("functionGenerator")
         /\ ramp_with(v)[2] = set_functionGenerator_properties(0, 0, 0)
         /\ ramp_with(v)[3] = Set("targetSpeed", v)
         /\ ramp_with(v)[4] = Start("rampGenerator")
         /\ ramp_with(v)[5] = Wait
         /\ ramp_with(v)[6] = Stop("rampGenerator")
         /\ ramp_with(v)[7] = Set("targetSpeed", 0)
<1> DEFINE a == <<Stop("functionGenerator"), set_functionGenerator_properties(0, 0, 0)>>
           b == <<Set("targetSpeed", v), Start("rampGenerator"), Wait,
                  Stop("rampGenerator"), Set("targetSpeed", 0)>>
<1>1. ramp_with(v) = a \o b
  BY DEF ramp_with, stop_functionGenerator
<1>2. /\ Len(a) = 2 /\ a[1] = Stop("functionGenerator")
      /\ a[2] = set_functionGenerator_properties(0, 0, 0)
      /\ Len(b) = 5 /\ b[1] = Set("targetSpeed", v) /\ b[2] = Start("rampGenerator")
      /\ b[3] = Wait /\ b[4] = Stop("rampGenerator") /\ b[5] = Set("targetSpeed", 0)
  OBVIOUS
<1>3. a \in Seq(Instructions) /\ b \in Seq(Instructions)
  <2>1. /\ \A c \in Components : Start(c) \in Instructions /\ Stop(c) \in Instructions
        /\ Wait \in Instructions
        /\ \A t \in Targets \cup {0} : Set("targetSpeed", t) \in Instructions
        /\ {"functionGenerator", "rampGenerator"} \subseteq Components
    BY DEF Instructions, Harmless, Components, Writers
  <2>2. set_functionGenerator_properties(0, 0, 0) \in Instructions
    BY SineTypes DEF Instructions
  <2> QED BY <2>1, <2>2
<1> HIDE DEF a, b
<1>4. /\ Len(a \o b) = Len(a) + Len(b)
      /\ \A i \in 1..Len(a) + Len(b) :
           (a \o b)[i] = IF i <= Len(a) THEN a[i] ELSE b[i - Len(a)]
  BY <1>3, ConcatProperties
<1> QED BY <1>1, <1>2, <1>4

\* What is left of a ramp, by its length.
LEMMA RampScript ==
  ASSUME NEW t \in Seq(Instructions), NEW v \in Targets, RestOf(t, ramp_with(v))
  PROVE  /\ t # <<>> /\ Len(t) \in 1..7
         /\ t[Len(t)] = Set("targetSpeed", 0)
         /\ Len(t) = 7 => Head(t) = Stop("functionGenerator")
         /\ Len(t) = 6 => Head(t) = set_functionGenerator_properties(0, 0, 0)
         /\ Len(t) = 5 => Head(t) = Set("targetSpeed", v)
         /\ Len(t) = 4 => Head(t) = Start("rampGenerator")
         /\ Len(t) = 3 => Head(t) = Wait
         /\ Len(t) = 2 => Head(t) = Stop("rampGenerator")
         /\ Len(t) = 1 => Head(t) = Set("targetSpeed", 0)
         /\ \/ Tail(t) = <<>> /\ Len(t) = 1
            \/ RestOf(Tail(t), ramp_with(v)) /\ Len(Tail(t)) = Len(t) - 1
<1> DEFINE f == ramp_with(v)
           n == Len(t)
<1>1. /\ Len(f) = 7 /\ f[1] = Stop("functionGenerator")
      /\ f[2] = set_functionGenerator_properties(0, 0, 0)
      /\ f[3] = Set("targetSpeed", v) /\ f[4] = Start("rampGenerator")
      /\ f[5] = Wait /\ f[6] = Stop("rampGenerator") /\ f[7] = Set("targetSpeed", 0)
  BY RampElements
<1>2. RestOf(t, f)
  OBVIOUS
<1> HIDE DEF f
<1>3. /\ t # <<>> /\ Len(t) \in 1..Len(f)
      /\ Head(t) = f[Len(f) - Len(t) + 1] /\ t[Len(t)] = f[Len(f)]
      /\ \/ Tail(t) = <<>> /\ Len(t) = 1
         \/ RestOf(Tail(t), f) /\ Len(Tail(t)) = Len(t) - 1
  <2>1. Len(f) \in Nat
    BY <1>1
  <2> HIDE DEF n
  <2> QED BY <1>2, <2>1, RestShrinks
<1>4. /\ n \in 1..7 /\ Head(t) = f[7 - n + 1] /\ t[n] = f[7]
  BY <1>1, <1>3
<1> HIDE DEF n
<1>5. /\ n = 7 => Head(t) = f[1]
      /\ n = 6 => Head(t) = f[2]
      /\ n = 5 => Head(t) = f[3]
      /\ n = 4 => Head(t) = f[4]
      /\ n = 3 => Head(t) = f[5]
      /\ n = 2 => Head(t) = f[6]
      /\ n = 1 => Head(t) = f[7]
  BY <1>4
<1> QED BY <1>1, <1>3, <1>4, <1>5 DEF n, f

\* What is left of the beginning of a sine.
LEMMA SineScript ==
  ASSUME NEW t \in Seq(Instructions), NEW o \in Speeds, RestOf(t, sin_around_setpoint(o))
  PROVE  /\ t # <<>> /\ Len(t) \in 1..4
         /\ t[Len(t)] = Start("functionGenerator")
         /\ Len(t) = 4 => Head(t) = set_functionGenerator_properties(1, Amplitude, o)
         /\ Len(t) = 3 => Head(t) = Start("siemensActuators")
         /\ Len(t) = 2 => Head(t) = Stop("functionGenerator")
         /\ Len(t) = 1 => Head(t) = Start("functionGenerator")
         /\ \/ Tail(t) = <<>> /\ Len(t) = 1
            \/ RestOf(Tail(t), sin_around_setpoint(o)) /\ Len(Tail(t)) = Len(t) - 1
<1> DEFINE f == sin_around_setpoint(o)
           n == Len(t)
<1>1. /\ Len(f) = 4 /\ f[1] = set_functionGenerator_properties(1, Amplitude, o)
      /\ f[2] = Start("siemensActuators") /\ f[3] = Stop("functionGenerator")
      /\ f[4] = Start("functionGenerator")
  BY DEF sin_around_setpoint
<1>2. RestOf(t, f)
  OBVIOUS
<1> HIDE DEF f
<1>3. /\ t # <<>> /\ Len(t) \in 1..Len(f)
      /\ Head(t) = f[Len(f) - Len(t) + 1] /\ t[Len(t)] = f[Len(f)]
      /\ \/ Tail(t) = <<>> /\ Len(t) = 1
         \/ RestOf(Tail(t), f) /\ Len(Tail(t)) = Len(t) - 1
  <2>1. Len(f) \in Nat
    BY <1>1
  <2> HIDE DEF n
  <2> QED BY <1>2, <2>1, RestShrinks
<1>4. /\ n \in 1..4 /\ Head(t) = f[4 - n + 1] /\ t[n] = f[4]
  BY <1>1, <1>3
<1> HIDE DEF n
<1>5. /\ n = 4 => Head(t) = f[1]
      /\ n = 3 => Head(t) = f[2]
      /\ n = 2 => Head(t) = f[3]
      /\ n = 1 => Head(t) = f[4]
  BY <1>4
<1> QED BY <1>1, <1>3, <1>4, <1>5 DEF n, f

\* What is left of a speed set by hand.
LEMMA HandScript ==
  ASSUME NEW t \in Seq(Instructions), NEW v \in HandSpeeds, RestOf(t, set_carousel_speed(v))
  PROVE  /\ t # <<>> /\ Len(t) \in 1..2
         /\ t[Len(t)] = SetCarouselSpeed(v)
         /\ Len(t) = 2 => Head(t) = Stop("siemensActuators")
         /\ Len(t) = 1 => Head(t) = SetCarouselSpeed(v)
         /\ \/ Tail(t) = <<>> /\ Len(t) = 1
            \/ RestOf(Tail(t), set_carousel_speed(v)) /\ Len(Tail(t)) = Len(t) - 1
<1> DEFINE f == set_carousel_speed(v)
           n == Len(t)
<1>1. /\ Len(f) = 2 /\ f[1] = Stop("siemensActuators") /\ f[2] = SetCarouselSpeed(v)
  BY DEF set_carousel_speed
<1>2. RestOf(t, f)
  OBVIOUS
<1> HIDE DEF f
<1>3. /\ t # <<>> /\ Len(t) \in 1..Len(f)
      /\ Head(t) = f[Len(f) - Len(t) + 1] /\ t[Len(t)] = f[Len(f)]
      /\ \/ Tail(t) = <<>> /\ Len(t) = 1
         \/ RestOf(Tail(t), f) /\ Len(Tail(t)) = Len(t) - 1
  <2>1. Len(f) \in Nat
    BY <1>1
  <2> HIDE DEF n
  <2> QED BY <1>2, <2>1, RestShrinks
<1>4. /\ n \in 1..2 /\ Head(t) = f[2 - n + 1] /\ t[n] = f[2]
  BY <1>1, <1>3
<1> HIDE DEF n
<1>5. (n = 2 => Head(t) = f[1]) /\ (n = 1 => Head(t) = f[2])
  BY <1>4
<1> QED BY <1>1, <1>3, <1>4, <1>5 DEF n, f

\* A whole function is the rest of itself.
LEMMA WholeScript ==
  ASSUME NEW f, Len(f) \in Nat \ {0}
  PROVE  RestOf(f, f)
BY DEF RestOf

-----------------------------------------------------------------------------
(* Who runs where in the scripts.                                          *)

LEMMA Kinds ==
  /\ \A c : /\ Start(c).do = "start" /\ Start(c).what = c
            /\ Stop(c).do = "stop" /\ Stop(c).what = c
  /\ \A p, v : Set(p, v).do = "set" /\ Set(p, v).what = p /\ Set(p, v).v = v
  /\ Wait.do = "wait"
  /\ \A v : SetCarouselSpeed(v).do = "setCarouselSpeed"
  /\ \A d, a, o : LET i == set_functionGenerator_properties(d, a, o)
                  IN  /\ i.do = "set" /\ i.what = "sine"
                      /\ i.v = [whichDrive |-> d, amplitude |-> a, offset |-> o]
BY DEF Start, Stop, Set, Wait, SetCarouselSpeed, set_functionGenerator_properties

\* What a ramp's next instruction is, and what stays.
LEMMA RampingKinds ==
  ASSUME todo \in Seq(Instructions), Ramping
  PROVE  /\ todo # <<>> /\ ~SineBegins /\ ~Doomed
         /\ \E v \in Targets :
              /\ \/ Head(todo) = Stop("functionGenerator") /\ Len(todo) = 7
                 \/ Head(todo).do = "set" /\ Len(todo) \in {6, 5, 1}
                 \/ Head(todo) = Start("rampGenerator") /\ Len(todo) = 4
                 \/ Head(todo) = Wait /\ Len(todo) = 3
                 \/ Head(todo) = Stop("rampGenerator") /\ Len(todo) = 2
              /\ Running("rampGenerator") => Len(todo) \in {2, 3}
              /\ Running("functionGenerator") => Len(todo) = 7
              /\ \/ Tail(todo) = <<>> /\ Len(todo) = 1
                 \/ RestOf(Tail(todo), ramp_with(v)) /\ Len(Tail(todo)) = Len(todo) - 1
<1>1. PICK v \in Targets : /\ RestOf(todo, ramp_with(v))
                           /\ Running("rampGenerator") => Len(todo) \in {2, 3}
                           /\ Running("functionGenerator") => Len(todo) = 7
  BY DEF Ramping
<1> DEFINE n == Len(todo)
<1>2. /\ todo # <<>> /\ n \in 1..7
      /\ todo[n] = Set("targetSpeed", 0)
      /\ n = 7 => Head(todo) = Stop("functionGenerator")
      /\ n = 6 => Head(todo) = set_functionGenerator_properties(0, 0, 0)
      /\ n = 5 => Head(todo) = Set("targetSpeed", v)
      /\ n = 4 => Head(todo) = Start("rampGenerator")
      /\ n = 3 => Head(todo) = Wait
      /\ n = 2 => Head(todo) = Stop("rampGenerator")
      /\ n = 1 => Head(todo) = Set("targetSpeed", 0)
      /\ \/ Tail(todo) = <<>> /\ n = 1
         \/ RestOf(Tail(todo), ramp_with(v)) /\ Len(Tail(todo)) = n - 1
  BY <1>1, RampScript
<1>3. todo[n] # Start("functionGenerator")
  BY <1>2, Kinds
<1> HIDE DEF n
<1>4. \/ Head(todo) = Stop("functionGenerator") /\ n = 7
      \/ Head(todo).do = "set" /\ n \in {6, 5, 1}
      \/ Head(todo) = Start("rampGenerator") /\ n = 4
      \/ Head(todo) = Wait /\ n = 3
      \/ Head(todo) = Stop("rampGenerator") /\ n = 2
  BY <1>2, Kinds
<1>5. Head(todo).do # "setCarouselSpeed"
  BY <1>4, Kinds
<1> QED BY <1>1, <1>2, <1>3, <1>4, <1>5 DEF n, SineBegins, Doomed

\* What the next instruction is when a sine begins, and what stays.
LEMMA SineKinds ==
  ASSUME todo \in Seq(Instructions), BeginningSine
  PROVE  /\ todo # <<>> /\ SineBegins /\ ~Doomed /\ Len(todo) \in 1..4
         /\ \E o \in Speeds :
              /\ \/ /\ Head(todo) = set_functionGenerator_properties(1, Amplitude, o)
                    /\ Len(todo) = 4
                 \/ Head(todo) = Start("siemensActuators") /\ Len(todo) = 3
                 \/ Head(todo) = Stop("functionGenerator") /\ Len(todo) = 2
                 \/ Head(todo) = Start("functionGenerator") /\ Len(todo) = 1
              /\ \/ Tail(todo) = <<>> /\ Len(todo) = 1
                 \/ /\ RestOf(Tail(todo), sin_around_setpoint(o))
                    /\ Len(Tail(todo)) = Len(todo) - 1
<1>1. PICK o \in Speeds : RestOf(todo, sin_around_setpoint(o))
  BY DEF BeginningSine
<1> DEFINE n == Len(todo)
<1>2. /\ todo # <<>> /\ n \in 1..4
      /\ todo[n] = Start("functionGenerator")
      /\ n = 4 => Head(todo) = set_functionGenerator_properties(1, Amplitude, o)
      /\ n = 3 => Head(todo) = Start("siemensActuators")
      /\ n = 2 => Head(todo) = Stop("functionGenerator")
      /\ n = 1 => Head(todo) = Start("functionGenerator")
      /\ \/ Tail(todo) = <<>> /\ n = 1
         \/ RestOf(Tail(todo), sin_around_setpoint(o)) /\ Len(Tail(todo)) = n - 1
  BY <1>1, SineScript
<1>3. SineBegins
  BY <1>2 DEF SineBegins
<1> HIDE DEF n
<1>4. \/ Head(todo) = set_functionGenerator_properties(1, Amplitude, o) /\ n = 4
      \/ Head(todo) = Start("siemensActuators") /\ n = 3
      \/ Head(todo) = Stop("functionGenerator") /\ n = 2
      \/ Head(todo) = Start("functionGenerator") /\ n = 1
  BY <1>2
<1>5. Head(todo).do # "setCarouselSpeed"
  BY <1>4, Kinds
<1> QED BY <1>2, <1>3, <1>4, <1>5 DEF n, Doomed

\* The actuators are stopped first, and the speed that is set is the last word.
LEMMA HandKinds ==
  ASSUME todo \in Seq(Instructions), SettingByHand
  PROVE  /\ todo # <<>> /\ ~SineBegins
         /\ \E v \in HandSpeeds :
              \/ /\ Head(todo) = Stop("siemensActuators")
                 /\ RestOf(Tail(todo), set_carousel_speed(v))
                 /\ Tail(todo) # <<>> /\ Head(Tail(todo)).do = "setCarouselSpeed"
              \/ Head(todo) = SetCarouselSpeed(v) /\ Doomed /\ Tail(todo) = <<>>
<1>1. PICK v \in HandSpeeds : RestOf(todo, set_carousel_speed(v))
  BY DEF SettingByHand
<1> DEFINE n == Len(todo)
           t == Tail(todo)
<1>2. /\ todo # <<>> /\ n \in 1..2
      /\ todo[n] = SetCarouselSpeed(v)
      /\ n = 2 => Head(todo) = Stop("siemensActuators")
      /\ n = 1 => Head(todo) = SetCarouselSpeed(v)
      /\ \/ t = <<>> /\ n = 1
         \/ RestOf(t, set_carousel_speed(v)) /\ Len(t) = n - 1
  BY <1>1, HandScript
<1>3. t \in Seq(Instructions)
  BY <1>2, HeadTailProperties
<1>4. todo[n] # Start("functionGenerator")
  BY <1>2, Kinds
<1>5. ~SineBegins
  BY <1>4 DEF SineBegins
<1> HIDE DEF n, t
<1>6. CASE n = 1
  <2>1. Head(todo) = SetCarouselSpeed(v) /\ t = <<>>
    <3>1. ~RestOf(t, set_carousel_speed(v)) \/ Len(t) # 0
      BY DEF RestOf
    <3> QED BY <1>2, <1>6, <3>1
  <2> QED BY <1>2, <1>5, <2>1, Kinds DEF t, Doomed
<1>7. CASE n = 2
  <2>1. Head(todo) = Stop("siemensActuators") /\ RestOf(t, set_carousel_speed(v)) /\ Len(t) = 1
    BY <1>2, <1>7
  <2>2. t # <<>> /\ Head(t) = SetCarouselSpeed(v)
    BY <1>3, <2>1, HandScript
  <2> QED BY <1>2, <1>5, <2>1, <2>2, Kinds DEF t
<1> QED BY <1>2, <1>6, <1>7

\* The threads leave the scripts alone.
LEMMA ScriptKept ==
  ASSUME ScriptInv, UNCHANGED <<task, prop, todo>>,
         begun' => Running("functionGenerator")
  PROVE  ScriptInv'
BY DEF ScriptInv, Ramping, BeginningSine, SettingByHand, Running

LEMMA ScriptCall ==
  ASSUME TypeOK, ScriptInv, NEW instructions, NEW jumps, Call(instructions, jumps),
         \/ \E v \in Targets : instructions = ramp_with(v)
         \/ \E o \in Speeds : instructions = sin_around_setpoint(o)
         \/ \E v \in HandSpeeds : instructions = set_carousel_speed(v)
  PROVE  ScriptInv'
<1>1. /\ todo = <<>> /\ todo' = instructions
      /\ UNCHANGED <<task, prop, begun>>
  BY DEF Call, generatorVars
<1>2. ~Running("rampGenerator")
  BY <1>1, RampingKinds, SineKinds, HandKinds DEF ScriptInv
<1>3. /\ begun' => Running("functionGenerator")'
      /\ Running("functionGenerator")' =>
           (prop.sine.whichDrive = 1 /\ prop.sine.amplitude = Amplitude)'
      /\ ~Running("rampGenerator")'
  BY <1>1, <1>2 DEF ScriptInv, Running
<1>4. CASE \E v \in Targets : instructions = ramp_with(v)
  <2>1. PICK v \in Targets : instructions = ramp_with(v)
    BY <1>4
  <2>2. Len(todo') = 7 /\ RestOf(todo', ramp_with(v))
    BY <1>1, <2>1, RampElements, WholeScript
  <2>3. Ramping'
    BY <1>3, <2>2 DEF Ramping
  <2> QED BY <1>3, <2>3 DEF ScriptInv
<1>5. CASE \E o \in Speeds : instructions = sin_around_setpoint(o)
  <2>1. PICK o \in Speeds : instructions = sin_around_setpoint(o)
    BY <1>5
  <2>2. Len(sin_around_setpoint(o)) = 4
    BY DEF sin_around_setpoint
  <2>3. RestOf(sin_around_setpoint(o), sin_around_setpoint(o))
    <3> DEFINE f == sin_around_setpoint(o)
    <3>1. Len(f) \in Nat \ {0}
      BY <2>2
    <3> HIDE DEF f
    <3> QED BY <3>1, WholeScript DEF f
  <2>4. Len(todo') = 4 /\ RestOf(todo', sin_around_setpoint(o))
    BY <1>1, <2>1, <2>2, <2>3
  <2>5. BeginningSine'
    BY <1>3, <2>4 DEF BeginningSine
  <2> QED BY <1>3, <2>5 DEF ScriptInv
<1>6. CASE \E v \in HandSpeeds : instructions = set_carousel_speed(v)
  <2>1. PICK v \in HandSpeeds : instructions = set_carousel_speed(v)
    BY <1>6
  <2>2. Len(set_carousel_speed(v)) = 2
    BY DEF set_carousel_speed
  <2>3. RestOf(todo', set_carousel_speed(v))
    BY <1>1, <2>1, <2>2, WholeScript
  <2>4. SettingByHand'
    BY <1>3, <2>3 DEF SettingByHand
  <2> QED BY <1>3, <2>4 DEF ScriptInv
<1> QED BY <1>4, <1>5, <1>6

\* An instruction of a ramp, a sine or a speed set by hand is done.
LEMMA RampGoesOn ==
  ASSUME NEW v \in Targets, Done,
         \/ Tail(todo) = <<>> /\ Len(todo) = 1
         \/ RestOf(Tail(todo), ramp_with(v)) /\ Len(Tail(todo)) = Len(todo) - 1,
         begun' => Running("functionGenerator")',
         ~Running("functionGenerator")',
         Running("rampGenerator")' => Len(todo) \in {3, 4}
  PROVE  ScriptInv'
<1>1. todo' = Tail(todo)
  BY DEF Done
<1>2. CASE Tail(todo) = <<>> /\ Len(todo) = 1
  BY <1>1, <1>2 DEF ScriptInv
<1>3. CASE RestOf(Tail(todo), ramp_with(v)) /\ Len(Tail(todo)) = Len(todo) - 1
  <2>1. RestOf(todo', ramp_with(v)) /\ (Len(todo) \in {3, 4} => Len(todo') \in {2, 3})
    BY <1>1, <1>3
  <2>2. Ramping'
    BY <2>1 DEF Ramping
  <2> QED BY <2>2 DEF ScriptInv
<1> QED BY <1>2, <1>3

LEMMA SineGoesOn ==
  ASSUME NEW o \in Speeds, Done, Len(todo) \in 1..4,
         \/ Tail(todo) = <<>> /\ Len(todo) = 1
         \/ RestOf(Tail(todo), sin_around_setpoint(o)) /\ Len(Tail(todo)) = Len(todo) - 1,
         begun' => Running("functionGenerator")',
         ~Running("rampGenerator")',
         (prop.sine.whichDrive = 1 /\ prop.sine.amplitude = Amplitude)',
         Len(todo) <= 3 => Running("siemensActuators")'
  PROVE  ScriptInv'
<1>1. todo' = Tail(todo)
  BY DEF Done
<1>2. CASE Tail(todo) = <<>> /\ Len(todo) = 1
  BY <1>1, <1>2 DEF ScriptInv
<1>3. CASE RestOf(Tail(todo), sin_around_setpoint(o)) /\ Len(Tail(todo)) = Len(todo) - 1
  <2>1. RestOf(todo', sin_around_setpoint(o)) /\ (Len(todo') <= 2 => Len(todo) <= 3)
    BY <1>1, <1>3
  <2>2. BeginningSine'
    BY <2>1 DEF BeginningSine
  <2> QED BY <2>2 DEF ScriptInv
<1> QED BY <1>2, <1>3

LEMMA ScriptSet == ASSUME IInv, ScriptInv, SetProperty PROVE ScriptInv'
<1>1. /\ todo # <<>> /\ Head(todo).do = "set" /\ Done
      /\ prop' = [prop EXCEPT ![Head(todo).what] = Head(todo).v]
      /\ UNCHANGED <<task, begun>>
  BY DEF SetProperty, Step, generatorVars
<1>2. todo \in Seq(Instructions) /\ prop \in [sine : Sines, targetSpeed : Targets \cup {0}]
  BY DEF IInv, TypeOK
<1>3. /\ \A c : Running(c)' = Running(c)
      /\ begun' => Running("functionGenerator")'
  BY <1>1 DEF Running, ScriptInv
<1>4. CASE Ramping
  <2>1. PICK v \in Targets :
              /\ Len(todo) \in {6, 5, 1}
              /\ Running("rampGenerator") => Len(todo) \in {2, 3}
              /\ Running("functionGenerator") => Len(todo) = 7
              /\ \/ Tail(todo) = <<>> /\ Len(todo) = 1
                 \/ RestOf(Tail(todo), ramp_with(v)) /\ Len(Tail(todo)) = Len(todo) - 1
    BY <1>1, <1>2, <1>4, RampingKinds, Kinds
  <2>2. Len(todo) \notin {2, 3} /\ Len(todo) # 7
    <3> DEFINE n == Len(todo)
    <3>1. n = 6 \/ n = 5 \/ n = 1
      BY <2>1
    <3> HIDE DEF n
    <3>2. n \notin {2, 3} /\ n # 7
      BY <3>1
    <3> QED BY <3>2 DEF n
  <2>3. ~Running("rampGenerator")' /\ ~Running("functionGenerator")'
    BY <1>3, <2>1, <2>2, Zenon
  <2> QED BY <1>1, <1>3, <2>1, <2>3, RampGoesOn
<1>5. CASE BeginningSine
  <2>1. PICK o \in Speeds :
              /\ Head(todo) = set_functionGenerator_properties(1, Amplitude, o)
              /\ Len(todo) = 4
              /\ \/ Tail(todo) = <<>> /\ Len(todo) = 1
                 \/ /\ RestOf(Tail(todo), sin_around_setpoint(o))
                    /\ Len(Tail(todo)) = Len(todo) - 1
    BY <1>1, <1>2, <1>5, SineKinds, Kinds
  <2>2. prop'.sine = [whichDrive |-> 1, amplitude |-> Amplitude, offset |-> o]
    BY <1>1, <1>2, <2>1, Kinds
  <2>3. ~Running("rampGenerator")'
    BY <1>3, <1>5 DEF BeginningSine
  <2>4. Len(todo) \in 1..4 /\ ~(Len(todo) <= 3)
    BY <2>1
  <2>5. (prop.sine.whichDrive = 1 /\ prop.sine.amplitude = Amplitude)'
    BY <2>2
  <2> QED BY <1>1, <1>3, <2>1, <2>3, <2>4, <2>5, SineGoesOn
<1>6. CASE SettingByHand
  BY <1>1, <1>2, <1>6, HandKinds, Kinds
<1> QED BY <1>1, <1>4, <1>5, <1>6 DEF ScriptInv

LEMMA ScriptWait == ASSUME IInv, ScriptInv, WaitTillRampIsDone PROVE ScriptInv'
<1>1. /\ todo # <<>> /\ Head(todo).do = "wait" /\ Done
      /\ UNCHANGED <<task, prop, begun>>
  BY DEF WaitTillRampIsDone, Step, generatorVars
<1>2. todo \in Seq(Instructions)
  BY DEF IInv
<1>3. /\ \A c : Running(c)' = Running(c)
      /\ begun' => Running("functionGenerator")'
  BY <1>1 DEF Running, ScriptInv
<1>4. CASE Ramping
  <2>1. PICK v \in Targets :
              /\ Len(todo) = 3
              /\ Running("functionGenerator") => Len(todo) = 7
              /\ \/ Tail(todo) = <<>> /\ Len(todo) = 1
                 \/ RestOf(Tail(todo), ramp_with(v)) /\ Len(Tail(todo)) = Len(todo) - 1
    BY <1>1, <1>2, <1>4, RampingKinds, Kinds
  <2>2. ~Running("functionGenerator")' /\ Len(todo) \in {3, 4}
    BY <1>3, <2>1
  <2> QED BY <1>1, <1>3, <2>1, <2>2, RampGoesOn
<1>5. CASE BeginningSine
  BY <1>1, <1>2, <1>5, SineKinds, Kinds
<1>6. CASE SettingByHand
  BY <1>1, <1>2, <1>6, HandKinds, Kinds
<1> QED BY <1>1, <1>4, <1>5, <1>6 DEF ScriptInv

LEMMA ScriptStart == ASSUME IInv, ScriptInv, StartComponent PROVE ScriptInv'
<1>1. /\ todo # <<>> /\ Head(todo).do = "start" /\ Done
      /\ task' = [task EXCEPT ![Head(todo).what] = "Running"]
      /\ UNCHANGED <<prop, begun>>
  BY DEF StartComponent, Step, generatorVars
<1>2. /\ todo \in Seq(Instructions) /\ task \in [Components -> {"Stopped", "Running"}]
      /\ Components = {"functionGenerator", "rampGenerator", "siemensActuators"}
  BY DEF IInv, TypeOK, Components, Writers
<1>3. CASE Ramping
  <2>1. PICK v \in Targets :
              /\ Len(todo) = 4 /\ Head(todo) = Start("rampGenerator")
              /\ Running("functionGenerator") => Len(todo) = 7
              /\ \/ Tail(todo) = <<>> /\ Len(todo) = 1
                 \/ RestOf(Tail(todo), ramp_with(v)) /\ Len(Tail(todo)) = Len(todo) - 1
    BY <1>1, <1>2, <1>3, RampingKinds, Kinds
  <2>2. task' = [task EXCEPT !["rampGenerator"] = "Running"]
    <3>1. Head(todo).what = "rampGenerator"
      BY <2>1, Kinds
    <3> QED BY <1>1, <3>1
  <2>3. ~Running("functionGenerator")' /\ ~begun' /\ Len(todo) \in {3, 4}
    BY <1>1, <1>2, <2>1, <2>2 DEF Running, ScriptInv
  <2> QED BY <1>1, <2>1, <2>3, RampGoesOn
<1>4. CASE BeginningSine
  <2>1. PICK o \in Speeds :
              /\ \/ Head(todo) = Start("siemensActuators") /\ Len(todo) = 3
                 \/ Head(todo) = Start("functionGenerator") /\ Len(todo) = 1
              /\ \/ Tail(todo) = <<>> /\ Len(todo) = 1
                 \/ /\ RestOf(Tail(todo), sin_around_setpoint(o))
                    /\ Len(Tail(todo)) = Len(todo) - 1
    BY <1>1, <1>2, <1>4, SineKinds, Kinds
  <2>2. /\ Len(todo) \in 1..4 /\ Len(todo) <= 3
        /\ Len(todo) = 3 \/ Len(todo) <= 2
    <3> DEFINE n == Len(todo)
    <3>1. n = 3 \/ n = 1
      BY <2>1
    <3> HIDE DEF n
    <3>2. n \in 1..4 /\ n <= 3 /\ (n = 3 \/ n <= 2)
      BY <3>1
    <3> QED BY <3>2 DEF n
  <2>3. (prop.sine.whichDrive = 1 /\ prop.sine.amplitude = Amplitude)'
    BY <1>1, <1>4, <2>2 DEF BeginningSine
  <2>4. \/ task' = [task EXCEPT !["siemensActuators"] = "Running"] /\ Len(todo) = 3
        \/ task' = [task EXCEPT !["functionGenerator"] = "Running"] /\ Len(todo) = 1
    <3>1. \/ Head(todo).what = "siemensActuators" /\ Len(todo) = 3
          \/ Head(todo).what = "functionGenerator" /\ Len(todo) = 1
      BY <2>1, Kinds
    <3> QED BY <1>1, <3>1
  <2>5. /\ ~Running("rampGenerator")' /\ Running("siemensActuators")'
        /\ Running("functionGenerator") => Running("functionGenerator")'
    <3>1. ~Running("rampGenerator") /\ (Len(todo) <= 2 => Running("siemensActuators"))
      BY <1>4 DEF BeginningSine
    <3>2. CASE task' = [task EXCEPT !["siemensActuators"] = "Running"]
      BY <1>2, <3>1, <3>2 DEF Running
    <3>3. CASE task' = [task EXCEPT !["functionGenerator"] = "Running"] /\ Len(todo) = 1
      <4>1. Len(todo) <= 2
        BY <3>3
      <4>2. Running("siemensActuators")
        BY <3>1, <4>1
      <4> QED BY <1>2, <3>1, <3>3, <4>2 DEF Running
    <3> QED BY <2>4, <3>2, <3>3
  <2>6. begun' => Running("functionGenerator")'
    BY <1>1, <2>5 DEF ScriptInv
  <2> QED BY <1>1, <2>1, <2>2, <2>3, <2>5, <2>6, SineGoesOn
<1>5. CASE SettingByHand
  BY <1>1, <1>2, <1>5, HandKinds, Kinds
<1> QED BY <1>1, <1>3, <1>4, <1>5 DEF ScriptInv

LEMMA ScriptStop == ASSUME IInv, ScriptInv, StopComponent PROVE ScriptInv'
<1>1. /\ todo # <<>> /\ Head(todo).do = "stop" /\ Done
      /\ task' = [task EXCEPT ![Head(todo).what] = "Stopped"]
      /\ UNCHANGED prop
  BY DEF StopComponent, Step
<1>2. begun' = (begun /\ Head(todo).what # "functionGenerator")
  BY Zenon DEF StopComponent
<1>3. /\ todo \in Seq(Instructions) /\ task \in [Components -> {"Stopped", "Running"}]
      /\ Components = {"functionGenerator", "rampGenerator", "siemensActuators"}
  BY DEF IInv, TypeOK, Components, Writers
<1>4. CASE Ramping
  <2>1. PICK v \in Targets :
              /\ \/ Head(todo) = Stop("functionGenerator") /\ Len(todo) = 7
                 \/ Head(todo) = Stop("rampGenerator") /\ Len(todo) = 2
              /\ Running("rampGenerator") => Len(todo) \in {2, 3}
              /\ Running("functionGenerator") => Len(todo) = 7
              /\ \/ Tail(todo) = <<>> /\ Len(todo) = 1
                 \/ RestOf(Tail(todo), ramp_with(v)) /\ Len(Tail(todo)) = Len(todo) - 1
    BY <1>1, <1>3, <1>4, RampingKinds, Kinds
  <2>2. \/ task' = [task EXCEPT !["functionGenerator"] = "Stopped"] /\ Len(todo) = 7
        \/ task' = [task EXCEPT !["rampGenerator"] = "Stopped"] /\ Len(todo) = 2
    <3>1. \/ Head(todo).what = "functionGenerator" /\ Len(todo) = 7
          \/ Head(todo).what = "rampGenerator" /\ Len(todo) = 2
      BY <2>1, Kinds
    <3> QED BY <1>1, <3>1
  <2>3. ~Running("functionGenerator")' /\ ~Running("rampGenerator")'
    <3>1. CASE Len(todo) = 7
      <4>1. ~Running("rampGenerator")
        BY <2>1, <3>1
      <4>2. task' = [task EXCEPT !["functionGenerator"] = "Stopped"]
        BY <2>2, <3>1
      <4> QED BY <1>3, <4>1, <4>2 DEF Running
    <3>2. CASE Len(todo) = 2
      <4>1. ~Running("functionGenerator")
        BY <2>1, <3>2
      <4>2. task' = [task EXCEPT !["rampGenerator"] = "Stopped"]
        BY <2>2, <3>2
      <4> QED BY <1>3, <4>1, <4>2 DEF Running
    <3> QED BY <2>1, <3>1, <3>2
  <2>4. ~begun'
    <3>1. CASE Head(todo) = Stop("functionGenerator")
      BY <1>2, <3>1, Kinds
    <3>2. CASE Len(todo) = 2
      <4>1. ~Running("functionGenerator")
        BY <2>1, <3>2
      <4> QED BY <1>2, <4>1, Zenon DEF ScriptInv
    <3> QED BY <2>1, <3>1, <3>2
  <2> QED BY <1>1, <2>1, <2>3, <2>4, RampGoesOn
<1>5. CASE BeginningSine
  <2>1. PICK o \in Speeds :
              /\ Head(todo) = Stop("functionGenerator") /\ Len(todo) = 2
              /\ \/ Tail(todo) = <<>> /\ Len(todo) = 1
                 \/ /\ RestOf(Tail(todo), sin_around_setpoint(o))
                    /\ Len(Tail(todo)) = Len(todo) - 1
    BY <1>1, <1>3, <1>5, SineKinds, Kinds
  <2>2. /\ Len(todo) \in 1..4 /\ Len(todo) <= 3 /\ Len(todo) <= 2
    BY <2>1
  <2>3. (prop.sine.whichDrive = 1 /\ prop.sine.amplitude = Amplitude)'
    BY <1>1, <1>5, <2>2 DEF BeginningSine
  <2>4. task' = [task EXCEPT !["functionGenerator"] = "Stopped"]
    <3>1. Head(todo).what = "functionGenerator"
      BY <2>1, Kinds
    <3> QED BY <1>1, <3>1
  <2>5. ~Running("rampGenerator")' /\ Running("siemensActuators")'
    BY <1>3, <1>5, <2>2, <2>4 DEF Running, BeginningSine
  <2>6. ~begun'
    BY <1>2, <2>1, Kinds
  <2> QED BY <1>1, <2>1, <2>2, <2>3, <2>5, <2>6, SineGoesOn
<1>6. CASE SettingByHand
  <2>1. PICK v \in HandSpeeds : /\ Head(todo) = Stop("siemensActuators")
                                /\ RestOf(Tail(todo), set_carousel_speed(v))
    BY <1>1, <1>3, <1>6, HandKinds, Kinds
  <2>2. task' = [task EXCEPT !["siemensActuators"] = "Stopped"]
    <3>1. Head(todo).what = "siemensActuators"
      BY <2>1, Kinds
    <3> QED BY <1>1, <3>1
  <2>3. /\ Running("functionGenerator")' = Running("functionGenerator")
        /\ ~Running("rampGenerator")'
    BY <1>3, <1>6, <2>2 DEF Running, SettingByHand
  <2>4. SettingByHand'
    BY <1>1, <2>1, <2>3 DEF SettingByHand, Done
  <2>5. begun' => Running("functionGenerator")'
    BY <1>2, <2>3 DEF ScriptInv
  <2> QED BY <1>1, <2>3, <2>4, <2>5 DEF ScriptInv
<1> QED BY <1>1, <1>4, <1>5, <1>6 DEF ScriptInv

LEMMA ScriptSetSpeed ==
  ASSUME IInv, ScriptInv, NEW outcome \in Outcomes, DoSetCarouselSpeed(outcome)
  PROVE  ScriptInv'
<1>1. /\ todo # <<>> /\ Head(todo).do = "setCarouselSpeed" /\ Done
      /\ UNCHANGED <<task, prop, begun>>
  BY DEF DoSetCarouselSpeed, Step, generatorVars
<1>2. todo \in Seq(Instructions)
  BY DEF IInv
<1>3. SettingByHand
  BY <1>1, <1>2, RampingKinds, SineKinds DEF ScriptInv, Doomed
<1>4. todo' = <<>>
  BY <1>1, <1>2, <1>3, HandKinds, Kinds DEF Done
<1> QED BY <1>1, <1>3, <1>4 DEF ScriptInv, SettingByHand, Running

LEMMA NextScript == IInv /\ ScriptInv /\ [Next]_vars => ScriptInv'
<1> SUFFICES ASSUME IInv, ScriptInv, [Next]_vars PROVE ScriptInv'
  OBVIOUS
<1>1. CASE \E outcome \in Outcomes : updateHook(outcome) \/ setWinchSpeed(outcome)
  BY <1>1, ScriptKept DEF updateHook, setWinchSpeed, generatorVars, ScriptInv
<1>2. CASE \E outcome \in Outcomes : DoSetCarouselSpeed(outcome)
  BY <1>2, ScriptSetSpeed
<1>3. CASE \E s \in -1..1 : FunctionUpdate(s)
  BY <1>3, ScriptKept DEF FunctionUpdate
<1>4. CASE RampUpdate \/ Sense
  BY <1>4, ScriptKept DEF RampUpdate, Sense, generatorVars, ScriptInv
<1>5. CASE SetProperty \/ StartComponent \/ StopComponent \/ WaitTillRampIsDone
  BY <1>5, ScriptSet, ScriptStart, ScriptStop, ScriptWait
<1>6. CASE \/ \E v \in Targets : Call(ramp_with(v), FALSE)
           \/ \E v \in HandSpeeds : Call(set_carousel_speed(v), FALSE)
           \/ Call(sin_around_current_setpoint, Running("functionGenerator"))
  BY <1>6, ScriptCall DEF sin_around_current_setpoint, IInv, TypeOK
<1>7. CASE UNCHANGED vars
  BY <1>7, ScriptKept DEF vars, generatorVars, ScriptInv
<1> QED BY <1>1, <1>2, <1>3, <1>4, <1>5, <1>6, <1>7 DEF Next

-----------------------------------------------------------------------------
(* What is sent and waits, with one fault at most and prompt threads.      *)

\* Clipping brings no speed farther away from one that the limit allows.
LEMMA ClipNear ==
  ASSUME NEW v \in Int, NEW d \in Speeds, NEW n \in Nat, Near(v, d, n)
  PROVE  Near(Clip(v), d, n)
BY Constants DEF Near, Clip, Larger, Smaller, Speeds

LEMMA NearSelf == ASSUME NEW x \in Int, NEW n \in Nat PROVE Near(x, x, n)
BY DEF Near

LEMMA NearMore ==
  ASSUME NEW x \in Int, NEW y \in Int, NEW m \in Nat, NEW n \in Nat, m <= n,
         Near(x, y, m)
  PROVE  Near(x, y, n)
BY DEF Near

LEMMA NearSwap ==
  ASSUME NEW x \in Int, NEW y \in Int, NEW n \in Nat, Near(x, y, n)
  PROVE  Near(y, x, n)
BY DEF Near

LEMMA NearSum ==
  ASSUME NEW x \in Int, NEW y \in Int, NEW z \in Int, NEW m \in Nat, NEW n \in Nat,
         Near(x, y, m), Near(z, y, n)
  PROVE  Near(x, z, m + n)
BY DEF Near

LEMMA ReachType ==
  ASSUME NEW n \in Nat
  PROVE  /\ Reach(n) \in Nat /\ 2 * Amplitude \in Nat /\ 2 * Amplitude <= Reach(n)
         /\ n = 0 => Reach(n) = 2 * Amplitude
         /\ n # 0 => Reach(n) = 2 * Amplitude + Amplitude
BY DriveAssumption DEF Reach

LEMMA Numbers ==
  ASSUME IInv
  PROVE  /\ Amplitude \in Nat /\ Amplitude >= 1
         /\ drive \in Speeds /\ current \in Speeds /\ sample \in Speeds
         /\ drive \in Int /\ current \in Int /\ sample \in Int
         /\ faults \in Nat /\ faults <= MaxFaults
         /\ prop.sine.offset \in Speeds /\ prop.sine.offset \in Int
         /\ \A w \in Writers : chan[w] \subseteq Int
         /\ chan \in [Writers -> SUBSET Int]
         /\ Writers = {"functionGenerator", "rampGenerator"}
<1>1. prop.sine.offset \in Speeds
  BY DEF IInv, TypeOK, Sines, Speeds
<1>2. Amplitude \in Nat /\ Amplitude >= 1
  BY DriveAssumption
<1>3. drive \in Speeds /\ current \in Speeds /\ sample \in Speeds
      /\ faults \in 0..MaxFaults /\ chan \in [Writers -> SUBSET Int]
  BY DEF IInv, TypeOK
<1>4. faults \in Nat /\ faults <= MaxFaults
  BY <1>3, Constants
<1> QED BY <1>1, <1>2, <1>3, <1>4, Constants DEF Writers

\* A command arrives, or it is the one fault.
LEMMA SendCases ==
  ASSUME IInv, MaxFaults <= 1, NEW v \in Int, NEW outcome \in Outcomes, Send(v, outcome)
  PROVE  \/ /\ faults' = faults /\ current' = Clip(v) /\ drive' = Clip(v)
         \/ /\ faults = 0 /\ faults' = 1
            /\ current' = Clip(v) /\ drive' = drive
         \/ /\ faults = 0 /\ faults' = 1
            /\ current' = current /\ drive' = drive
            /\ (sent' => sent)
<1>1. CASE outcome = "delivered"
  BY <1>1 DEF Send
<1>2. CASE outcome # "delivered"
  <2>1. faults < MaxFaults /\ faults' = faults + 1 /\ drive' = drive
    BY <1>2 DEF Send
  <2>2. faults = 0 /\ faults' = 1
    BY <2>1, Numbers, Constants
  <2>3. CASE outcome = "lost"
    BY <2>1, <2>2, <2>3 DEF Send
  <2>4. CASE outcome = "failed"
    <3>1. current' = current
      BY <2>4 DEF Send
    <3>2. sent' => sent
      BY <2>4, Zenon DEF Send
    <3> QED BY <2>1, <2>2, <3>1, <3>2
  <2> QED BY <1>2, <2>3, <2>4 DEF Outcomes
<1> QED BY <1>1, <1>2

\* The actuators read what there is; one connection at most holds a sample.
LEMMA HookReads ==
  ASSUME IInv, SenderInv, NEW outcome \in Outcomes, updateHook(outcome)
  PROVE  /\ \A u \in Writers : chan'[u] = {}
         /\ \/ UNCHANGED <<chan, current, drive, faults, sent>>
            \/ \E w \in Writers : \E v \in chan[w] :
                 Send(v, outcome) /\ \A u \in Writers : u # w => chan[u] = {}
<1>1. from \in Writers /\ Writers = {"functionGenerator", "rampGenerator"}
      /\ chan \in [Writers -> SUBSET Int]
  BY Numbers DEF IInv, TypeOK
<1>2. CASE ReadFrom = {}
  <2>1. UNCHANGED <<chan, current, drive, faults, sent>>
    BY <1>2 DEF updateHook, senderVars
  <2>2. \A u \in Writers : chan[u] = {}
    BY <1>1, <1>2 DEF ReadFrom
  <2> QED BY <2>1, <2>2
<1>3. CASE ReadFrom # {}
  <2>1. PICK w \in ReadFrom : chan' = [chan EXCEPT ![w] = {}]
                              /\ \E v \in chan[w] : Send(v, outcome)
    BY <1>3 DEF updateHook
  <2>2. w \in Writers /\ chan[w] # {}
    BY <1>1, <2>1 DEF ReadFrom
  <2>3. PICK e \in Writers : chan[e] = {}
    BY DEF SenderInv
  <2>4. \A u \in Writers : u # w => chan[u] = {}
    BY <1>1, <2>2, <2>3
  <2>5. \A u \in Writers : chan'[u] = {}
    BY <1>1, <2>1, <2>2, <2>4
  <2> QED BY <2>1, <2>2, <2>4, <2>5
<1> QED BY <1>2, <1>3

\* The hook leaves the script and the generators alone, reads everything and
\* sends it, which is no jump.
LEMMA HookSends ==
  ASSUME IInv, IInv', MaxFaults <= 1, SenderInv, WaitingInv,
         NEW outcome \in Outcomes, updateHook(outcome)
  PROVE  SenderInv' /\ WaitingInv' /\ StoppedInv' /\ Near(drive', drive, Reach(faults'))
<1>1. /\ \A u \in Writers : chan'[u] = {}
      /\ "functionGenerator" \in Writers /\ "rampGenerator" \in Writers
      /\ sample' = sample
  BY HookReads, Numbers DEF updateHook
<1>2. WaitingInv'
  BY <1>1 DEF WaitingInv
<1>3. StoppedInv'
  BY DEF updateHook, StoppedInv, Running
<1>4. /\ sent' => /\ Near(current', drive', 2 * Amplitude)
                  /\ Near(current', sample', Reach(faults'))
                  /\ faults' = 0 => current' = drive'
      /\ Near(drive', sample', Reach(faults'))
      /\ Near(drive', drive, Reach(faults'))
  <2>0. /\ drive \in Speeds /\ drive \in Int /\ sample \in Speeds /\ sample \in Int
        /\ current \in Int /\ faults \in Nat /\ faults' \in Nat
        /\ Reach(faults) \in Nat /\ Reach(faults') \in Nat /\ 2 * Amplitude \in Nat
        /\ 2 * Amplitude <= Reach(faults')
        /\ faults = 0 => Reach(faults) = 2 * Amplitude
    <3>1. faults \in Nat /\ faults' \in Nat
      BY Constants DEF IInv, TypeOK
    <3> QED BY <3>1, Numbers, ReachType
  <2>1. CASE UNCHANGED <<chan, current, drive, faults, sent>>
    BY <1>1, <2>0, <2>1, NearSelf DEF SenderInv
  <2>2. CASE \E w \in Writers : \E v \in chan[w] : Send(v, outcome)
    <3>1. PICK w \in Writers : \E v \in chan[w] : Send(v, outcome)
      BY <2>2
    <3>2. PICK v \in chan[w] : Send(v, outcome)
      BY <3>1
    <3>3. v \in Int /\ Near(v, drive, Reach(faults)) /\ Near(v, sample, Reach(faults))
      BY Numbers DEF WaitingInv
    <3>4. /\ Clip(v) \in Int
          /\ Near(Clip(v), drive, Reach(faults)) /\ Near(Clip(v), sample, Reach(faults))
      BY <2>0, <3>3, ClipNear, ClipType, Constants
    <3>5. CASE faults' = faults /\ current' = Clip(v) /\ drive' = Clip(v)
      <4>1. Near(current', drive', 2 * Amplitude)
        BY <2>0, <3>4, <3>5, NearSelf
      <4> QED BY <1>1, <3>4, <3>5, <4>1
    <3>6. CASE faults = 0 /\ faults' = 1 /\ drive' = drive
      <4>1. Near(drive', drive, Reach(faults')) /\ Near(drive', sample', Reach(faults'))
        <5>1. Near(drive, sample, Reach(faults))
          BY DEF SenderInv
        <5>2. Near(drive, sample, Reach(faults'))
          BY <2>0, <3>6, <5>1, NearMore
        <5> QED BY <1>1, <2>0, <3>6, <5>2, NearSelf
      <4>2. CASE current' = Clip(v)
        <5>1. Near(Clip(v), drive, 2 * Amplitude)
          BY <2>0, <3>4, <3>6
        <5>2. Near(Clip(v), sample, Reach(faults'))
          BY <2>0, <3>4, <3>6, NearMore
        <5> QED BY <1>1, <3>6, <4>1, <4>2, <5>1, <5>2
      <4>3. CASE current' = current /\ (sent' => sent)
        <5>1. sent => Near(current, drive, 2 * Amplitude) /\ Near(current, sample, Reach(faults))
          BY DEF SenderInv
        <5>2. sent => Near(current, sample, Reach(faults'))
          BY <2>0, <3>6, <5>1, NearMore
        <5> QED BY <1>1, <3>6, <4>1, <4>3, <5>1, <5>2
      <4> QED BY <3>2, <3>3, <3>6, <4>2, <4>3, SendCases
    <3> QED BY <3>2, <3>3, <3>5, <3>6, SendCases
  <2> QED BY <2>1, <2>2, HookReads
<1>5. SenderInv'
  BY <1>1, <1>4 DEF SenderInv
<1> QED BY <1>2, <1>3, <1>4, <1>5

\* What the hook sends keeps within the sine.  Once the sine has begun it ends
\* the wait for a late command, or its zero is the command that gets lost.
LEMMA HookSine ==
  ASSUME IInv, IInv', MaxFaults <= 1, SenderInv, NEW outcome \in Outcomes, updateHook(outcome),
         NEW o \in Speeds, AroundSine(o)
  PROVE  AroundSine(o)'
<1>1. /\ \A u \in Writers : chan'[u] = {}
      /\ Writers = {"functionGenerator", "rampGenerator"}
      /\ begun' = begun
  BY HookReads, Numbers DEF updateHook, generatorVars
<1>2. /\ o \in Int /\ Clip(o) = o /\ Amplitude \in Nat /\ drive \in Int /\ current \in Int
      /\ 2 * Amplitude \in Nat /\ faults \in Nat /\ faults' \in Nat
      /\ Reach(faults) \in Nat /\ Reach(faults') \in Nat
      /\ 2 * Amplitude <= Reach(faults')
      /\ faults = 0 => Reach(faults) = 2 * Amplitude
  <2>1. faults \in Nat /\ faults' \in Nat
    BY Constants DEF IInv, TypeOK
  <2> QED BY <2>1, Constants, ClipType, Numbers, ReachType
<1>3. CASE UNCHANGED <<chan, current, drive, faults, sent>>
  BY <1>1, <1>3 DEF AroundSine, WithinSine, BeforeSine, MissedZero
<1>4. CASE \E w \in Writers : \E v \in chan[w] : Send(v, outcome)
  <2>1. PICK w \in Writers : \E v \in chan[w] : Send(v, outcome)
    BY <1>4
  <2>2. PICK v \in chan[w] : Send(v, outcome)
    BY <2>1
  <2>3. v \in Int /\ Clip(v) \in Int
    BY Numbers, ClipType, Constants
  <2>4. CASE WithinSine(o)
    <3>1. Near(drive, o, Amplitude) /\ (sent => Near(current, o, Amplitude))
          /\ Near(v, o, Amplitude)
      BY <2>4 DEF WithinSine
    <3>2. Near(Clip(v), o, Amplitude)
      BY <1>2, <2>3, <3>1, ClipNear
    <3>3. Near(drive', o, Amplitude) /\ (sent' => Near(current', o, Amplitude))
      BY <2>2, <2>3, <3>1, <3>2, SendCases
    <3> QED BY <1>1, <3>3 DEF AroundSine, WithinSine
  <2>5. CASE BeforeSine(o) /\ begun
    <3>1. v = o
      <4>1. w = "functionGenerator" /\ chan[w] = {o}
        BY <1>1, <2>5 DEF BeforeSine
      <4> QED BY <4>1
    <3>2. Near(drive, o, Reach(faults)) /\ (sent => Near(current, o, Reach(faults)))
      BY <2>5 DEF BeforeSine
    <3>3. CASE drive' = o /\ current' = o
      BY <1>1, <1>2, <3>3, NearSelf DEF AroundSine, WithinSine
    <3>4. CASE /\ faults = 0 /\ faults' = 1 /\ drive' = drive
               /\ current' = o \/ (current' = current /\ (sent' => sent))
      <4>1. Near(o, o, 2 * Amplitude)
        BY <1>2, NearSelf
      <4>2. Near(drive', o, 2 * Amplitude) /\ (sent' => Near(current', o, 2 * Amplitude))
        BY <1>2, <3>2, <3>4, <4>1
      <4> QED BY <1>1, <3>4, <4>2 DEF AroundSine, MissedZero
    <3> QED BY <1>2, <2>2, <2>3, <3>1, <3>3, <3>4, SendCases
  <2>6. CASE BeforeSine(o) /\ ~begun
    <3>1. /\ Near(drive, o, Reach(faults)) /\ (sent => Near(current, o, Reach(faults)))
          /\ Near(v, o, Reach(faults))
      BY <2>6 DEF BeforeSine
    <3>2. Near(Clip(v), o, Reach(faults))
      BY <1>2, <2>3, <3>1, ClipNear
    <3>3. Near(drive', o, Reach(faults)) /\ (sent' => Near(current', o, Reach(faults)))
      BY <2>2, <2>3, <3>1, <3>2, SendCases
    <3>4. Reach(faults) <= Reach(faults') /\ drive' \in Int /\ current' \in Int
      <4>1. faults' = faults \/ faults = 0
        BY <2>2, <2>3, SendCases
      <4>2. drive' \in Int /\ current' \in Int
        BY Constants DEF IInv, TypeOK
      <4> QED BY <1>2, <4>1, <4>2
    <3>5. Near(drive', o, Reach(faults')) /\ (sent' => Near(current', o, Reach(faults')))
      BY <1>2, <3>3, <3>4, NearMore
    <3> QED BY <1>1, <2>6, <3>5 DEF AroundSine, BeforeSine
  <2>7. CASE MissedZero(o)
    <3>1. faults # 0 /\ Near(v, o, Amplitude)
      <4>1. w = "functionGenerator"
        BY <1>1, <2>7 DEF MissedZero
      <4> QED BY <2>7, <4>1 DEF MissedZero
    <3>2. Near(Clip(v), o, Amplitude)
      BY <1>2, <2>3, <3>1, ClipNear
    <3>3. drive' = Clip(v) /\ current' = Clip(v)
      BY <2>2, <2>3, <3>1, SendCases
    <3> QED BY <1>1, <3>2, <3>3 DEF AroundSine, WithinSine
  <2> QED BY <2>4, <2>5, <2>6, <2>7 DEF AroundSine
<1> QED BY <1>3, <1>4, HookReads

LEMMA SineOffsetType == ASSUME IInv, ScriptInv PROVE SineOffset \in Speeds
<1>1. prop.sine.offset \in Speeds /\ todo \in Seq(Instructions)
  BY Numbers DEF IInv
<1>2. CASE SineBegins /\ Len(todo) = 4
  <2>1. BeginningSine
    BY <1>1, <1>2, RampingKinds, HandKinds DEF ScriptInv, SineBegins
  <2>2. PICK o \in Speeds :
            \/ Head(todo) = set_functionGenerator_properties(1, Amplitude, o)
            \/ Len(todo) \in {1, 2, 3}
    BY <1>1, <2>1, SineKinds
  <2>3. Head(todo) = set_functionGenerator_properties(1, Amplitude, o)
    BY <1>2, <2>2
  <2>4. Head(todo).v.offset = o
    BY <2>3 DEF set_functionGenerator_properties, Set
  <2> QED BY <1>2, <2>4 DEF SineOffset
<1>3. CASE ~(SineBegins /\ Len(todo) = 4)
  <2>1. SineOffset = prop.sine.offset
    BY <1>3 DEF SineOffset
  <2> QED BY <1>1, <2>1
<1> QED BY <1>2, <1>3

LEMMA SmoothHook ==
  ASSUME IInv, IInv', ScriptInv, MaxFaults <= 1, SmoothInv,
         NEW outcome \in Outcomes, updateHook(outcome)
  PROVE  SmoothInv' /\ (smooth' => Near(drive', drive, Reach(faults')))
<1>1. /\ UNCHANGED <<task, prop, todo, smooth>> /\ Running("siemensActuators")
  BY DEF updateHook, historyVars
<1>2. SUFFICES ASSUME smooth
               PROVE  SmoothInv' /\ Near(drive', drive, Reach(faults'))
  BY <1>1 DEF SmoothInv
<1>3. ~Doomed
  <2>1. CASE todo = <<>>
    BY <2>1 DEF Doomed
  <2>2. CASE todo # <<>>
    <3>1. Head(todo) = todo[1] /\ 1 \in 1..Len(todo)
      BY <2>2, HeadTailProperties DEF IInv
    <3>2. 1 # 2
      OBVIOUS
    <3> QED BY <1>1, <3>1, <3>2 DEF Doomed, IInv, ByHand, Stop
  <2> QED BY <2>1, <2>2
<1>4. SenderInv /\ WaitingInv /\ SineInv
  BY <1>2, <1>3 DEF SmoothInv
<1>5. SenderInv' /\ WaitingInv' /\ StoppedInv' /\ Near(drive', drive, Reach(faults'))
  BY <1>4, HookSends
<1>6. SineInv'
  <2>1. /\ SineBegins' <=> SineBegins
        /\ Running("functionGenerator")' <=> Running("functionGenerator")
        /\ SineOffset' = SineOffset
    BY <1>1 DEF SineBegins, Running, SineOffset
  <2>2. ASSUME SineBegins \/ Running("functionGenerator")
        PROVE  AroundSine(SineOffset)'
    <3>1. PICK o \in Speeds : o = SineOffset
      BY SineOffsetType
    <3>2. AroundSine(o)
      BY <1>4, <2>2, <3>1 DEF SineInv
    <3>3. AroundSine(o)'
      BY <1>4, <3>2, HookSine
    <3>4. o = SineOffset'
      BY <2>1, <3>1
    <3> QED BY <3>3, <3>4 DEF AroundSine, WithinSine, BeforeSine, MissedZero
  <2> QED BY <1>4, <2>1, <2>2 DEF SineInv
<1> QED BY <1>5, <1>6 DEF SmoothInv

\* An operation of the winch may bring the drive's setpoint to the command that
\* was lost.
LEMMA SmoothWinch ==
  ASSUME IInv, IInv', MaxFaults <= 1, SmoothInv,
         NEW outcome \in Outcomes, setWinchSpeed(outcome)
  PROVE  SmoothInv' /\ (smooth' => Near(drive', drive, Reach(faults')))
<1>1. /\ UNCHANGED <<task, prop, begun, chan, due, sample, todo>>
      /\ todo = <<>> /\ Send(current, outcome)
  BY DEF setWinchSpeed, generatorVars
<1>2. smooth' = (smooth /\ sent)
  BY Zenon DEF setWinchSpeed
<1>3. SUFFICES ASSUME smooth, sent
               PROVE  SmoothInv' /\ Near(drive', drive, Reach(faults'))
  BY <1>2 DEF SmoothInv
<1>4. ~Doomed /\ ~SineBegins /\ ~SineBegins'
  BY <1>1 DEF Doomed, SineBegins
<1>5. SenderInv /\ WaitingInv /\ StoppedInv /\ SineInv
  BY <1>3, <1>4 DEF SmoothInv
<1>6. /\ current \in Int /\ drive \in Int /\ sample \in Int /\ Clip(current) = current
      /\ faults \in Nat /\ faults' \in Nat
      /\ Reach(faults) \in Nat /\ Reach(faults') \in Nat /\ 2 * Amplitude \in Nat
      /\ 2 * Amplitude <= Reach(faults')
      /\ faults = 0 => Reach(faults) = 2 * Amplitude
      /\ \A w \in Writers : chan[w] \subseteq Int
  <2>1. faults \in Nat /\ faults' \in Nat
    BY Constants DEF IInv, TypeOK
  <2> QED BY <2>1, Numbers, ClipType, ReachType
<1>7. /\ current' = current
      /\ \/ faults' = faults /\ drive' = current
         \/ faults = 0 /\ faults' = 1 /\ drive' = drive /\ current = drive
  <2>1. faults = 0 => current = drive
    BY <1>3, <1>5 DEF SenderInv
  <2> QED BY <1>1, <1>6, <2>1, SendCases
<1>8. drive' = current /\ Reach(faults) <= Reach(faults')
  BY <1>6, <1>7
<1>9. Near(drive', drive, Reach(faults'))
  <2>1. Near(current, drive, 2 * Amplitude)
    BY <1>3, <1>5 DEF SenderInv
  <2> QED BY <1>6, <1>8, <2>1, NearMore
<1>10. SenderInv'
  <2>1. Near(current', drive', 2 * Amplitude) /\ current' = drive'
    BY <1>6, <1>7, <1>8, NearSelf
  <2>2. Near(current, sample, Reach(faults'))
    <3>1. Near(current, sample, Reach(faults))
      BY <1>3, <1>5 DEF SenderInv
    <3> QED BY <1>6, <1>8, <3>1, NearMore
  <2> QED BY <1>1, <1>5, <1>7, <1>8, <2>1, <2>2 DEF SenderInv, Running
<1>11. WaitingInv'
  <2>1. ASSUME NEW w \in Writers, NEW v \in chan[w]
        PROVE  Near(v, current, Reach(faults')) /\ Near(v, sample, Reach(faults'))
    <3>1. Near(v, current, Reach(faults)) /\ Near(v, sample, Reach(faults)) /\ v \in Int
      BY <1>3, <1>5, <1>6 DEF WaitingInv
    <3> QED BY <1>6, <1>8, <3>1, NearMore
  <2> QED BY <1>1, <1>7, <1>8, <2>1 DEF WaitingInv
<1>12. StoppedInv'
  BY <1>1, <1>5 DEF StoppedInv, Running
<1>13. SineInv'
  <2>1. /\ Running("functionGenerator")' <=> Running("functionGenerator")
        /\ SineOffset' = SineOffset
    BY <1>1 DEF Running, SineOffset, SineBegins
  <2>2. ASSUME Running("functionGenerator") PROVE AroundSine(SineOffset)'
    <3>1. PICK o \in Speeds : o = SineOffset
      BY <1>4, Numbers DEF SineOffset
    <3>2. ASSUME WithinSine(o) PROVE AroundSine(o)'
      BY <1>1, <1>3, <1>7, <1>8, <3>2 DEF AroundSine, WithinSine
    <3>3. ASSUME BeforeSine(o) PROVE AroundSine(o)'
      <4>1. /\ Near(current, o, Reach(faults)) /\ o \in Int
            /\ \A w \in Writers : \A v \in chan[w] : Near(v, o, Reach(faults)) /\ v \in Int
        BY <1>3, <1>6, <3>3, Constants DEF BeforeSine
      <4>2. Near(current, o, Reach(faults'))
        BY <1>6, <1>8, <4>1, NearMore
      <4>3. \A w \in Writers : \A v \in chan[w] : Near(v, o, Reach(faults'))
        BY <1>6, <1>8, <4>1, NearMore
      <4> QED BY <1>1, <1>7, <1>8, <3>3, <4>2, <4>3 DEF AroundSine, BeforeSine
    <3>4. ASSUME MissedZero(o) PROVE AroundSine(o)'
      <4>1. faults' # 0
        BY <1>7, <3>4 DEF MissedZero
      <4> QED BY <1>1, <1>3, <1>7, <1>8, <3>4, <4>1 DEF AroundSine, MissedZero
    <3>5. AroundSine(o)'
      BY <1>5, <2>2, <3>1, <3>2, <3>3, <3>4 DEF SineInv, AroundSine
    <3>6. o = SineOffset'
      BY <2>1, <3>1
    <3> QED BY <3>5, <3>6 DEF AroundSine, WithinSine, BeforeSine, MissedZero
  <2> QED BY <1>4, <1>5, <2>1, <2>2 DEF SineInv
<1> QED BY <1>9, <1>10, <1>11, <1>12, <1>13 DEF SmoothInv

\* The threads are prompt, so the generators start from the drive's setpoint.
LEMMA WriteSettled ==
  ASSUME IInv, PROMPT, NEW w \in Writers, NEW v \in Int, WritePort(w, v)
  PROVE  /\ ~due /\ sample = drive
         /\ chan'[w] = {v} /\ \A u \in Writers : u # w => chan'[u] = chan[u]
<1>1. ~due /\ sample = drive /\ chan' = [chan EXCEPT ![w] = {v}]
  BY DEF WritePort, Settled
<1> QED BY <1>1, Numbers

LEMMA SmoothFunction ==
  ASSUME IInv, ScriptInv, PROMPT, SmoothInv, NEW s \in -1..1, FunctionUpdate(s)
  PROVE  SmoothInv' /\ drive' = drive
<1>1. /\ UNCHANGED <<task, prop, current, drive, faults, sample, sent, todo, smooth>>
      /\ Running("functionGenerator") /\ begun'
  BY DEF FunctionUpdate, senderVars, historyVars
<1>2. /\ \A c : Running(c)' <=> Running(c)
      /\ SineBegins' <=> SineBegins
      /\ SineOffset' = SineOffset
      /\ Doomed' <=> Doomed
  BY <1>1 DEF Running, SineBegins, SineOffset, Doomed
<1>3. SUFFICES ASSUME smooth, ~Doomed PROVE SmoothInv'
  BY <1>1, <1>2 DEF SmoothInv
<1>4. SenderInv /\ WaitingInv /\ StoppedInv /\ SineInv
  BY <1>3 DEF SmoothInv
<1>5. Running("siemensActuators") /\ ~SineBegins
  BY <1>1, <1>4 DEF StoppedInv, SineInv
<1>. PICK o \in Speeds : o = prop.sine.offset
  BY Numbers
<1> DEFINE v == o + Amplitude * s
           r == Reach(faults)
<1>6. SineOffset = o /\ AroundSine(o)
  BY <1>1, <1>4, <1>5 DEF SineInv, SineOffset
<1>7. /\ o \in Int /\ Amplitude \in Nat /\ drive \in Int /\ current \in Int
      /\ (s = -1 \/ s = 0 \/ s = 1)
      /\ Writers = {"functionGenerator", "rampGenerator"}
      /\ r \in Nat /\ 2 * Amplitude \in Nat /\ 2 * Amplitude <= r
      /\ (faults # 0 => r = 2 * Amplitude + Amplitude)
  BY Numbers, Constants, ReachType
<1>8. WritePort("functionGenerator", v) /\ (begun \/ s = 0)
  BY <1>1 DEF FunctionUpdate, ScriptInv
<1>9. Amplitude * s \in Int /\ Near(v, o, Amplitude) /\ (s = 0 => v = o)
  <2>1. CASE s = -1
    BY <1>7, <2>1 DEF Near
  <2>2. CASE s = 0
    BY <1>7, <2>2 DEF Near
  <2>3. CASE s = 1
    BY <1>7, <2>3 DEF Near
  <2> QED BY <1>7, <2>1, <2>2, <2>3
<1>10. v \in Int
  BY <1>7, <1>9
<1> HIDE DEF v, r
<1>11. /\ ~due /\ sample = drive /\ chan'["functionGenerator"] = {v}
       /\ chan'["rampGenerator"] = chan["rampGenerator"]
  BY <1>7, <1>8, <1>10, WriteSettled
<1>12. chan["functionGenerator"] = {} /\ chan["rampGenerator"] = {}
  BY <1>4, <1>5, <1>7, <1>11 DEF SenderInv
<1>13. due' = Running("siemensActuators")
  BY <1>8, Zenon DEF WritePort
<1>14. \/ WithinSine(o)
       \/ BeforeSine(o) /\ v = o
       \/ MissedZero(o)
  BY <1>6, <1>8, <1>9, <1>12 DEF AroundSine, BeforeSine
<1>15. Near(v, drive, r) /\ (sent => Near(v, current, r))
  <2>1. CASE WithinSine(o)
    <3>1. Near(drive, o, Amplitude) /\ (sent => Near(current, o, Amplitude))
      BY <2>1 DEF WithinSine
    <3>2. Near(v, drive, r)
      BY <1>7, <1>9, <1>10, <3>1 DEF Near
    <3>3. Near(current, o, Amplitude) => Near(v, current, r)
      BY <1>7, <1>9, <1>10 DEF Near
    <3> QED BY <3>1, <3>2, <3>3
  <2>2. CASE v = o /\ BeforeSine(o)
    <3>1. Near(drive, o, r) /\ (sent => Near(current, o, r))
      BY <2>2 DEF BeforeSine, r
    <3>2. Near(v, drive, r) /\ (Near(current, o, r) => Near(v, current, r))
      BY <1>7, <2>2, <3>1, NearSwap
    <3> QED BY <3>1, <3>2
  <2>3. CASE MissedZero(o)
    <3>1. /\ Near(drive, o, 2 * Amplitude) /\ (sent => Near(current, o, 2 * Amplitude))
          /\ faults # 0
      BY <2>3 DEF MissedZero
    <3>2. Near(v, drive, r)
      BY <1>7, <1>9, <1>10, <3>1 DEF Near
    <3>3. Near(current, o, 2 * Amplitude) => Near(v, current, r)
      BY <1>7, <1>9, <1>10, <3>1 DEF Near
    <3> QED BY <3>1, <3>2, <3>3
  <2> QED BY <1>14, <2>1, <2>2, <2>3
<1>16. SenderInv'
  BY <1>1, <1>2, <1>4, <1>5, <1>7, <1>11, <1>12, <1>13 DEF SenderInv
<1>17. WaitingInv'
  BY <1>1, <1>7, <1>11, <1>12, <1>15 DEF WaitingInv, r
<1>18. StoppedInv'
  BY <1>2, <1>5 DEF StoppedInv
<1>19. AroundSine(SineOffset)'
  <2>1. o = SineOffset'
    BY <1>2, <1>6
  <2>2. CASE WithinSine(o)
    <3>1. \A w \in Writers : \A x \in chan'[w] : Near(x, o, Amplitude)
      BY <1>7, <1>9, <1>11, <1>12
    <3> QED BY <1>1, <2>1, <2>2, <3>1 DEF AroundSine, WithinSine
  <2>3. CASE BeforeSine(o) /\ v = o
    <3>1. /\ chan'["functionGenerator"] = {o} /\ chan'["rampGenerator"] = {}
          /\ Near(o, o, r)
      BY <1>7, <1>11, <1>12, <2>3, NearSelf
    <3>2. \A w \in Writers : \A x \in chan'[w] : Near(x, o, Reach(faults'))
      BY <1>1, <1>7, <3>1 DEF r
    <3> QED BY <1>1, <2>1, <2>3, <3>1, <3>2 DEF AroundSine, BeforeSine
  <2>4. CASE MissedZero(o)
    BY <1>1, <1>9, <1>11, <1>12, <2>1, <2>4 DEF AroundSine, MissedZero
  <2> QED BY <1>14, <2>2, <2>3, <2>4
<1> QED BY <1>2, <1>4, <1>5, <1>16, <1>17, <1>18, <1>19 DEF SmoothInv, SineInv

LEMMA SmoothRamp ==
  ASSUME IInv, ScriptInv, PROMPT, SmoothInv, RampUpdate
  PROVE  SmoothInv' /\ drive' = drive
<1> DEFINE t == prop.targetSpeed
           v == IF sample > t THEN Larger(t, sample - 1) ELSE Smaller(t, sample + 1)
<1>1. /\ UNCHANGED <<task, prop, begun, current, drive, faults, sample, sent, todo, smooth>>
      /\ Running("rampGenerator") /\ WritePort("rampGenerator", v)
  BY DEF RampUpdate, senderVars, historyVars
<1>2. \A c : Running(c)' <=> Running(c)
  BY <1>1 DEF Running
<1>3. Ramping /\ ~SineBegins /\ ~SineBegins' /\ ~Running("functionGenerator")
  <2>1. Ramping
    BY <1>1 DEF ScriptInv, BeginningSine, SettingByHand
  <2>2. ~SineBegins /\ ~Doomed /\ ~Running("functionGenerator")
    <3>1. todo \in Seq(Instructions)
      BY DEF IInv
    <3>2. /\ ~SineBegins /\ ~Doomed
          /\ Running("rampGenerator") => Len(todo) \in {2, 3}
          /\ Running("functionGenerator") => Len(todo) = 7
      BY <2>1, <3>1, RampingKinds
    <3> DEFINE n == Len(todo)
    <3>3. (n = 2 \/ n = 3) /\ (Running("functionGenerator") => n = 7)
      BY <1>1, <3>2
    <3> HIDE DEF n
    <3>4. n # 7
      BY <3>3
    <3> QED BY <3>2, <3>3, <3>4
  <2> QED BY <1>1, <2>1, <2>2 DEF SineBegins
<1>4. SUFFICES ASSUME smooth, ~Doomed PROVE SmoothInv'
  BY <1>1 DEF SmoothInv, Doomed
<1>5. SenderInv /\ WaitingInv /\ StoppedInv
  BY <1>4 DEF SmoothInv
<1>6. /\ t \in Int /\ sample \in Int /\ drive \in Int /\ current \in Int
      /\ Amplitude \in Nat /\ Amplitude >= 1
      /\ Writers = {"functionGenerator", "rampGenerator"}
      /\ Reach(faults) \in Nat /\ 2 * Amplitude \in Nat /\ 2 * Amplitude <= Reach(faults)
      /\ faults # 0 => Reach(faults) = 2 * Amplitude + Amplitude
  <2>1. t \in Targets \cup {0}
    BY DEF IInv, TypeOK
  <2>2. t \in Int
    BY <2>1, Constants
  <2> HIDE DEF t
  <2> QED BY <2>2, Numbers, ReachType
<1>7. v \in Int /\ Near(v, sample, 1)
  <2> HIDE DEF t
  <2> QED BY <1>6 DEF Larger, Smaller, Near
<1> HIDE DEF t, v
<1>8. /\ ~due /\ sample = drive /\ chan'["rampGenerator"] = {v}
      /\ chan'["functionGenerator"] = chan["functionGenerator"]
  BY <1>1, <1>6, <1>7, WriteSettled
<1>9. chan["functionGenerator"] = {}
  BY <1>5, <1>6, <1>8 DEF SenderInv, StoppedInv
<1>10. due' = Running("siemensActuators")
  BY <1>1, Zenon DEF WritePort
<1>11. SenderInv'
  BY <1>1, <1>2, <1>5, <1>6, <1>8, <1>9, <1>10 DEF SenderInv
<1>12. WaitingInv'
  <2>1. Near(v, drive, 1) /\ Near(v, drive, Reach(faults))
    BY <1>6, <1>7, <1>8 DEF Near
  <2>2. sent => Near(v, current, Reach(faults))
    <3>1. CASE faults = 0
      BY <1>5, <2>1, <3>1 DEF SenderInv
    <3>2. CASE faults # 0
      <4>1. Near(current, drive, 2 * Amplitude) => Near(v, current, Reach(faults))
        BY <1>6, <1>7, <2>1, <3>2 DEF Near
      <4> QED BY <1>5, <4>1 DEF SenderInv
    <3> QED BY <3>1, <3>2
  <2> QED BY <1>1, <1>6, <1>8, <1>9, <2>1, <2>2 DEF WaitingInv
<1>13. StoppedInv'
  BY <1>1, <1>2, <1>3, <1>8, <1>9 DEF StoppedInv
<1>14. SineInv'
  BY <1>2, <1>3 DEF SineInv
<1> QED BY <1>11, <1>12, <1>13, <1>14 DEF SmoothInv

LEMMA SmoothKept ==
  ASSUME SmoothInv,
         UNCHANGED <<task, prop, begun, chan, due, current, drive, faults, sample, sent,
                     todo, smooth>>
  PROVE  SmoothInv'
BY DEF SmoothInv, SenderInv, WaitingInv, StoppedInv, SineInv, AroundSine, WithinSine,
       BeforeSine, MissedZero, Running, SineBegins, SineOffset, Doomed

\* A report of the drive brings the script nothing but nearer.
LEMMA SmoothSense ==
  ASSUME IInv, SmoothInv, Sense
  PROVE  SmoothInv' /\ drive' = drive
<1>1. /\ UNCHANGED <<task, prop, begun, chan, due, current, drive, faults, sent, todo, smooth>>
      /\ sample' = drive
  BY DEF Sense, generatorVars, senderVars, historyVars
<1>2. SUFFICES ASSUME smooth, ~Doomed PROVE SmoothInv'
  BY <1>1 DEF SmoothInv, Doomed
<1>3. SenderInv /\ WaitingInv /\ StoppedInv /\ SineInv
  BY <1>2 DEF SmoothInv
<1>4. SenderInv'
  <2>1. /\ drive \in Int /\ current \in Int /\ Reach(faults) \in Nat
        /\ 2 * Amplitude \in Nat /\ 2 * Amplitude <= Reach(faults)
    BY Numbers, ReachType
  <2>2. Near(drive, drive, Reach(faults))
    BY <2>1, NearSelf
  <2>3. Near(current, drive, 2 * Amplitude) => Near(current, drive, Reach(faults))
    BY <2>1, NearMore
  <2> QED BY <1>1, <1>3, <2>2, <2>3 DEF SenderInv, Running
<1>5. WaitingInv' /\ StoppedInv'
  BY <1>1, <1>3 DEF WaitingInv, StoppedInv, Running
<1>6. SineInv'
  BY <1>1, <1>3 DEF SineInv, AroundSine, WithinSine, BeforeSine, MissedZero, Running,
                    SineBegins, SineOffset
<1> QED BY <1>4, <1>5, <1>6 DEF SmoothInv

\* What is sent and waits stays when nothing of it changes.
LEMMA SinkKept ==
  ASSUME SenderInv, WaitingInv, StoppedInv,
         UNCHANGED <<chan, current, drive, faults, sample, sent>>,
         Running("siemensActuators")' <=> Running("siemensActuators"),
         due' <=> due,
         Running("functionGenerator")' => Running("functionGenerator")
                                          \/ Running("siemensActuators")
  PROVE  SenderInv' /\ WaitingInv' /\ StoppedInv'
<1>1. SenderInv'
  BY DEF SenderInv
<1>2. WaitingInv'
  BY DEF WaitingInv
<1>3. StoppedInv'
  BY DEF StoppedInv
<1> QED BY <1>1, <1>2, <1>3

\* Once everything is quiet nothing is a jump.
LEMMA QuietIsCalm ==
  ASSUME IInv, Quiet
  PROVE  SenderInv /\ WaitingInv /\ StoppedInv
<1>1. /\ current = drive /\ sample = drive /\ drive \in Int
      /\ Reach(faults) \in Nat /\ 2 * Amplitude \in Nat
      /\ \A w \in Writers : chan[w] = {} /\ ~Running(w)
      /\ "functionGenerator" \in Writers /\ "rampGenerator" \in Writers
  BY Numbers, ReachType DEF Quiet
<1>2. SenderInv
  BY <1>1, NearSelf DEF SenderInv
<1>3. WaitingInv /\ StoppedInv
  BY <1>1 DEF WaitingInv, StoppedInv
<1> QED BY <1>2, <1>3

LEMMA SmoothCall ==
  ASSUME IInv, ScriptInv, SmoothInv, NEW instructions, NEW jumps,
         Call(instructions, jumps),
         \/ \E v \in Targets : instructions = ramp_with(v)
         \/ \E v \in HandSpeeds : instructions = set_carousel_speed(v)
         \/ /\ jumps = Running("functionGenerator")
            /\ instructions = sin_around_current_setpoint
  PROVE  SmoothInv' /\ drive' = drive
<1>1. /\ todo = <<>> /\ todo' = instructions
      /\ UNCHANGED <<task, prop, begun, chan, due, current, drive, faults, sent, sample>>
  BY DEF Call, generatorVars, senderVars
<1>2. smooth' = (~jumps /\ (smooth \/ Quiet))
  BY Zenon DEF Call
<1>3. SUFFICES ASSUME ~jumps, smooth \/ Quiet PROVE SmoothInv'
  BY <1>1, <1>2 DEF SmoothInv
<1>4. ~Doomed /\ ~SineBegins
  BY <1>1 DEF Doomed, SineBegins
<1>5. SenderInv /\ WaitingInv /\ StoppedInv
  BY <1>3, <1>4, QuietIsCalm DEF SmoothInv
<1>6. \A c : Running(c)' <=> Running(c)
  BY <1>1 DEF Running
<1>7. SenderInv' /\ WaitingInv' /\ StoppedInv'
  BY <1>1, <1>5, <1>6, SinkKept
<1>8. ASSUME ~SineBegins' PROVE SineInv'
  <2>1. ASSUME Running("functionGenerator")
        PROVE  AroundSine(SineOffset)'
    <3>1. smooth
      BY <1>3, <2>1 DEF Quiet, Writers
    <3>2. AroundSine(SineOffset)
      BY <1>4, <2>1, <3>1 DEF SmoothInv, SineInv
    <3>3. SineOffset = prop.sine.offset /\ SineOffset' = prop.sine.offset
      BY <1>1, <1>4, <1>8 DEF SineOffset
    <3> QED BY <1>1, <3>2, <3>3 DEF AroundSine, WithinSine, BeforeSine, MissedZero
  <2> QED BY <1>6, <1>8, <2>1 DEF SineInv
<1>9. CASE \E v \in Targets : instructions = ramp_with(v)
  <2>1. PICK v \in Targets : todo' = ramp_with(v)
    BY <1>1, <1>9
  <2>2. todo'[Len(todo')] = Set("targetSpeed", 0)
    BY <2>1, RampElements
  <2>3. ~SineBegins'
    BY <2>2, Kinds DEF SineBegins
  <2> QED BY <1>7, <1>8, <2>3 DEF SmoothInv
<1>10. CASE \E v \in HandSpeeds : instructions = set_carousel_speed(v)
  <2>1. PICK v \in HandSpeeds : todo' = set_carousel_speed(v)
    BY <1>1, <1>10
  <2>2. todo'[Len(todo')] = SetCarouselSpeed(v)
    BY <2>1 DEF set_carousel_speed
  <2>3. ~SineBegins'
    BY <2>2, Kinds DEF SineBegins
  <2> QED BY <1>7, <1>8, <2>3 DEF SmoothInv
<1>11. CASE /\ jumps = Running("functionGenerator")
            /\ instructions = sin_around_current_setpoint
  <2>1. PICK o \in Speeds : o = sample
    BY Numbers
  <2>2. ~Running("functionGenerator") /\ ~begun
    BY <1>3, <1>11 DEF ScriptInv
  <2>3. todo' = sin_around_setpoint(o)
    BY <1>1, <1>11, <2>1 DEF sin_around_current_setpoint
  <2>4. Len(todo') = 4 /\ Head(todo').v.offset = o
    BY <2>3 DEF sin_around_setpoint, set_functionGenerator_properties, Set
  <2>5. todo'[Len(todo')] = Start("functionGenerator") /\ todo' # <<>>
    BY <2>3 DEF sin_around_setpoint
  <2>6. SineOffset' = o
    BY <2>4, <2>5 DEF SineOffset, SineBegins
  <2>7. BeforeSine(o)
    BY <1>5, <2>1, <2>2 DEF SenderInv, WaitingInv, BeforeSine
  <2>8. AroundSine(SineOffset)'
    BY <1>1, <2>6, <2>7 DEF AroundSine, BeforeSine
  <2>9. SineInv'
    BY <1>6, <2>2, <2>8 DEF SineInv
  <2> QED BY <1>7, <2>9 DEF SmoothInv
<1> QED BY <1>9, <1>10, <1>11

\* The last instruction stays the last.
LEMMA LastStays ==
  ASSUME todo \in Seq(Instructions), todo # <<>>, Done
  PROVE  SineBegins' => SineBegins
<1>1. SUFFICES ASSUME todo' # <<>>, todo'[Len(todo')] = Start("functionGenerator")
               PROVE  todo[Len(todo)] = Start("functionGenerator")
  BY DEF SineBegins
<1>2. /\ todo' \in Seq(Instructions) /\ Len(todo') = Len(todo) - 1
      /\ \A i \in 1..Len(todo') : todo'[i] = todo[i + 1]
  BY HeadTailProperties DEF Done
<1>3. Len(todo') # 0 /\ Len(todo') \in Nat
  BY <1>1, <1>2, EmptySeq, LenProperties
<1>4. Len(todo') \in 1..Len(todo') /\ Len(todo') + 1 = Len(todo)
  <2>1. Len(todo) \in Nat
    BY LenProperties
  <2> QED BY <1>2, <1>3, <2>1
<1>5. todo'[Len(todo')] = todo[Len(todo') + 1]
  BY <1>2, <1>4
<1> QED BY <1>1, <1>4, <1>5

LEMMA SmoothSet ==
  ASSUME IInv, ScriptInv, SmoothInv, SetProperty
  PROVE  SmoothInv' /\ drive' = drive
<1>1. /\ todo # <<>> /\ Head(todo).do = "set" /\ Done
      /\ prop' = [prop EXCEPT ![Head(todo).what] = Head(todo).v]
      /\ UNCHANGED <<task, begun, chan, due, current, drive, faults, sample, sent, smooth>>
  BY DEF SetProperty, Step, generatorVars, senderVars, historyVars
<1>2. todo \in Seq(Instructions) /\ prop \in [sine : Sines, targetSpeed : Targets \cup {0}]
  BY DEF IInv, TypeOK
<1>3. SUFFICES ASSUME smooth PROVE SmoothInv'
  BY <1>1 DEF SmoothInv
<1>4. SenderInv /\ WaitingInv /\ StoppedInv /\ SineInv
  BY <1>1, <1>3 DEF SmoothInv, Doomed
<1>5. \A c : Running(c)' <=> Running(c)
  BY <1>1 DEF Running
<1>6. SenderInv' /\ WaitingInv' /\ StoppedInv'
  BY <1>1, <1>4, <1>5, SinkKept
<1>7. CASE Ramping
  <2>1. ~SineBegins /\ Len(todo) \in {6, 5, 1}
        /\ (Running("functionGenerator") => Len(todo) = 7)
    BY <1>1, <1>2, <1>7, RampingKinds, Kinds
  <2>2. ~Running("functionGenerator")
    <3> DEFINE n == Len(todo)
    <3>1. (n = 6 \/ n = 5 \/ n = 1) /\ (Running("functionGenerator") => n = 7)
      BY <2>1
    <3> HIDE DEF n
    <3>2. n # 7
      BY <3>1
    <3> QED BY <3>1, <3>2
  <2>3. ~SineBegins'
    BY <1>1, <1>2, <2>1, LastStays
  <2>4. SineInv'
    BY <1>5, <2>2, <2>3 DEF SineInv
  <2> QED BY <1>6, <2>4 DEF SmoothInv
<1>8. CASE BeginningSine
  <2>1. SineBegins
    BY <1>2, <1>8, SineKinds
  <2>2. PICK o \in Speeds :
              /\ Head(todo) = set_functionGenerator_properties(1, Amplitude, o)
              /\ Len(todo) = 4
              /\ \/ Tail(todo) = <<>> /\ Len(todo) = 1
                 \/ Len(Tail(todo)) = Len(todo) - 1
    BY <1>1, <1>2, <1>8, SineKinds, Kinds
  <2>3. Len(todo') # 4
    <3>1. Len(todo') = Len(todo) - 1
      BY <1>1, <1>2, HeadTailProperties DEF Done
    <3>2. Len(todo) = 4
      BY <2>2
    <3> QED BY <3>1, <3>2
  <2>4. /\ Head(todo).what = "sine"
        /\ Head(todo).v = [whichDrive |-> 1, amplitude |-> Amplitude, offset |-> o]
    BY <2>2 DEF set_functionGenerator_properties, Set
  <2>5. prop'.sine.offset = o
    BY <1>1, <1>2, <2>4
  <2>6. Head(todo).v.offset = o
    BY <2>4
  <2>7. SineOffset = o
    BY <2>1, <2>2, <2>6 DEF SineOffset
  <2>8. SineOffset' = o
    BY <2>3, <2>5 DEF SineOffset
  <2>9. SineBegins' => SineBegins
    BY <1>1, <1>2, LastStays
  <2>10. /\ ~Running("functionGenerator")
         /\ AroundSine(SineOffset)
    BY <1>4, <2>1 DEF SineInv
  <2>11. AroundSine(SineOffset)'
    BY <1>1, <2>7, <2>8, <2>10 DEF AroundSine, WithinSine, BeforeSine, MissedZero
  <2>12. SineInv'
    BY <1>5, <2>10, <2>11 DEF SineInv
  <2> QED BY <1>6, <2>12 DEF SmoothInv
<1>9. CASE SettingByHand
  BY <1>1, <1>2, <1>9, HandKinds, Kinds
<1> QED BY <1>1, <1>7, <1>8, <1>9 DEF ScriptInv

LEMMA SmoothWait ==
  ASSUME IInv, ScriptInv, SmoothInv, WaitTillRampIsDone
  PROVE  SmoothInv' /\ drive' = drive
<1>1. /\ todo # <<>> /\ Head(todo).do = "wait" /\ Done
      /\ UNCHANGED <<task, prop, begun, chan, due, current, drive, faults, sample, sent, smooth>>
  BY DEF WaitTillRampIsDone, Step, generatorVars, senderVars, historyVars
<1>2. todo \in Seq(Instructions)
  BY DEF IInv
<1>3. SUFFICES ASSUME smooth PROVE SmoothInv'
  BY <1>1 DEF SmoothInv
<1>4. SenderInv /\ WaitingInv /\ StoppedInv
  BY <1>1, <1>3 DEF SmoothInv, Doomed
<1>5. \A c : Running(c)' <=> Running(c)
  BY <1>1 DEF Running
<1>6. SenderInv' /\ WaitingInv' /\ StoppedInv'
  BY <1>1, <1>4, <1>5, SinkKept
<1>7. Ramping
  BY <1>1, <1>2, SineKinds, HandKinds, Kinds DEF ScriptInv
<1>8. ~SineBegins /\ Len(todo) = 3 /\ (Running("functionGenerator") => Len(todo) = 7)
  BY <1>1, <1>2, <1>7, RampingKinds, Kinds
<1>9. ~Running("functionGenerator") /\ ~SineBegins'
  BY <1>1, <1>2, <1>8, LastStays
<1>10. SineInv'
  BY <1>5, <1>9 DEF SineInv
<1> QED BY <1>6, <1>10 DEF SmoothInv

LEMMA SmoothStart ==
  ASSUME IInv, ScriptInv, SmoothInv, StartComponent
  PROVE  SmoothInv' /\ drive' = drive
<1> DEFINE c == Head(todo).what
<1>1. /\ todo # <<>> /\ Head(todo).do = "start" /\ Done
      /\ task' = [task EXCEPT ![c] = "Running"]
      /\ UNCHANGED <<prop, begun, chan, current, drive, faults, sample, sent, smooth>>
  BY DEF StartComponent, Step, generatorVars, senderVars
<1>2. due' = (due \/ (~Running(c) /\ c = "siemensActuators"))
  BY Zenon DEF StartComponent
<1>3. /\ todo \in Seq(Instructions) /\ task \in [Components -> {"Stopped", "Running"}]
      /\ Components = {"functionGenerator", "rampGenerator", "siemensActuators"}
  BY DEF IInv, TypeOK, Components, Writers
<1> HIDE DEF c
<1>4. SUFFICES ASSUME smooth PROVE SmoothInv'
  BY <1>1 DEF SmoothInv
<1>5. SenderInv /\ WaitingInv /\ StoppedInv /\ SineInv
  BY <1>1, <1>4 DEF SmoothInv, Doomed
<1>6. SineBegins' => SineBegins
  BY <1>1, <1>3, LastStays
<1>7. CASE Ramping
  <2>1. /\ ~SineBegins /\ Head(todo) = Start("rampGenerator") /\ Len(todo) = 4
        /\ Running("functionGenerator") => Len(todo) = 7
    BY <1>1, <1>3, <1>7, RampingKinds, Kinds
  <2>2. c = "rampGenerator" /\ ~Running("functionGenerator")
    BY <2>1, Kinds DEF c
  <2>3. /\ Running("siemensActuators")' <=> Running("siemensActuators")
        /\ ~Running("functionGenerator")'
    BY <1>1, <1>3, <2>2 DEF Running
  <2>4. due' <=> due
    BY <1>2, <2>2
  <2>5. SenderInv' /\ WaitingInv' /\ StoppedInv'
    BY <1>1, <1>5, <2>3, <2>4, SinkKept
  <2>6. SineInv'
    BY <1>6, <2>1, <2>3 DEF SineInv
  <2> QED BY <2>5, <2>6 DEF SmoothInv
<1>8. CASE BeginningSine
  <2>1. /\ SineBegins
        /\ \/ Head(todo) = Start("siemensActuators") /\ Len(todo) = 3
           \/ /\ Head(todo) = Start("functionGenerator") /\ Len(todo) = 1
              /\ Tail(todo) = <<>>
        /\ Len(todo) # 1 => Len(Tail(todo)) = Len(todo) - 1
    <3>1. PICK o \in Speeds :
                /\ \/ Head(todo) = Start("siemensActuators") /\ Len(todo) = 3
                   \/ Head(todo) = Start("functionGenerator") /\ Len(todo) = 1
                /\ \/ Tail(todo) = <<>> /\ Len(todo) = 1
                   \/ /\ RestOf(Tail(todo), sin_around_setpoint(o))
                      /\ Len(Tail(todo)) = Len(todo) - 1
      BY <1>1, <1>3, <1>8, SineKinds, Kinds
    <3>2. Len(todo) = 1 => Tail(todo) = <<>>
      <4> DEFINE n == Len(Tail(todo))
                 m == Len(todo)
      <4>1. RestOf(Tail(todo), sin_around_setpoint(o)) => n >= 1
        BY DEF RestOf
      <4>2. Tail(todo) = <<>> \/ (n >= 1 /\ n = m - 1)
        BY <3>1, <4>1
      <4> HIDE DEF n, m
      <4>3. m = 1 => Tail(todo) = <<>>
        BY <4>2
      <4> QED BY <4>3 DEF m
    <3> QED BY <1>3, <1>8, <3>1, <3>2, SineKinds
  <2>2. ~Running("functionGenerator") /\ AroundSine(SineOffset)
    BY <1>5, <2>1 DEF SineInv
  <2>3. SineOffset = prop.sine.offset /\ SineOffset' = prop.sine.offset
    <3> DEFINE n == Len(todo)
               m == Len(todo')
    <3>1. (n = 3 /\ m = n - 1) \/ (n = 1 /\ todo' = <<>>)
      BY <1>1, <2>1 DEF Done
    <3> HIDE DEF n, m
    <3>2. n # 4 /\ (todo' = <<>> \/ m # 4)
      BY <3>1
    <3>3. Len(todo) # 4
      BY <3>2 DEF n
    <3>4. todo' = <<>> \/ Len(todo') # 4
      BY <3>2 DEF m
    <3> QED BY <1>1, <3>3, <3>4 DEF SineOffset, SineBegins
  <2>4. AroundSine(SineOffset)'
    BY <1>1, <2>2, <2>3 DEF AroundSine, WithinSine, BeforeSine, MissedZero
  <2>5. CASE Head(todo) = Start("siemensActuators") /\ Len(todo) = 3
    <3>1. c = "siemensActuators"
      BY <2>5, Kinds DEF c
    <3>2. Running("siemensActuators")' /\ ~Running("functionGenerator")'
      BY <1>1, <1>3, <2>2, <3>1 DEF Running
    <3>3. ~due' => ~due /\ Running("siemensActuators")
      BY <1>2, <3>1
    <3>4. SenderInv'
      BY <1>1, <1>5, <3>3 DEF SenderInv
    <3>5. WaitingInv' /\ StoppedInv'
      BY <1>1, <1>5, <3>2 DEF WaitingInv, StoppedInv
    <3>6. SineInv'
      BY <2>4, <3>2 DEF SineInv
    <3> QED BY <3>4, <3>5, <3>6 DEF SmoothInv
  <2>6. CASE Head(todo) = Start("functionGenerator") /\ Len(todo) = 1 /\ Tail(todo) = <<>>
    <3>1. c = "functionGenerator" /\ todo' = <<>>
      BY <1>1, <2>6, Kinds DEF c, Done
    <3>2. Running("siemensActuators")
      <4>1. Len(todo) <= 2
        BY <2>6
      <4> QED BY <1>8, <4>1 DEF BeginningSine
    <3>3. Running("siemensActuators")'
      BY <1>1, <1>3, <3>1, <3>2 DEF Running
    <3>4. due' <=> due
      BY <1>2, <3>1
    <3>5. SenderInv' /\ WaitingInv' /\ StoppedInv'
      BY <1>1, <1>5, <3>2, <3>3, <3>4, SinkKept
    <3>6. SineInv'
      BY <2>4, <3>1 DEF SineInv, SineBegins
    <3> QED BY <3>5, <3>6 DEF SmoothInv
  <2> QED BY <2>1, <2>5, <2>6
<1>9. CASE SettingByHand
  BY <1>1, <1>3, <1>9, HandKinds, Kinds
<1> QED BY <1>1, <1>7, <1>8, <1>9 DEF ScriptInv

LEMMA SmoothStop ==
  ASSUME IInv, ScriptInv, SmoothInv, StopComponent
  PROVE  SmoothInv' /\ drive' = drive
<1> DEFINE c == Head(todo).what
<1>1. /\ todo # <<>> /\ Head(todo).do = "stop" /\ Done
      /\ task' = [task EXCEPT ![c] = "Stopped"]
      /\ UNCHANGED <<prop, chan, current, drive, faults, sample, sent, smooth>>
  BY DEF StopComponent, Step, senderVars, historyVars
<1>2. /\ begun' = (begun /\ c # "functionGenerator")
      /\ due' = (due /\ c # "siemensActuators")
  BY Zenon DEF StopComponent
<1>3. /\ todo \in Seq(Instructions) /\ task \in [Components -> {"Stopped", "Running"}]
      /\ Components = {"functionGenerator", "rampGenerator", "siemensActuators"}
  BY DEF IInv, TypeOK, Components, Writers
<1> HIDE DEF c
<1>4. SUFFICES ASSUME smooth, ~Doomed' PROVE SmoothInv'
  BY <1>1 DEF SmoothInv
<1>5. SenderInv /\ WaitingInv /\ StoppedInv /\ SineInv
  BY <1>1, <1>4 DEF SmoothInv, Doomed
<1>6. SineBegins' => SineBegins
  BY <1>1, <1>3, LastStays
<1>7. ASSUME c # "siemensActuators" PROVE SenderInv' /\ WaitingInv' /\ StoppedInv'
  <2>1. /\ Running("siemensActuators")' <=> Running("siemensActuators")
        /\ Running("functionGenerator")' => Running("functionGenerator")
    BY <1>1, <1>3, <1>7 DEF Running
  <2>2. due' <=> due
    BY <1>2, <1>7
  <2> QED BY <1>1, <1>5, <2>1, <2>2, SinkKept
<1>8. CASE Ramping
  <2>1. /\ ~SineBegins
        /\ \/ Head(todo) = Stop("functionGenerator") /\ Len(todo) = 7
           \/ Head(todo) = Stop("rampGenerator") /\ Len(todo) = 2
        /\ Running("functionGenerator") => Len(todo) = 7
    BY <1>1, <1>3, <1>8, RampingKinds, Kinds
  <2>2. \/ c = "functionGenerator"
        \/ c = "rampGenerator" /\ ~Running("functionGenerator")
    <3>1. CASE Head(todo) = Stop("functionGenerator")
      BY <3>1, Kinds DEF c
    <3>2. CASE Head(todo) = Stop("rampGenerator") /\ Len(todo) = 2
      <4>1. c = "rampGenerator"
        BY <3>2, Kinds DEF c
      <4> QED BY <2>1, <3>2, <4>1
    <3> QED BY <2>1, <3>1, <3>2
  <2>3. ~Running("functionGenerator")'
    BY <1>1, <1>3, <2>2 DEF Running
  <2>4. SineInv'
    BY <1>6, <2>1, <2>3 DEF SineInv
  <2> QED BY <1>7, <2>2, <2>4 DEF SmoothInv
<1>9. CASE BeginningSine
  <2>1. /\ SineBegins /\ Head(todo) = Stop("functionGenerator") /\ Len(todo) = 2
        /\ Len(Tail(todo)) = 1
    <3>1. PICK o \in Speeds :
                /\ Head(todo) = Stop("functionGenerator") /\ Len(todo) = 2
                /\ \/ Tail(todo) = <<>> /\ Len(todo) = 1
                   \/ Len(Tail(todo)) = Len(todo) - 1
      BY <1>1, <1>3, <1>9, SineKinds, Kinds
    <3> QED BY <1>3, <1>9, <3>1, SineKinds
  <2>2. ~Running("functionGenerator") /\ AroundSine(SineOffset)
    BY <1>5, <2>1 DEF SineInv
  <2>3. SineOffset = prop.sine.offset /\ SineOffset' = prop.sine.offset
    BY <1>1, <2>1 DEF SineOffset, Done
  <2>4. c = "functionGenerator"
    BY <2>1, Kinds DEF c
  <2>5. ~Running("functionGenerator")' /\ ~begun'
    BY <1>1, <1>2, <1>3, <2>4 DEF Running
  <2>6. AroundSine(SineOffset)'
    BY <1>1, <2>2, <2>3, <2>5 DEF AroundSine, WithinSine, BeforeSine, MissedZero
  <2>7. SineInv'
    BY <2>5, <2>6 DEF SineInv
  <2> QED BY <1>7, <2>4, <2>7 DEF SmoothInv
<1>10. CASE SettingByHand
  <2>1. todo' # <<>> /\ Head(todo').do = "setCarouselSpeed"
    BY <1>1, <1>3, <1>10, HandKinds, Kinds DEF Done
  <2> QED BY <1>4, <2>1 DEF Doomed
<1> QED BY <1>1, <1>8, <1>9, <1>10 DEF ScriptInv

-----------------------------------------------------------------------------
LEMMA InitSmooth == Init => ScriptInv /\ SmoothInv
<1> SUFFICES ASSUME Init PROVE ScriptInv /\ SmoothInv
  OBVIOUS
<1>1. /\ todo = <<>> /\ ~begun /\ ~sent
      /\ \A c \in Writers : ~Running(c) /\ chan[c] = {}
      /\ Running("siemensActuators")
      /\ "functionGenerator" \in Writers /\ "rampGenerator" \in Writers
  BY DEF Init, Running, Writers, Components
<1>2. ScriptInv
  BY <1>1 DEF ScriptInv
<1>3. Near(drive, sample, Reach(faults))
  BY Constants, NearSelf, ReachType DEF Init
<1>4. SenderInv /\ WaitingInv /\ StoppedInv /\ SineInv
  BY <1>1, <1>3 DEF SenderInv, WaitingInv, StoppedInv, SineInv, SineBegins
<1> QED BY <1>2, <1>4 DEF SmoothInv

\* Every step keeps the invariant, and none that is smooth is a jump.
LEMMA NextSmooth ==
  ASSUME PROMPT, MaxFaults <= 1, IInv, IInv', ScriptInv, SmoothInv, [Next]_vars
  PROVE  SmoothInv' /\ (smooth' => Near(drive', drive, Reach(faults')))
<1>1. Near(drive, drive, Reach(faults'))
  <2>1. drive \in Int /\ faults' \in Nat
    BY Numbers, Constants DEF IInv, TypeOK
  <2> QED BY <2>1, NearSelf, ReachType
<1>2. CASE \E outcome \in Outcomes : updateHook(outcome) \/ setWinchSpeed(outcome)
  BY <1>2, SmoothHook, SmoothWinch
<1>3. CASE \E outcome \in Outcomes : DoSetCarouselSpeed(outcome)
  <2>1. ~smooth'
    BY <1>3 DEF DoSetCarouselSpeed
  <2> QED BY <2>1 DEF SmoothInv
<1>4. CASE \E s \in -1..1 : FunctionUpdate(s)
  <2>1. SmoothInv' /\ drive' = drive
    BY <1>4, SmoothFunction
  <2> QED BY <1>1, <2>1
<1>5. CASE RampUpdate \/ Sense
  <2>1. SmoothInv' /\ drive' = drive
    BY <1>5, SmoothRamp, SmoothSense
  <2> QED BY <1>1, <2>1
<1>6. CASE UNCHANGED vars
  <2>1. UNCHANGED <<task, prop, begun, chan, due, current, drive, faults, sample, sent,
                    todo, smooth>>
    BY <1>6 DEF vars, generatorVars, senderVars, historyVars
  <2> QED BY <1>1, <2>1, SmoothKept
<1>7. CASE SetProperty \/ StartComponent \/ StopComponent \/ WaitTillRampIsDone
  <2>1. SmoothInv' /\ drive' = drive
    BY <1>7, SmoothSet, SmoothStart, SmoothStop, SmoothWait
  <2> QED BY <1>1, <2>1
<1>8. CASE \/ \E v \in Targets : Call(ramp_with(v), FALSE)
           \/ \E v \in HandSpeeds : Call(set_carousel_speed(v), FALSE)
           \/ Call(sin_around_current_setpoint, Running("functionGenerator"))
  <2>1. SmoothInv' /\ drive' = drive
    BY <1>8, SmoothCall
  <2> QED BY <1>1, <2>1
<1> QED BY <1>2, <1>3, <1>4, <1>5, <1>6, <1>7, <1>8 DEF Next

\* Near is about the distance.
LEMMA NearIsAbs ==
  ASSUME NEW x \in Int, NEW y \in Int, NEW n \in Int, Near(x, y, n)
  PROVE  Abs(x - y) <= n
BY DEF Near, Abs

\* "avoid jumps" (experiment_helpers.lua): with prompt threads and one command at
\* most that is not sent or lost, no sequence of ramps, sines and winch operations
\* tells the drive to jump farther than the sine is wide, or after that fault its
\* amplitude more, although a sine may begin from an old report.  A sine begun
\* while another one runs, a winch operation before any command, and speeds set by
\* hand, until all is quiet, are left out as jumps that are asked for.
THEOREM NoJumps == PROMPT /\ MaxFaults <= 1 => (Spec => NoJump)
<1> SUFFICES ASSUME PROMPT, MaxFaults <= 1 PROVE Spec => NoJump
  OBVIOUS
<1>1. Init => IInv /\ ScriptInv /\ SmoothInv
  BY InitInv, InitSmooth
<1>2. IInv /\ ScriptInv /\ SmoothInv /\ [Next]_vars => (IInv /\ ScriptInv /\ SmoothInv)'
  BY NextInv, NextScript, NextSmooth
<1>3. IInv /\ IInv' /\ ScriptInv /\ SmoothInv /\ [Next]_vars =>
        [smooth' => Abs(drive' - drive) <= Reach(faults')]_<<drive, smooth>>
  <2> SUFFICES ASSUME IInv, IInv', ScriptInv, SmoothInv, [Next]_vars, smooth'
               PROVE  Abs(drive' - drive) <= Reach(faults')
    OBVIOUS
  <2>1. Near(drive', drive, Reach(faults'))
    BY NextSmooth
  <2>2. drive \in Int /\ drive' \in Int /\ Reach(faults') \in Int
    <3>1. faults' \in Nat
      BY Constants DEF IInv, TypeOK
    <3> QED BY <3>1, Numbers, Constants, ReachType DEF IInv, TypeOK
  <2> QED BY <2>1, <2>2, NearIsAbs
<1> QED BY <1>1, <1>2, <1>3, NextInv, PTL DEF Spec, NoJump
=============================================================================
