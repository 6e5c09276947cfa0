----------------------------- MODULE Estimator -----------------------------
(***************************************************************************)
(* The moving horizon estimator and the model predictive controller        *)
(* (components/main/DynamicMhe/DynamicMhe.cpp, DynamicMpc/DynamicMpc.cpp)  *)
(* without their numerics: the window of measurements with its weights,    *)
(* into which late measurements are put at the instant they belong to, the *)
(* counting of failures, and what the controller makes of an estimate.     *)
(*                                                                         *)
(* A measurement is its age in sampling periods.  Position k of the arrays *)
(* y and W is k, of yN and WN it is N.  The cable length comes late by     *)
(* dbg_winch_delay periods, the markers by dbg_cam_delay.                  *)
(***************************************************************************)
EXTENDS Integers

CONSTANTS N,             \* the horizon
          MaxOverruns,   \* bound on the periods an update takes too long
          Grace          \* updates of the controller that may be late: 5

ASSUME EstimatorAssumption ==
    /\ N \in Nat \ {0}
    /\ MaxOverruns \in Nat
    /\ Grace \in Nat \ {0}

VARIABLES
    mhe, runCnt, numOfFailures,   \* the estimator's state and counters
    y, W,                         \* its window: measurements and weights
    execY,                        \* the measurements prepared last
    delay,                        \* dbg_winch_delay and dbg_cam_delay
    estimate,                     \* port stateEstimate: the flag ready
    mpc, mpcCnt,                  \* the controller's state and counter
    triggered,                    \* its updateHook is due
    controls,                     \* port controls
    overruns, lost                \* history: periods without an update, and
                                  \* those since the window began to fill

mheVars == <<mhe, runCnt, numOfFailures, y, W, execY, delay>>
mpcVars == <<mpc, mpcCnt, controls>>
vars == <<mheVars, estimate, mpcVars, triggered, overruns, lost>>

MAX_NUM_FAILURES == 2 * N

None == -1
Position == 0..N
Kinds == {"cable", "markers"}

\* One instant of the window: the measurements of each period, and the late
\* ones.  None stands for the zero that is there without a measurement.
Instant == [t : {None} \cup Nat, cable : {None} \cup Nat,
            markers : {None} \cup Nat]
Empty == [t |-> None, cable |-> None, markers |-> None]
NoWeights == [k \in Position |-> [cable |-> FALSE, markers |-> FALSE]]

\* What a late measurement may be: nothing new, or of a certain age; a picture
\* may show no markers.  A picture takes at least one period.
Cable == {None} \cup 0..N
Picture == [age : {None}, seen : {FALSE}] \cup [age : 1..N, seen : BOOLEAN]

TypeOK ==
    /\ mhe \in {"Stopped", "Running"}
    /\ runCnt \in 0..N /\ numOfFailures \in 0..MAX_NUM_FAILURES + 1
    /\ y \in [Position -> Instant]
    /\ W \in [Position -> [Kinds -> BOOLEAN]]
    /\ execY \in {None} \cup Nat
    /\ delay \in [Kinds -> 0..N]
    /\ estimate \in BOOLEAN
    /\ mpc \in {"Stopped", "Running"} /\ mpcCnt \in 0..Grace + 1
    /\ triggered \in BOOLEAN
    /\ controls \in {"neutral", "derivative"}
    /\ overruns \in 0..MaxOverruns /\ lost \in Nat

\* The flag of the first sample on the port is not initialised.
Init ==
    /\ mhe = "Stopped" /\ runCnt = 0 /\ numOfFailures = 0
    /\ y = [k \in Position |-> Empty] /\ W = NoWeights
    /\ execY = None /\ delay = [kind \in Kinds |-> 0]
    /\ estimate \in BOOLEAN
    /\ mpc = "Stopped" /\ mpcCnt = 0 /\ controls = "neutral"
    /\ triggered = FALSE
    /\ overruns = 0 /\ lost = 0

-----------------------------------------------------------------------------
(* The estimator                                                           *)

MheStart ==
    /\ mhe = "Stopped" /\ mhe' = "Running"
    /\ y' = [k \in Position |-> Empty] /\ W' = NoWeights
    /\ execY' = None
    /\ runCnt' = 0 /\ numOfFailures' = 0
    /\ lost' = 0
    /\ UNCHANGED <<delay, estimate, mpcVars, triggered, overruns>>

MheStop ==
    /\ mhe = "Running" /\ mhe' = "Stopped"
    /\ UNCHANGED <<runCnt, numOfFailures, y, W, execY, delay, estimate, mpcVars,
                   triggered, overruns, lost>>

Aged(age) == IF age = None THEN None ELSE age + 1
AgedWindow(w) == [k \in Position |-> [f \in DOMAIN Empty |-> Aged(w[k][f])]]

\* A period passes: the window as updateHook finds it.
Window == [y |-> AgedWindow(y), W |-> W]

Put(w, k, kind, age, weight) ==
    [y |-> [w.y EXCEPT ![k][kind] = age], W |-> [w.W EXCEPT ![k][kind] = weight]]

\* Fault: a late measurement is put where the window will be after its shift.
PutLateShifted(w, at, kind, age, weight) ==
    IF at - delay'[kind] - 1 < 0 THEN w
    ELSE Put(w, at - delay'[kind] - 1, kind, age, weight)

\* A late measurement, if its place is still in the window.
PutLate(w, at, kind, age, weight) ==
    IF at - delay'[kind] < 0 THEN w
    ELSE Put(w, at - delay'[kind], kind, age, weight)

PutPicture(w, at, p) ==
    IF p.age = None THEN w
    ELSE PutLate(w, at, "markers", IF p.seen THEN p.age ELSE None, p.seen)

PutCable(w, at, c) == PutLate(w, at, "cable", c, c # None)

\* execY and execYN have zeros for what comes late.
PutDefaults(w, at) == [w EXCEPT !.y[at] = [Empty EXCEPT !.t = execY']]

\* While the window fills, and afterwards, when the newest measurements are
\* yN and the weight of the cable length in WN is set for this time only.
Fill(p, c) == PutCable(PutPicture(PutDefaults(Window, runCnt), runCnt, p),
                       runCnt, c)
Embed(p, c) ==
    LET w == PutPicture(PutDefaults(Window, N), N, p)
    IN  IF delay'["cable"] > 0
        THEN PutCable([w EXCEPT !.W[N].cable = FALSE], N, c)
        ELSE PutCable(w, N, c)

\* Fault: the weights stay where they are.
ShiftMeasurementsOnly(w) ==
    [w EXCEPT !.y = [k \in Position |-> IF k < N THEN w.y[k + 1] ELSE w.y[k]]]

\* yN and WN are copied to the last place of y and W.
Shift(w) ==
    [y |-> [k \in Position |-> IF k < N THEN w.y[k + 1] ELSE w.y[k]],
     W |-> [k \in Position |-> IF k < N THEN w.W[k + 1] ELSE w.W[k]]]

\* prepareMeasurements: without IMU or line angle samples the late measurements
\* have been read, and are used if updateHook goes on, but not their delays.
prepareMeasurements(ok, p, c) ==
    /\ execY' = IF ok THEN 0 ELSE Aged(execY)
    /\ delay' = IF ok THEN [cable   |-> IF c = None THEN 0 ELSE c,
                            markers |-> IF p.age = None THEN 0 ELSE p.age]
                      ELSE delay

TooManyFailures == runCnt > 0 /\ numOfFailures + 1 > MAX_NUM_FAILURES

\* An update that prepares no measurements and leaves it at that.
MheSkip ==
    /\ mhe = "Running" /\ ~TooManyFailures
    /\ prepareMeasurements(FALSE, [age |-> None, seen |-> FALSE], None)
    /\ y' = Window.y
    /\ IF runCnt > 0
         THEN numOfFailures' = numOfFailures + 1 /\ lost' = lost + 1
         ELSE UNCHANGED <<numOfFailures, lost>>
    /\ UNCHANGED <<mhe, runCnt, W, estimate, mpcVars, triggered, overruns>>

\* An update, also the one after too many failures, which stops the component
\* and goes on with the measurements of an earlier period.
MheUpdate(ok, p, c, solved) ==
    /\ mhe = "Running"
    /\ ok \/ TooManyFailures
    /\ prepareMeasurements(ok, p, c)
    /\ IF runCnt < N
         THEN /\ \E w \in {Fill(p, c)} : y' = w.y /\ W' = w.W
              /\ runCnt' = runCnt + 1
              /\ mhe' = IF ok THEN "Running" ELSE "Stopped"
              /\ UNCHANGED <<estimate, triggered>>
         ELSE /\ \E w \in {Shift(Embed(p, c))} : y' = w.y /\ W' = w.W
              /\ mhe' = IF ok /\ solved THEN "Running" ELSE "Stopped"
              /\ estimate' = solved
              /\ triggered' = (mpc = "Running")
              /\ UNCHANGED runCnt
    /\ numOfFailures' = IF ok THEN numOfFailures ELSE numOfFailures + 1
    /\ UNCHANGED <<mpcVars, overruns, lost>>

\* A trigger comes while the last update is still running and is lost with it.
MheOverrun ==
    /\ mhe = "Running" /\ runCnt > 0 /\ overruns < MaxOverruns
    /\ y' = Window.y
    /\ execY' = Aged(execY)
    /\ overruns' = overruns + 1 /\ lost' = lost + 1
    /\ UNCHANGED <<mhe, runCnt, numOfFailures, W, delay, estimate, mpcVars,
                   triggered>>

-----------------------------------------------------------------------------
(* The controller                                                          *)

\* A component that starts runs its updateHook once.
MpcStart ==
    /\ mpc = "Stopped" /\ mpc' = "Running"
    /\ mpcCnt' = 0
    /\ triggered' = TRUE
    /\ UNCHANGED <<mheVars, estimate, controls, overruns, lost>>

\* stopHook, by the operator or called from updateHook.
MpcStops == /\ mpc' = "Stopped" /\ controls' = "neutral"

MpcStop ==
    /\ mpc = "Running"
    /\ MpcStops
    /\ triggered' = FALSE
    /\ UNCHANGED <<mheVars, estimate, mpcCnt, overruns, lost>>

\* Fault: the flag is looked at before the first solution only.
ReadyAtFirst == estimate \/ mpcCnt > 0

Ready == estimate

\* The controls of a solution, also of one that was cut short.
Solved(status) ==
    IF status \in {"ok", "max_nwsr"} THEN "derivative" ELSE "neutral"

\* feedbackStep ends with a status; an update that ends later than one sampling
\* period after the estimate's time stamp is late, which is forgiven at first.
\* runCnt is only compared, and counts no further than that.
MpcUpdate(status, late) ==
    /\ mpc = "Running" /\ triggered
    /\ triggered' = FALSE
    /\ mpcCnt' = IF mpcCnt <= Grace THEN mpcCnt + 1 ELSE mpcCnt
    /\ IF \/ ~Ready
          \/ mpcCnt > 0 /\ status \notin {"ok", "max_nwsr"}
          \/ late /\ mpcCnt' > Grace
         THEN MpcStops
         ELSE /\ controls' = IF mpcCnt = 0 THEN controls ELSE Solved(status)
              /\ UNCHANGED mpc
    /\ UNCHANGED <<mheVars, estimate, overruns, lost>>

-----------------------------------------------------------------------------
Next ==
    \/ MheStart \/ MheStop \/ MheSkip \/ MheOverrun
    \/ \E ok, solved \in BOOLEAN, p \in Picture, c \in Cable :
         MheUpdate(ok, p, c, solved)
    \/ MpcStart \/ MpcStop
    \/ \E status \in {"ok", "max_nwsr", "failed"}, late \in BOOLEAN :
         MpcUpdate(status, late)

Spec == Init /\ [][Next]_vars

\* The controller's thread runs when it is triggered.
MpcRuns == \E status \in {"ok", "max_nwsr", "failed"}, late \in BOOLEAN :
             MpcUpdate(status, late)
FairSpec == Spec /\ WF_vars(MpcRuns)

-----------------------------------------------------------------------------
(* Properties                                                              *)

\* A late measurement that counts was taken at the instant whose other
\* measurements it is put to, and whatever has a weight was measured.  Periods
\* without an update, which leave the window where it is, are the only thing
\* that may come between.
LateAreAligned ==
    mhe = "Running" =>
      \A k \in 0..N-1, kind \in Kinds :
        W[k][kind] => /\ y[k][kind] # None /\ y[k].t # None
                      /\ y[k].t - y[k][kind] \in 0..lost

\* Derivatives are on the port only while the controller runs and has solved its
\* problem, and they do not outlive the estimate: when the one on the port is
\* not ready, the update that will see it has been triggered already.
NeutralUnlessReady ==
    controls = "derivative" =>
        mpc = "Running" /\ mpcCnt > 1 /\ (estimate \/ triggered)

\* An estimator that stops because its problem could not be solved takes the
\* controls back to neutral, unless it is started again first.
FailureNeutralises ==
    (mhe = "Stopped" /\ ~estimate) ~> (controls = "neutral" \/ mhe = "Running")

\* "Abort if MHE is not ready!": nor does the controller go on without an
\* estimator that stopped because too many measurements failed.  The code breaks
\* this, the last estimate is said to be ready (README, section 4).
AbortsWithMhe ==
    (mhe = "Stopped" /\ numOfFailures > MAX_NUM_FAILURES)
        ~> (controls = "neutral" \/ mhe = "Running")
=============================================================================
