---------------------------- MODULE MCSpeedRamp ----------------------------
EXTENDS SpeedRamp

\* Ramps to both ends of the limit and to rest, with steps that do and do not
\* divide the way and steps below the threshold; one beyond the limit.
MCRequests == {[targetSpeed |-> 5, stepheight |-> 1],
               [targetSpeed |-> -4, stepheight |-> 3],
               [targetSpeed |-> 0, stepheight |-> 2],
               [targetSpeed |-> 6, stepheight |-> 1]}

\* The ones the generator does not refuse.
MCPossible == {r \in MCRequests : Abs(r.targetSpeed) <= Softlimit}

\* At rest, or left turning backwards.
MCInitSpeeds == {-5, 0}
=============================================================================
