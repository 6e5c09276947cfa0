CONSTANTS
    Programs = {"main_server", "main_line_angle", "LineAngleSensor2", "ArmboneLisaSensors"}
    MaxSent = 4
    QueueSize = 3
SPECIFICATION Spec
INVARIANT LastTwoKept
PROPERTY OneBehind
CHECK_DEADLOCK FALSE
