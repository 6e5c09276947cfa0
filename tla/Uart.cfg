CONSTANTS
    Base = 16
    START = 9
    Bodies <- MCBodies
    Stamps <- MCStamps
    StampSize = 2
    MaxFrames = 3
    MaxFaults = 1
SPECIFICATION FairUartSpec
INVARIANTS UartTypeOK StampedIsDecodable
PROPERTIES ImplementsLossyLine CleanFramesArrive
CHECK_DEADLOCK FALSE
