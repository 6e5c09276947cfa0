CONSTANTS
    CBSIZE = 2
    LISA = FALSE
    PROMPT = FALSE
    MaxMessages = 10
SPECIFICATION Spec
INVARIANTS ReadNonEmpty NeverOverwrites EveryMessageOnce
