CONSTANTS
    CBSIZE = 2
    LISA = TRUE
    PROMPT = TRUE
    MaxMessages = 10
SPECIFICATION FairSpec
INVARIANTS LogInOrder OneLossPerBuffer
PROPERTY SwappedIsLogged
CHECK_DEADLOCK FALSE
