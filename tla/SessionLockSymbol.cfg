\* A workspace symbol request and a writer.
SPECIFICATION FairSpec
CONSTANTS
    Symbols = {s1}
    Readers = {}
    Writers = {w1}
    Free = Free
PROPERTY HandlersReturn
CHECK_DEADLOCK FALSE
