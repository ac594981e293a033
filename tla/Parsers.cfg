CONSTANTS
    Bufsiz = 5
    MaxFile = 5
SPECIFICATION Spec
\* every file and every frame ends in a state with no successor
CHECK_DEADLOCK FALSE
INVARIANT TypeOK ReadAsReference CheckedAsSent SameOrderAccepted
