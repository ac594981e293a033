CONSTANTS
    none = none
    NoOne <- none
    SignalTargets <- MainThread
SPECIFICATION Spec
CHECK_DEADLOCK FALSE
PROPERTY ShutdownCompletes
