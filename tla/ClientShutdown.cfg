CONSTANTS
    none = none
    NoOne <- none
    SignalTargets <- AnyThread
SPECIFICATION Spec
CHECK_DEADLOCK FALSE
INVARIANT TypeOK
PROPERTY CleanSignalExits
