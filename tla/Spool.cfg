CONSTANTS
    MaxRows = 3
    MaxStarts = 2
    MaxFaults = 1
SPECIFICATION Spec
INVARIANT TypeOK FinalDrainFlushes
PROPERTY Refines
