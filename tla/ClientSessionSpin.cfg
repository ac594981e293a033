CONSTANTS
    MaxFd = 9
    RetryIval = 2
    CfgIval = 3
    Builds = {FALSE}
SPECIFICATION Spec

PROPERTY SilentClientReRegisters
