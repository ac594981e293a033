CONSTANTS
    MaxFd = 9
    RetryIval = 2
    CfgIval = 3
    Builds = {TRUE}
SPECIFICATION Spec
INVARIANT NoLeakedDescriptors
