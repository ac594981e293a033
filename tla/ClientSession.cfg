CONSTANTS
    MaxFd = 8
    RetryIval = 2
    CfgIval = 3
    Builds = {TRUE, FALSE}
SPECIFICATION Spec
INVARIANT TypeOK
PROPERTY UnicastTgrAnswered
