SPECIFICATION FairSessionSpec
CONSTANTS
    None = None
    Sessions = {s1, s2}
    PlayCallers = {p, q}
    UserCallers = {u}
    SlowSteps <- MCSlowSteps
    MaxCalls = 2
PROPERTIES
    CallsReturn
