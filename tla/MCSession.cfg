SPECIFICATION FairSessionSpec
CONSTANTS
    None = None
    Sessions = {s1, s2}
    PlayCallers = {p}
    UserCallers = {u}
    SlowSteps <- MCSlowSteps
    MaxCalls = 3
INVARIANTS
    SessionTypeOK
    ProxyOwn
    LeavesNothing
PROPERTIES
    AnswerSound
    StopEnds
