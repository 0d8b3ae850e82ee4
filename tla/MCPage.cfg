SPECIFICATION FairPageSpec
CONSTANTS
    None = None
    Poller = poller
    Callers = {c1, c2}
    PlayCallers = {c1}
    MaxSessions = 2
    MaxCalls = 4
PROPERTIES
    CallsHeeded
    PageFollows
