SPECIFICATION FairSpec
CONSTANTS
    c1 = c1
    Callers = {c1}
    Turns = 2
    MayOrphan = 2
INVARIANTS
    ReplyIsOwn
PROPERTIES
    SettledSurvives
    EveryCallEnds
    SavedUnderTraffic
