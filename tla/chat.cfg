SPECIFICATION FairSpec
CONSTANTS
    m0 = m0
    m1 = m1
    m2 = m2
    Messages = {m0, m1, m2}
    Texts = {"spent", "saved"}
    Rooms = {}
    None = None
    Earlier = {m0}
    Window = 3
    MaxToolRounds = 2
    MaxCalls = 1
    MaxFaults = 1
INVARIANTS QuestionAskedOnce RecentTurnsSeen CallsAnswered
PROPERTY EveryMessageEnds
