SPECIFICATION Spec
CONSTANTS
    m0 = m0
    m1 = m1
    m2 = m2
    Messages = {m0, m1, m2}
    Texts = {"spent", "saved"}
    room = room
    Rooms = {room}
    None = None
    Earlier = {m0}
    Window = 3
    MaxToolRounds = 2
    MaxCalls = 1
    MaxFaults = 0
INVARIANT SessionContinues
