SPECIFICATION Spec
CONSTANTS
    Names = {"a", "b", "c"}
    Phases <- MCPhases
    MaxActiveTasks = 2
    MaxLag = 1
INVARIANTS
    LimitUpToUnseen
PROPERTIES
    RoomNoticed
