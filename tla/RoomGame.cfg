SPECIFICATION RoomGameSpec
CONSTANTS
    Players = {p1, p2, p3, p4}
    Creator = p1
    Capacity = 3
    Tables <- MCTables
    MaxAttempts = 3
    MaxCrashes = 1
INVARIANTS TypeOK PhasesTypeOK PayersWentOn StartedStaysPaid PageFiveMeansGame ArmedUntilStarted
    ResultHasWinner KeepsGoing SeatsKeptToTheEnd ClockMeansStartedRoom
PROPERTIES KeepsPromise KeepsCourse EndsWithResult EveryRoomEnds
CHECK_DEADLOCK FALSE
