SPECIFICATION RoomSpec
INVARIANT RoomExplained
CONSTANTS
  Windows = {w1, w2}  MaxSockets = 2  MaxJoins = 2  MaxRoomMishaps = 1
CHECK_DEADLOCK FALSE
