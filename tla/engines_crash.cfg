\* the crash game
SPECIFICATION Spec
CONSTANTS
  Games = {"crash"}
  Chambers = {2, 6, 7}
  Tiles = {2, 3, 6}
  Options = {2, 3, 5, 6, 11}
  CrashPoints <- MCCrashPoints
  Ranks = {2, 3, 4, 5}
  Copies = 2
  Stakes = {1, 7, 20}
CHECK_DEADLOCK FALSE
INVARIANTS
  CrashKeepsItsEdge
