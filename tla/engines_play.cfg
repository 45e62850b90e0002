\* all engines, small boards
SPECIFICATION Spec
CONSTANTS
  Games <- AllGames
  Chambers = {2, 6, 8}
  Tiles = {2, 3, 7}
  Options = {2, 3, 5, 6, 11}
  CrashPoints <- MCCrashPoints
  Ranks = {2, 3, 4, 5}
  Copies = 2
  Stakes = {1, 7, 20}
CHECK_DEADLOCK FALSE
INVARIANTS
  TypeOK
  HouseKeepsItsEdge
  PlayersGetFairOdds
  OpenGamesCanMove
  
