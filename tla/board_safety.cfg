\* two instances, the all-time board; a win after another one is counted
SPECIFICATION MCSpec
CONSTANTS
  Users = {1, 2}
  Wins = {w1, w2}
  w1 = w1
  w2 = w2
  i1 = i1
  Past = {w2}
  i2 = i2
  Winner <- MCWinner
  Amount <- MCAmount
  Home <- MCHome
  ProcessId <- MCProcessId
  Instances = {i1, i2}
  PeriodTypes = {"global"}
  Scheduled = {"global"}
  DaysPerWeek = 2
  FirstWeekday = 1
  LastDay = 0
  MaxTop = 2
  RowsPerRead = 1
  MaxFaults = 2
  None = None
CHECK_DEADLOCK FALSE
INVARIANTS
  TypeOK
  DriftIsBounded
  RowLocksAreReleased
  RanksMatchListing
PROPERTIES
  ListedPlayersStayRanked
  RebuildsAreWhole
