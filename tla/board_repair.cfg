\* one instance, two boards, a week of two days; the weekly board is reconciled
SPECIFICATION MCFairSpec
CONSTANTS
  Users = {1, 2}
  Wins = {w1, w2, w3}
  w1 = w1
  w2 = w2
  i1 = i1
  w3 = w3
  Past = {w2, w3}
  Winner <- MCWinner
  Amount <- MCAmount
  Home <- MCHome
  ProcessId <- MCProcessId
  Instances = {i1}
  PeriodTypes = {"daily", "weekly"}
  Scheduled = {"weekly"}
  DaysPerWeek = 2
  FirstWeekday = 1
  LastDay = 1
  MaxTop = 2
  RowsPerRead = 2
  MaxFaults = 2
  None = None
CHECK_DEADLOCK FALSE
INVARIANTS
  CachedPlayersAreDurable
PROPERTIES
  ScoresSelfRepair
  ReadsSelfRepair
