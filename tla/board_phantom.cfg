\* a win settled before midnight, counted after it
SPECIFICATION FairSpec
CONSTANTS
  Users = {1, 2}
  Wins = {w1, w2}
  w1 = w1
  w2 = w2
  i1 = i1
  Past = {}
  Winner <- MCWinner
  Amount <- MCAmount
  Home <- MCHome
  ProcessId <- MCProcessId
  Instances = {i1}
  PeriodTypes = {"daily"}
  Scheduled = {"daily"}
  DaysPerWeek = 2
  FirstWeekday = 1
  LastDay = 1
  MaxTop = 2
  RowsPerRead = 2
  MaxFaults = 0
  None = None
CHECK_DEADLOCK FALSE
PROPERTIES
  AnyDriftIsRepaired
