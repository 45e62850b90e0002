\* one instance: the first pipeline is lost, the next one is not
SPECIFICATION Spec
CONSTANTS
  Users = {1, 2}
  Wins = {w1, w2}
  w1 = w1
  w2 = w2
  i1 = i1
  Past = {}
  Winner <- MCWinner
  Amount <- MCAmount
  Home <- MCHome
  ProcessId <- MCProcessId
  Instances = {i1}
  PeriodTypes = {"global"}
  Scheduled = {"global"}
  DaysPerWeek = 2
  FirstWeekday = 1
  LastDay = 0
  MaxTop = 2
  RowsPerRead = 2
  MaxFaults = 1
  None = None
CHECK_DEADLOCK FALSE
INVARIANTS
  ColdBoardFallsBack
