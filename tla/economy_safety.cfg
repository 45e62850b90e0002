\* one account, three concurrent requests over two connections
SPECIFICATION Spec
CONSTANTS
  Users = {u1}
  Reqs = {r1, r2, r3}
  Keys = {k1}
  NoKey = NoKey
  None = None
  Opening <- MCOpening
  Bets = {2, 9}
  MinBet = 1
  MaxBet = 5
  Payouts = {0, 3, 20}
  MaxPayout = 10
  MaxAttempts = 2
  PoolSize = 2
  AdminStatuses = {"ACTIVE", "SUSPENDED"}
SYMMETRY MCSymmetry
CHECK_DEADLOCK FALSE
INVARIANTS
  TypeOK
  BalanceChain
  LocksProtectReads
  LedgerMatchesSessions
  OneSessionPerKey
  AnswersAreTrue
  BalancesReportedExisted
  BoardNeverOvercounts
  NoWaitCycle
  NothingLeaks
  DuplicateIsResolvable
PROPERTIES
  SuspendedIsFrozen
  SettledIsFinal
