\* a balance that covers one bet, and two requests with the same key
SPECIFICATION Spec
CONSTANTS
  Users = {u1}
  Reqs = {r1, r2}
  Keys = {k1}
  NoKey = NoKey
  None = None
  Opening <- MCOpening
  Bets = {2}
  MinBet = 1
  MaxBet = 5
  Payouts = {0, 3}
  MaxPayout = 10
  MaxAttempts = 2
  PoolSize = 2
  AdminStatuses = {"ACTIVE", "SUSPENDED"}
CHECK_DEADLOCK FALSE
PROPERTIES
  DuplicateIsNotRefused
