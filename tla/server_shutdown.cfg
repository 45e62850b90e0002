\* two requests and a leaderboard job share two connections, and a shutdown
SPECIFICATION FairServerSpec
CONSTANTS
  Users = {u1}
  Reqs = {r1, r2}
  Keys = {k1}
  NoKey = NoKey
  None = None
  Opening <- MCOpening
  Bets = {2}
  MinBet = 1
  MaxBet = 5
  Payouts = {0, 3}
  MaxPayout = 10
  MaxAttempts = 3
  PoolSize = 2
  AdminStatuses = {"ACTIVE"}
CHECK_DEADLOCK FALSE
INVARIANTS
  ClientsAreServedFirst
PROPERTIES
  
  ShutdownEnds
