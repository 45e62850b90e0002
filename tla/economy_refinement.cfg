\* two accounts sharing a key, one connection fewer than requests
SPECIFICATION Spec
CONSTANTS
  Users = {u1, u2}
  Reqs = {r1, r2, r3}
  Keys = {k1}
  NoKey = NoKey
  None = None
  Opening <- MCOpening
  Bets = {2}
  MinBet = 1
  MaxBet = 5
  Payouts = {0, 3}
  MaxPayout = 3
  MaxAttempts = 1
  PoolSize = 2
  AdminStatuses = {}
SYMMETRY MCSymmetry
CHECK_DEADLOCK FALSE
INVARIANTS
  AnswersAreTrue
PROPERTIES
  ImplementsEconomy
