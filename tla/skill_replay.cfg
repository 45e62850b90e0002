\* the same instance, for a submission that is repeated
SPECIFICATION Spec
CONSTANTS
  SkillSessions = {s1, s2}
  s1 = s1
  s2 = s2
  u1 = u1
  u2 = u2
  CourseLength = 3
  TickTime = 1
  LowBytes <- MCLowBytes
  TicksPerPoint = 2
  Vowels = {"a"}
  RawLetters <- MCRawLetters
  RawVowels <- MCRawVowels
  Dictionary <- MCDictionary
  MinVowels = 1
  MinWordLength = 2
  MaxWords = 4
  WordTime = 1
  LettersPerPoint = 2
  Users = {u1, u2}
  Reqs = {r1, r2}
  None = None
  Sessions = {b1}
  Keys = {}
  NoKey = NoKey
  Opening <- MCOpening
  Bets = {1}
  MinBet = 1
  MaxBet = 1
  MaxPayout = 1
  Starts <- MCStarts
  Bodies <- MCBodies
  MaxScore = 5
  MaxReward = 1
  SubmitWindow = 2
  MaxStartWait = 0
  Instants = {2, 3}
  MaxAttempts = 2
  AdminChanges <- MCAdminChanges
SYMMETRY MCSymmetry
CHECK_DEADLOCK FALSE
INVARIANTS
  ReplayKeepsVerdict
