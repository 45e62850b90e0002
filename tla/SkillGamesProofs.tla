-------------------------- MODULE SkillGamesProofs --------------------------
(* The skill endpoints for every number of players, sessions and submissions: *)
(* types and locks first, then what each transaction has read and still      *)
(* holds, then the refinement of SkillEconomy, from which the properties of   *)
(* the tables follow, and last what the engines compute.                      *)
EXTENDS SkillGames, SkillEnginesProofs

Writing == {"judge", "lockUser", "credit", "insertReward", "mark", "highScore",
            "highScoreUser"}
OutsideTx == {"idle", "connect", "lockSession", "backoff", "done"}

\* The row of the session is locked by r and belongs to its user.
HasSession(r) ==
  LET s == req[r].sess IN
  runLock[s] = r /\ runs[s] # None /\ runs[s].user = req[r].user
\* The row of the user is locked by r, which found the account active.
HasAccount(r) == userX[req[r].user] = r /\ status[req[r].user] = "ACTIVE"
\* The outcome the engine returned and the service accepted.
IsJudged(o) == /\ o.score <= MaxScore /\ o.reward <= MaxReward
               /\ o.valid = FALSE => o.score = 0 /\ o.reward = 0
IsUnpaid(r) == tx[r].credit = 0 /\ tx[r].entry = None
IsCredited(r) ==
  LET reward == tx[r].outcome.reward IN
  /\ HasAccount(r)
  /\ tx[r].credit = reward
  /\ tx[r].entry = Money!Entry("SKILL_REWARD", req[r].sess, reward,
                               balance[req[r].user] + reward)
IsRewarded(r) == IF tx[r].outcome.reward = 0 THEN IsUnpaid(r) ELSE IsCredited(r)
Unwritten(r) == tx[r].row = None /\ tx[r].highScore = FALSE
IsWritten(r) == /\ tx[r].row = Submitted(runs[req[r].sess], tx[r].outcome)
                /\ resp[r] = AnswerOf(r)

Replays(r) == /\ tx[r] = EmptyTx
              /\ runs[req[r].sess].status = "SUBMITTED"
              /\ resp[r] = ReplayOf(runs[req[r].sess])
Finishes(r) ==
  /\ runs[req[r].sess].status = "STARTED"
  /\ IsJudged(tx[r].outcome) /\ IsRewarded(r) /\ IsWritten(r)
  /\ tx[r].highScore = (tx[r].outcome.score > 0)

\* What r knows at each of its statements.
Knows(r) ==
  /\ pc[r] # "idle" => req[r] \in Bodies
  /\ pc[r] \in OutsideTx => tx[r] = EmptyTx
  /\ pc[r] = "rollback" => resp[r] \in Response /\ resp[r].code # "OK"
  /\ pc[r] \in Writing => HasSession(r) /\ runs[req[r].sess].status = "STARTED"
  /\ pc[r] = "judge" =>
       IsUnpaid(r) /\ Unwritten(r) /\ tx[r].elapsed <= SubmitWindow
  /\ pc[r] \in {"lockUser", "credit", "insertReward"} =>
       /\ IsJudged(tx[r].outcome) /\ tx[r].outcome.reward > 0
       /\ Unwritten(r) /\ tx[r].entry = None
  /\ pc[r] \in {"lockUser", "credit"} => tx[r].credit = 0
  /\ pc[r] \in {"credit", "insertReward"} =>
       HasAccount(r) /\ tx[r].seen = balance[req[r].user]
  /\ pc[r] = "insertReward" => tx[r].credit = tx[r].outcome.reward
  /\ pc[r] = "mark" => IsJudged(tx[r].outcome) /\ IsRewarded(r) /\ Unwritten(r)
  /\ pc[r] \in {"highScore", "highScoreUser"} =>
       /\ IsJudged(tx[r].outcome) /\ IsRewarded(r) /\ IsWritten(r)
       /\ tx[r].outcome.score > 0
       /\ tx[r].highScore = (pc[r] = "highScoreUser")
  /\ pc[r] = "commit" => HasSession(r) /\ (Replays(r) \/ Finishes(r))

\* A session starts in the past, and without a score.
StartedRows ==
  \A s \in SkillSessions :
    /\ issuedAt[s] <= clock
    /\ runs[s] # None /\ runs[s].status = "STARTED" =>
         runs[s].score = None /\ runs[s].reward = None

Inv == TypeOK /\ StartedRows /\ \A r \in Reqs : Knows(r)

---------------------------------------------------------------------------
LEMMA InitInv == Init => Inv
<1> SUFFICES ASSUME Init PROVE Inv
  OBVIOUS
<1>1. EmptyTx \in Tx
  BY DEF EmptyTx, Tx, NoOutcome, Rejected, Outcome
<1>2. TypeOK
  BY <1>1, SkillAssumption DEF Init, Money!Init, TypeOK, Labels
<1>3. StartedRows
  BY DEF Init, StartedRows
<1>4. ASSUME NEW r \in Reqs PROVE Knows(r)
  BY DEF Init, Knows, OutsideTx, Writing
<1> QED BY <1>2, <1>3, <1>4 DEF Inv

\* Whatever the others do, r keeps what it knows while they respect its locks.
LEMMA Undisturbed ==
  ASSUME NEW r \in Reqs, Knows(r),
         pc'[r] = pc[r], req'[r] = req[r], tx'[r] = tx[r], resp'[r] = resp[r],
         \A u \in Users : userX[u] = r =>
           userX'[u] = r /\ balance'[u] = balance[u] /\ status'[u] = status[u],
         \A s \in SkillSessions : runLock[s] = r /\ runs[s] # None =>
           runLock'[s] = r /\ runs'[s] = runs[s]
  PROVE  Knows(r)'
<1>1. pc[r] # "idle" => req[r].user \in Users /\ req[r].sess \in SkillSessions
  BY SkillAssumption DEF Knows
<1>2. pc[r] # "idle" /\ HasSession(r) => HasSession(r)' /\ runs'[req[r].sess] = runs[req[r].sess]
  BY <1>1 DEF HasSession
<1>3. pc[r] # "idle" /\ HasAccount(r) => HasAccount(r)' /\ balance'[req[r].user] = balance[req[r].user]
  BY <1>1 DEF HasAccount
<1>4. pc[r] # "idle" /\ IsRewarded(r) => IsRewarded(r)'
  BY <1>3 DEF IsRewarded, IsUnpaid, IsCredited, Money!Entry
<1>5. IsJudged(tx[r].outcome) => IsJudged(tx[r].outcome)'
  BY DEF IsJudged
<1>6. IsUnpaid(r)' = IsUnpaid(r) /\ Unwritten(r)' = Unwritten(r)
  BY DEF IsUnpaid, Unwritten
<1>7. pc[r] # "idle" /\ HasSession(r) /\ IsWritten(r) => IsWritten(r)'
  BY <1>2 DEF IsWritten, Submitted, AnswerOf
<1>8. pc[r] # "idle" /\ HasSession(r) /\ Replays(r) => Replays(r)'
  BY <1>2 DEF Replays, ReplayOf
<1>9. pc[r] # "idle" /\ HasSession(r) /\ Finishes(r) => Finishes(r)'
  BY <1>2, <1>4, <1>5, <1>7 DEF Finishes
<1>10. pc[r] \in Writing => pc[r] # "idle"
  BY DEF Writing
<1>11. pc[r] \in {"lockUser", "credit", "insertReward", "mark", "highScore", "highScoreUser"} => pc[r] \in Writing
  BY DEF Writing
<1> QED BY <1>2, <1>3, <1>4, <1>5, <1>6, <1>7, <1>8, <1>9, <1>10, <1>11, SMTT(60) DEF Knows

\* A statement of r that leaves the tables alone: it moves r, and takes or
\* gives back locks of r only.
LEMMA OwnStep ==
  ASSUME Inv, NEW r \in Reqs, NEW l \in Labels \ {"idle"}, Goto(r, l),
         NEW t \in Tx, tx' = [tx EXCEPT ![r] = t],
         NEW a \in Response \cup {None}, resp' = [resp EXCEPT ![r] = a],
         UNCHANGED <<tables, clock, req>>, attempt' \in [Reqs -> Nat \ {0}],
         userX' \in [Users -> Reqs \cup {None}],
         runLock' \in [SkillSessions -> Reqs \cup {None}],
         userS' \in [Users -> SUBSET Reqs],
         bestLock' \in [SkillGameKeys -> [Users -> Reqs \cup {None}]],
         \A u \in Users : userX[u] \notin {None, r} => userX'[u] = userX[u],
         \A s \in SkillSessions : runLock[s] \notin {None, r} => runLock'[s] = runLock[s],
         Knows(r)'
  PROVE  Inv'
<1>1. TypeOK'
  BY DEF Inv, TypeOK, Goto, tables
<1>2. StartedRows'
  BY DEF Inv, StartedRows, tables
<1>3. ASSUME NEW q \in Reqs, q # r PROVE Knows(q)'
  <2>1. pc'[q] = pc[q] /\ req'[q] = req[q] /\ tx'[q] = tx[q] /\ resp'[q] = resp[q]
    BY <1>3 DEF Inv, TypeOK, Goto
  <2>2. q # None
    BY AbsentAssumption
  <2> QED BY <1>3, <2>1, <2>2, Undisturbed DEF Inv, tables
<1> QED BY <1>1, <1>2, <1>3 DEF Inv

\* What the statements of r have in common before they run.
LEMMA Local ==
  ASSUME Inv, NEW r \in Reqs
  PROVE  /\ TypeOK /\ Knows(r) /\ r # None
         /\ tx[r] \in Tx /\ resp[r] \in Response \cup {None}
         /\ tx = [tx EXCEPT ![r] = tx[r]]
         /\ resp = [resp EXCEPT ![r] = resp[r]]
         /\ pc[r] # "idle" => /\ req[r] \in Bodies /\ req[r].user \in Users
                              /\ req[r].sess \in SkillSessions
                              /\ balance[req[r].user] \in Int
BY SkillAssumption, AbsentAssumption DEF Inv, TypeOK, Knows

\* An error: the transaction is left for the rollback.
LEMMA ThrowKeeps ==
  ASSUME Inv, NEW r \in Reqs, pc[r] # "idle",
         NEW c \in {"Refused", "Retryable"}, Throw(r, c),
         UNCHANGED <<tables, clock, req, tx, attempt>>,
         userX' \in [Users -> Reqs \cup {None}],
         runLock' \in [SkillSessions -> Reqs \cup {None}],
         userS' \in [Users -> SUBSET Reqs],
         bestLock' \in [SkillGameKeys -> [Users -> Reqs \cup {None}]],
         \A u \in Users : userX[u] \notin {None, r} => userX'[u] = userX[u],
         \A s \in SkillSessions : runLock[s] \notin {None, r} => runLock'[s] = runLock[s]
  PROVE  Inv'
<1>1. Refusal(c) \in Response /\ Refusal(c).code # "OK"
  BY DEF Refusal, Response, Codes
<1>2. pc'[r] = "rollback" /\ req'[r] = req[r] /\ resp'[r] = Refusal(c)
  BY Local DEF Throw, Goto, Answer, TypeOK
<1>3. Knows(r)'
  BY <1>1, <1>2, Local DEF Knows, OutsideTx, Writing
<1>4. "rollback" \in Labels \ {"idle"}
  BY DEF Labels, InTx
<1>5. tx' = [tx EXCEPT ![r] = tx[r]] /\ attempt' \in [Reqs -> Nat \ {0}]
  BY Local DEF TypeOK
<1> QED BY <1>1, <1>3, <1>4, <1>5, Local, OwnStep DEF Throw, Answer

LEMMA FailuresKeep ==
  ASSUME Inv, NEW r \in Reqs,
         DeadlockVictim(r) \/ LockWaitTimeout(r) \/ StatementFails(r)
  PROVE  Inv'
<1>1. PICK c \in {"Refused", "Retryable"} : Throw(r, c)
  BY DEF DeadlockVictim, LockWaitTimeout, StatementFails
<1>2. pc[r] # "idle"
  <2>1. CASE pc[r] \in InTx
    BY <2>1 DEF InTx
  <2>2. CASE WaitsFor(r) # {}
    BY <2>2 DEF WaitsFor
  <2>3. CASE \E S \in SUBSET Reqs : r \in S /\ Deadlocked(S)
    <3>1. WaitsFor(r) # {}
      BY <2>3 DEF Deadlocked
    <3> QED BY <2>2, <3>1
  <2> QED BY <2>1, <2>2, <2>3 DEF DeadlockVictim, LockWaitTimeout, StatementFails
<1>3. UNCHANGED <<tables, clock, locks, req, tx, attempt>>
  BY DEF DeadlockVictim, LockWaitTimeout, StatementFails
<1>4. UNCHANGED <<userX, userS, runLock, bestLock>>
  BY <1>3 DEF locks
<1>5. /\ userX' \in [Users -> Reqs \cup {None}]
      /\ runLock' \in [SkillSessions -> Reqs \cup {None}]
      /\ userS' \in [Users -> SUBSET Reqs]
      /\ bestLock' \in [SkillGameKeys -> [Users -> Reqs \cup {None}]]
  BY <1>4, Local DEF TypeOK
<1> QED BY <1>1, <1>2, <1>3, <1>4, <1>5, ThrowKeeps

LEMMA SubmitKeeps ==
  ASSUME Inv, NEW r \in Reqs, Submit(r)
  PROVE  Inv'
<1>1. PICK body \in Bodies : req' = [req EXCEPT ![r] = body]
  BY DEF Submit
<1>2. /\ pc[r] = "idle" /\ pc' = [pc EXCEPT ![r] = "connect"]
      /\ UNCHANGED <<tables, clock, locks, tx, attempt, resp>>
  BY DEF Submit, Goto
<1>3. TypeOK'
  BY <1>1, <1>2 DEF Inv, TypeOK, tables, locks, Labels
<1>4. StartedRows'
  BY <1>2 DEF Inv, StartedRows, tables
<1>5. Knows(r)'
  BY <1>1, <1>2 DEF Inv, TypeOK, Knows, OutsideTx, Writing
<1>6. ASSUME NEW q \in Reqs, q # r PROVE Knows(q)'
  <2>1. pc'[q] = pc[q] /\ req'[q] = req[q] /\ tx'[q] = tx[q] /\ resp'[q] = resp[q]
    BY <1>1, <1>2, <1>6 DEF Inv, TypeOK
  <2> QED BY <1>2, <2>1, Undisturbed DEF Inv, tables, locks
<1> QED BY <1>3, <1>4, <1>5, <1>6 DEF Inv

LEMMA EmptyTxType == EmptyTx \in Tx
BY DEF EmptyTx, Tx, NoOutcome, Rejected, Outcome

LEMMA ConnectKeeps ==
  ASSUME Inv, NEW r \in Reqs, Connect(r)
  PROVE  Inv'
<1>1. /\ pc[r] = "connect" /\ tx' = [tx EXCEPT ![r] = EmptyTx] /\ Goto(r, "lockSession")
      /\ UNCHANGED <<tables, clock, locks, req, attempt, resp>>
  BY DEF Connect
<1>2. pc'[r] = "lockSession" /\ tx'[r] = EmptyTx /\ req'[r] = req[r]
  BY <1>1, Local DEF Goto, TypeOK
<1>3. Knows(r)'
  BY <1>1, <1>2, Local DEF Knows, OutsideTx, Writing
<1>4. "lockSession" \in Labels \ {"idle"}
  BY DEF Labels, InTx
<1> QED BY <1>1, <1>3, <1>4, Local, EmptyTxType, OwnStep DEF TypeOK, locks

LEMMA LockSessionKeeps ==
  ASSUME Inv, NEW r \in Reqs, LockSession(r)
  PROVE  Inv'
<1> DEFINE q == req[r]
           row == runs[q.sess]
           elapsed == clock - issuedAt[q.sess]
<1>1. /\ pc[r] = "lockSession" /\ tx[r] = EmptyTx
      /\ UNCHANGED <<tables, clock, userX, userS, bestLock, req, attempt>>
  BY Local DEF LockSession, Knows, OutsideTx
<1>2. /\ q \in Bodies /\ q.sess \in SkillSessions /\ q.user \in Users
      /\ row \in Run \cup {None} /\ elapsed \in Nat
  BY <1>1, Local DEF TypeOK, Inv, StartedRows
<1>3. \/ UNCHANGED runLock
      \/ runLock[q.sess] \in {None, r} /\ runLock' = [runLock EXCEPT ![q.sess] = r]
  BY DEF LockSession
<1>4. /\ runLock' \in [SkillSessions -> Reqs \cup {None}]
      /\ \A s \in SkillSessions : runLock[s] \notin {None, r} => runLock'[s] = runLock[s]
      /\ userX' \in [Users -> Reqs \cup {None}]
      /\ userS' \in [Users -> SUBSET Reqs]
      /\ bestLock' \in [SkillGameKeys -> [Users -> Reqs \cup {None}]]
      /\ attempt' \in [Reqs -> Nat \ {0}]
      /\ \A u \in Users : userX[u] \notin {None, r} => userX'[u] = userX[u]
  <2>1. runLock \in [SkillSessions -> Reqs \cup {None}]
    BY Local DEF TypeOK
  <2>2. /\ runLock' \in [SkillSessions -> Reqs \cup {None}]
        /\ \A s \in SkillSessions : runLock[s] \notin {None, r} => runLock'[s] = runLock[s]
    BY <1>3, <2>1
  <2> QED BY <1>1, <2>2, Local DEF TypeOK
<1>5. CASE Throw(r, "Refused") /\ UNCHANGED tx
  BY <1>1, <1>4, <1>5, ThrowKeeps
<1>6. CASE /\ row # None /\ runLock' = [runLock EXCEPT ![q.sess] = r]
           /\ row.user = q.user /\ row.status = "SUBMITTED"
           /\ Answer(r, ReplayOf(row)) /\ Goto(r, "commit") /\ UNCHANGED tx
  <2>1. row \in Run /\ row.score \in Nat /\ row.reward \in Nat
    BY <1>2, <1>6, Local DEF TypeOK
  <2>2. ReplayOf(row) \in Response
    BY <2>1 DEF ReplayOf, Response, Codes
  <2>3. /\ pc'[r] = "commit" /\ resp'[r] = ReplayOf(row) /\ tx'[r] = EmptyTx
        /\ req'[r] = q /\ runs' = runs /\ runLock'[q.sess] = r
    BY <1>1, <1>2, <1>6, Local DEF Goto, Answer, TypeOK, tables
  <2>4. HasSession(r)' /\ Replays(r)'
    BY <2>3, <1>6 DEF HasSession, Replays, ReplayOf
  <2>5. Knows(r)'
    BY <1>2, <2>3, <2>4 DEF Knows, OutsideTx, Writing
  <2>6. "commit" \in Labels \ {"idle"} /\ tx' = [tx EXCEPT ![r] = tx[r]]
    BY <1>6, Local DEF Labels, InTx
  <2> QED BY <1>1, <1>4, <1>6, <2>2, <2>5, <2>6, Local, OwnStep DEF Answer
<1>7. CASE /\ row # None /\ runLock' = [runLock EXCEPT ![q.sess] = r]
           /\ row.user = q.user /\ row.status = "STARTED"
           /\ elapsed <= SubmitWindow
           /\ tx' = [tx EXCEPT ![r].elapsed = elapsed]
           /\ Goto(r, "judge") /\ UNCHANGED resp
  <2> DEFINE t == [tx[r] EXCEPT !.elapsed = elapsed]
  <2>0. ASSUME NEW e \in Nat PROVE [tx[r] EXCEPT !.elapsed = e] \in Tx
    BY Local DEF Tx
  <2>7. Goto(r, "judge") /\ UNCHANGED resp
    BY <1>7
  <2>1. t \in Tx /\ tx' = [tx EXCEPT ![r] = t]
    BY <1>2, <1>7, <2>0, Local DEF TypeOK
  <2>2. /\ t.credit = 0 /\ t.entry = None /\ t.row = None /\ t.highScore = FALSE
        /\ t.elapsed = elapsed
    BY <1>1, EmptyTxType DEF EmptyTx, Tx
  <2>3. /\ pc'[r] = "judge" /\ tx'[r] = t /\ req'[r] = q /\ runs' = runs
        /\ runLock'[q.sess] = r
    BY <1>1, <1>2, <1>7, <2>1, Local DEF Goto, TypeOK, tables
  <2>4. HasSession(r)' /\ runs'[req'[r].sess].status = "STARTED"
        /\ IsUnpaid(r)' /\ Unwritten(r)' /\ tx'[r].elapsed <= SubmitWindow
    BY <1>7, <2>2, <2>3 DEF HasSession, IsUnpaid, Unwritten
  <2>5. Knows(r)'
    BY <1>2, <2>3, <2>4 DEF Knows, OutsideTx, Writing
  <2>6. "judge" \in Labels \ {"idle"}
    BY DEF Labels, InTx
  <2> HIDE DEF t
  <2> QED BY <1>1, <1>4, <2>1, <2>5, <2>6, <2>7, Local, OwnStep
<1> QED BY <1>5, <1>6, <1>7 DEF LockSession

\* What the sanitizers let through is an outcome, and an invalid one is empty.
LEMMA OutcomeType ==
  ASSUME NEW g, NEW s, NEW submission, NEW e, IsSane(validate(g, s, submission, e))
  PROVE  /\ validate(g, s, submission, e) \in Outcome
         /\ validate(g, s, submission, e).reward <= MaxReward
         /\ validate(g, s, submission, e).valid = FALSE =>
              /\ validate(g, s, submission, e).score = 0
              /\ validate(g, s, submission, e).reward = 0
<1> DEFINE course == simulateRun(deriveCourse(s),
                       {submission.value[i] : i \in DOMAIN submission.value})
           words == TotalLength(CountingWords(submission.value, Rack(s)))
<1>1. ValidateRun(s, submission, e) \in {Rejected, Accepted(course, TicksPerPoint)}
  BY DEF ValidateRun
<1>2. ValidateWords(s, submission, e) \in {Rejected, Accepted(words, LettersPerPoint)}
  BY DEF ValidateWords
<1> HIDE DEF course, words
<1>3. PICK o : o = validate(g, s, submission, e)
  OBVIOUS
<1>4. o.score \in Nat /\ o.reward \in Nat /\ o.reward <= MaxReward
  BY <1>3, SkillAssumption DEF IsSane
<1>5. CASE o = Rejected
  BY <1>3, <1>4, <1>5 DEF Rejected, Outcome
<1>6. ASSUME NEW score, NEW points, o = Accepted(score, points)
      PROVE  o \in Outcome /\ o.valid = TRUE
  <2>1. PICK reward : reward = score \div points
    OBVIOUS
  <2>2. o = [valid |-> TRUE, score |-> score, reward |-> reward]
    BY <1>6, <2>1 DEF Accepted
  <2> QED BY <1>4, <2>2 DEF Outcome
<1>7. o = Rejected \/ o = Accepted(course, TicksPerPoint) \/ o = Accepted(words, LettersPerPoint)
  BY <1>1, <1>2, <1>3 DEF validate
<1>8. o = Rejected \/ (o \in Outcome /\ o.valid = TRUE)
  BY <1>6, <1>7
<1> QED BY <1>3, <1>4, <1>5, <1>8

LEMMA JudgeKeeps ==
  ASSUME Inv, NEW r \in Reqs, Judge(r)
  PROVE  Inv'
<1> DEFINE q == req[r]
           g == runs[q.sess].game
           e == tx[r].elapsed
<1>0. PICK o : o = validate(g, q.sess, q.submission, e)
  OBVIOUS
<1>1. /\ pc[r] = "judge" /\ UNCHANGED <<tables, clock, locks, req, attempt>>
      /\ q \in Bodies /\ q.sess \in SkillSessions /\ q.user \in Users
      /\ HasSession(r) /\ runs[q.sess].status = "STARTED"
      /\ IsUnpaid(r) /\ Unwritten(r) /\ tx[r].elapsed <= SubmitWindow
  BY Local DEF Judge, Knows, Writing
<1>2. UNCHANGED <<userX, userS, runLock, bestLock>> /\ UNCHANGED runs
  BY <1>1 DEF locks, tables
<1>3. /\ userX' \in [Users -> Reqs \cup {None}]
      /\ runLock' \in [SkillSessions -> Reqs \cup {None}]
      /\ userS' \in [Users -> SUBSET Reqs]
      /\ bestLock' \in [SkillGameKeys -> [Users -> Reqs \cup {None}]]
      /\ attempt' \in [Reqs -> Nat \ {0}]
  BY <1>1, <1>2, Local DEF TypeOK
<1>6. \/ Throw(r, "Refused") /\ UNCHANGED tx
      \/ /\ IsSane(o)
         /\ tx' = [tx EXCEPT ![r].outcome = o, ![r].elapsed = 0]
         /\ Goto(r, IF o.reward > 0 THEN "lockUser" ELSE "mark")
         /\ UNCHANGED resp
  BY <1>0 DEF Judge
<1>4. CASE Throw(r, "Refused") /\ UNCHANGED tx
  BY <1>1, <1>2, <1>3, <1>4, ThrowKeeps
<1>5. CASE /\ IsSane(o)
           /\ tx' = [tx EXCEPT ![r].outcome = o, ![r].elapsed = 0]
           /\ Goto(r, IF o.reward > 0 THEN "lockUser" ELSE "mark")
           /\ UNCHANGED resp
  <2>1. o \in Outcome /\ o.reward <= MaxReward /\ (o.valid = FALSE => o.score = 0 /\ o.reward = 0)
    <3>1. IsSane(validate(g, q.sess, q.submission, e))
      BY <1>0, <1>5
    <3> HIDE DEF q, g, e
    <3> QED BY <1>0, <3>1, OutcomeType
  <2>2. o.score <= MaxScore
    <3>1. g \in SkillGameKeys
      BY <1>1, Local DEF HasSession, TypeOK, Run
    <3>2. e \in 0 .. SubmitWindow
      BY <1>1, Local, SkillAssumption DEF Tx
    <3>3. q \in Bodies
      BY <1>1
    <3> HIDE DEF q, g, e
    <3> QED BY <1>0, <3>1, <3>2, <3>3, ScoreAssumption
  <2>3. IsJudged(o) /\ o.reward \in Nat
    BY <2>1, <2>2 DEF IsJudged, Outcome
  <2> DEFINE t == [tx[r] EXCEPT !.outcome = o, !.elapsed = 0]
  <2>5. t \in Tx
    <3>1. o \in Outcome
      BY <2>1
    <3>2. [tx[r] EXCEPT !.outcome = o] \in Tx
      BY <3>1, Local DEF Tx
    <3> QED BY <3>2 DEF Tx
  <2>6. tx' = [tx EXCEPT ![r] = t]
    BY <1>5, Local DEF TypeOK
  <2>7. t.outcome = o /\ t.credit = 0 /\ t.entry = None /\ t.row = None /\ t.highScore = FALSE
    BY <1>1, Local DEF IsUnpaid, Unwritten, Tx
  <2> DEFINE l == IF o.reward > 0 THEN "lockUser" ELSE "mark"
  <2>8. Goto(r, l) /\ UNCHANGED resp /\ l \in {"lockUser", "mark"}
        /\ (l = "lockUser" => o.reward > 0) /\ (l = "mark" => o.reward = 0)
    <3>1. Goto(r, IF o.reward > 0 THEN "lockUser" ELSE "mark") /\ UNCHANGED resp
      BY <1>5
    <3>2. l \in {"lockUser", "mark"} /\ (l = "lockUser" => o.reward > 0)
          /\ (l = "mark" => o.reward = 0)
      BY <2>3
    <3>3. Goto(r, l)
      BY <3>1, Zenon
    <3> QED BY <3>1, <3>2, <3>3
  <2>9. IsJudged(o)
    BY <2>3
  <2> HIDE DEF t, l
  <2>10. pc'[r] = l /\ tx'[r] = t /\ req'[r] = q
    BY <1>1, <2>6, <2>8, Local DEF Goto, TypeOK
  <2>11. HasSession(r)' /\ runs'[req'[r].sess].status = "STARTED"
    BY <1>1, <1>2, <2>10 DEF HasSession
  <2>12. IsJudged(tx[r].outcome)' /\ Unwritten(r)' /\ IsUnpaid(r)'
         /\ (l = "mark" => IsRewarded(r)')
    BY <2>7, <2>8, <2>9, <2>10 DEF Unwritten, IsUnpaid, IsRewarded, IsJudged
  <2>13. Knows(r)'
    <3>1. IsUnpaid(r)' => tx'[r].credit = 0 /\ tx'[r].entry = None
      BY DEF IsUnpaid
    <3>2. q \in Bodies
      BY <1>1
    <3> HIDE DEF q
    <3> QED BY <2>7, <2>8, <2>10, <2>11, <2>12, <3>1, <3>2 DEF Knows, OutsideTx, Writing
  <2>14. l \in Labels \ {"idle"}
    BY <2>8 DEF Labels, InTx
  <2> QED BY <1>1, <1>2, <1>3, <2>5, <2>6, <2>8, <2>13, <2>14, Local, OwnStep
<1> QED BY <1>4, <1>5, <1>6

LEMMA LockUserKeeps ==
  ASSUME Inv, NEW r \in Reqs, LockUser(r)
  PROVE  Inv'
<1> DEFINE u == req[r].user
<1>1. /\ pc[r] = "lockUser" /\ UNCHANGED <<tables, clock, userS, runLock, bestLock, req, attempt>>
      /\ req[r] \in Bodies /\ req[r].sess \in SkillSessions /\ u \in Users
      /\ HasSession(r) /\ runs[req[r].sess].status = "STARTED"
      /\ IsJudged(tx[r].outcome) /\ tx[r].outcome.reward > 0
      /\ Unwritten(r) /\ tx[r].entry = None /\ tx[r].credit = 0
  BY Local DEF LockUser, Knows, Writing
<1>2. userX[u] \in {None, r} /\ userX' = [userX EXCEPT ![u] = r]
  BY DEF LockUser, LockUsersRow
<1>3. /\ userX' \in [Users -> Reqs \cup {None}] /\ userX'[u] = r
      /\ \A v \in Users : userX[v] \notin {None, r} => userX'[v] = userX[v]
  BY <1>1, <1>2, Local DEF TypeOK
<1>4. /\ runLock' \in [SkillSessions -> Reqs \cup {None}]
      /\ userS' \in [Users -> SUBSET Reqs]
      /\ bestLock' \in [SkillGameKeys -> [Users -> Reqs \cup {None}]]
      /\ attempt' \in [Reqs -> Nat \ {0}]
  BY <1>1, Local DEF TypeOK
<1>5. CASE Throw(r, "Refused") /\ UNCHANGED tx
  BY <1>1, <1>3, <1>4, <1>5, ThrowKeeps
<1>6. CASE /\ AccountActive(u) /\ tx' = [tx EXCEPT ![r].seen = balance[u]]
           /\ Goto(r, "credit") /\ UNCHANGED resp
  <2> DEFINE t == [tx[r] EXCEPT !.seen = balance[u]]
  <2>1. t \in Tx
    BY <1>1, Local DEF Tx
  <2>2. tx' = [tx EXCEPT ![r] = t]
    BY <1>6, Local DEF TypeOK
  <2>3. /\ t.seen = balance[u] /\ t.outcome = tx[r].outcome /\ t.credit = 0
        /\ t.entry = None /\ t.row = None /\ t.highScore = FALSE
    BY <1>1, Local DEF Unwritten, Tx
  <2> HIDE DEF t
  <2>4. /\ pc'[r] = "credit" /\ tx'[r] = t /\ req'[r] = req[r]
        /\ runs' = runs /\ balance' = balance /\ status' = status /\ runLock' = runLock
    BY <1>1, <1>6, <2>2, Local DEF Goto, TypeOK, tables
  <2>5. HasSession(r)' /\ runs'[req'[r].sess].status = "STARTED" /\ HasAccount(r)'
    BY <1>1, <1>3, <1>6, <2>4 DEF HasSession, HasAccount, AccountActive
  <2>6. IsJudged(tx[r].outcome)' /\ Unwritten(r)'
    BY <1>1, <2>3, <2>4 DEF IsJudged, Unwritten
  <2>7. Knows(r)'
    BY <1>1, <2>3, <2>4, <2>5, <2>6 DEF Knows, OutsideTx, Writing
  <2>8. "credit" \in Labels \ {"idle"}
    BY DEF Labels, InTx
  <2> QED BY <1>1, <1>3, <1>4, <1>6, <2>1, <2>2, <2>7, <2>8, Local, OwnStep
<1> QED BY <1>5, <1>6 DEF LockUser

LEMMA CreditKeeps ==
  ASSUME Inv, NEW r \in Reqs, Credit(r)
  PROVE  Inv'
<1>1. /\ pc[r] = "credit" /\ UNCHANGED <<tables, clock, locks, req, attempt, resp>>
      /\ req[r] \in Bodies
      /\ HasSession(r) /\ runs[req[r].sess].status = "STARTED"
      /\ IsJudged(tx[r].outcome) /\ tx[r].outcome.reward > 0
      /\ Unwritten(r) /\ tx[r].entry = None
      /\ HasAccount(r) /\ tx[r].seen = balance[req[r].user]
  BY Local DEF Credit, Knows, Writing
<1>2. UNCHANGED <<userX, userS, runLock, bestLock, runs, balance, status>>
  BY <1>1 DEF locks, tables
<1> DEFINE t == [tx[r] EXCEPT !.credit = tx[r].outcome.reward]
<1>3. t \in Tx
  BY Local DEF Tx, Outcome
<1>4. tx' = [tx EXCEPT ![r] = t] /\ Goto(r, "insertReward")
  BY Local DEF TypeOK, Credit
<1>5. /\ t.seen = tx[r].seen /\ t.outcome = tx[r].outcome /\ t.credit = t.outcome.reward
      /\ t.entry = tx[r].entry /\ t.row = tx[r].row /\ t.highScore = tx[r].highScore
  BY Local DEF Tx
<1> HIDE DEF t
<1>6. pc'[r] = "insertReward" /\ tx'[r] = t /\ req'[r] = req[r]
  BY <1>1, <1>4, Local DEF Goto, TypeOK
<1>7. HasSession(r)' /\ runs'[req'[r].sess].status = "STARTED" /\ HasAccount(r)'
  BY <1>1, <1>2, <1>6 DEF HasSession, HasAccount
<1>8. IsJudged(tx[r].outcome)' /\ Unwritten(r)'
  BY <1>1, <1>5, <1>6 DEF IsJudged, Unwritten
<1>9. Knows(r)'
  BY <1>1, <1>2, <1>5, <1>6, <1>7, <1>8 DEF Knows, OutsideTx, Writing
<1>10. "insertReward" \in Labels \ {"idle"}
  BY DEF Labels, InTx
<1>11. /\ userX' \in [Users -> Reqs \cup {None}]
       /\ runLock' \in [SkillSessions -> Reqs \cup {None}]
       /\ userS' \in [Users -> SUBSET Reqs]
       /\ bestLock' \in [SkillGameKeys -> [Users -> Reqs \cup {None}]]
       /\ attempt' \in [Reqs -> Nat \ {0}]
  BY <1>1, <1>2, Local DEF TypeOK
<1> QED BY <1>1, <1>2, <1>3, <1>4, <1>9, <1>10, <1>11, Local, OwnStep

LEMMA InsertRewardKeeps ==
  ASSUME Inv, NEW r \in Reqs, InsertReward(r)
  PROVE  Inv'
<1> DEFINE reward == tx[r].outcome.reward
           u == req[r].user
<1>1. /\ pc[r] = "insertReward" /\ UNCHANGED <<tables, clock, locks, req, attempt, resp>>
      /\ req[r] \in Bodies /\ req[r].sess \in SkillSessions /\ balance[u] \in Int
      /\ HasSession(r) /\ runs[req[r].sess].status = "STARTED"
      /\ IsJudged(tx[r].outcome) /\ reward > 0
      /\ Unwritten(r) /\ tx[r].credit = reward
      /\ HasAccount(r) /\ tx[r].seen = balance[u]
  BY Local DEF InsertReward, Knows, Writing
<1>2. UNCHANGED <<userX, userS, runLock, bestLock, runs, balance, status>>
  BY <1>1 DEF locks, tables
<1>3. PICK e : e = Money!Entry("SKILL_REWARD", req[r].sess, reward, balance[u] + reward)
  OBVIOUS
<1>4. e \in Entry /\ reward \in Nat
  <2>1. reward \in Nat
    BY Local DEF Tx, Outcome
  <2> QED BY <1>1, <1>3, <2>1 DEF Entry, Money!Entry
<1> DEFINE t == [tx[r] EXCEPT !.seen = 0, !.entry = e]
<1>5. t \in Tx
  <2>1. e \in Entry
    BY <1>4
  <2>2. [tx[r] EXCEPT !.seen = 0] \in Tx
    BY Local DEF Tx
  <2> QED BY <2>1, <2>2 DEF Tx
<1>6. tx' = [tx EXCEPT ![r] = t] /\ Goto(r, "mark")
  <2>1. tx' = [tx EXCEPT ![r].seen = 0, ![r].entry = e] /\ Goto(r, "mark")
    BY <1>1, <1>3 DEF InsertReward
  <2> QED BY <2>1, Local DEF TypeOK
<1>7. /\ t.outcome = tx[r].outcome /\ t.credit = reward
      /\ t.entry = e /\ t.row = tx[r].row /\ t.highScore = tx[r].highScore
  BY <1>1, Local DEF Tx
<1> HIDE DEF t
<1>8. pc'[r] = "mark" /\ tx'[r] = t /\ req'[r] = req[r]
  BY <1>1, <1>6, Local DEF Goto, TypeOK
<1>9. HasSession(r)' /\ runs'[req'[r].sess].status = "STARTED" /\ HasAccount(r)'
  BY <1>1, <1>2, <1>8 DEF HasSession, HasAccount
<1>10. IsJudged(tx[r].outcome)' /\ Unwritten(r)'
  BY <1>1, <1>7, <1>8 DEF IsJudged, Unwritten
<1>11. IsRewarded(r)'
  <2>1. IsCredited(r)'
    BY <1>2, <1>3, <1>7, <1>8, <1>9 DEF IsCredited, Money!Entry
  <2>2. tx'[r].outcome.reward # 0
    BY <1>1, <1>4, <1>7, <1>8
  <2> QED BY <2>1, <2>2 DEF IsRewarded
<1>12. Knows(r)'
  <2>1. req[r] \in Bodies
    BY <1>1
  <2> QED BY <1>8, <1>9, <1>10, <1>11, <2>1 DEF Knows, OutsideTx, Writing
<1>13. "mark" \in Labels \ {"idle"}
  BY DEF Labels, InTx
<1>14. /\ userX' \in [Users -> Reqs \cup {None}]
       /\ runLock' \in [SkillSessions -> Reqs \cup {None}]
       /\ userS' \in [Users -> SUBSET Reqs]
       /\ bestLock' \in [SkillGameKeys -> [Users -> Reqs \cup {None}]]
       /\ attempt' \in [Reqs -> Nat \ {0}]
  BY <1>1, <1>2, Local DEF TypeOK
<1> QED BY <1>1, <1>2, <1>5, <1>6, <1>12, <1>13, <1>14, Local, OwnStep

LEMMA MarkKeeps ==
  ASSUME Inv, NEW r \in Reqs, Mark(r)
  PROVE  Inv'
<1>0. PICK o : o = tx[r].outcome
  OBVIOUS
<1>1. PICK row : row = runs[req[r].sess]
  OBVIOUS
<1>2. /\ pc[r] = "mark" /\ UNCHANGED <<tables, clock, locks, req, attempt>>
      /\ req[r] \in Bodies /\ req[r].sess \in SkillSessions
      /\ HasSession(r) /\ row.status = "STARTED"
      /\ IsJudged(o) /\ IsRewarded(r) /\ Unwritten(r)
  BY <1>0, <1>1, Local DEF Mark, Knows, Writing
<1>3. /\ UNCHANGED <<userX, userS, runLock, bestLock, runs, balance, status>>
  BY <1>2 DEF locks, tables
<1>4. o \in Outcome /\ row \in Run
  BY <1>0, <1>1, <1>2, Local DEF Tx, TypeOK, HasSession
<1>5. /\ tx' = [tx EXCEPT ![r].row = Submitted(row, o)]
      /\ Answer(r, AnswerOf(r))
      /\ Goto(r, IF o.valid /\ o.score > 0 THEN "highScore" ELSE "commit")
  BY <1>0, <1>1, <1>2 DEF Mark
<1>6. PICK done : done = Submitted(row, o)
  OBVIOUS
<1>7. done \in Run
  BY <1>4, <1>6 DEF Submitted, Run, Outcome
<1> DEFINE t == [tx[r] EXCEPT !.row = done]
<1>8. t \in Tx
  BY <1>7, Local DEF Tx
<1>9. tx' = [tx EXCEPT ![r] = t]
  BY <1>5, <1>6, Local DEF TypeOK
<1>10. /\ t.outcome = o /\ t.credit = tx[r].credit /\ t.entry = tx[r].entry
       /\ t.row = done /\ t.highScore = FALSE
  BY <1>0, <1>2, Local DEF Tx, Unwritten
<1> HIDE DEF t
<1>11. PICK l : l = IF o.valid /\ o.score > 0 THEN "highScore" ELSE "commit"
  OBVIOUS
<1>12. Goto(r, l)
  BY <1>5, <1>11
<1>13. pc'[r] = l /\ tx'[r] = t /\ req'[r] = req[r]
  BY <1>2, <1>9, <1>12, Local DEF Goto, TypeOK
<1>14. AnswerOf(r) \in Response
  BY <1>0, <1>4 DEF AnswerOf, Response, Outcome, Codes
<1>15. resp'[r] = AnswerOf(r)
  BY <1>5, Local DEF Answer, TypeOK
<1>16. HasSession(r)' /\ runs'[req'[r].sess].status = "STARTED"
  BY <1>1, <1>2, <1>3, <1>13 DEF HasSession
<1>17. IsJudged(tx[r].outcome)' /\ IsRewarded(r)' /\ IsWritten(r)'
  <2>1. IsJudged(tx[r].outcome)'
    BY <1>2, <1>10, <1>13 DEF IsJudged
  <2>2. IsRewarded(r)'
    BY <1>0, <1>2, <1>3, <1>10, <1>13
       DEF IsRewarded, IsCredited, IsUnpaid, HasAccount, Money!Entry
  <2>3. IsWritten(r)'
    BY <1>0, <1>1, <1>3, <1>6, <1>10, <1>13, <1>15 DEF IsWritten, AnswerOf, Submitted
  <2> QED BY <2>1, <2>2, <2>3
<1>18. o.valid \in BOOLEAN /\ o.score \in Nat /\ (o.valid = FALSE => o.score = 0)
  BY <1>2, <1>4 DEF Outcome, IsJudged
<1>19. ASSUME l = "highScore" PROVE Knows(r)' /\ l \in Labels \ {"idle"}
  <2>1. o.score > 0
    BY <1>11, <1>19
  <2>2. Knows(r)'
    BY <1>2, <1>10, <1>13, <1>16, <1>17, <1>19, <2>1 DEF Knows, OutsideTx, Writing
  <2>3. l \in Labels \ {"idle"}
    BY <1>19 DEF Labels, InTx
  <2> QED BY <2>2, <2>3
<1>20. ASSUME l = "commit" PROVE Knows(r)' /\ l \in Labels \ {"idle"}
  <2>1. ~(o.score > 0)
    <3>1. CASE o.valid = FALSE
      BY <1>18, <3>1
    <3>2. CASE o.valid = TRUE
      BY <1>11, <1>20, <3>2
    <3> QED BY <1>18, <3>1, <3>2
  <2>2. tx'[r].highScore = (tx'[r].outcome.score > 0)
    <3>1. tx'[r].highScore = FALSE /\ tx'[r].outcome.score = o.score
      BY <1>10, <1>13
    <3>2. (o.score > 0) = FALSE
      BY <1>18, <2>1
    <3> QED BY <3>1, <3>2, Zenon
  <2>3. Finishes(r)'
    BY <1>16, <1>17, <2>2 DEF Finishes
  <2>4. Knows(r)'
    BY <1>2, <1>13, <1>16, <1>20, <2>3 DEF Knows, OutsideTx, Writing
  <2>5. l \in Labels \ {"idle"}
    BY <1>20 DEF Labels, InTx
  <2> QED BY <2>4, <2>5
<1>21. Knows(r)' /\ l \in Labels \ {"idle"}
  BY <1>11, <1>19, <1>20
<1>22. /\ userX' \in [Users -> Reqs \cup {None}]
       /\ runLock' \in [SkillSessions -> Reqs \cup {None}]
       /\ userS' \in [Users -> SUBSET Reqs]
       /\ bestLock' \in [SkillGameKeys -> [Users -> Reqs \cup {None}]]
       /\ attempt' \in [Reqs -> Nat \ {0}]
  BY <1>2, <1>3, Local DEF TypeOK
<1> QED BY <1>2, <1>3, <1>5, <1>8, <1>9, <1>12, <1>14, <1>21, <1>22, OwnStep DEF Answer

LEMMA HighScoreKeeps ==
  ASSUME Inv, NEW r \in Reqs, HighScore(r)
  PROVE  Inv'
<1>1. PICK g : g = runs[req[r].sess].game
  OBVIOUS
<1>2. /\ pc[r] = "highScore"
      /\ UNCHANGED <<tables, clock, userX, userS, runLock, req, attempt, resp>>
      /\ req[r] \in Bodies /\ req[r].sess \in SkillSessions /\ req[r].user \in Users
      /\ HasSession(r) /\ runs[req[r].sess].status = "STARTED"
      /\ IsJudged(tx[r].outcome) /\ IsRewarded(r) /\ IsWritten(r)
      /\ tx[r].outcome.score > 0
  BY Local DEF HighScore, Knows, Writing
<1>3. UNCHANGED <<runs, balance, status>>
  BY <1>2 DEF tables
<1>4. bestLock' = [bestLock EXCEPT ![g][req[r].user] = r]
  BY <1>1 DEF HighScore
<1>5. bestLock' \in [SkillGameKeys -> [Users -> Reqs \cup {None}]]
  BY <1>2, <1>4, Local DEF TypeOK
<1> DEFINE t == [tx[r] EXCEPT !.highScore = TRUE]
<1>6. t \in Tx
  BY Local DEF Tx
<1>7. tx' = [tx EXCEPT ![r] = t]
  BY Local DEF HighScore, TypeOK
<1>8. /\ t.outcome = tx[r].outcome /\ t.credit = tx[r].credit /\ t.entry = tx[r].entry
      /\ t.row = tx[r].row /\ t.highScore = TRUE
  BY Local DEF Tx
<1> HIDE DEF t
<1>9. PICK l \in {"highScoreUser", "commit"} : Goto(r, l)
  BY DEF HighScore
<1>10. pc'[r] = l /\ tx'[r] = t /\ req'[r] = req[r] /\ resp'[r] = resp[r]
  BY <1>2, <1>7, <1>9, Local DEF Goto, TypeOK
<1>11. HasSession(r)' /\ runs'[req'[r].sess].status = "STARTED"
  BY <1>2, <1>3, <1>10 DEF HasSession
<1>12. IsJudged(tx[r].outcome)' /\ IsRewarded(r)' /\ IsWritten(r)'
  <2>1. IsJudged(tx[r].outcome)'
    BY <1>2, <1>8, <1>10 DEF IsJudged
  <2>2. IsRewarded(r)'
    BY <1>2, <1>3, <1>8, <1>10
       DEF IsRewarded, IsCredited, IsUnpaid, HasAccount, Money!Entry
  <2>3. IsWritten(r)'
    BY <1>2, <1>3, <1>8, <1>10 DEF IsWritten, AnswerOf, Submitted
  <2> QED BY <2>1, <2>2, <2>3
<1>13. tx'[r].outcome.score > 0 /\ tx'[r].highScore = TRUE
  BY <1>2, <1>8, <1>10
<1>14. Finishes(r)'
  BY <1>11, <1>12, <1>13 DEF Finishes
<1>15. Knows(r)'
  BY <1>2, <1>9, <1>10, <1>11, <1>12, <1>13, <1>14 DEF Knows, OutsideTx, Writing
<1>16. l \in Labels \ {"idle"}
  BY <1>9 DEF Labels, InTx
<1>17. /\ userX' \in [Users -> Reqs \cup {None}]
       /\ runLock' \in [SkillSessions -> Reqs \cup {None}]
       /\ userS' \in [Users -> SUBSET Reqs]
       /\ attempt' \in [Reqs -> Nat \ {0}]
  BY <1>2, Local DEF TypeOK
<1> QED BY <1>2, <1>5, <1>6, <1>7, <1>9, <1>15, <1>16, <1>17, Local, OwnStep

LEMMA HighScoreUserKeeps ==
  ASSUME Inv, NEW r \in Reqs, HighScoreUser(r)
  PROVE  Inv'
<1>1. /\ pc[r] = "highScoreUser" /\ Goto(r, "commit")
      /\ UNCHANGED <<tables, clock, userX, runLock, bestLock, req, tx, attempt, resp>>
      /\ req[r] \in Bodies /\ req[r].user \in Users
      /\ HasSession(r) /\ runs[req[r].sess].status = "STARTED"
      /\ IsJudged(tx[r].outcome) /\ IsRewarded(r) /\ IsWritten(r)
      /\ tx[r].outcome.score > 0 /\ tx[r].highScore = TRUE
  BY Local DEF HighScoreUser, Knows, Writing
<1>2. UNCHANGED <<runs, balance, status>>
  BY <1>1 DEF tables
<1>3. userS' \in [Users -> SUBSET Reqs]
  BY <1>1, Local DEF HighScoreUser, TypeOK
<1>4. pc'[r] = "commit"
  BY <1>1, Local DEF Goto, TypeOK
<1>5. Finishes(r) /\ HasSession(r)
  BY <1>1 DEF Finishes
<1>6. Finishes(r)' /\ HasSession(r)'
  BY <1>1, <1>2, <1>5 DEF Finishes, HasSession, IsJudged, IsRewarded, IsUnpaid, IsCredited,
     HasAccount, IsWritten, AnswerOf, Submitted, Money!Entry
<1>7. Knows(r)'
  BY <1>1, <1>4, <1>6 DEF Knows, OutsideTx, Writing
<1>8. "commit" \in Labels \ {"idle"}
  BY DEF Labels, InTx
<1>9. /\ userX' \in [Users -> Reqs \cup {None}]
      /\ runLock' \in [SkillSessions -> Reqs \cup {None}]
      /\ bestLock' \in [SkillGameKeys -> [Users -> Reqs \cup {None}]]
      /\ attempt' \in [Reqs -> Nat \ {0}]
      /\ tx' = [tx EXCEPT ![r] = tx[r]] /\ resp' = [resp EXCEPT ![r] = resp[r]]
  BY <1>1, Local DEF TypeOK
<1> QED BY <1>1, <1>3, <1>7, <1>8, <1>9, Local, OwnStep

LEMMA ReleaseTypes ==
  ASSUME TypeOK, NEW r \in Reqs, ReleaseLocks(r)
  PROVE  /\ userX' \in [Users -> Reqs \cup {None}]
         /\ runLock' \in [SkillSessions -> Reqs \cup {None}]
         /\ userS' \in [Users -> SUBSET Reqs]
         /\ bestLock' \in [SkillGameKeys -> [Users -> Reqs \cup {None}]]
         /\ \A u \in Users : userX[u] \notin {None, r} => userX'[u] = userX[u]
         /\ \A s \in SkillSessions : runLock[s] \notin {None, r} => runLock'[s] = runLock[s]
<1>1. userX' \in [Users -> Reqs \cup {None}] /\ runLock' \in [SkillSessions -> Reqs \cup {None}]
  BY DEF TypeOK, ReleaseLocks, Freed
<1>2. userS' \in [Users -> SUBSET Reqs]
  BY DEF TypeOK, ReleaseLocks
<1>3. bestLock' \in [SkillGameKeys -> [Users -> Reqs \cup {None}]]
  <2>1. ASSUME NEW g \in SkillGameKeys PROVE Freed(bestLock[g], r) \in [Users -> Reqs \cup {None}]
    BY DEF TypeOK, Freed
  <2> QED BY <2>1 DEF ReleaseLocks
<1>4. /\ \A u \in Users : userX[u] \notin {None, r} => userX'[u] = userX[u]
      /\ \A s \in SkillSessions : runLock[s] \notin {None, r} => runLock'[s] = runLock[s]
  BY DEF TypeOK, ReleaseLocks, Freed
<1> QED BY <1>1, <1>2, <1>3, <1>4

\* The steps that leave a request outside any transaction.
LEMMA LeaveKeeps ==
  ASSUME Inv, NEW r \in Reqs, Rollback(r) \/ Retry(r) \/ PoolFails(r)
  PROVE  Inv'
<1>1. /\ pc[r] # "idle" /\ UNCHANGED <<tables, clock, req>>
      /\ \/ tx' = [tx EXCEPT ![r] = EmptyTx]
         \/ UNCHANGED tx /\ tx[r] = EmptyTx
  BY Local DEF Rollback, Retry, PoolFails, Knows, OutsideTx
<1>2. tx' = [tx EXCEPT ![r] = EmptyTx]
  BY <1>1, Local DEF TypeOK
<1>3. PICK l \in {"backoff", "done", "connect"} : Goto(r, l)
  BY DEF Rollback, Retry, PoolFails
<1>4. PICK a \in Response \cup {None} : resp' = [resp EXCEPT ![r] = a]
  <2>1. Refusal("Refused") \in Response
    BY DEF Refusal, Response, Codes
  <2>2. Answer(r, Refusal("Refused")) \/ UNCHANGED resp \/ resp' = [resp EXCEPT ![r] = None]
    BY DEF Rollback, Retry, PoolFails
  <2> QED BY <2>1, <2>2, Local DEF Answer
<1>5. attempt' \in [Reqs -> Nat \ {0}]
  <2>1. \/ UNCHANGED attempt \/ LoopEnds(r)
        \/ attempt' = [attempt EXCEPT ![r] = @ + 1]
    BY DEF Rollback, Retry, PoolFails
  <2>2. attempt \in [Reqs -> Nat \ {0}]
    BY Local DEF TypeOK
  <2>3. attempt[r] + 1 \in Nat \ {0} /\ 1 \in Nat \ {0}
    BY <2>2
  <2> QED BY <2>1, <2>2, <2>3 DEF LoopEnds
<1>6. /\ userX' \in [Users -> Reqs \cup {None}]
      /\ runLock' \in [SkillSessions -> Reqs \cup {None}]
      /\ userS' \in [Users -> SUBSET Reqs]
      /\ bestLock' \in [SkillGameKeys -> [Users -> Reqs \cup {None}]]
      /\ \A u \in Users : userX[u] \notin {None, r} => userX'[u] = userX[u]
      /\ \A s \in SkillSessions : runLock[s] \notin {None, r} => runLock'[s] = runLock[s]
  <2>1. CASE ReleaseLocks(r)
    BY <2>1, Local, ReleaseTypes
  <2>2. CASE UNCHANGED locks
    BY <2>2, Local DEF locks, TypeOK
  <2> QED BY <2>1, <2>2 DEF Rollback, Retry, PoolFails
<1>7. pc'[r] = l /\ tx'[r] = EmptyTx /\ req'[r] = req[r]
  BY <1>1, <1>2, <1>3, Local DEF Goto, TypeOK
<1>8. Knows(r)'
  BY <1>1, <1>3, <1>7, Local DEF Knows, OutsideTx, Writing
<1>9. l \in Labels \ {"idle"}
  BY <1>3 DEF Labels, InTx
<1> QED BY <1>1, <1>2, <1>3, <1>4, <1>5, <1>6, <1>8, <1>9, EmptyTxType, OwnStep

---------------------------------------------------------------------------
(* A commit is one step of SkillEconomy, or a replay that changes nothing.  *)

LEMMA CommitIsFinish ==
  ASSUME Inv, NEW r \in Reqs, pc[r] = "commit", Apply(r)
  PROVE  \/ Replays(r) /\ UNCHANGED <<balance, status, ledger, slips, runs, best>>
         \/ \E score \in 0 .. MaxScore :
              Finishes(r) /\ Economy!FinishUnpaid(req[r].sess, score)
         \/ \E score \in 0 .. MaxScore, reward \in 1 .. MaxReward :
              /\ Finishes(r) /\ IsCredited(r)
              /\ Economy!FinishPaid(req[r].sess, score, reward)
<1>1. PICK s \in SkillSessions : s = req[r].sess
  BY Local
<1>2. PICK u \in Users : u = req[r].user
  BY Local
<1>3. PICK row \in Run : row = runs[s] /\ row.user = u
  BY <1>1, <1>2, Local DEF Knows, HasSession, TypeOK
<1>4. PICK g \in SkillGameKeys : g = row.game
  BY DEF Run
<1>5. PICK o \in Outcome : o = tx[r].outcome
  BY Local DEF Tx
<1>6. /\ balance' = [balance EXCEPT ![u] = @ + tx[r].credit]
      /\ ledger' = IF tx[r].entry = None THEN ledger
                   ELSE [ledger EXCEPT ![u] = Append(@, tx[r].entry)]
      /\ runs' = IF tx[r].row = None THEN runs ELSE [runs EXCEPT ![s] = tx[r].row]
      /\ best' = IF tx[r].highScore THEN [best EXCEPT ![g][u] = KeepMax(@, o.score)]
                 ELSE best
      /\ status' = status /\ slips' = slips
  BY <1>1, <1>2, <1>3, <1>4, <1>5 DEF Apply
<1>7. /\ balance \in [Users -> Int] /\ ledger \in [Users -> Seq(Entry)]
      /\ runs \in [SkillSessions -> Run \cup {None}]
      /\ best \in [SkillGameKeys -> [Users -> Nat \cup {None}]]
  BY Local DEF TypeOK
<1>8. Replays(r) \/ Finishes(r)
  BY Local DEF Knows
<1>9. CASE Replays(r)
  <2>1. /\ tx[r].credit = 0 /\ tx[r].entry = None /\ tx[r].row = None
        /\ tx[r].highScore = FALSE
    BY <1>9 DEF Replays, EmptyTx
  <2> QED BY <1>6, <1>7, <1>9, <2>1
<1>10. CASE Finishes(r)
  <2>1. /\ row.status = "STARTED" /\ row.score = None /\ row.reward = None
        /\ IsJudged(o) /\ IsRewarded(r)
        /\ tx[r].row = Submitted(row, o) /\ tx[r].highScore = (o.score > 0)
    BY <1>1, <1>3, <1>5, <1>10, AbsentAssumption DEF Finishes, IsWritten, Inv, StartedRows
  <2>2. row = Economy!Started(u, g)
    BY <1>3, <1>4, <2>1 DEF Run, Economy!Started
  <2>3. row # None /\ Submitted(row, o) # None
    <3>1. Submitted(row, o) \in Run
      BY DEF Submitted, Run, Outcome
    <3> QED BY <3>1, AbsentAssumption
  <2>4. runs' = [runs EXCEPT ![s] = Submitted(row, o)]
    BY <1>6, <2>1, <2>3
  <2>5. runs' = [runs EXCEPT ![s].status = "SUBMITTED", ![s].score = o.score,
                             ![s].reward = o.reward]
    BY <1>3, <1>7, <2>4 DEF Submitted
  <2>6. best' = IF o.score > 0 /\ (best[g][u] = None \/ best[g][u] < o.score)
                THEN [best EXCEPT ![g][u] = o.score] ELSE best
    <3>1. CASE o.score > 0
      <4>1. best' = [best EXCEPT ![g][u] = KeepMax(best[g][u], o.score)]
        BY <1>6, <1>7, <2>1, <3>1
      <4>2. CASE best[g][u] = None \/ best[g][u] < o.score
        BY <3>1, <4>1, <4>2 DEF KeepMax
      <4>3. CASE ~(best[g][u] = None \/ best[g][u] < o.score)
        BY <1>7, <4>1, <4>3 DEF KeepMax
      <4> QED BY <4>2, <4>3
    <3>2. CASE ~(o.score > 0)
      BY <1>6, <2>1, <3>2
    <3> QED BY <3>1, <3>2
  <2>7. Economy!Finish(s, o.score, o.reward)
    BY <1>3, <1>4, <1>6, <2>2, <2>3, <2>5, <2>6 DEF Economy!Finish
  <2>8. o.score \in 0 .. MaxScore /\ o.reward \in 0 .. MaxReward
    BY <2>1, SkillAssumption DEF IsJudged, Outcome
  <2>9. CASE o.reward = 0
    <3>1. tx[r].credit = 0 /\ tx[r].entry = None
      BY <1>5, <2>1, <2>9 DEF IsRewarded, IsUnpaid
    <3>2. balance' = balance /\ ledger' = ledger
      BY <1>6, <1>7, <3>1
    <3>3. Economy!FinishUnpaid(s, o.score)
      BY <2>7, <2>9, <3>2 DEF Economy!FinishUnpaid
    <3> QED BY <1>1, <1>10, <2>8, <3>3
  <2>10. CASE o.reward # 0
    <3>1. IsCredited(r)
      BY <1>5, <2>1, <2>10 DEF IsRewarded
    <3>2. /\ status[u] = "ACTIVE" /\ tx[r].credit = o.reward
          /\ tx[r].entry = Money!Entry("SKILL_REWARD", s, o.reward, balance[u] + o.reward)
      BY <1>1, <1>2, <1>5, <3>1 DEF IsCredited, HasAccount
    <3>3. tx[r].entry # None
      <4>1. tx[r].entry \in Entry
        BY <1>7, <3>2 DEF Entry, Money!Entry, Outcome
      <4> QED BY <4>1, AbsentAssumption
    <3>4. /\ balance' = [balance EXCEPT ![u] = @ + o.reward]
          /\ ledger' = [ledger EXCEPT
               ![u] = Append(@, Money!Entry("SKILL_REWARD", s, o.reward, balance[u] + o.reward))]
      BY <1>6, <3>2, <3>3
    <3>5. Economy!FinishPaid(s, o.score, o.reward)
      BY <1>3, <2>7, <3>2, <3>4 DEF Economy!FinishPaid, Money!Entry, Economy!Money!Entry
    <3>6. o.reward \in 1 .. MaxReward
      BY <2>8, <2>10
    <3> QED BY <1>1, <1>10, <2>8, <3>1, <3>5, <3>6
  <2> QED BY <2>9, <2>10
<1> QED BY <1>8, <1>9, <1>10

\* A run that finishes keeps the types, and touches one session and one account.
LEMMA FinishEffect ==
  ASSUME TypeOK, NEW s \in SkillSessions, NEW score \in Nat, NEW reward \in Nat,
         Economy!Finish(s, score, reward)
  PROVE  /\ runs[s] \in Run /\ runs[s].status = "STARTED" /\ runs[s].user \in Users
         /\ runs' \in [SkillSessions -> Run \cup {None}]
         /\ runs'[s] = [runs[s] EXCEPT !.status = "SUBMITTED", !.score = score, !.reward = reward]
         /\ runs'[s] \in Run /\ runs'[s].status = "SUBMITTED"
         /\ runs'[s].score = score /\ runs'[s].reward = reward
         /\ runs'[s].user = runs[s].user /\ runs'[s].game = runs[s].game
         /\ \A t \in SkillSessions \ {s} : runs'[t] = runs[t]
         /\ best' \in [SkillGameKeys -> [Users -> Nat \cup {None}]]
<1>1. PICK row : row = runs[s] /\ row # None
  BY DEF Economy!Finish
<1>2. row \in Run /\ row.user \in Users /\ row.game \in SkillGameKeys
  BY <1>1 DEF TypeOK, Run
<1>3. row.status = "STARTED"
  BY <1>1 DEF Economy!Finish, Economy!Started
<1>4. PICK done : done = [row EXCEPT !.status = "SUBMITTED", !.score = score, !.reward = reward]
  OBVIOUS
<1>5. done \in Run /\ done.status = "SUBMITTED" /\ done.score = score /\ done.reward = reward
      /\ done.user = row.user /\ done.game = row.game
  BY <1>2, <1>4 DEF Run
<1>6. runs \in [SkillSessions -> Run \cup {None}]
  BY DEF TypeOK
<1>7. runs' = [runs EXCEPT ![s] = done]
  BY <1>1, <1>4, <1>6 DEF Economy!Finish
<1>8. best' \in [SkillGameKeys -> [Users -> Nat \cup {None}]]
  BY <1>1, <1>2 DEF Economy!Finish, TypeOK
<1> QED BY <1>1, <1>2, <1>3, <1>4, <1>5, <1>6, <1>7, <1>8

\* What a commit leaves to the others.
LEMMA CommitEffect ==
  ASSUME Inv, NEW r \in Reqs, pc[r] = "commit", Apply(r), UNCHANGED clock
  PROVE  /\ balance' \in [Users -> Int]
         /\ ledger' \in [Users -> Seq(Entry)]
         /\ runs' \in [SkillSessions -> Run \cup {None}]
         /\ \A s \in SkillSessions : runs'[s] # None /\ runs'[s].status = "SUBMITTED" =>
              runs'[s].score \in Nat /\ runs'[s].reward \in Nat
         /\ best' \in [SkillGameKeys -> [Users -> Nat \cup {None}]]
         /\ StartedRows'
         /\ status' = status /\ issuedAt' = issuedAt
         /\ \A u \in Users : userX[u] # r => balance'[u] = balance[u]
         /\ \A s \in SkillSessions : runLock[s] # r => runs'[s] = runs[s]
<1>1. PICK s \in SkillSessions : s = req[r].sess /\ runLock[s] = r /\ runs[s].user = req[r].user
  BY Local DEF Knows, HasSession
<1>2. status' = status /\ issuedAt' = issuedAt
  BY DEF Apply
<1>3. TypeOK /\ StartedRows
  BY DEF Inv
<1>4. ASSUME NEW score \in Nat, NEW reward \in Nat, Economy!Finish(s, score, reward)
      PROVE  /\ runs' \in [SkillSessions -> Run \cup {None}]
             /\ \A t \in SkillSessions : runs'[t] # None /\ runs'[t].status = "SUBMITTED" =>
                  runs'[t].score \in Nat /\ runs'[t].reward \in Nat
             /\ best' \in [SkillGameKeys -> [Users -> Nat \cup {None}]]
             /\ StartedRows'
             /\ \A t \in SkillSessions : runLock[t] # r => runs'[t] = runs[t]
  <2>1. /\ runs' \in [SkillSessions -> Run \cup {None}]
        /\ runs'[s].status = "SUBMITTED" /\ runs'[s].score = score /\ runs'[s].reward = reward
        /\ \A t \in SkillSessions \ {s} : runs'[t] = runs[t]
        /\ best' \in [SkillGameKeys -> [Users -> Nat \cup {None}]]
    BY <1>3, <1>4, FinishEffect
  <2>2. \A t \in SkillSessions : runs'[t] # None /\ runs'[t].status = "SUBMITTED" =>
          runs'[t].score \in Nat /\ runs'[t].reward \in Nat
    BY <1>3, <2>1 DEF TypeOK
  <2>3. StartedRows'
    BY <1>2, <1>3, <2>1 DEF StartedRows
  <2> QED BY <1>1, <2>1, <2>2, <2>3
<1>5. CASE UNCHANGED <<balance, status, ledger, slips, runs, best>>
  BY <1>2, <1>3, <1>5 DEF TypeOK, StartedRows
<1>6. CASE \E score \in 0 .. MaxScore : Economy!FinishUnpaid(s, score)
  <2>1. PICK score \in Nat : Economy!FinishUnpaid(s, score)
    BY <1>6
  <2>2. Economy!Finish(s, score, 0) /\ UNCHANGED <<balance, ledger>>
    BY <2>1 DEF Economy!FinishUnpaid
  <2>3. balance' \in [Users -> Int] /\ ledger' \in [Users -> Seq(Entry)]
    BY <1>3, <2>2 DEF TypeOK
  <2> QED BY <1>2, <1>4, <2>2, <2>3
<1>7. CASE \E score \in 0 .. MaxScore, reward \in 1 .. MaxReward :
             IsCredited(r) /\ Economy!FinishPaid(s, score, reward)
  <2>1. PICK score \in Nat, reward \in Nat : IsCredited(r) /\ Economy!FinishPaid(s, score, reward)
    BY <1>7, SkillAssumption
  <2>2. PICK u \in Users : u = req[r].user /\ userX[u] = r
    BY <2>1, Local DEF IsCredited, HasAccount
  <2>3. PICK e : e = Money!Entry("SKILL_REWARD", s, reward, balance[u] + reward)
    OBVIOUS
  <2>4. e \in Entry
    BY <1>3, <2>3 DEF Entry, Money!Entry, TypeOK
  <2>5. /\ Economy!Finish(s, score, reward)
        /\ balance' = [balance EXCEPT ![u] = balance[u] + reward]
        /\ ledger' = [ledger EXCEPT ![u] = Append(ledger[u], e)]
    BY <1>1, <2>1, <2>2, <2>3, <1>3 DEF Economy!FinishPaid, TypeOK, Money!Entry, Economy!Money!Entry
  <2>6. balance' \in [Users -> Int] /\ \A v \in Users : userX[v] # r => balance'[v] = balance[v]
    BY <1>3, <2>2, <2>5 DEF TypeOK
  <2>7. ledger' \in [Users -> Seq(Entry)]
    <3>1. ledger \in [Users -> Seq(Entry)]
      BY <1>3 DEF TypeOK
    <3>2. Append(ledger[u], e) \in Seq(Entry)
      BY <3>1, <2>4
    <3> QED BY <2>5, <3>1, <3>2
  <2> QED BY <1>2, <1>4, <2>5, <2>6, <2>7
<1>8. \/ UNCHANGED <<balance, status, ledger, slips, runs, best>>
      \/ \E score \in 0 .. MaxScore : Economy!FinishUnpaid(s, score)
      \/ \E score \in 0 .. MaxScore, reward \in 1 .. MaxReward :
           IsCredited(r) /\ Economy!FinishPaid(s, score, reward)
  BY <1>1, CommitIsFinish
<1> QED BY <1>5, <1>6, <1>7, <1>8

LEMMA CommitKeeps ==
  ASSUME Inv, NEW r \in Reqs, Commit(r) \/ CommitAckLost(r)
  PROVE  Inv'
<1>1. /\ pc[r] = "commit" /\ Apply(r) /\ ReleaseLocks(r)
      /\ tx' = [tx EXCEPT ![r] = EmptyTx] /\ pc' = [pc EXCEPT ![r] = "done"]
      /\ attempt' = [attempt EXCEPT ![r] = 1]
      /\ UNCHANGED <<clock, req>>
  BY DEF Commit, CommitAckLost, Goto, LoopEnds
<1>2. PICK a \in Response \cup {None} : resp' = [resp EXCEPT ![r] = a]
  <2>1. Refusal("Refused") \in Response
    BY DEF Refusal, Response, Codes
  <2> QED BY <2>1, Local DEF Commit, CommitAckLost, Answer
<1>3. /\ balance' \in [Users -> Int] /\ ledger' \in [Users -> Seq(Entry)]
      /\ runs' \in [SkillSessions -> Run \cup {None}]
      /\ \A s \in SkillSessions : runs'[s] # None /\ runs'[s].status = "SUBMITTED" =>
           runs'[s].score \in Nat /\ runs'[s].reward \in Nat
      /\ best' \in [SkillGameKeys -> [Users -> Nat \cup {None}]]
      /\ StartedRows' /\ status' = status /\ issuedAt' = issuedAt
      /\ \A u \in Users : userX[u] # r => balance'[u] = balance[u]
      /\ \A s \in SkillSessions : runLock[s] # r => runs'[s] = runs[s]
  BY <1>1, CommitEffect
<1>4. /\ userX' \in [Users -> Reqs \cup {None}]
      /\ runLock' \in [SkillSessions -> Reqs \cup {None}]
      /\ userS' \in [Users -> SUBSET Reqs]
      /\ bestLock' \in [SkillGameKeys -> [Users -> Reqs \cup {None}]]
      /\ \A u \in Users : userX[u] \notin {None, r} => userX'[u] = userX[u]
      /\ \A s \in SkillSessions : runLock[s] \notin {None, r} => runLock'[s] = runLock[s]
  BY <1>1, Local, ReleaseTypes
<1>5. TypeOK'
  <2>1. pc' \in [Reqs -> Labels] /\ tx' \in [Reqs -> Tx] /\ attempt' \in [Reqs -> Nat \ {0}]
        /\ resp' \in [Reqs -> Response \cup {None}] /\ req' \in [Reqs -> Bodies \cup {None}]
    BY <1>1, <1>2, Local, EmptyTxType DEF TypeOK, Labels
  <2>2. status' \in [Users -> {"ACTIVE", "SUSPENDED"}] /\ issuedAt' \in [SkillSessions -> Nat]
        /\ clock' \in Nat
    BY <1>1, <1>3, Local DEF TypeOK
  <2> QED BY <1>3, <1>4, <2>1, <2>2 DEF TypeOK
<1>6. Knows(r)'
  <2>1. pc'[r] = "done" /\ tx'[r] = EmptyTx /\ req'[r] \in Bodies
    BY <1>1, Local DEF TypeOK
  <2> QED BY <2>1 DEF Knows, OutsideTx, Writing
<1>7. ASSUME NEW q \in Reqs, q # r PROVE Knows(q)'
  <2>1. pc'[q] = pc[q] /\ req'[q] = req[q] /\ tx'[q] = tx[q] /\ resp'[q] = resp[q]
    BY <1>1, <1>2, <1>7, Local DEF TypeOK
  <2>2. q # None /\ Knows(q)
    BY AbsentAssumption DEF Inv
  <2> QED BY <1>3, <1>4, <1>7, <2>1, <2>2, Undisturbed
<1> QED BY <1>3, <1>5, <1>6, <1>7 DEF Inv

---------------------------------------------------------------------------
(* The world outside the submissions.                                       *)

LEMMA StartKeeps ==
  ASSUME Inv, NEW s \in SkillSessions, Start(s)
  PROVE  Inv'
<1>1. PICK start \in Starts, issued \in (clock - MaxStartWait) .. clock :
        /\ issued >= 0
        /\ runs' = [runs EXCEPT
             ![s] = [user |-> start.user, game |-> start.game,
                     status |-> "STARTED", score |-> None, reward |-> None]]
        /\ issuedAt' = [issuedAt EXCEPT ![s] = issued]
  BY DEF Start
<1>2. /\ runs[s] = None
      /\ UNCHANGED <<balance, status, ledger, slips, best, clock, locks,
                     req, pc, tx, attempt, resp>>
  BY DEF Start
<1>3. PICK row : row = [user |-> start.user, game |-> start.game,
                        status |-> "STARTED", score |-> None, reward |-> None]
  OBVIOUS
<1>4. row \in Run /\ row.status = "STARTED" /\ row.score = None /\ row.reward = None
  BY <1>3, SkillAssumption DEF Run
<1>5. runs' = [runs EXCEPT ![s] = row]
  BY <1>1, <1>3
<1>6. clock \in Nat /\ issued \in Nat /\ issued <= clock
  BY <1>1, SkillAssumption DEF Inv, TypeOK
<1>7. /\ runs' \in [SkillSessions -> Run \cup {None}] /\ issuedAt' \in [SkillSessions -> Nat]
      /\ \A t \in SkillSessions : runs'[t] # None /\ runs'[t].status = "SUBMITTED" =>
           runs'[t].score \in Nat /\ runs'[t].reward \in Nat
      /\ \A t \in SkillSessions \ {s} : runs'[t] = runs[t]
  BY <1>1, <1>4, <1>5, <1>6 DEF Inv, TypeOK
<1>8. TypeOK'
  BY <1>2, <1>7 DEF Inv, TypeOK, locks
<1>9. StartedRows'
  BY <1>1, <1>2, <1>4, <1>5, <1>6 DEF Inv, TypeOK, StartedRows
<1>10. ASSUME NEW r \in Reqs PROVE Knows(r)'
  <2>1. \A t \in SkillSessions : runLock[t] = r /\ runs[t] # None =>
          runLock'[t] = r /\ runs'[t] = runs[t]
    BY <1>2, <1>7 DEF locks
  <2> QED BY <1>2, <2>1, Undisturbed, Local DEF locks
<1> QED BY <1>8, <1>9, <1>10 DEF Inv

LEMMA TimeKeeps ==
  ASSUME Inv, TimePasses
  PROVE  Inv'
<1>1. /\ clock' \in Nat /\ clock' > clock
      /\ UNCHANGED <<tables, locks, req, pc, tx, attempt, resp>>
  BY SkillAssumption DEF TimePasses
<1>2. TypeOK'
  BY <1>1 DEF Inv, TypeOK, tables, locks
<1>3. StartedRows'
  BY <1>1 DEF Inv, TypeOK, StartedRows, tables
<1>4. ASSUME NEW r \in Reqs PROVE Knows(r)'
  BY <1>1, Undisturbed DEF Inv, tables, locks
<1> QED BY <1>2, <1>3, <1>4 DEF Inv

LEMMA CrashKeeps ==
  ASSUME Inv, Crash
  PROVE  Inv'
<1>1. /\ UNCHANGED <<tables, clock, req>>
      /\ pc' = [r \in Reqs |-> IF InFlight(r) THEN "done" ELSE pc[r]]
      /\ resp' = [r \in Reqs |-> IF InFlight(r) THEN None ELSE resp[r]]
      /\ tx' = [r \in Reqs |-> EmptyTx]
  BY DEF Crash
<1>2. TypeOK'
  <2>1. /\ userX' \in [Users -> Reqs \cup {None}]
        /\ runLock' \in [SkillSessions -> Reqs \cup {None}]
        /\ userS' \in [Users -> SUBSET Reqs]
        /\ bestLock' \in [SkillGameKeys -> [Users -> Reqs \cup {None}]]
        /\ attempt' \in [Reqs -> Nat \ {0}]
    BY DEF Crash
  <2>2. pc' \in [Reqs -> Labels] /\ resp' \in [Reqs -> Response \cup {None}] /\ tx' \in [Reqs -> Tx]
    BY <1>1, EmptyTxType DEF Inv, TypeOK, Labels
  <2> QED BY <1>1, <2>1, <2>2 DEF Inv, TypeOK, tables
<1>3. StartedRows'
  BY <1>1 DEF Inv, StartedRows, tables
<1>4. ASSUME NEW r \in Reqs PROVE Knows(r)'
  <2>1. pc'[r] \in {"idle", "done"} /\ tx'[r] = EmptyTx /\ req'[r] = req[r]
        /\ (pc'[r] # "idle" => req[r] \in Bodies)
    BY <1>1, Local DEF InFlight
  <2> QED BY <2>1 DEF Knows, OutsideTx, Writing
<1> QED BY <1>2, <1>3, <1>4 DEF Inv

\* Bets, settlements and administrators respect the locks on the users rows.
LEMMA OthersKeep ==
  ASSUME Inv, Bet \/ Settle \/ ChangeStatus
  PROVE  Inv'
<1>1. UNCHANGED <<runs, issuedAt, best, clock, locks, req, pc, tx, attempt, resp>>
  BY DEF Bet, Settle, ChangeStatus, Rest
<1>2. /\ balance \in [Users -> Int] /\ ledger \in [Users -> Seq(Entry)]
      /\ status \in [Users -> {"ACTIVE", "SUSPENDED"}]
  BY DEF Inv, TypeOK
<1>3. ASSUME NEW u, NEW amount \in Int, NEW reason \in {"GAME_BET", "GAME_PAYOUT"},
             NEW s \in Sessions, u \in Users => Unlocked(u), status' = status,
             balance' = [balance EXCEPT ![u] = @ + amount],
             ledger' = [ledger EXCEPT ![u] =
                          Append(@, Money!Entry(reason, s, amount, balance[u] + amount))]
      PROVE  /\ balance' \in [Users -> Int] /\ ledger' \in [Users -> Seq(Entry)]
             /\ status' \in [Users -> {"ACTIVE", "SUSPENDED"}]
             /\ \A v \in Users : userX[v] # None =>
                  balance'[v] = balance[v] /\ status'[v] = status[v]
  <2>1. CASE u \notin Users
    BY <1>2, <1>3, <2>1
  <2>2. CASE u \in Users
    <3>1. PICK e : e = Money!Entry(reason, s, amount, balance[u] + amount)
      OBVIOUS
    <3>2. e \in Entry
      BY <1>2, <2>2, <3>1 DEF Entry, Money!Entry
    <3>3. Append(ledger[u], e) \in Seq(Entry)
      BY <1>2, <2>2, <3>2
    <3>4. ledger' \in [Users -> Seq(Entry)]
      BY <1>2, <1>3, <3>1, <3>3
    <3>5. balance' \in [Users -> Int]
      BY <1>2, <1>3, <2>2
    <3>6. \A v \in Users : userX[v] # None => balance'[v] = balance[v]
      BY <1>2, <1>3, <2>2 DEF Unlocked
    <3> QED BY <1>2, <1>3, <3>4, <3>5, <3>6
  <2> QED BY <2>1, <2>2
<1>4. /\ balance' \in [Users -> Int] /\ ledger' \in [Users -> Seq(Entry)]
      /\ status' \in [Users -> {"ACTIVE", "SUSPENDED"}]
      /\ \A v \in Users : userX[v] # None =>
           balance'[v] = balance[v] /\ status'[v] = status[v]
  <2>1. CASE Bet
    <3>1. PICK s \in Sessions, u \in Users, k \in Keys \cup {NoKey}, b \in Bets :
            Unlocked(u) /\ Money!PlaceBet(s, u, k, b)
      BY <2>1 DEF Bet
    <3>2. b \in Nat /\ balance[u] \in Int
      BY <1>2, SkillAssumption
    <3>3. /\ status' = status /\ balance' = [balance EXCEPT ![u] = @ - b]
          /\ ledger' = [ledger EXCEPT ![u] =
                          Append(@, Money!Entry("GAME_BET", s, -b, balance[u] - b))]
      BY <3>1 DEF Money!PlaceBet
    <3>4. -b \in Int /\ balance[u] - b = balance[u] + (-b)
      BY <3>2
    <3>5. /\ balance' = [balance EXCEPT ![u] = @ + (-b)]
          /\ ledger' = [ledger EXCEPT ![u] =
                          Append(@, Money!Entry("GAME_BET", s, -b, balance[u] + (-b)))]
      BY <1>2, <3>3, <3>4
    <3> QED BY <1>3, <3>1, <3>3, <3>4, <3>5
  <2>2. CASE Settle
    <3>1. PICK s \in Sessions : \/ Money!SettleLoss(s)
                                \/ /\ Unlocked(slips[s].user)
                                   /\ \E p \in 1 .. MaxPayout : Money!SettleWin(s, p)
      BY <2>2 DEF Settle
    <3>2. CASE Money!SettleLoss(s)
      BY <1>2, <3>2 DEF Money!SettleLoss, Money!CloseSlip
    <3>3. CASE Unlocked(slips[s].user) /\ \E p \in 1 .. MaxPayout : Money!SettleWin(s, p)
      <4>1. PICK p \in Int : Money!SettleWin(s, p)
        BY <3>3, SkillAssumption
      <4>2. PICK u : u = slips[s].user
        OBVIOUS
      <4>3. /\ status' = status /\ balance' = [balance EXCEPT ![u] = @ + p]
            /\ ledger' = [ledger EXCEPT ![u] =
                            Append(@, Money!Entry("GAME_PAYOUT", s, p, balance[u] + p))]
        BY <4>1, <4>2 DEF Money!SettleWin, Money!CloseSlip
      <4> QED BY <1>3, <3>3, <4>2, <4>3
    <3> QED BY <3>1, <3>2, <3>3
  <2>3. CASE ChangeStatus
    <3>1. PICK change \in AdminChanges :
            Unlocked(change[1]) /\ Money!ChangeStatus(change[1], change[2])
      BY <2>3 DEF ChangeStatus
    <3>2. change[1] \in Users /\ change[2] \in {"ACTIVE", "SUSPENDED"}
      BY SkillAssumption
    <3> QED BY <1>2, <3>1, <3>2 DEF Money!ChangeStatus, Unlocked
  <2> QED BY <2>1, <2>2, <2>3
<1>5. TypeOK'
  BY <1>1, <1>4 DEF Inv, TypeOK, locks
<1>6. StartedRows'
  BY <1>1 DEF Inv, StartedRows
<1>7. ASSUME NEW r \in Reqs PROVE Knows(r)'
  <2>1. /\ \A u \in Users : userX[u] = r =>
             userX'[u] = r /\ balance'[u] = balance[u] /\ status'[u] = status[u]
        /\ \A s \in SkillSessions : runLock[s] = r => runLock'[s] = r /\ runs'[s] = runs[s]
    BY <1>1, <1>4, AbsentAssumption DEF locks
  <2> QED BY <1>1, <2>1, Undisturbed DEF Inv
<1> QED BY <1>5, <1>6, <1>7 DEF Inv

LEMMA NextInv == Inv /\ [Next]_vars => Inv'
<1> SUFFICES ASSUME Inv, [Next]_vars PROVE Inv'
  OBVIOUS
<1>1. ASSUME NEW s \in SkillSessions, Start(s) PROVE Inv'
  BY <1>1, StartKeeps
<1>2. ASSUME NEW r \in Reqs, Submit(r) PROVE Inv'
  BY <1>2, SubmitKeeps
<1>3. ASSUME NEW r \in Reqs, Handle(r) PROVE Inv'
  BY <1>3, ConnectKeeps, LockSessionKeeps, JudgeKeeps, LockUserKeeps, CreditKeeps,
     InsertRewardKeeps, MarkKeeps, HighScoreKeeps, HighScoreUserKeeps, CommitKeeps,
     LeaveKeeps DEF Handle
<1>4. ASSUME NEW r \in Reqs, DeadlockVictim(r) \/ Fail(r) PROVE Inv'
  BY <1>4, FailuresKeep, CommitKeeps, LeaveKeeps DEF Fail
<1>5. CASE Crash
  BY <1>5, CrashKeeps
<1>6. CASE TimePasses
  BY <1>6, TimeKeeps
<1>7. CASE Bet \/ Settle \/ ChangeStatus
  BY <1>7, OthersKeep
<1>8. CASE UNCHANGED vars
  <2>1. UNCHANGED <<tables, clock, locks, req, pc, tx, attempt, resp>>
    BY <1>8 DEF vars
  <2>2. TypeOK' /\ StartedRows'
    BY <2>1 DEF Inv, TypeOK, StartedRows, tables, locks
  <2>3. ASSUME NEW r \in Reqs PROVE Knows(r)'
    BY <2>1, Undisturbed DEF Inv, tables, locks
  <2> QED BY <2>2, <2>3 DEF Inv
<1> QED BY <1>1, <1>2, <1>3, <1>4, <1>5, <1>6, <1>7, <1>8 DEF Next

\* Tables, locks and local variables keep their types, whatever interleaves,
\* fails or crashes.
THEOREM SkillTypesHold == Spec => []TypeOK
<1>1. Inv => TypeOK
  BY DEF Inv
<1> QED BY <1>1, InitInv, NextInv, PTL DEF Spec

---------------------------------------------------------------------------
(* Locks.                                                                   *)

Running(r) == pc[r] \in InTx \cup {"rollback"}
HoldersRun ==
  /\ \A u \in Users : /\ userX[u] # None => Running(userX[u])
                      /\ \A r \in userS[u] : Running(r)
  /\ \A s \in SkillSessions : runLock[s] # None => Running(runLock[s])
  /\ \A g \in SkillGameKeys, u \in Users : bestLock[g][u] # None => Running(bestLock[g][u])

\* Every lock of the next state is one of this state or of a request that
\* keeps running.
LEMMA LocksMove ==
  ASSUME TypeOK, TypeOK', HoldersRun,
         \A r \in Reqs : Running(r) =>
           \/ Running(r)'
           \/ /\ \A u \in Users : userX'[u] # r /\ r \notin userS'[u]
              /\ \A s \in SkillSessions : runLock'[s] # r
              /\ \A g \in SkillGameKeys, u \in Users : bestLock'[g][u] # r,
         \A u \in Users, r \in Reqs : userX'[u] = r => userX[u] = r \/ Running(r)',
         \A u \in Users, r \in Reqs : r \in userS'[u] => r \in userS[u] \/ Running(r)',
         \A s \in SkillSessions, r \in Reqs : runLock'[s] = r => runLock[s] = r \/ Running(r)',
         \A g \in SkillGameKeys, u \in Users, r \in Reqs :
           bestLock'[g][u] = r => bestLock[g][u] = r \/ Running(r)'
  PROVE  HoldersRun'
<1>1. \A u \in Users : userX'[u] \in Reqs \cup {None} /\ userS'[u] \subseteq Reqs
  BY DEF TypeOK
<1>2. \A s \in SkillSessions : runLock'[s] \in Reqs \cup {None}
  BY DEF TypeOK
<1>3. \A g \in SkillGameKeys, u \in Users : bestLock'[g][u] \in Reqs \cup {None}
  BY DEF TypeOK
<1>0. None \notin Reqs
  BY AbsentAssumption
<1>4. ASSUME NEW u \in Users, userX'[u] # None PROVE Running(userX[u])'
  BY <1>0, <1>1, <1>4 DEF HoldersRun
<1>5. ASSUME NEW u \in Users, NEW r \in userS'[u] PROVE Running(r)'
  BY <1>1, <1>5 DEF HoldersRun
<1>6. ASSUME NEW s \in SkillSessions, runLock'[s] # None PROVE Running(runLock[s])'
  BY <1>0, <1>2, <1>6 DEF HoldersRun
<1>7. ASSUME NEW g \in SkillGameKeys, NEW u \in Users, bestLock'[g][u] # None
      PROVE  Running(bestLock[g][u])'
  BY <1>0, <1>3, <1>7 DEF HoldersRun
<1> QED BY <1>4, <1>5, <1>6, <1>7 DEF HoldersRun

\* The steps inside a transaction that keep its locks.
LEMMA StaysRunning ==
  ASSUME TypeOK, NEW r \in Reqs,
         \/ LockSession(r) \/ Judge(r) \/ LockUser(r) \/ Credit(r) \/ InsertReward(r)
         \/ Mark(r) \/ HighScore(r) \/ HighScoreUser(r)
         \/ DeadlockVictim(r) \/ LockWaitTimeout(r) \/ StatementFails(r)
         \/ Connect(r)
  PROVE  /\ Running(r)' /\ \A q \in Reqs \ {r} : pc'[q] = pc[q]
         /\ \A u \in Users, q \in Reqs : userX'[u] = q => userX[u] = q \/ q = r
         /\ \A u \in Users, q \in Reqs : q \in userS'[u] => q \in userS[u] \/ q = r
         /\ \A s \in SkillSessions, q \in Reqs : runLock'[s] = q => runLock[s] = q \/ q = r
         /\ \A g \in SkillGameKeys, u \in Users, q \in Reqs :
              bestLock'[g][u] = q => bestLock[g][u] = q \/ q = r
<1>1. \E l \in InTx \cup {"rollback"} : Goto(r, l)
  BY DEF LockSession, Judge, LockUser, Credit, InsertReward, Mark, HighScore, HighScoreUser,
     DeadlockVictim, LockWaitTimeout, StatementFails, Connect, Throw, InTx
<1>2. Running(r)' /\ \A q \in Reqs \ {r} : pc'[q] = pc[q]
  BY <1>1 DEF Goto, TypeOK, Running
<1>3. \/ UNCHANGED userX
      \/ \E v : userX' = [userX EXCEPT ![v] = r]
  BY DEF LockSession, Judge, LockUser, Credit, InsertReward, Mark, HighScore, HighScoreUser,
     DeadlockVictim, LockWaitTimeout, StatementFails, Connect, locks, LockUsersRow
<1>4. \/ UNCHANGED userS
      \/ \E v : userS' = [userS EXCEPT ![v] = @ \cup {r}]
  BY DEF LockSession, Judge, LockUser, Credit, InsertReward, Mark, HighScore, HighScoreUser,
     DeadlockVictim, LockWaitTimeout, StatementFails, Connect, locks
<1>5. \/ UNCHANGED runLock
      \/ \E v : runLock' = [runLock EXCEPT ![v] = r]
  BY DEF LockSession, Judge, LockUser, Credit, InsertReward, Mark, HighScore, HighScoreUser,
     DeadlockVictim, LockWaitTimeout, StatementFails, Connect, locks
<1>6. \/ UNCHANGED bestLock
      \/ \E h, v : bestLock' = [bestLock EXCEPT ![h][v] = r]
  BY DEF LockSession, Judge, LockUser, Credit, InsertReward, Mark, HighScore, HighScoreUser,
     DeadlockVictim, LockWaitTimeout, StatementFails, Connect, locks
<1>7. \A u \in Users, q \in Reqs : userX'[u] = q => userX[u] = q \/ q = r
  <2>1. userX \in [Users -> Reqs \cup {None}]
    BY DEF TypeOK
  <2> QED BY <1>3, <2>1
<1>8. \A u \in Users, q \in Reqs : q \in userS'[u] => q \in userS[u] \/ q = r
  <2>1. userS \in [Users -> SUBSET Reqs]
    BY DEF TypeOK
  <2> QED BY <1>4, <2>1
<1>9. \A s \in SkillSessions, q \in Reqs : runLock'[s] = q => runLock[s] = q \/ q = r
  BY <1>5 DEF TypeOK
<1>10. \A g \in SkillGameKeys, u \in Users, q \in Reqs :
         bestLock'[g][u] = q => bestLock[g][u] = q \/ q = r
  <2>1. bestLock \in [SkillGameKeys -> [Users -> Reqs \cup {None}]]
    BY DEF TypeOK
  <2>2. CASE UNCHANGED bestLock
    BY <2>2
  <2>3. ASSUME NEW h, NEW v, bestLock' = [bestLock EXCEPT ![h][v] = r],
               NEW g \in SkillGameKeys, NEW u \in Users
        PROVE  bestLock'[g][u] \in {bestLock[g][u], r}
    <3>1. bestLock[g] \in [Users -> Reqs \cup {None}]
      BY <2>1
    <3>2. bestLock'[g] = IF g = h THEN [bestLock[g] EXCEPT ![v] = r] ELSE bestLock[g]
      BY <2>1, <2>3
    <3> QED BY <3>1, <3>2
  <2> QED BY <1>6, <2>2, <2>3
<1> QED BY <1>2, <1>7, <1>8, <1>9, <1>10

LEMMA NextHolders == Inv /\ HoldersRun /\ [Next]_vars => HoldersRun'
<1> SUFFICES ASSUME Inv, HoldersRun, [Next]_vars PROVE HoldersRun'
  OBVIOUS
<1>0. TypeOK /\ TypeOK' /\ None \notin Reqs
  BY NextInv, AbsentAssumption DEF Inv
<1>1. ASSUME NEW r \in Reqs,
             \/ LockSession(r) \/ Judge(r) \/ LockUser(r) \/ Credit(r) \/ InsertReward(r)
             \/ Mark(r) \/ HighScore(r) \/ HighScoreUser(r)
             \/ DeadlockVictim(r) \/ LockWaitTimeout(r) \/ StatementFails(r)
             \/ Connect(r)
      PROVE  HoldersRun'
  <2>1. /\ Running(r)' /\ \A q \in Reqs \ {r} : pc'[q] = pc[q]
        /\ \A u \in Users, q \in Reqs : userX'[u] = q => userX[u] = q \/ q = r
        /\ \A u \in Users, q \in Reqs : q \in userS'[u] => q \in userS[u] \/ q = r
        /\ \A s \in SkillSessions, q \in Reqs : runLock'[s] = q => runLock[s] = q \/ q = r
        /\ \A g \in SkillGameKeys, u \in Users, q \in Reqs :
             bestLock'[g][u] = q => bestLock[g][u] = q \/ q = r
    BY <1>0, <1>1, StaysRunning
  <2>2. \A q \in Reqs : Running(q) => Running(q)'
    BY <2>1 DEF Running
  <2> QED BY <1>0, <2>1, <2>2, LocksMove
<1>2. ASSUME NEW r \in Reqs, NEW l, Goto(r, l), ReleaseLocks(r)
      PROVE  HoldersRun'
  <2>1. \A q \in Reqs \ {r} : pc'[q] = pc[q]
    BY <1>0, <1>2 DEF Goto, TypeOK
  <2>2. \A q \in Reqs \ {r} : Running(q) => Running(q)'
    BY <2>1 DEF Running
  <2>3. /\ \A u \in Users : userX'[u] # r /\ r \notin userS'[u]
        /\ \A s \in SkillSessions : runLock'[s] # r
    BY <1>0, <1>2 DEF ReleaseLocks, Freed, TypeOK
  <2>4. \A g \in SkillGameKeys, u \in Users : bestLock'[g][u] \in {bestLock[g][u], None} \ {r}
    <3>1. ASSUME NEW g \in SkillGameKeys, NEW u \in Users
          PROVE  Freed(bestLock[g], r)[u] \in {bestLock[g][u], None} \ {r}
      BY <1>0 DEF Freed, TypeOK
    <3> QED BY <1>2, <3>1 DEF ReleaseLocks
  <2>5. /\ \A u \in Users, q \in Reqs : userX'[u] = q => userX[u] = q
        /\ \A u \in Users, q \in Reqs : q \in userS'[u] => q \in userS[u]
        /\ \A s \in SkillSessions, q \in Reqs : runLock'[s] = q => runLock[s] = q
    BY <1>0, <1>2 DEF ReleaseLocks, Freed, TypeOK
  <2> QED BY <1>0, <2>2, <2>3, <2>4, <2>5, LocksMove
<1>3. ASSUME NEW r \in Reqs, NEW l, Goto(r, l), ~Running(r), UNCHANGED locks
      PROVE  HoldersRun'
  <2>1. \A q \in Reqs \ {r} : pc'[q] = pc[q]
    BY <1>0, <1>3 DEF Goto, TypeOK
  <2>2. \A q \in Reqs : Running(q) => Running(q)'
    BY <1>3, <2>1 DEF Running
  <2> QED BY <1>0, <1>3, <2>2, LocksMove DEF locks
<1>4. CASE Crash
  <2>1. \A u \in Users : userX'[u] = None /\ userS'[u] = {}
    BY <1>4 DEF Crash
  <2>2. \A s \in SkillSessions : runLock'[s] = None
    BY <1>4 DEF Crash
  <2>3. \A g \in SkillGameKeys, u \in Users : bestLock'[g][u] = None
    BY <1>4 DEF Crash
  <2> QED BY <2>1, <2>2, <2>3 DEF HoldersRun
<1>5. CASE UNCHANGED <<locks, pc>>
  BY <1>5 DEF HoldersRun, Running, locks
<1>6. ASSUME NEW r \in Reqs, Submit(r) \/ Retry(r) \/ PoolFails(r) PROVE HoldersRun'
  <2>1. ~Running(r) /\ UNCHANGED locks /\ \E l : Goto(r, l)
    BY <1>6 DEF Submit, Retry, PoolFails, Running, InTx
  <2> QED BY <1>3, <2>1
<1>7. ASSUME NEW r \in Reqs, Commit(r) \/ CommitAckLost(r) \/ Rollback(r) PROVE HoldersRun'
  <2>1. ReleaseLocks(r) /\ \E l : Goto(r, l)
    BY <1>7 DEF Commit, CommitAckLost, Rollback
  <2> QED BY <1>2, <2>1
<1>8. ASSUME NEW r \in Reqs, Handle(r) \/ DeadlockVictim(r) \/ Fail(r) PROVE HoldersRun'
  BY <1>1, <1>6, <1>7, <1>8 DEF Handle, Fail
<1>9. ASSUME NEW s \in SkillSessions, Start(s) PROVE HoldersRun'
  BY <1>5, <1>9 DEF Start
<1>10. ASSUME TimePasses \/ Bet \/ Settle \/ ChangeStatus \/ UNCHANGED vars PROVE HoldersRun'
  BY <1>5, <1>10 DEF TimePasses, Bet, Settle, ChangeStatus, Rest, vars
<1> QED BY <1>4, <1>6, <1>8, <1>9, <1>10 DEF Next

\* No lock outlives its transaction: every path out of the retry loop, a crash
\* included, leaves the account, the session and the best score free.
THEOREM NoLockIsLeft == Spec => []LocksAreReleased
<1>1. Init => HoldersRun
  BY DEF Init, HoldersRun
<1>2. Inv /\ HoldersRun => LocksAreReleased
  BY DEF Inv, TypeOK, HoldersRun, LocksAreReleased, Running
<1> QED BY <1>1, <1>2, InitInv, NextInv, NextHolders, PTL DEF Spec

---------------------------------------------------------------------------
(* The refinement.                                                          *)

\* What a step does to the tables of SkillEconomy, and to nothing else it has.
LEMMA NextEconomy == Inv /\ [Next]_vars => [Economy!Next]_(Economy!vars)
<1> SUFFICES ASSUME Inv, [Next]_vars PROVE Economy!Next \/ UNCHANGED Economy!vars
  OBVIOUS
<1>1. ASSUME NEW s \in SkillSessions, Start(s) PROVE Economy!Next
  <2>1. PICK start \in Starts :
          /\ runs[s] = None
          /\ runs' = [runs EXCEPT
               ![s] = [user |-> start.user, game |-> start.game,
                       status |-> "STARTED", score |-> None, reward |-> None]]
          /\ UNCHANGED <<balance, status, ledger, slips, best>>
    BY <1>1 DEF Start
  <2>2. start.user \in Users /\ start.game \in SkillGameKeys
    BY SkillAssumption
  <2>3. Economy!Start(s, start.user, start.game)
    BY <2>1 DEF Economy!Start, Economy!Started
  <2> QED BY <2>2, <2>3 DEF Economy!Next
<1>2. ASSUME NEW r \in Reqs, Commit(r) \/ CommitAckLost(r)
      PROVE  Economy!Next \/ UNCHANGED Economy!vars
  <2>1. pc[r] = "commit" /\ Apply(r) /\ req[r].sess \in SkillSessions
    BY <1>2, Local DEF Commit, CommitAckLost
  <2> QED BY <2>1, CommitIsFinish DEF Economy!Next, Economy!vars
<1>3. ASSUME Bet \/ Settle \/ ChangeStatus PROVE Economy!Next
  <2>1. UNCHANGED <<runs, best>>
    BY <1>3 DEF Bet, Settle, ChangeStatus, Rest
  <2>2. Money!Next
    <3>1. CASE Bet
      BY <3>1 DEF Bet, Money!Next
    <3>2. CASE Settle
      BY <3>2 DEF Settle, Money!Next
    <3>3. CASE ChangeStatus
      <4>1. PICK change \in AdminChanges : Money!ChangeStatus(change[1], change[2])
        BY <3>3 DEF ChangeStatus
      <4>2. change[1] \in Users /\ change[2] \in {"ACTIVE", "SUSPENDED"}
        BY SkillAssumption
      <4> QED BY <4>1, <4>2 DEF Money!Next
    <3> QED BY <1>3, <3>1, <3>2, <3>3
  <2>3. Economy!Money!Next
    BY <2>2 DEF Money!Next, Economy!Money!Next, Money!PlaceBet, Economy!Money!PlaceBet,
       Money!SettleLoss, Economy!Money!SettleLoss, Money!SettleWin, Economy!Money!SettleWin,
       Money!CloseSlip, Economy!Money!CloseSlip, Money!ChangeStatus, Economy!Money!ChangeStatus,
       Money!KeyIsFree, Economy!Money!KeyIsFree, Money!Entry, Economy!Money!Entry
  <2> QED BY <2>1, <2>3 DEF Economy!Next
<1>4. ASSUME NEW r \in Reqs, ~Commit(r), ~CommitAckLost(r),
             Submit(r) \/ Handle(r) \/ DeadlockVictim(r) \/ Fail(r)
      PROVE  UNCHANGED tables
  BY <1>4 DEF Submit, Handle, Fail, DeadlockVictim, Connect, LockSession, Judge, LockUser,
     Credit, InsertReward, Mark, HighScore, HighScoreUser, Rollback, Retry,
     LockWaitTimeout, StatementFails, PoolFails
<1>5. ASSUME UNCHANGED tables PROVE UNCHANGED Economy!vars
  BY <1>5 DEF tables, Economy!vars
<1>6. ASSUME Crash \/ TimePasses \/ UNCHANGED vars PROVE UNCHANGED tables
  BY <1>6 DEF Crash, TimePasses, vars, tables
<1> QED BY <1>1, <1>2, <1>3, <1>4, <1>5, <1>6 DEF Next

\* The skill endpoints with all their statements, locks, retries, failures and
\* crashes implement the economy in which a session is submitted at most once,
\* in one step with its credit and its best score.
THEOREM SkillEndpointsImplementEconomy == Spec => ImplementsSkillEconomy
<1>1. Init => Economy!Init
  BY DEF Init, Economy!Init, Money!Init, Economy!Money!Init
<1> QED BY <1>1, InitInv, NextInv, NextEconomy, PTL DEF Spec, ImplementsSkillEconomy, Economy!Spec

---------------------------------------------------------------------------
(* The tables, step by step of the economy.                                 *)

\* A ledger row that carries the new balance.
Posts(u, e) ==
  /\ e.after = balance[u] + e.amount
  /\ balance' = [balance EXCEPT ![u] = e.after]
  /\ ledger' = [ledger EXCEPT ![u] = Append(ledger[u], e)]

LEMMA PostedRows ==
  ASSUME TypeOK, NEW u \in Users, NEW e \in Entry, Posts(u, e)
  PROVE  /\ Len(ledger'[u]) = Len(ledger[u]) + 1
         /\ ledger'[u][Len(ledger[u]) + 1] = e
         /\ \A i \in 1 .. Len(ledger[u]) : ledger'[u][i] = ledger[u][i]
         /\ \A v \in Users \ {u} : ledger'[v] = ledger[v] /\ balance'[v] = balance[v]
         /\ balance'[u] = e.after
         /\ Len(ledger[u]) \in Nat
<1>1. ledger \in [Users -> Seq(Entry)] /\ balance \in [Users -> Int]
  BY DEF TypeOK
<1>2. ledger'[u] = Append(ledger[u], e) /\ ledger[u] \in Seq(Entry)
  BY <1>1 DEF Posts
<1>3. \A v \in Users \ {u} : ledger'[v] = ledger[v] /\ balance'[v] = balance[v]
  BY <1>1 DEF Posts
<1>4. balance'[u] = e.after
  BY <1>1 DEF Posts
<1> QED BY <1>2, <1>3, <1>4

LEMMA PostedChain ==
  ASSUME TypeOK, BalanceChain, NEW u \in Users, NEW e \in Entry, Posts(u, e), e.after >= 0
  PROVE  BalanceChain'
<1>0. PICK n \in Nat : n = Len(ledger[u])
  BY PostedRows
<1>1. /\ Len(ledger'[u]) = n + 1 /\ ledger'[u][n + 1] = e
      /\ \A i \in 1 .. n : ledger'[u][i] = ledger[u][i]
      /\ \A v \in Users \ {u} : ledger'[v] = ledger[v] /\ balance'[v] = balance[v]
      /\ balance'[u] = e.after
  BY <1>0, PostedRows
<1>2. e.after = balance[u] + e.amount /\ e.after \in Int /\ e.amount \in Int
  BY DEF Posts, Entry
<1>3. ASSUME NEW i \in 1 .. n + 1 PROVE BalanceBefore(u, i)' = BalanceBefore(u, i)
  <2>1. i = 1 \/ i - 1 \in 1 .. n
    OBVIOUS
  <2>2. CASE i = 1
    BY <2>2 DEF BalanceBefore
  <2>3. CASE i # 1
    <3>1. ledger'[u][i - 1] = ledger[u][i - 1]
      BY <1>1, <2>1, <2>3
    <3> QED BY <2>3, <3>1 DEF BalanceBefore
  <2> QED BY <2>2, <2>3
<1>4. BalanceBefore(u, n + 2)' = e.after
  <2>1. n + 2 # 1 /\ (n + 2) - 1 = n + 1
    OBVIOUS
  <2>2. BalanceBefore(u, n + 2)' = ledger'[u][n + 1].after
    BY <2>1 DEF BalanceBefore
  <2> QED BY <1>1, <2>2
<1>5. /\ balance[u] = BalanceBefore(u, n + 1)
      /\ \A i \in 1 .. n : ledger[u][i].after = BalanceBefore(u, i) + ledger[u][i].amount
  BY <1>0 DEF BalanceChain
<1>6. ASSUME NEW i \in 1 .. n + 1
      PROVE  ledger'[u][i].after = BalanceBefore(u, i)' + ledger'[u][i].amount
  <2>1. CASE i \in 1 .. n
    BY <1>1, <1>3, <1>5, <2>1
  <2>2. CASE i = n + 1
    BY <1>1, <1>2, <1>3, <1>5, <2>2
  <2> QED BY <1>1, <2>1, <2>2
<1>7. ASSUME NEW v \in Users \ {u}
      PROVE  /\ balance'[v] = BalanceBefore(v, Len(ledger[v]) + 1)'
             /\ balance'[v] >= 0
             /\ \A i \in 1 .. Len(ledger'[v]) :
                  ledger'[v][i].after = BalanceBefore(v, i)' + ledger'[v][i].amount
  BY <1>1 DEF BalanceChain, BalanceBefore
<1>9. BalanceBefore(u, Len(ledger[u]) + 1)' = BalanceBefore(u, n + 2)'
  BY <1>1 DEF BalanceBefore
<1>8. /\ balance'[u] = BalanceBefore(u, Len(ledger[u]) + 1)'
      /\ balance'[u] >= 0
      /\ \A i \in 1 .. Len(ledger'[u]) :
           ledger'[u][i].after = BalanceBefore(u, i)' + ledger'[u][i].amount
  <2>1. balance'[u] >= 0
    BY <1>1, <1>2
  <2> QED BY <1>1, <1>4, <1>6, <1>9, <2>1
<1> QED BY <1>7, <1>8 DEF BalanceChain

\* Every step of the economy leaves balances and ledger alone or posts one row,
\* and says whose.
LEMMA EconomyPosts ==
  ASSUME TypeOK, BalanceChain, Economy!Next
  PROVE  \/ UNCHANGED <<balance, ledger>> /\ UNCHANGED <<runs, best>>
         \/ \E u \in Users, e \in Entry :
              Posts(u, e) /\ e.after >= 0 /\ e.reason # "SKILL_REWARD" /\ UNCHANGED <<runs, best>>
         \/ \E s \in SkillSessions, u \in Users, g \in SkillGameKeys :
              Economy!Start(s, u, g)
         \/ \E s \in SkillSessions, score \in Nat : Economy!FinishUnpaid(s, score)
         \/ \E s \in SkillSessions, score \in Nat, reward \in Nat \ {0}, e \in Entry :
              /\ Economy!Finish(s, score, reward)
              /\ Posts(runs[s].user, e) /\ e.after >= 0
              /\ e.reason = "SKILL_REWARD" /\ e.sess = s /\ e.amount = reward
<1>1. /\ balance \in [Users -> Int] /\ ledger \in [Users -> Seq(Entry)]
      /\ \A u \in Users : balance[u] >= 0
  BY DEF TypeOK, BalanceChain
<1>2. ASSUME NEW s \in Sessions, NEW u \in Users, NEW k \in Keys \cup {NoKey}, NEW b \in Bets,
             Economy!Money!PlaceBet(s, u, k, b)
      PROVE  \E e \in Entry : Posts(u, e) /\ e.after >= 0 /\ e.reason # "SKILL_REWARD"
  <2>1. b \in Nat /\ b <= balance[u]
    BY <1>2, SkillAssumption DEF Economy!Money!PlaceBet
  <2>2. PICK e : e = [reason |-> "GAME_BET", sess |-> s, amount |-> -b, after |-> balance[u] - b]
    OBVIOUS
  <2>3. e \in Entry /\ e.reason # "SKILL_REWARD" /\ e.amount = -b /\ e.after = balance[u] - b
    BY <1>1, <2>1, <2>2 DEF Entry
  <2>4. e.after >= 0 /\ e.after = balance[u] + e.amount
    BY <1>1, <2>1, <2>3
  <2>5. balance' = [balance EXCEPT ![u] = e.after] /\ ledger' = [ledger EXCEPT ![u] = Append(ledger[u], e)]
    BY <1>1, <1>2, <2>2, <2>3 DEF Economy!Money!PlaceBet, Economy!Money!Entry
  <2> QED BY <2>3, <2>4, <2>5 DEF Posts
<1>3. ASSUME NEW s \in Sessions, NEW p \in 1 .. MaxPayout, Economy!Money!SettleWin(s, p)
      PROVE  \/ UNCHANGED <<balance, ledger>>
             \/ \E u \in Users, e \in Entry :
                  Posts(u, e) /\ e.after >= 0 /\ e.reason # "SKILL_REWARD"
  <2>1. PICK u : u = slips[s].user
    OBVIOUS
  <2>2. /\ balance' = [balance EXCEPT ![u] = @ + p]
        /\ ledger' = [ledger EXCEPT
             ![u] = Append(@, [reason |-> "GAME_PAYOUT", sess |-> s, amount |-> p,
                               after |-> balance[u] + p])]
    BY <1>3, <2>1 DEF Economy!Money!SettleWin, Economy!Money!Entry
  <2>3. CASE u \notin Users
    BY <1>1, <2>2, <2>3
  <2>4. CASE u \in Users
    <3>1. p \in Nat /\ balance[u] \in Int /\ balance[u] >= 0
      BY <1>1, <2>4, SkillAssumption
    <3>2. PICK e : e = [reason |-> "GAME_PAYOUT", sess |-> s, amount |-> p, after |-> balance[u] + p]
      OBVIOUS
    <3>3. e \in Entry /\ e.reason # "SKILL_REWARD" /\ e.amount = p /\ e.after = balance[u] + p
      BY <3>1, <3>2 DEF Entry
    <3>4. e.after >= 0
      BY <3>1, <3>3
    <3>5. Posts(u, e)
      BY <1>1, <2>2, <2>4, <3>2, <3>3 DEF Posts
    <3> QED BY <2>4, <3>3, <3>4, <3>5
  <2> QED BY <2>3, <2>4
<1>4. ASSUME NEW s \in SkillSessions, NEW score \in 0 .. MaxScore, NEW reward \in 1 .. MaxReward,
             Economy!FinishPaid(s, score, reward)
      PROVE  /\ score \in Nat /\ reward \in Nat \ {0} /\ Economy!Finish(s, score, reward)
             /\ \E e \in Entry : /\ Posts(runs[s].user, e) /\ e.after >= 0
                                 /\ e.reason = "SKILL_REWARD" /\ e.sess = s /\ e.amount = reward
  <2>1. score \in Nat /\ reward \in Nat \ {0} /\ Economy!Finish(s, score, reward)
    BY <1>4, SkillAssumption DEF Economy!FinishPaid
  <2>2. PICK u \in Users : u = runs[s].user
    BY <2>1, FinishEffect
  <2>3. PICK e : e = [reason |-> "SKILL_REWARD", sess |-> s, amount |-> reward,
                      after |-> balance[u] + reward]
    OBVIOUS
  <2>4. e \in Entry /\ e.reason = "SKILL_REWARD" /\ e.sess = s /\ e.amount = reward
        /\ e.after = balance[u] + reward
    BY <1>1, <2>1, <2>3 DEF Entry
  <2>5. e.after >= 0
    BY <1>1, <2>1, <2>4
  <2>6. Posts(u, e)
    BY <1>1, <1>4, <2>2, <2>3, <2>4 DEF Posts, Economy!FinishPaid, Economy!Money!Entry
  <2> QED BY <2>1, <2>2, <2>4, <2>5, <2>6
<1>5. ASSUME Economy!Money!Next, UNCHANGED <<runs, best>>
      PROVE  \/ UNCHANGED <<balance, ledger>>
             \/ \E u \in Users, e \in Entry :
                  Posts(u, e) /\ e.after >= 0 /\ e.reason # "SKILL_REWARD"
  BY <1>2, <1>3, <1>5 DEF Economy!Money!Next, Economy!Money!SettleLoss, Economy!Money!ChangeStatus
<1>6. ASSUME NEW s \in SkillSessions, NEW score \in 0 .. MaxScore, Economy!FinishUnpaid(s, score)
      PROVE  score \in Nat
  BY SkillAssumption
<1> QED BY <1>4, <1>5, <1>6 DEF Economy!Next

LEMMA NextChain == Inv /\ BalanceChain /\ [Next]_vars => BalanceChain'
<1> SUFFICES ASSUME Inv, BalanceChain, [Next]_vars PROVE BalanceChain'
  OBVIOUS
<1>1. TypeOK /\ (Economy!Next \/ UNCHANGED <<balance, ledger>>)
  BY NextEconomy DEF Inv, Economy!vars
<1>2. CASE UNCHANGED <<balance, ledger>>
  BY <1>2 DEF BalanceChain, BalanceBefore
<1>3. ASSUME NEW s \in SkillSessions, NEW score \in Nat, NEW reward \in Nat,
             Economy!Finish(s, score, reward)
      PROVE  runs[s].user \in Users
  BY <1>1, <1>3, FinishEffect
<1>4. \/ UNCHANGED <<balance, ledger>>
      \/ \E u \in Users, e \in Entry : Posts(u, e) /\ e.after >= 0
  BY <1>1, <1>3, EconomyPosts DEF Economy!Start, Economy!FinishUnpaid
<1> QED BY <1>1, <1>2, <1>4, PostedChain

LEMMA InitChain == Init => BalanceChain
BY SkillAssumption DEF Init, Money!Init, BalanceChain, BalanceBefore

\* Bets, payouts and rewards: every ledger row is the previous balance plus its
\* amount, the last one is the balance, and no balance is negative.
THEOREM SkillBalanceIsLedger == Spec => []BalanceChain
BY InitInv, NextInv, InitChain, NextChain, PTL DEF Spec

\* The rewards of one player for one session, after a row was posted.
LEMMA PostedRewards ==
  ASSUME TypeOK, NEW u \in Users, NEW e \in Entry, Posts(u, e),
         NEW v \in Users, NEW s \in SkillSessions
  PROVE  /\ RewardRows(v, s) \subseteq 1 .. Len(ledger[v])
         /\ \A i \in RewardRows(v, s) : ledger'[v][i] = ledger[v][i]
         /\ v = u /\ e.reason = "SKILL_REWARD" /\ e.sess = s =>
              RewardRows(v, s)' = RewardRows(v, s) \cup {Len(ledger[u]) + 1}
         /\ ~(v = u /\ e.reason = "SKILL_REWARD" /\ e.sess = s) =>
              RewardRows(v, s)' = RewardRows(v, s)
<1>0. PICK n \in Nat : n = Len(ledger[u])
  BY PostedRows
<1>1. /\ Len(ledger'[u]) = n + 1 /\ ledger'[u][n + 1] = e
      /\ \A i \in 1 .. n : ledger'[u][i] = ledger[u][i]
      /\ v # u => ledger'[v] = ledger[v]
  BY <1>0, PostedRows
<1>2. RewardRows(v, s) \subseteq 1 .. Len(ledger[v])
  BY DEF RewardRows
<1>3. CASE v # u
  BY <1>1, <1>2, <1>3 DEF RewardRows
<1>4. CASE v = u
  <2>1. 1 .. n + 1 = (1 .. n) \cup {n + 1}
    OBVIOUS
  <2>2. RewardRows(v, s)' = {i \in (1 .. n) \cup {n + 1} :
           ledger'[u][i].reason = "SKILL_REWARD" /\ ledger'[u][i].sess = s}
    BY <1>1, <1>4, <2>1 DEF RewardRows
  <2>3. RewardRows(v, s) = {i \in 1 .. n :
           ledger[u][i].reason = "SKILL_REWARD" /\ ledger[u][i].sess = s}
    BY <1>0, <1>4 DEF RewardRows
  <2>4. \A i \in RewardRows(v, s) : ledger'[v][i] = ledger[v][i]
    BY <1>1, <1>4, <2>3
  <2>5. \A i : i \in RewardRows(v, s)' <=>
          \/ i \in RewardRows(v, s)
          \/ i = n + 1 /\ e.reason = "SKILL_REWARD" /\ e.sess = s
    BY <1>1, <2>2, <2>3
  <2>6. e.reason = "SKILL_REWARD" /\ e.sess = s =>
          RewardRows(v, s)' = RewardRows(v, s) \cup {n + 1}
    BY <2>5
  <2>7. ~(e.reason = "SKILL_REWARD" /\ e.sess = s) => RewardRows(v, s)' = RewardRows(v, s)
    BY <2>5
  <2> QED BY <1>0, <1>2, <1>4, <2>4, <2>6, <2>7
<1> QED BY <1>3, <1>4

\* What RewardsMatchRuns says of one session and one player.
RewardMatches(s, u) ==
  IF IsPaid(s) /\ runs[s].user = u
  THEN \E i \in RewardRows(u, s) :
         RewardRows(u, s) = {i} /\ ledger[u][i].amount = runs[s].reward
  ELSE RewardRows(u, s) = {}

LEMMA NextRewards == Inv /\ BalanceChain /\ RewardsMatchRuns /\ [Next]_vars => RewardsMatchRuns'
<1> SUFFICES ASSUME Inv, BalanceChain, RewardsMatchRuns, [Next]_vars,
                    NEW s \in SkillSessions, NEW u \in Users
             PROVE  RewardMatches(s, u)'
  BY DEF RewardsMatchRuns, RewardMatches
<1>0. RewardMatches(s, u)
  BY DEF RewardsMatchRuns, RewardMatches
<1>1. TypeOK /\ (Economy!Next \/ UNCHANGED <<balance, ledger, runs, best>>)
  BY NextEconomy DEF Inv, Economy!vars
<1>2. CASE UNCHANGED ledger /\ runs'[s] = runs[s]
  BY <1>0, <1>2 DEF RewardMatches, RewardRows, IsPaid
<1>3. ASSUME NEW v \in Users, NEW e \in Entry, Posts(v, e), e.reason # "SKILL_REWARD",
             UNCHANGED runs
      PROVE  RewardMatches(s, u)'
  <2>1. /\ RewardRows(u, s)' = RewardRows(u, s)
        /\ \A i \in RewardRows(u, s) : ledger'[u][i] = ledger[u][i]
        /\ RewardRows(u, s)' \subseteq 1 .. Len(ledger'[u])
    BY <1>1, <1>3, PostedRewards DEF RewardRows
  <2> QED BY <1>0, <1>3, <2>1 DEF RewardMatches, IsPaid
<1>4. ASSUME NEW t \in SkillSessions, NEW v \in Users, NEW g \in SkillGameKeys,
             Economy!Start(t, v, g)
      PROVE  RewardMatches(s, u)'
  <2>1. CASE t # s
    BY <1>1, <1>2, <1>4, <2>1 DEF Economy!Start, TypeOK
  <2>2. CASE t = s
    <3>1. /\ runs[s] = None /\ runs'[s] = Economy!Started(v, g) /\ UNCHANGED ledger
      BY <1>1, <1>4, <2>2 DEF Economy!Start, TypeOK
    <3>2. ~IsPaid(s) /\ ~IsPaid(s)'
      BY <3>1 DEF IsPaid, Economy!Started
    <3>3. RewardRows(u, s)' = RewardRows(u, s)
      BY <3>1 DEF RewardRows
    <3> QED BY <1>0, <3>2, <3>3 DEF RewardMatches
  <2> QED BY <2>1, <2>2
<1>5. ASSUME NEW t \in SkillSessions, NEW score \in Nat, Economy!FinishUnpaid(t, score)
      PROVE  RewardMatches(s, u)'
  <2>1. /\ Economy!Finish(t, score, 0) /\ UNCHANGED ledger
    BY <1>5 DEF Economy!FinishUnpaid
  <2>2. /\ runs[t].status = "STARTED" /\ runs'[t].reward = 0
        /\ \A q \in SkillSessions \ {t} : runs'[q] = runs[q]
    BY <1>1, <2>1, FinishEffect
  <2>3. CASE t # s
    BY <1>2, <2>1, <2>2, <2>3
  <2>4. CASE t = s
    <3>1. ~IsPaid(s) /\ ~IsPaid(s)'
      BY <2>2, <2>4 DEF IsPaid
    <3>2. RewardRows(u, s)' = RewardRows(u, s)
      BY <2>1 DEF RewardRows
    <3> QED BY <1>0, <3>1, <3>2 DEF RewardMatches
  <2> QED BY <2>3, <2>4
<1>6. ASSUME NEW t \in SkillSessions, NEW score \in Nat, NEW reward \in Nat \ {0}, NEW e \in Entry,
             Economy!Finish(t, score, reward), Posts(runs[t].user, e),
             e.reason = "SKILL_REWARD", e.sess = t, e.amount = reward
      PROVE  RewardMatches(s, u)'
  <2>1. /\ runs[t].status = "STARTED" /\ runs[t].user \in Users
        /\ runs'[t] \in Run /\ runs'[t].status = "SUBMITTED"
        /\ runs'[t].reward = reward /\ runs'[t].user = runs[t].user
        /\ \A q \in SkillSessions \ {t} : runs'[q] = runs[q]
    <3>1. reward \in Nat /\ TypeOK /\ Economy!Finish(t, score, reward)
      BY <1>1, <1>6
    <3> QED BY <3>1, FinishEffect
  <2>2. PICK v \in Users : v = runs[t].user
    BY <2>1
  <2>3. Posts(v, e)
    BY <1>6, <2>2
  <2>4. /\ RewardRows(u, s) \subseteq 1 .. Len(ledger[u])
        /\ \A i \in RewardRows(u, s) : ledger'[u][i] = ledger[u][i]
        /\ u = v /\ t = s => RewardRows(u, s)' = RewardRows(u, s) \cup {Len(ledger[v]) + 1}
        /\ ~(u = v /\ t = s) => RewardRows(u, s)' = RewardRows(u, s)
        /\ RewardRows(u, s)' \subseteq 1 .. Len(ledger'[u])
    BY <1>1, <1>6, <2>3, PostedRewards DEF RewardRows
  <2>5. CASE t # s
    <3>1. runs'[s] = runs[s] /\ RewardRows(u, s)' = RewardRows(u, s)
      BY <2>1, <2>4, <2>5
    <3> QED BY <1>0, <2>4, <3>1 DEF RewardMatches, IsPaid
  <2>6. CASE t = s
    <3>1. RewardRows(u, s) = {}
      BY <1>0, <2>1, <2>6 DEF RewardMatches, IsPaid
    <3>2. IsPaid(s)' /\ runs'[s].user = v /\ runs'[s].reward = reward
      BY <2>1, <2>2, <2>6, AbsentAssumption DEF IsPaid
    <3>3. CASE u = v
      <4>1. PICK i : i = Len(ledger[v]) + 1
        OBVIOUS
      <4>2. RewardRows(u, s)' = {i} /\ i \in 1 .. Len(ledger'[u])
        BY <2>4, <2>6, <3>1, <3>3, <4>1
      <4>3. ledger'[u][i] = e
        BY <1>1, <2>3, <3>3, <4>1, PostedRows
      <4> QED BY <1>6, <3>2, <3>3, <4>2, <4>3 DEF RewardMatches
    <3>4. CASE u # v
      BY <2>4, <3>1, <3>2, <3>4 DEF RewardMatches
    <3> QED BY <3>3, <3>4
  <2> QED BY <2>5, <2>6
<1> QED BY <1>1, <1>2, <1>3, <1>4, <1>5, <1>6, EconomyPosts

\* Every session that was submitted with a reward has been credited that reward
\* once, to its player, and nothing else was ever credited as a reward.
THEOREM EveryRewardIsPaidOnce == Spec => []RewardsMatchRuns
<1>1. Init => RewardsMatchRuns
  BY DEF Init, Money!Init, RewardsMatchRuns, RewardRows, IsPaid
<1> QED BY <1>1, InitInv, NextInv, InitChain, NextChain, NextRewards, PTL DEF Spec

---------------------------------------------------------------------------
(* The best score.                                                          *)

LEMMA FinishScores ==
  ASSUME TypeOK, NEW s \in SkillSessions, NEW score \in Nat, NEW reward \in Nat,
         Economy!Finish(s, score, reward), NEW g \in SkillGameKeys, NEW u \in Users
  PROVE  ScoresOf(g, u)' =
           IF g = runs[s].game /\ u = runs[s].user /\ score > 0
           THEN ScoresOf(g, u) \cup {score} ELSE ScoresOf(g, u)
<1>1. /\ runs[s] \in Run /\ runs[s].status = "STARTED"
      /\ runs'[s] \in Run /\ runs'[s].status = "SUBMITTED" /\ runs'[s].score = score
      /\ runs'[s].user = runs[s].user /\ runs'[s].game = runs[s].game
      /\ \A t \in SkillSessions \ {s} : runs'[t] = runs[t]
  BY FinishEffect
<1> DEFINE Counts(row) == /\ row # None /\ row.status = "SUBMITTED" /\ row.game = g
                          /\ row.user = u /\ row.score > 0
<1>2. \A x : x \in ScoresOf(g, u) <=> \E t \in SkillSessions : Counts(runs[t]) /\ x = runs[t].score
  BY DEF ScoresOf
<1>3. \A x : x \in ScoresOf(g, u)' <=> \E t \in SkillSessions : Counts(runs'[t]) /\ x = runs'[t].score
  BY DEF ScoresOf
<1>4. ~Counts(runs[s])
  BY <1>1
<1>5. Counts(runs'[s]) <=> g = runs[s].game /\ u = runs[s].user /\ score > 0
  BY <1>1, AbsentAssumption
<1> HIDE DEF Counts
<1>6. \A x : x \in ScoresOf(g, u)' <=> x \in ScoresOf(g, u) \/ (Counts(runs'[s]) /\ x = score)
  <2>1. ASSUME NEW x, x \in ScoresOf(g, u)' PROVE x \in ScoresOf(g, u) \/ (Counts(runs'[s]) /\ x = score)
    BY <1>1, <1>2, <1>3, <2>1
  <2>2. ASSUME NEW x, x \in ScoresOf(g, u) \/ (Counts(runs'[s]) /\ x = score) PROVE x \in ScoresOf(g, u)'
    BY <1>1, <1>2, <1>3, <1>4, <2>2
  <2> QED BY <2>1, <2>2
<1> QED BY <1>5, <1>6

LEMMA NextBest == Inv /\ BestScoreIsMax /\ [Next]_vars => BestScoreIsMax'
<1> SUFFICES ASSUME Inv, BestScoreIsMax, [Next]_vars, NEW g \in SkillGameKeys, NEW u \in Users
             PROVE  (IF ScoresOf(g, u) = {} THEN best[g][u] = None
                     ELSE /\ best[g][u] \in ScoresOf(g, u)
                          /\ \A x \in ScoresOf(g, u) : x <= best[g][u])'
  BY DEF BestScoreIsMax
<1>0. IF ScoresOf(g, u) = {} THEN best[g][u] = None
      ELSE best[g][u] \in ScoresOf(g, u) /\ \A x \in ScoresOf(g, u) : x <= best[g][u]
  BY DEF BestScoreIsMax
<1>1. TypeOK /\ (Economy!Next \/ UNCHANGED <<balance, ledger, runs, best>>)
  BY NextEconomy DEF Inv, Economy!vars
<1>2. CASE best'[g][u] = best[g][u] /\ ScoresOf(g, u)' = ScoresOf(g, u)
  BY <1>0, <1>2
<1>3. CASE UNCHANGED <<runs, best>>
  <2>1. ScoresOf(g, u)' = ScoresOf(g, u)
    BY <1>3 DEF ScoresOf
  <2> QED BY <1>2, <1>3, <2>1
<1>4. ASSUME NEW s \in SkillSessions, NEW v \in Users, NEW h \in SkillGameKeys,
             Economy!Start(s, v, h)
      PROVE  best' = best /\ ScoresOf(g, u)' = ScoresOf(g, u)
  <2>1. /\ runs[s] = None /\ runs'[s].status = "STARTED" /\ best' = best
        /\ \A t \in SkillSessions \ {s} : runs'[t] = runs[t]
    BY <1>1, <1>4 DEF Economy!Start, Economy!Started, TypeOK
  <2>2. {t \in SkillSessions : /\ runs'[t] # None /\ runs'[t].status = "SUBMITTED"
                               /\ runs'[t].game = g /\ runs'[t].user = u /\ runs'[t].score > 0}
        = {t \in SkillSessions : /\ runs[t] # None /\ runs[t].status = "SUBMITTED"
                                 /\ runs[t].game = g /\ runs[t].user = u /\ runs[t].score > 0}
    BY <2>1
  <2>3. \A t \in {q \in SkillSessions : /\ runs[q] # None /\ runs[q].status = "SUBMITTED"
                                 /\ runs[q].game = g /\ runs[q].user = u /\ runs[q].score > 0} :
          runs'[t] = runs[t]
    BY <2>1
  <2> QED BY <2>1, <2>2, <2>3 DEF ScoresOf
<1>5. ASSUME NEW s \in SkillSessions, NEW score \in Nat, NEW reward \in Nat,
             Economy!Finish(s, score, reward)
      PROVE  (IF ScoresOf(g, u) = {} THEN best[g][u] = None
              ELSE /\ best[g][u] \in ScoresOf(g, u)
                   /\ \A x \in ScoresOf(g, u) : x <= best[g][u])'
  <2>1. PICK v \in Users, h \in SkillGameKeys : v = runs[s].user /\ h = runs[s].game
    BY <1>1, <1>5, FinishEffect DEF Run
  <2>2. best' = IF score > 0 /\ (best[h][v] = None \/ best[h][v] < score)
                THEN [best EXCEPT ![h][v] = score] ELSE best
    BY <1>5, <2>1 DEF Economy!Finish
  <2>3. ScoresOf(g, u)' = IF g = h /\ u = v /\ score > 0
                          THEN ScoresOf(g, u) \cup {score} ELSE ScoresOf(g, u)
    BY <1>1, <1>5, <2>1, FinishScores
  <2>4. best \in [SkillGameKeys -> [Users -> Nat \cup {None}]]
    BY <1>1 DEF TypeOK
  <2>5. CASE ~(g = h /\ u = v /\ score > 0)
    <3>1. best'[g][u] = best[g][u]
      BY <2>2, <2>4, <2>5
    <3> QED BY <1>2, <2>3, <2>5, <3>1
  <2>6. CASE g = h /\ u = v /\ score > 0
    <3>1. ScoresOf(g, u)' = ScoresOf(g, u) \cup {score}
      BY <2>3, <2>6
    <3>2. PICK old : old = best[g][u]
      OBVIOUS
    <3>3. old \in Nat \cup {None} /\ None \notin Nat
      BY <2>4, <3>2, AbsentAssumption
    <3>4. CASE old = None \/ old < score
      <4>1. best'[g][u] = score
        BY <2>2, <2>4, <2>6, <3>2, <3>4
      <4>2. \A x \in ScoresOf(g, u) : x <= score
        <5>1. CASE old = None
          <6>1. ScoresOf(g, u) \subseteq Nat
            BY <1>1 DEF TypeOK, ScoresOf
          <6> QED BY <1>0, <3>2, <3>3, <5>1, <6>1
        <5>2. CASE old # None
          <6>1. ScoresOf(g, u) \subseteq Nat
            BY <1>1 DEF TypeOK, ScoresOf
          <6> QED BY <1>0, <3>2, <3>3, <3>4, <5>2, <6>1
        <5> QED BY <5>1, <5>2
      <4> QED BY <3>1, <4>1, <4>2
    <3>5. CASE ~(old = None \/ old < score)
      <4>1. best'[g][u] = old /\ score <= old
        BY <2>2, <2>6, <3>2, <3>3, <3>5
      <4>2. old \in ScoresOf(g, u) /\ \A x \in ScoresOf(g, u) : x <= old
        BY <1>0, <3>2, <3>5
      <4> QED BY <3>1, <4>1, <4>2
    <3> QED BY <3>4, <3>5
  <2> QED BY <2>5, <2>6
<1>6. ASSUME NEW s \in SkillSessions, NEW score \in 0 .. MaxScore,
             \/ Economy!FinishUnpaid(s, score)
             \/ \E reward \in 1 .. MaxReward : Economy!FinishPaid(s, score, reward)
      PROVE  \E reward \in Nat : score \in Nat /\ Economy!Finish(s, score, reward)
  BY <1>6, SkillAssumption DEF Economy!FinishUnpaid, Economy!FinishPaid
<1> QED BY <1>1, <1>2, <1>3, <1>4, <1>5, <1>6 DEF Economy!Next

\* The best score is the maximum over the player's submitted runs of the game,
\* in whatever order concurrent submissions reach their upserts.
THEOREM BestIsMax == Spec => []BestScoreIsMax
<1>1. Init => BestScoreIsMax
  BY DEF Init, BestScoreIsMax, ScoresOf
<1> QED BY <1>1, InitInv, NextInv, NextBest, PTL DEF Spec

---------------------------------------------------------------------------
(* What clients are told.                                                   *)

\* A step of one request leaves the others where they are, and gives a request
\* its body once.
LEMMA OneMoves ==
  ASSUME TypeOK, NEW r \in Reqs,
         Submit(r) \/ Handle(r) \/ DeadlockVictim(r) \/ Fail(r)
  PROVE  /\ \A q \in Reqs \ {r} : /\ pc'[q] = pc[q] /\ req'[q] = req[q]
                                  /\ tx'[q] = tx[q] /\ resp'[q] = resp[q]
         /\ pc[r] # "idle" => req' = req
<1>1. \E l : Goto(r, l)
  BY DEF Submit, Handle, Fail, DeadlockVictim, Connect, LockSession, Judge, LockUser,
     Credit, InsertReward, Mark, HighScore, HighScoreUser, Commit, Rollback, Retry,
     CommitAckLost, LockWaitTimeout, StatementFails, PoolFails, Throw
<1>2. UNCHANGED req \/ (pc[r] = "idle" /\ \E b : req' = [req EXCEPT ![r] = b])
  BY DEF Submit, Handle, Fail, DeadlockVictim, Connect, LockSession, Judge, LockUser,
     Credit, InsertReward, Mark, HighScore, HighScoreUser, Commit, Rollback, Retry,
     CommitAckLost, LockWaitTimeout, StatementFails, PoolFails
<1>3. UNCHANGED resp \/ \E a : resp' = [resp EXCEPT ![r] = a]
  BY DEF Submit, Handle, Fail, DeadlockVictim, Connect, LockSession, Judge, LockUser,
     Credit, InsertReward, Mark, HighScore, HighScoreUser, Commit, Rollback, Retry,
     CommitAckLost, LockWaitTimeout, StatementFails, PoolFails, Throw, Answer
<1>4. \A q \in Reqs \ {r} : tx'[q] = tx[q]
  <2>1. CASE Submit(r) \/ DeadlockVictim(r) \/ Fail(r)
    BY <2>1 DEF Submit, DeadlockVictim, Fail, CommitAckLost, LockWaitTimeout, StatementFails,
       PoolFails, TypeOK
  <2>2. CASE Connect(r) \/ LockSession(r) \/ Judge(r) \/ LockUser(r) \/ Credit(r)
    BY <2>2 DEF Connect, LockSession, Judge, LockUser, Credit, TypeOK
  <2>3. CASE InsertReward(r) \/ Mark(r) \/ HighScore(r) \/ HighScoreUser(r) \/ Commit(r)
             \/ Rollback(r) \/ Retry(r)
    BY <2>3 DEF InsertReward, Mark, HighScore, HighScoreUser, Commit, Rollback, Retry, TypeOK
  <2> QED BY <2>1, <2>2, <2>3 DEF Handle
<1>5. \A q \in Reqs \ {r} : pc'[q] = pc[q] /\ req'[q] = req[q] /\ resp'[q] = resp[q]
  BY <1>1, <1>2, <1>3 DEF Goto, TypeOK
<1> QED BY <1>2, <1>4, <1>5

\* Whoever is told an answer has just committed or was told it before.
LEMMA ToldSteps ==
  ASSUME Inv, [Next]_vars, NEW r \in Reqs, Told(r)'
  PROVE  \/ Commit(r)
         \/ Told(r) /\ resp'[r] = resp[r] /\ req'[r] = req[r]
<1>0. TypeOK
  BY DEF Inv
<1>1. CASE UNCHANGED <<req, pc, resp>>
  BY <1>1 DEF Told
<1>2. CASE Crash
  <2>1. /\ req' = req /\ pc'[r] = (IF InFlight(r) THEN "done" ELSE pc[r])
        /\ resp'[r] = (IF InFlight(r) THEN None ELSE resp[r])
    BY <1>2 DEF Crash
  <2>2. ~InFlight(r)
    BY <2>1 DEF Told
  <2> QED BY <2>1, <2>2 DEF Told
<1>3. ASSUME NEW q \in Reqs, q # r, Submit(q) \/ Handle(q) \/ DeadlockVictim(q) \/ Fail(q)
      PROVE  Told(r) /\ resp'[r] = resp[r] /\ req'[r] = req[r]
  <2>1. pc'[r] = pc[r] /\ resp'[r] = resp[r] /\ req'[r] = req[r]
    BY <1>0, <1>3, OneMoves
  <2> QED BY <2>1 DEF Told
<1>4. ASSUME Submit(r) \/ Handle(r) \/ DeadlockVictim(r) \/ Fail(r), ~Commit(r)
      PROVE  FALSE
  <2>1. pc'[r] = "done" /\ resp'[r] # None /\ resp'[r].code = "OK"
    BY DEF Told
  <2>2. CASE Rollback(r)
    <3>1. resp[r].code # "OK"
      BY <2>2, Local DEF Rollback, Knows
    <3>2. UNCHANGED resp \/ Answer(r, Refusal("Refused"))
      BY <2>2 DEF Rollback
    <3> QED BY <1>0, <2>1, <3>1, <3>2 DEF Answer, Refusal, TypeOK
  <2>3. CASE CommitAckLost(r) \/ PoolFails(r)
    BY <1>0, <2>1, <2>3 DEF CommitAckLost, PoolFails, Answer, Refusal, TypeOK
  <2>4. CASE ~Rollback(r) /\ ~CommitAckLost(r) /\ ~PoolFails(r)
    <3>1. \E l : l # "done" /\ Goto(r, l)
      BY <1>4, <2>4 DEF Submit, Handle, Fail, DeadlockVictim, Connect, LockSession, Judge,
         LockUser, Credit, InsertReward, Mark, HighScore, HighScoreUser, Retry,
         LockWaitTimeout, StatementFails, Throw
    <3> QED BY <1>0, <2>1, <3>1 DEF Goto, TypeOK
  <2> QED BY <2>2, <2>3, <2>4
<1>5. ASSUME \/ \E s \in SkillSessions : Start(s)
             \/ TimePasses \/ Bet \/ Settle \/ ChangeStatus \/ UNCHANGED vars
      PROVE  UNCHANGED <<req, pc, resp>>
  BY <1>5 DEF Start, TimePasses, Bet, Settle, ChangeStatus, Rest, vars
<1> QED BY <1>1, <1>2, <1>3, <1>4, <1>5 DEF Next

\* A submitted row is final.
LEMMA SubmittedStays ==
  ASSUME Inv, [Next]_vars, NEW s \in SkillSessions, runs[s] # None, runs[s].status = "SUBMITTED"
  PROVE  runs'[s] = runs[s]
<1>1. TypeOK /\ (Economy!Next \/ UNCHANGED <<balance, ledger, runs, best>>)
  BY NextEconomy DEF Inv, Economy!vars
<1>2. ASSUME NEW t \in SkillSessions, NEW score \in 0 .. MaxScore,
             \/ Economy!FinishUnpaid(t, score)
             \/ \E reward \in 1 .. MaxReward : Economy!FinishPaid(t, score, reward)
      PROVE  runs'[s] = runs[s]
  <2>1. PICK reward \in Nat : score \in Nat /\ Economy!Finish(t, score, reward)
    BY <1>2, SkillAssumption DEF Economy!FinishUnpaid, Economy!FinishPaid
  <2> QED BY <1>1, <2>1, FinishEffect
<1>3. ASSUME NEW t \in SkillSessions, NEW u, NEW g, Economy!Start(t, u, g)
      PROVE  runs'[s] = runs[s]
  BY <1>1, <1>3 DEF Economy!Start, TypeOK
<1> QED BY <1>1, <1>2, <1>3 DEF Economy!Next

\* A commit answers from the row it leaves; only its first answer is no replay.
LEMMA CommitAnswers ==
  ASSUME Inv, NEW r \in Reqs, Commit(r)
  PROVE  LET s == req[r].sess IN
         /\ s \in SkillSessions /\ req'[r] = req[r] /\ resp'[r] = resp[r]
         /\ runs'[s] # None /\ runs'[s].status = "SUBMITTED" /\ runs'[s].user = req[r].user
         /\ resp[r].score = runs'[s].score /\ resp[r].reward = runs'[s].reward
         /\ ~resp[r].replay => runs[s].status = "STARTED"
<1>1. PICK s \in SkillSessions : s = req[r].sess
  BY Local DEF Commit
<1>2. /\ pc[r] = "commit" /\ Apply(r) /\ req' = req /\ resp' = resp
      /\ runs[s] # None /\ runs[s].user = req[r].user /\ TypeOK
  BY <1>1, Local DEF Commit, Knows, HasSession
<1>3. runs' = IF tx[r].row = None THEN runs ELSE [runs EXCEPT ![s] = tx[r].row]
  BY <1>1, <1>2 DEF Apply
<1>4. CASE Replays(r)
  <2>1. tx[r].row = None /\ runs[s].status = "SUBMITTED" /\ resp[r] = ReplayOf(runs[s])
    BY <1>1, <1>4 DEF Replays, EmptyTx
  <2>2. runs' = runs
    BY <1>3, <2>1
  <2>3. resp[r].score = runs[s].score /\ resp[r].reward = runs[s].reward /\ resp[r].replay = TRUE
    BY <2>1 DEF ReplayOf
  <2> QED BY <1>1, <1>2, <2>1, <2>2, <2>3
<1>5. CASE Finishes(r)
  <2>1. PICK o \in Outcome : o = tx[r].outcome
    BY Local DEF Tx
  <2>2. PICK row \in Run : row = runs[s]
    BY <1>2 DEF TypeOK
  <2>3. PICK done : done = Submitted(row, o)
    OBVIOUS
  <2>4. /\ tx[r].row = done /\ resp[r] = AnswerOf(r) /\ row.status = "STARTED"
    BY <1>1, <1>5, <2>1, <2>2, <2>3 DEF Finishes, IsWritten
  <2>5. /\ done \in Run /\ done.status = "SUBMITTED" /\ done.user = row.user
        /\ done.score = o.score /\ done.reward = o.reward
    BY <2>3 DEF Submitted, Run, Outcome
  <2>6. runs'[s] = done /\ done # None
    BY <1>2, <1>3, <2>4, <2>5, AbsentAssumption DEF TypeOK
  <2>7. resp[r].score = o.score /\ resp[r].reward = o.reward
    BY <2>1, <2>4 DEF AnswerOf
  <2> QED BY <1>1, <1>2, <2>2, <2>4, <2>5, <2>6, <2>7
<1> QED BY <1>2, <1>4, <1>5, Local DEF Knows

LEMMA NextAnswers == Inv /\ AnswersAreStored /\ [Next]_vars => AnswersAreStored'
<1> SUFFICES ASSUME Inv, AnswersAreStored, [Next]_vars PROVE AnswersAreStored'
  OBVIOUS
<1> DEFINE Stored(r) == LET row == runs[req[r].sess] IN
             /\ row # None /\ row.status = "SUBMITTED" /\ row.user = req[r].user
             /\ resp[r].score = row.score /\ resp[r].reward = row.reward
<1>1. \A r \in Reqs : Told(r) => Stored(r)
  BY DEF AnswersAreStored
<1>2. \A r, t \in Reqs : /\ Told(r) /\ Told(t) /\ req[r].sess = req[t].sess
                         /\ ~resp[r].replay /\ ~resp[t].replay
                         => r = t
  BY DEF AnswersAreStored
<1>3. ASSUME NEW r \in Reqs, Told(r) PROVE req[r].sess \in SkillSessions
  BY <1>3, Local DEF Told
<1>4. ASSUME NEW r \in Reqs, Told(r)' PROVE Stored(r)'
  <2>1. CASE Commit(r)
    BY <2>1, CommitAnswers
  <2>2. CASE Told(r) /\ resp'[r] = resp[r] /\ req'[r] = req[r]
    <3>1. runs'[req[r].sess] = runs[req[r].sess]
      BY <1>1, <1>3, <2>2, SubmittedStays
    <3> QED BY <1>1, <2>2, <3>1
  <2> QED BY <1>4, <2>1, <2>2, ToldSteps
<1>5. ASSUME NEW r \in Reqs, NEW t \in Reqs, Told(r)', Told(t)',
             req'[r].sess = req'[t].sess, ~resp'[r].replay, ~resp'[t].replay,
             Commit(r), r # t
      PROVE  FALSE
  <2>1. ~Commit(t)
    <3>1. SUFFICES ASSUME Commit(t) PROVE FALSE
      OBVIOUS
    <3>2. pc' = [pc EXCEPT ![r] = "done"] /\ pc' = [pc EXCEPT ![t] = "done"]
          /\ pc[t] = "commit" /\ pc \in [Reqs -> Labels]
      BY <1>5, <3>1, Local DEF Commit, Goto, TypeOK
    <3> QED BY <1>5, <3>2
  <2>2. Told(t) /\ resp'[t] = resp[t] /\ req'[t] = req[t]
    BY <1>5, <2>1, ToldSteps
  <2>3. runs[req[t].sess].status = "SUBMITTED"
    BY <1>1, <2>2
  <2>4. runs[req[r].sess].status = "STARTED" /\ req'[r] = req[r]
    BY <1>5, CommitAnswers
  <2> QED BY <1>5, <2>2, <2>3, <2>4
<1>6. ASSUME NEW r \in Reqs, NEW t \in Reqs, Told(r)', Told(t)',
             req'[r].sess = req'[t].sess, ~resp'[r].replay, ~resp'[t].replay
      PROVE  r = t
  <2>1. CASE Commit(r) \/ Commit(t)
    BY <1>5, <1>6, <2>1
  <2>2. CASE ~Commit(r) /\ ~Commit(t)
    <3>1. /\ Told(r) /\ resp'[r] = resp[r] /\ req'[r] = req[r]
          /\ Told(t) /\ resp'[t] = resp[t] /\ req'[t] = req[t]
      BY <1>6, <2>2, ToldSteps
    <3> QED BY <1>2, <1>6, <3>1
  <2> QED BY <2>1, <2>2
<1> QED BY <1>4, <1>6 DEF AnswersAreStored

\* A client is told the score and the reward that are stored for its own
\* session, and one session is judged in at most one answer.
THEOREM AnswersAreFromTheRow == Spec => []AnswersAreStored
<1>1. Init => AnswersAreStored
  BY DEF Init, AnswersAreStored, Told
<1> QED BY <1>1, InitInv, NextInv, NextAnswers, PTL DEF Spec

---------------------------------------------------------------------------
(* Scores.                                                                  *)

\* r plays its own session, and its submission earns the score in the time
\* that has passed.
PlayedBy(r, score) ==
  LET s == req[r].sess IN
  /\ req[r].token = s
  /\ \E time \in 0 .. SubmitWindow :
       /\ Earns(runs[s].game, s, req[r].submission, score, time)
       /\ time <= clock - issuedAt[s]
\* What r was judged by; a body is there once it was submitted.
Plays(r) ==
  /\ pc[r] = "idle" => req[r] = None
  /\ pc[r] = "judge" => /\ req[r].token = req[r].sess
                        /\ tx[r].elapsed <= clock - issuedAt[req[r].sess]
  /\ pc[r] # "rollback" /\ tx[r].outcome.score > 0 => PlayedBy(r, tx[r].outcome.score)

\* Sessions are written when one starts and by commits; the clock by nobody else.
LEMMA OnlyCommitsWrite ==
  ASSUME [Next]_vars
  PROVE  /\ clock' = clock \/ TimePasses
         /\ \/ runs' = runs /\ issuedAt' = issuedAt
            \/ \E t \in SkillSessions : Start(t)
            \/ \E r \in Reqs : Commit(r) \/ CommitAckLost(r)
<1> DEFINE Kept == clock' = clock /\ runs' = runs /\ issuedAt' = issuedAt
<1>1. ASSUME NEW r \in Reqs, Submit(r) \/ DeadlockVictim(r) PROVE Kept
  BY <1>1 DEF Submit, DeadlockVictim, tables
<1>2. ASSUME NEW r \in Reqs, Handle(r)
      PROVE  clock' = clock /\ (Kept \/ Commit(r))
  <2>1. ASSUME Connect(r) \/ LockSession(r) \/ Judge(r) \/ LockUser(r) PROVE Kept
    BY <2>1 DEF Connect, LockSession, Judge, LockUser, tables
  <2>2. ASSUME Credit(r) \/ InsertReward(r) \/ Mark(r) \/ HighScore(r) PROVE Kept
    BY <2>2 DEF Credit, InsertReward, Mark, HighScore, tables
  <2>3. ASSUME HighScoreUser(r) \/ Rollback(r) \/ Retry(r) PROVE Kept
    BY <2>3 DEF HighScoreUser, Rollback, Retry, tables
  <2>4. ASSUME Commit(r) PROVE clock' = clock
    BY <2>4 DEF Commit
  <2> QED BY <1>2, <2>1, <2>2, <2>3, <2>4 DEF Handle
<1>3. ASSUME NEW r \in Reqs, Fail(r)
      PROVE  clock' = clock /\ (Kept \/ CommitAckLost(r))
  <2>1. ASSUME LockWaitTimeout(r) \/ StatementFails(r) \/ PoolFails(r) PROVE Kept
    BY <2>1 DEF LockWaitTimeout, StatementFails, PoolFails, tables
  <2>2. ASSUME CommitAckLost(r) PROVE clock' = clock
    BY <2>2 DEF CommitAckLost
  <2> QED BY <1>3, <2>1, <2>2 DEF Fail
<1>4. ASSUME Crash \/ Bet \/ Settle \/ ChangeStatus \/ UNCHANGED vars PROVE Kept
  BY <1>4 DEF Crash, Bet, Settle, ChangeStatus, Rest, vars, tables
<1>5. ASSUME TimePasses PROVE runs' = runs /\ issuedAt' = issuedAt
  BY <1>5 DEF TimePasses, tables
<1>6. ASSUME NEW t \in SkillSessions, Start(t) PROVE clock' = clock
  BY <1>6 DEF Start
<1> HIDE DEF Kept
<1>7. ASSUME Next PROVE clock' = clock \/ TimePasses
  <2>1. Kept => clock' = clock
    BY DEF Kept
  <2> QED BY <1>1, <1>2, <1>3, <1>4, <1>6, <1>7, <2>1 DEF Next
<1>8. ASSUME Next
      PROVE  \/ runs' = runs /\ issuedAt' = issuedAt
             \/ \E t \in SkillSessions : Start(t)
             \/ \E r \in Reqs : Commit(r) \/ CommitAckLost(r)
  <2>1. Kept => runs' = runs /\ issuedAt' = issuedAt
    BY DEF Kept
  <2> QED BY <1>1, <1>2, <1>3, <1>4, <1>5, <1>8, <2>1 DEF Next
<1> QED BY <1>4, <1>7, <1>8 DEF Kept

\* A session keeps its game, its owner and its start; time goes on.
LEMMA RowsPersist ==
  ASSUME Inv, [Next]_vars
  PROVE  /\ clock \in Nat /\ clock' \in Nat /\ clock <= clock'
         /\ \A s \in SkillSessions : runs[s] # None =>
              /\ runs'[s] # None /\ runs'[s].game = runs[s].game
              /\ runs'[s].user = runs[s].user
              /\ issuedAt[s] \in Nat /\ issuedAt'[s] = issuedAt[s]
<1>1. TypeOK /\ TypeOK'
  BY NextInv DEF Inv
<1>2. clock' = clock \/ TimePasses
  BY OnlyCommitsWrite
<1>3. clock \in Nat /\ clock' \in Nat /\ clock <= clock'
  BY <1>1, <1>2 DEF TypeOK, TimePasses
<1>4. ASSUME NEW s \in SkillSessions, runs[s] # None
      PROVE  runs'[s] # None /\ runs'[s].game = runs[s].game /\ runs'[s].user = runs[s].user
  <2>1. Economy!Next \/ UNCHANGED <<balance, ledger, runs, best>>
    BY NextEconomy DEF Economy!vars
  <2>2. ASSUME NEW t \in SkillSessions, NEW score \in 0 .. MaxScore,
               \/ Economy!FinishUnpaid(t, score)
               \/ \E reward \in 1 .. MaxReward : Economy!FinishPaid(t, score, reward)
        PROVE  /\ runs'[s] # None /\ runs'[s].game = runs[s].game
               /\ runs'[s].user = runs[s].user
    <3>1. PICK reward \in Nat : score \in Nat /\ Economy!Finish(t, score, reward)
      BY <2>2, SkillAssumption DEF Economy!FinishUnpaid, Economy!FinishPaid
    <3>2. /\ runs'[t] \in Run /\ runs'[t].user = runs[t].user /\ runs'[t].game = runs[t].game
          /\ \A q \in SkillSessions \ {t} : runs'[q] = runs[q]
      BY <1>1, <3>1, FinishEffect
    <3>3. CASE s = t
      BY <3>2, <3>3, AbsentAssumption
    <3>4. CASE s # t
      BY <1>4, <3>2, <3>4
    <3> QED BY <3>3, <3>4
  <2>3. ASSUME NEW t \in SkillSessions, NEW u, NEW g, Economy!Start(t, u, g)
        PROVE  runs'[s] = runs[s]
    BY <1>1, <1>4, <2>3 DEF Economy!Start, TypeOK
  <2>4. \/ runs'[s] = runs[s]
        \/ \E t \in SkillSessions, score \in 0 .. MaxScore :
             \/ Economy!FinishUnpaid(t, score)
             \/ \E reward \in 1 .. MaxReward : Economy!FinishPaid(t, score, reward)
    BY <2>1, <2>3 DEF Economy!Next
  <2> QED BY <1>4, <2>2, <2>4
<1>5. ASSUME NEW s \in SkillSessions, runs[s] # None
      PROVE  issuedAt[s] \in Nat /\ issuedAt'[s] = issuedAt[s]
  <2>1. \/ issuedAt' = issuedAt
        \/ \E t \in SkillSessions : Start(t)
        \/ \E r \in Reqs : Commit(r) \/ CommitAckLost(r)
    BY OnlyCommitsWrite
  <2>2. issuedAt \in [SkillSessions -> Nat]
    BY <1>1 DEF TypeOK
  <2>3. ASSUME NEW r \in Reqs, Commit(r) \/ CommitAckLost(r) PROVE issuedAt' = issuedAt
    BY <2>3 DEF Commit, CommitAckLost, Apply
  <2>4. ASSUME NEW t \in SkillSessions, Start(t) PROVE issuedAt'[s] = issuedAt[s]
    BY <1>5, <2>2, <2>4 DEF Start
  <2> QED BY <2>1, <2>2, <2>3, <2>4
<1> QED BY <1>3, <1>4, <1>5

\* What was played stays played.
LEMMA PlayedStays ==
  ASSUME Inv, [Next]_vars, NEW r \in Reqs, req'[r] = req[r], req[r].sess \in SkillSessions,
         runs[req[r].sess] # None, NEW score, PlayedBy(r, score)
  PROVE  PlayedBy(r, score)'
<1>1. PICK s \in SkillSessions : s = req[r].sess
  OBVIOUS
<1>2. PICK time \in 0 .. SubmitWindow :
        Earns(runs[s].game, s, req[r].submission, score, time) /\ time <= clock - issuedAt[s]
  BY <1>1 DEF PlayedBy
<1>3. /\ runs'[s].game = runs[s].game /\ issuedAt'[s] = issuedAt[s] /\ issuedAt[s] \in Nat
      /\ clock \in Nat /\ clock' \in Nat /\ clock <= clock'
  BY <1>1, RowsPersist
<1>4. time <= clock' - issuedAt'[s]
  BY <1>2, <1>3
<1>5. Earns(runs'[s].game, s, req'[r].submission, score, time)
  BY <1>2, <1>3
<1> QED BY <1>1, <1>4, <1>5 DEF PlayedBy

\* The steps that give a request its outcome or take it away.
LEMMA OutcomeSteps ==
  ASSUME Inv, [Next]_vars, NEW r \in Reqs, pc'[r] # "rollback", tx'[r].outcome.score > 0
  PROVE  \/ Judge(r)
         \/ req'[r] = req[r] /\ tx'[r].outcome = tx[r].outcome /\ pc[r] # "rollback"
<1>0. TypeOK
  BY DEF Inv
<1>1. EmptyTx.outcome.score = 0
  BY DEF EmptyTx, NoOutcome, Rejected
<1>2. CASE UNCHANGED <<req, pc, tx>>
  BY <1>2
<1>3. CASE Crash
  BY <1>1, <1>3 DEF Crash
<1>4. ASSUME NEW q \in Reqs \ {r}, Submit(q) \/ Handle(q) \/ DeadlockVictim(q) \/ Fail(q)
      PROVE  req'[r] = req[r] /\ tx'[r].outcome = tx[r].outcome /\ pc[r] # "rollback"
  BY <1>0, <1>4, OneMoves
<1>5. ASSUME DeadlockVictim(r) \/ Fail(r) PROVE FALSE
  <2>1. ASSUME NEW c, Throw(r, c) PROVE FALSE
    BY <1>0, <2>1 DEF Throw, Goto, TypeOK
  <2>2. CASE CommitAckLost(r)
    BY <1>0, <1>1, <2>2 DEF CommitAckLost, TypeOK
  <2>3. CASE PoolFails(r)
    <3>1. tx[r] = EmptyTx /\ tx' = tx
      BY <2>3 DEF PoolFails, Inv, Knows, OutsideTx
    <3> QED BY <1>1, <3>1
  <2> QED BY <1>5, <2>1, <2>2, <2>3 DEF DeadlockVictim, Fail, LockWaitTimeout, StatementFails
<1>6. ASSUME Submit(r) \/ Connect(r) \/ Commit(r) \/ Rollback(r) \/ Retry(r) PROVE FALSE
  <2>1. CASE Submit(r) \/ Retry(r)
    <3>1. tx[r] = EmptyTx /\ tx' = tx
      BY <2>1 DEF Submit, Retry, Inv, Knows, OutsideTx
    <3> QED BY <1>1, <3>1
  <2>2. CASE Connect(r) \/ Commit(r) \/ Rollback(r)
    BY <1>0, <1>1, <2>2 DEF Connect, Commit, Rollback, TypeOK
  <2> QED BY <1>6, <2>1, <2>2
<1>7. ASSUME LockSession(r) \/ LockUser(r) \/ Credit(r) \/ InsertReward(r) \/ Mark(r)
             \/ HighScore(r) \/ HighScoreUser(r)
      PROVE  req'[r] = req[r] /\ tx'[r].outcome = tx[r].outcome /\ pc[r] # "rollback"
  <2>1. tx \in [Reqs -> Tx]
    BY <1>0 DEF TypeOK
  <2>2. req' = req /\ pc[r] # "rollback"
    BY <1>7 DEF LockSession, LockUser, Credit, InsertReward, Mark, HighScore, HighScoreUser
  <2>3. tx'[r].outcome = tx[r].outcome
    <3>1. CASE LockSession(r)
      BY <2>1, <3>1 DEF LockSession, Tx
    <3>2. CASE LockUser(r) \/ Credit(r)
      BY <2>1, <3>2 DEF LockUser, Credit, Tx
    <3>3. CASE InsertReward(r)
      BY <2>1, <3>3 DEF InsertReward, Tx
    <3>4. CASE Mark(r)
      BY <2>1, <3>4 DEF Mark, Tx
    <3>5. CASE HighScore(r)
      <4>1. tx' = [tx EXCEPT ![r].highScore = TRUE]
        BY <3>5 DEF HighScore
      <4> QED BY <2>1, <4>1 DEF Tx
    <3>6. CASE HighScoreUser(r)
      BY <3>6 DEF HighScoreUser, Goto
    <3> QED BY <1>7, <3>1, <3>2, <3>3, <3>4, <3>5, <3>6
  <2> QED BY <2>2, <2>3
<1>8. ASSUME \/ \E s \in SkillSessions : Start(s)
             \/ TimePasses \/ Bet \/ Settle \/ ChangeStatus \/ UNCHANGED vars
      PROVE  UNCHANGED <<req, pc, tx>>
  BY <1>8 DEF Start, TimePasses, Bet, Settle, ChangeStatus, Rest, vars
<1> QED BY <1>2, <1>3, <1>4, <1>5, <1>6, <1>7, <1>8 DEF Next, Handle

\* The engine's verdict: a positive score was earned in the time measured.
LEMMA JudgedWasPlayed ==
  ASSUME Inv, [Next]_vars, NEW r \in Reqs, Plays(r), Judge(r),
         pc'[r] # "rollback", tx'[r].outcome.score > 0
  PROVE  PlayedBy(r, tx[r].outcome.score)'
<1>1. PICK s \in SkillSessions : s = req[r].sess
  BY Local DEF Judge
<1>2. /\ pc[r] = "judge" /\ req' = req /\ runs' = runs /\ issuedAt' = issuedAt
      /\ clock' = clock
  BY DEF Judge, tables
<1>3. /\ tx[r].elapsed \in Nat /\ tx[r].elapsed <= SubmitWindow
      /\ runs[s].game \in SkillGameKeys /\ tx \in [Reqs -> Tx] /\ pc \in [Reqs -> Labels]
  BY <1>1, <1>2, Local DEF Knows, Writing, HasSession, TypeOK, Run, Tx
<1>4. PICK o : o = validate(runs[s].game, s, req[r].submission, tx[r].elapsed)
  OBVIOUS
<1>5. IsSane(o) /\ tx' = [tx EXCEPT ![r].outcome = o, ![r].elapsed = 0]
  BY <1>1, <1>3, <1>4 DEF Judge, Throw, Goto
<1>6. tx'[r].outcome = o /\ o.score \in Nat /\ o.score > 0
  BY <1>3, <1>5 DEF IsSane, Tx
<1>7. PICK time \in 0 .. tx[r].elapsed :
        Earns(runs[s].game, s, req[r].submission, o.score, time)
  <2>1. PICK g \in SkillGameKeys : g = runs[s].game
    BY <1>3
  <2>2. PICK e \in Nat : e = tx[r].elapsed
    BY <1>3
  <2>3. \E time \in 0 .. e : Earns(g, s, req[r].submission, o.score, time)
    BY <1>4, <1>6, <2>1, <2>2, EnginesEarn
  <2> QED BY <2>1, <2>2, <2>3
<1>8. req[r].token = s /\ tx[r].elapsed <= clock - issuedAt[s]
  BY <1>1, <1>2 DEF Plays
<1>9. time \in 0 .. SubmitWindow /\ time <= clock - issuedAt[s]
  <2>1. clock \in Nat /\ issuedAt[s] \in Nat /\ SubmitWindow \in Nat
    BY SkillAssumption DEF Inv, TypeOK
  <2> QED BY <1>3, <1>7, <1>8, <2>1
<1> QED BY <1>1, <1>2, <1>6, <1>7, <1>8, <1>9 DEF PlayedBy


\* A request keeps the body it came with.
LEMMA BodyStays ==
  ASSUME Inv, [Next]_vars, NEW r \in Reqs, Plays(r), req[r] # None
  PROVE  req'[r] = req[r]
<1>0. TypeOK /\ pc[r] # "idle"
  BY DEF Inv, Plays
<1>1. ASSUME NEW q \in Reqs, Submit(q) \/ Handle(q) \/ DeadlockVictim(q) \/ Fail(q)
      PROVE  req'[r] = req[r]
  <2>1. CASE q = r
    BY <1>0, <1>1, <2>1, OneMoves
  <2>2. CASE q # r
    BY <1>0, <1>1, <2>2, OneMoves
  <2> QED BY <2>1, <2>2
<1>2. ASSUME \/ \E s \in SkillSessions : Start(s)
             \/ Crash \/ TimePasses \/ Bet \/ Settle \/ ChangeStatus \/ UNCHANGED vars
      PROVE  req' = req
  BY <1>2 DEF Start, Crash, TimePasses, Bet, Settle, ChangeStatus, Rest, vars
<1> QED BY <1>1, <1>2 DEF Next

LEMMA PlaysStays ==
  ASSUME Inv, [Next]_vars, NEW r \in Reqs, Plays(r)
  PROVE  Plays(r)'
<1>0. TypeOK /\ None \notin Bodies
  BY AbsentAssumption DEF Inv
<1>1. ASSUME pc'[r] = "idle" PROVE req'[r] = None
  <2>1. ASSUME Submit(r) \/ Handle(r) \/ DeadlockVictim(r) \/ Fail(r) PROVE FALSE
    <3>1. \E l : l # "idle" /\ Goto(r, l)
      BY <2>1 DEF Submit, Handle, Fail, DeadlockVictim, Connect, LockSession, Judge, LockUser,
         Credit, InsertReward, Mark, HighScore, HighScoreUser, Commit, Rollback, Retry,
         CommitAckLost, LockWaitTimeout, StatementFails, PoolFails, Throw
    <3> QED BY <1>0, <1>1, <3>1 DEF Goto, TypeOK
  <2>2. ASSUME NEW q \in Reqs \ {r}, Submit(q) \/ Handle(q) \/ DeadlockVictim(q) \/ Fail(q)
        PROVE  pc[r] = "idle" /\ req'[r] = req[r]
    BY <1>0, <1>1, <2>2, OneMoves
  <2>3. CASE Crash
    BY <1>1, <2>3 DEF Crash, Plays
  <2>4. CASE UNCHANGED <<req, pc, tx>>
    BY <1>1, <2>4 DEF Plays
  <2>5. ASSUME \/ \E s \in SkillSessions : Start(s)
               \/ TimePasses \/ Bet \/ Settle \/ ChangeStatus \/ UNCHANGED vars
        PROVE  UNCHANGED <<req, pc, tx>>
    BY <2>5 DEF Start, TimePasses, Bet, Settle, ChangeStatus, Rest, vars
  <2> QED BY <2>1, <2>2, <2>3, <2>4, <2>5 DEF Next, Plays
<1>2. ASSUME pc'[r] = "judge"
      PROVE  (/\ req[r].token = req[r].sess
              /\ tx[r].elapsed <= clock - issuedAt[req[r].sess])'
  <2>1. CASE LockSession(r)
    <3>1. PICK s \in SkillSessions : s = req[r].sess
      BY <2>1, Local DEF LockSession
    <3>2. PICK e : e = clock - issuedAt[s]
      OBVIOUS
    <3>3. /\ req[r].token = s /\ tx' = [tx EXCEPT ![r].elapsed = e]
          /\ req' = req /\ clock' = clock /\ issuedAt' = issuedAt
      BY <1>0, <1>2, <2>1, <3>1, <3>2 DEF LockSession, Throw, Goto, tables, TypeOK
    <3>4. tx'[r].elapsed = e /\ clock \in Nat /\ issuedAt[s] \in Nat
      BY <1>0, <3>3 DEF TypeOK, Tx
    <3> QED BY <3>1, <3>2, <3>3, <3>4
  <2>2. CASE pc[r] = "judge" /\ tx'[r] = tx[r] /\ req'[r] = req[r]
    <3>1. PICK s \in SkillSessions : s = req[r].sess /\ runs[s] # None
      BY <2>2, Local DEF Knows, Writing, HasSession
    <3>2. req[r].token = s /\ tx[r].elapsed <= clock - issuedAt[s] /\ tx[r].elapsed \in Nat
      BY <1>0, <2>2, <3>1 DEF Plays, TypeOK, Tx
    <3>3. /\ issuedAt'[s] = issuedAt[s] /\ issuedAt[s] \in Nat
          /\ clock \in Nat /\ clock' \in Nat /\ clock <= clock'
      BY <3>1, RowsPersist
    <3> QED BY <2>2, <3>1, <3>2, <3>3
  <2>3. ASSUME Submit(r) \/ Handle(r) \/ DeadlockVictim(r) \/ Fail(r), ~LockSession(r) PROVE FALSE
    <3>1. \E l : l # "judge" /\ Goto(r, l)
      BY <2>3 DEF Submit, Handle, Fail, DeadlockVictim, Connect, Judge, LockUser,
         Credit, InsertReward, Mark, HighScore, HighScoreUser, Commit, Rollback, Retry,
         CommitAckLost, LockWaitTimeout, StatementFails, PoolFails, Throw
    <3> QED BY <1>0, <1>2, <3>1 DEF Goto, TypeOK
  <2>4. ASSUME NEW q \in Reqs \ {r}, Submit(q) \/ Handle(q) \/ DeadlockVictim(q) \/ Fail(q)
        PROVE  pc[r] = "judge" /\ tx'[r] = tx[r] /\ req'[r] = req[r]
    BY <1>0, <1>2, <2>4, OneMoves
  <2>5. ~Crash
    BY <1>2 DEF Crash, InFlight
  <2>6. ASSUME \/ \E s \in SkillSessions : Start(s)
               \/ TimePasses \/ Bet \/ Settle \/ ChangeStatus \/ UNCHANGED vars
        PROVE  UNCHANGED <<req, pc, tx>>
    BY <2>6 DEF Start, TimePasses, Bet, Settle, ChangeStatus, Rest, vars
  <2> QED BY <1>2, <2>1, <2>2, <2>3, <2>4, <2>5, <2>6 DEF Next
<1>3. ASSUME pc'[r] # "rollback", tx'[r].outcome.score > 0
      PROVE  PlayedBy(r, tx[r].outcome.score)'
  <2>1. CASE Judge(r)
    BY <1>3, <2>1, JudgedWasPlayed
  <2>2. CASE req'[r] = req[r] /\ tx'[r].outcome = tx[r].outcome /\ pc[r] # "rollback"
    <3>1. PICK score : score = tx[r].outcome.score
      OBVIOUS
    <3>2. PlayedBy(r, score)
      BY <1>3, <2>2, <3>1 DEF Plays
    <3>3. pc[r] \in Labels \ (OutsideTx \cup {"rollback"})
      <4>1. tx[r] # EmptyTx
        BY <1>3, <2>2 DEF EmptyTx, NoOutcome, Rejected
      <4> QED BY <1>0, <2>2, <4>1 DEF Inv, Knows, TypeOK
    <3>4. pc[r] # "idle" /\ (pc[r] \in Writing \/ pc[r] = "commit")
      BY <3>3 DEF Labels, InTx, OutsideTx, Writing
    <3>5. req[r].sess \in SkillSessions /\ runs[req[r].sess] # None
      BY <3>4, Local DEF Knows, HasSession
    <3>6. PlayedBy(r, score)'
      BY <2>2, <3>2, <3>5, PlayedStays
    <3> QED BY <2>2, <3>1, <3>6 DEF PlayedBy
  <2> QED BY <1>3, <2>1, <2>2, OutcomeSteps
<1> QED BY <1>1, <1>2, <1>3 DEF Plays

\* A row that becomes submitted is the judged row of the request that commits.
LEMMA SubmittedByCommit ==
  ASSUME Inv, [Next]_vars, NEW s \in SkillSessions,
         runs'[s] # None, runs'[s].status = "SUBMITTED"
  PROVE  \/ runs'[s] = runs[s]
         \/ \E r \in Reqs : /\ pc[r] = "commit" /\ req[r].sess = s /\ req' = req
                            /\ runs[s] # None /\ runs'[s].user = req[r].user
                            /\ runs'[s].score = tx[r].outcome.score
<1>0. TypeOK
  BY DEF Inv
<1>1. ASSUME NEW r \in Reqs, Commit(r) \/ CommitAckLost(r), runs'[s] # runs[s]
      PROVE  /\ pc[r] = "commit" /\ req[r].sess = s /\ req' = req
             /\ runs[s] # None /\ runs'[s].user = req[r].user
             /\ runs'[s].score = tx[r].outcome.score
  <2>1. pc[r] = "commit" /\ req' = req /\ Apply(r) /\ req[r].sess \in SkillSessions
    BY <1>1, Local DEF Commit, CommitAckLost
  <2>2. runs' = IF tx[r].row = None THEN runs ELSE [runs EXCEPT ![req[r].sess] = tx[r].row]
    BY <2>1 DEF Apply
  <2>3. req[r].sess = s /\ tx[r].row # None /\ runs'[s] = tx[r].row
    BY <1>0, <1>1, <2>1, <2>2 DEF TypeOK
  <2>4. Finishes(r) /\ HasSession(r)
    BY <2>1, <2>3, Local DEF Knows, Replays, EmptyTx
  <2>5. PICK row \in Run : row = runs[s] /\ runs[s] # None /\ row.user = req[r].user
    BY <1>0, <2>3, <2>4 DEF HasSession, TypeOK
  <2>6. runs'[s] = Submitted(row, tx[r].outcome)
    BY <2>3, <2>4, <2>5 DEF Finishes, IsWritten
  <2>7. runs'[s].score = tx[r].outcome.score /\ runs'[s].user = row.user
    BY <2>6 DEF Submitted, Run
  <2> QED BY <2>1, <2>3, <2>5, <2>7
<1>2. ASSUME NEW t \in SkillSessions, Start(t) PROVE runs'[s] = runs[s]
  BY <1>0, <1>2 DEF Start, TypeOK
<1>3. \/ runs' = runs
      \/ \E t \in SkillSessions : Start(t)
      \/ \E r \in Reqs : Commit(r) \/ CommitAckLost(r)
  BY OnlyCommitsWrite
<1> QED BY <1>1, <1>2, <1>3

ScoreInv == Inv /\ ScoresAreEarned /\ \A r \in Reqs : Plays(r)

LEMMA NextScores == ScoreInv /\ [Next]_vars => ScoreInv'
<1> SUFFICES ASSUME ScoreInv, [Next]_vars PROVE ScoreInv'
  OBVIOUS
<1>1. Inv /\ Inv' /\ ScoresAreEarned /\ \A r \in Reqs : Plays(r) /\ Plays(r)'
  BY NextInv, PlaysStays DEF ScoreInv
<1>2. ASSUME NEW s \in SkillSessions,
             runs'[s] # None, runs'[s].status = "SUBMITTED", runs'[s].score > 0
      PROVE  \E r \in Reqs : /\ req'[r] # None /\ req'[r].sess = s
                             /\ req'[r].user = runs'[s].user
                             /\ PlayedBy(r, runs[s].score)'
  <2>1. CASE runs'[s] = runs[s]
    <3>1. PICK r \in Reqs, time \in 0 .. SubmitWindow :
            /\ req[r] # None
            /\ req[r].sess = s /\ req[r].token = s /\ req[r].user = runs[s].user
            /\ Earns(runs[s].game, s, req[r].submission, runs[s].score, time)
            /\ time <= clock - issuedAt[s]
      BY <1>1, <1>2, <2>1 DEF ScoresAreEarned
    <3>2. PlayedBy(r, runs[s].score)
      BY <3>1 DEF PlayedBy
    <3>3. req'[r] = req[r]
      BY <1>1, <3>1, BodyStays
    <3>4. PlayedBy(r, runs[s].score)'
      <4>1. PICK score : score = runs[s].score
        OBVIOUS
      <4>2. PlayedBy(r, score)'
        BY <1>1, <1>2, <2>1, <3>1, <3>2, <3>3, <4>1, PlayedStays
      <4> QED BY <2>1, <4>1, <4>2 DEF PlayedBy
    <3> QED BY <2>1, <3>1, <3>3, <3>4
  <2>2. ASSUME NEW r \in Reqs, pc[r] = "commit", req[r].sess = s, req' = req, runs[s] # None,
               runs'[s].user = req[r].user, runs'[s].score = tx[r].outcome.score
        PROVE  /\ req'[r] # None /\ req'[r].sess = s /\ req'[r].user = runs'[s].user
               /\ PlayedBy(r, runs[s].score)'
    <3>1. PICK score : score = tx[r].outcome.score
      OBVIOUS
    <3>2. PlayedBy(r, score)
      BY <1>1, <1>2, <2>2, <3>1 DEF Plays
    <3>3. PlayedBy(r, score)'
      BY <1>1, <2>2, <3>2, PlayedStays
    <3>4. req[r] # None
      BY <1>1, <2>2, AbsentAssumption DEF Inv, Knows
    <3> QED BY <2>2, <3>1, <3>3, <3>4 DEF PlayedBy
  <2> QED BY <1>1, <1>2, <2>1, <2>2, SubmittedByCommit
<1>3. ScoresAreEarned'
  BY <1>2 DEF ScoresAreEarned, PlayedBy
<1> QED BY <1>1, <1>3 DEF ScoreInv

\* A stored score is what a submission of the owner, with the session's own
\* token, earns by the rules of the game, in the time since the start.
THEOREM NobodyIsPaidForNothing == Spec => []ScoresAreEarned
<1>1. ScoreInv => ScoresAreEarned
  BY DEF ScoreInv
<1>2. Init => ScoreInv
  <2> SUFFICES ASSUME Init PROVE ScoreInv
    OBVIOUS
  <2>1. ScoresAreEarned
    BY DEF Init, ScoresAreEarned
  <2>2. ASSUME NEW r \in Reqs PROVE Plays(r)
    BY DEF Init, Plays, EmptyTx, NoOutcome, Rejected
  <2> QED BY <2>1, <2>2, InitInv DEF ScoreInv
<1> QED BY <1>1, <1>2, NextScores, PTL DEF Spec

=============================================================================
