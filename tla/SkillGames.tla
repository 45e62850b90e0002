----------------------------- MODULE SkillGames -----------------------------
(* /api/skill/start and /api/skill/submit beside the money endpoints: a      *)
(* submission is a chain of awaited statements in one transaction, with the  *)
(* locks it asks for, the clock it is judged by, retries, failures and       *)
(* crashes. It shares the users rows and points_ledger with bets and         *)
(* settlements, which take part as the atomic steps of PointsEconomy. As in  *)
(* GameEconomy a transaction's writes stay in tx[r] until its commit; a local *)
(* of the handler is dropped after its last use.                             *)
EXTENDS SkillEngines

CONSTANTS Users, Reqs, None,
          Sessions, Keys, NoKey, Opening, Bets, MinBet, MaxBet,
          MaxPayout,     \* of PointsEconomy
          Starts,        \* [sess, user, game]: the sessions clients may start
          Bodies,        \* [user, sess, token, submission]: what they may submit
          MaxScore,      \* no engine scores more
          MaxReward,     \* config.skill.maxReward
          SubmitWindow,  \* config.skill.submitWindowMs
          MaxStartWait,  \* bound on the lock wait of start's INSERT
          Instants,      \* times at which the clock may be read
          MaxAttempts,   \* MAX_ATTEMPTS of withTransaction
          AdminChanges   \* <<user, status>>: what an administrator may do

VARIABLES
  balance, status, ledger, slips,  \* the tables of PointsEconomy
  runs,      \* skill_sessions, without the column
  issuedAt,  \* issued_at
  best,      \* skill_high_scores
  clock,     \* Date.now()
  userX,     \* holder of the X lock on a users row
  userS,     \* transactions with a shared lock on a users row
  runLock,   \* holder of the X lock on a skill_sessions row
  bestLock,  \* holder of the X lock on a skill_high_scores row
  req, pc, tx, attempt, resp  \* as in GameEconomy

tables == <<balance, status, ledger, slips, runs, issuedAt, best>>
locks == <<userX, userS, runLock, bestLock>>
vars == <<tables, clock, locks, req, pc, tx, attempt, resp>>

Money == INSTANCE PointsEconomy

---------------------------------------------------------------------------
Run == [user : Users, game : SkillGameKeys, status : {"STARTED", "SUBMITTED"},
        score : Nat \cup {None}, reward : Nat \cup {None}]
Entry == [reason : {"GAME_BET", "GAME_PAYOUT", "SKILL_REWARD"},
          sess : Sessions \cup SkillSessions, amount : Int, after : Int]
Outcome == [valid : BOOLEAN, score : Nat, reward : Nat]
Tx == [elapsed : Nat, outcome : Outcome, seen : Int, credit : Nat,
       entry : Entry \cup {None}, row : Run \cup {None}, highScore : BOOLEAN]
\* every error but a retryable one ends the request the same way: 404, 403,
\* 409, 400 and 500 are one code
Codes == {"OK", "Refused", "Retryable"}
Response == [code : Codes, valid : BOOLEAN, score : Nat, reward : Nat, replay : BOOLEAN]

InTx == {"lockSession", "judge", "lockUser", "credit", "insertReward", "mark",
         "highScore", "highScoreUser", "commit"}
Labels == InTx \cup {"idle", "connect", "rollback", "backoff", "done"}

ASSUME SkillAssumption ==
  /\ Opening \in [Users -> Nat] /\ Bets \subseteq Nat \ {0}
  /\ MinBet \in Nat /\ MaxBet \in Nat /\ MaxPayout \in Nat
  /\ Starts \subseteq [sess : SkillSessions, user : Users, game : SkillGameKeys]
  \* token: the session the echoed seed token was signed for
  /\ \A body \in Bodies : /\ body.user \in Users
                          /\ body.sess \in SkillSessions /\ body.token \in SkillSessions
                          /\ body.submission.field \in {"jumps", "words"}
  /\ MaxScore \in Nat /\ MaxReward \in Nat /\ SubmitWindow \in Nat
  /\ MaxStartWait \in Nat /\ Instants \subseteq Nat /\ MaxAttempts \in Nat \ {0}
  /\ AdminChanges \subseteq Users \X {"ACTIVE", "SUSPENDED"}
  /\ NoKey \notin Keys

\* what MaxScore is for: the abstract specification enumerates the scores
ASSUME ScoreAssumption ==
  \A game \in SkillGameKeys, body \in Bodies, elapsed \in 0 .. SubmitWindow :
    validate(game, body.sess, body.submission, elapsed).score <= MaxScore

ASSUME AbsentAssumption ==
  None \notin Run /\ None \notin Entry /\ None \notin Reqs /\ None \notin Nat
  /\ None \notin Bodies

NoOutcome == Rejected
EmptyTx == [elapsed |-> 0, outcome |-> NoOutcome, seen |-> 0, credit |-> 0,
            entry |-> None, row |-> None, highScore |-> FALSE]

Init ==
  /\ Money!Init
  /\ runs = [s \in SkillSessions |-> None]
  /\ issuedAt = [s \in SkillSessions |-> 0]
  /\ best = [g \in SkillGameKeys |-> [u \in Users |-> None]]
  /\ clock = 0
  /\ userX = [u \in Users |-> None]
  /\ userS = [u \in Users |-> {}]
  /\ runLock = [s \in SkillSessions |-> None]
  /\ bestLock = [g \in SkillGameKeys |-> [u \in Users |-> None]]
  /\ req = [r \in Reqs |-> None]
  /\ pc = [r \in Reqs |-> "idle"]
  /\ tx = [r \in Reqs |-> EmptyTx]
  /\ attempt = [r \in Reqs |-> 1]
  /\ resp = [r \in Reqs |-> None]

---------------------------------------------------------------------------
(* Helpers; a definition marked "slip" is one with a bug the code could have *)
(* had, used by no action.                                                  *)

Goto(r, l) == pc' = [pc EXCEPT ![r] = l]
Answer(r, a) == resp' = [resp EXCEPT ![r] = a]
Refusal(c) == [code |-> c, valid |-> FALSE, score |-> 0, reward |-> 0, replay |-> FALSE]
LoopEnds(r) == attempt' = [attempt EXCEPT ![r] = 1]
Throw(r, c) == Goto(r, "rollback") /\ Answer(r, Refusal(c))

\* slip: the account is read without FOR UPDATE
PlainReadOfUser(r, u) == userX[u] = None /\ UNCHANGED userX
\* SELECT ... FOR UPDATE on the users row waits for writers and for sharers
LockUsersRow(r, u) ==
  /\ userX[u] \in {None, r} /\ userS[u] \subseteq {r}
  /\ userX' = [userX EXCEPT ![u] = r]
\* slip: the status is not checked
AccountExists(u) == u \in Users
AccountActive(u) == status[u] = "ACTIVE"

\* the answer to a session that is already SUBMITTED: valid, whatever it was
ReplayOf(row) == [code |-> "OK", valid |-> TRUE, score |-> row.score,
                  reward |-> row.reward, replay |-> TRUE]
AnswerOf(r) == LET o == tx[r].outcome IN
  [code |-> "OK", valid |-> o.valid, score |-> o.score, reward |-> o.reward,
   replay |-> FALSE]

\* slips: the reward is not stored; it is stored only when there is one
SubmittedUnpaid(row, o) == [row EXCEPT !.status = "SUBMITTED", !.score = o.score, !.reward = 0]
SubmittedOrNull(row, o) ==
  [row EXCEPT !.status = "SUBMITTED", !.score = o.score,
              !.reward = IF o.reward = 0 THEN None ELSE o.reward]
Submitted(row, o) ==
  [row EXCEPT !.status = "SUBMITTED", !.score = o.score, !.reward = o.reward]

\* slip: the upsert stores the score of the last run
LastScore(old, score) == score
\* GREATEST(best_score, VALUES(best_score)), or the first row
KeepMax(old, score) == IF old = None \/ old < score THEN score ELSE old

---------------------------------------------------------------------------
(* start: the clock is read, then one INSERT outside any transaction. Its   *)
(* foreign key takes a shared lock on the users row, so it waits for a      *)
(* transaction that has it locked; it is not retried, and a refusal or a    *)
(* failure leaves nothing.                                                  *)
Start(s) ==
  /\ runs[s] = None
  /\ \E start \in Starts, issued \in (clock - MaxStartWait) .. clock :
       /\ start.sess = s /\ issued >= 0
       /\ userX[start.user] = None
       /\ runs' = [runs EXCEPT
            ![s] = [user |-> start.user, game |-> start.game,
                    status |-> "STARTED", score |-> None, reward |-> None]]
       /\ issuedAt' = [issuedAt EXCEPT ![s] = issued]
  /\ UNCHANGED <<balance, status, ledger, slips, best, clock, locks,
                 req, pc, tx, attempt, resp>>

---------------------------------------------------------------------------
(* submit.                                                                  *)

Submit(r) ==
  /\ pc[r] = "idle"
  /\ \E body \in Bodies : req' = [req EXCEPT ![r] = body]
  /\ Goto(r, "connect")
  /\ UNCHANGED <<tables, clock, locks, tx, attempt, resp>>

Connect(r) ==
  /\ pc[r] = "connect"
  /\ tx' = [tx EXCEPT ![r] = EmptyTx]
  /\ Goto(r, "lockSession")
  /\ UNCHANGED <<tables, clock, locks, req, attempt, resp>>

\* SELECT ... FOR UPDATE, then the checks in the code's order. The clock is
\* read once the row is locked, so a lock wait or a retry counts as playing.
LockSession(r) ==
  LET q == req[r]
      row == runs[q.sess]
      elapsed == clock - issuedAt[q.sess]
  IN
  /\ pc[r] = "lockSession"
  /\ \/ /\ row = None
        /\ Throw(r, "Refused")
        /\ UNCHANGED <<runLock, tx>>
     \/ /\ row # None
        /\ runLock[q.sess] \in {None, r}
        /\ runLock' = [runLock EXCEPT ![q.sess] = r]
        /\ \/ row.user # q.user /\ Throw(r, "Refused") /\ UNCHANGED tx
           \/ /\ row.user = q.user /\ row.status = "SUBMITTED"
              /\ Answer(r, ReplayOf(row))
              /\ Goto(r, "commit")
              /\ UNCHANGED tx
           \/ /\ row.user = q.user /\ row.status = "STARTED"
              /\ elapsed > SubmitWindow
              /\ Throw(r, "Refused")
              /\ UNCHANGED tx
           \/ /\ row.user = q.user /\ row.status = "STARTED"
              /\ elapsed <= SubmitWindow /\ q.token # q.sess
              /\ Throw(r, "Refused")
              /\ UNCHANGED tx
           \/ /\ row.user = q.user /\ row.status = "STARTED"
              /\ elapsed <= SubmitWindow /\ q.token = q.sess
              /\ tx' = [tx EXCEPT ![r].elapsed = elapsed]
              /\ Goto(r, "judge")
              /\ UNCHANGED resp
  /\ UNCHANGED <<tables, clock, userX, userS, bestLock, req, attempt>>

\* sanitizeScore and _sanitizeReward: what an engine may return
IsSane(outcome) == outcome.score \in Nat /\ outcome.reward \in 0 .. MaxReward
\* the game row is read and the engine replays the submission; an outcome that
\* is not sane is an error of the server
Judge(r) ==
  LET q == req[r]
      outcome == validate(runs[q.sess].game, q.sess, q.submission, tx[r].elapsed)
  IN
  /\ pc[r] = "judge"
  /\ \/ /\ ~IsSane(outcome)
        /\ Throw(r, "Refused")
        /\ UNCHANGED tx
     \/ /\ IsSane(outcome)
        /\ tx' = [tx EXCEPT ![r].outcome = outcome, ![r].elapsed = 0]
        /\ Goto(r, IF outcome.reward > 0 THEN "lockUser" ELSE "mark")
        /\ UNCHANGED resp
  /\ UNCHANGED <<tables, clock, locks, req, attempt>>

\* _creditReward: SELECT ... FOR UPDATE, UPDATE, INSERT
LockUser(r) ==
  LET u == req[r].user IN
  /\ pc[r] = "lockUser"
  /\ LockUsersRow(r, u)
  /\ \/ ~AccountActive(u) /\ Throw(r, "Refused") /\ UNCHANGED tx
     \/ /\ AccountActive(u)
        /\ tx' = [tx EXCEPT ![r].seen = balance[u]]
        /\ Goto(r, "credit")
        /\ UNCHANGED resp
  /\ UNCHANGED <<tables, clock, userS, runLock, bestLock, req, attempt>>

Credit(r) ==
  /\ pc[r] = "credit"
  /\ tx' = [tx EXCEPT ![r].credit = tx[r].outcome.reward]
  /\ Goto(r, "insertReward")
  /\ UNCHANGED <<tables, clock, locks, req, attempt, resp>>

InsertReward(r) ==
  LET reward == tx[r].outcome.reward IN
  /\ pc[r] = "insertReward"
  /\ tx' = [tx EXCEPT ![r].seen = 0, ![r].entry =
              Money!Entry("SKILL_REWARD", req[r].sess, reward, tx[r].seen + reward)]
  /\ Goto(r, "mark")
  /\ UNCHANGED <<tables, clock, locks, req, attempt, resp>>

\* guarded UPDATE: its WHERE asks for a row that is still STARTED
Mark(r) ==
  LET row == runs[req[r].sess]
      o == tx[r].outcome
  IN
  /\ pc[r] = "mark"
  /\ IF row.status = "STARTED"
     THEN /\ tx' = [tx EXCEPT ![r].row = Submitted(row, o)]
          /\ Answer(r, AnswerOf(r))
          /\ Goto(r, IF o.valid /\ o.score > 0 THEN "highScore" ELSE "commit")
     ELSE Throw(r, "Refused") /\ UNCHANGED tx
  /\ UNCHANGED <<tables, clock, locks, req, attempt>>

\* INSERT ... ON DUPLICATE KEY UPDATE, in two steps: the row of the primary
\* key is locked first; a row that exists is updated
HighScore(r) ==
  LET u == req[r].user
      g == runs[req[r].sess].game
  IN
  /\ pc[r] = "highScore"
  /\ bestLock[g][u] \in {None, r}
  /\ bestLock' = [bestLock EXCEPT ![g][u] = r]
  /\ tx' = [tx EXCEPT ![r].highScore = TRUE]
  /\ Goto(r, IF best[g][u] = None THEN "highScoreUser" ELSE "commit")
  /\ UNCHANGED <<tables, clock, userX, userS, runLock, req, attempt, resp>>

\* a new row checks its foreign key: a shared lock on the users row
HighScoreUser(r) ==
  LET u == req[r].user IN
  /\ pc[r] = "highScoreUser"
  /\ userX[u] \in {None, r}
  /\ userS' = [userS EXCEPT ![u] = @ \cup {r}]
  /\ Goto(r, "commit")
  /\ UNCHANGED <<tables, clock, userX, runLock, bestLock, req, tx, attempt, resp>>

---------------------------------------------------------------------------
(* The end of a transaction.                                                *)

Freed(lock, r) == [x \in DOMAIN lock |-> IF lock[x] = r THEN None ELSE lock[x]]
\* slip: the locks of a transaction that is rolled back stay
ReleaseOnCommit(r) ==
  IF pc[r] = "rollback" THEN UNCHANGED locks
  ELSE /\ userX' = Freed(userX, r) /\ runLock' = Freed(runLock, r)
       /\ userS' = [u \in Users |-> userS[u] \ {r}]
       /\ bestLock' = [g \in SkillGameKeys |-> Freed(bestLock[g], r)]
ReleaseLocks(r) ==
  /\ userX' = Freed(userX, r) /\ runLock' = Freed(runLock, r)
  /\ userS' = [u \in Users |-> userS[u] \ {r}]
  /\ bestLock' = [g \in SkillGameKeys |-> Freed(bestLock[g], r)]

Apply(r) ==
  LET u == req[r].user
      s == req[r].sess
      g == runs[s].game
  IN
  /\ balance' = [balance EXCEPT ![u] = @ + tx[r].credit]
  /\ ledger' = IF tx[r].entry = None THEN ledger
               ELSE [ledger EXCEPT ![u] = Append(@, tx[r].entry)]
  /\ runs' = IF tx[r].row = None THEN runs ELSE [runs EXCEPT ![s] = tx[r].row]
  /\ best' = IF tx[r].highScore
             THEN [best EXCEPT ![g][u] = KeepMax(@, tx[r].outcome.score)]
             ELSE best
  /\ UNCHANGED <<status, slips, issuedAt>>

Commit(r) ==
  /\ pc[r] = "commit"
  /\ Apply(r)
  /\ ReleaseLocks(r)
  /\ tx' = [tx EXCEPT ![r] = EmptyTx]
  /\ Goto(r, "done")
  /\ LoopEnds(r)
  /\ UNCHANGED <<clock, req, resp>>

\* committed, but the acknowledgement is lost and the connection destroyed
CommitAckLost(r) ==
  /\ pc[r] = "commit"
  /\ Apply(r)
  /\ ReleaseLocks(r)
  /\ tx' = [tx EXCEPT ![r] = EmptyTx]
  /\ Answer(r, Refusal("Refused"))
  /\ Goto(r, "done")
  /\ LoopEnds(r)
  /\ UNCHANGED <<clock, req>>

Rollback(r) ==
  LET retry == resp[r].code = "Retryable" IN
  /\ pc[r] = "rollback"
  /\ ReleaseLocks(r)
  /\ tx' = [tx EXCEPT ![r] = EmptyTx]
  /\ \/ /\ retry /\ attempt[r] < MaxAttempts
        /\ Goto(r, "backoff")
        /\ UNCHANGED <<attempt, resp>>
     \/ /\ retry /\ attempt[r] >= MaxAttempts
        /\ Answer(r, Refusal("Refused"))
        /\ Goto(r, "done") /\ LoopEnds(r)
     \/ ~retry /\ Goto(r, "done") /\ LoopEnds(r) /\ UNCHANGED resp
  /\ UNCHANGED <<tables, clock, req>>

Retry(r) ==
  /\ pc[r] = "backoff"
  /\ attempt' = [attempt EXCEPT ![r] = @ + 1]
  /\ resp' = [resp EXCEPT ![r] = None]
  /\ Goto(r, "connect")
  /\ UNCHANGED <<tables, clock, locks, req, tx>>

---------------------------------------------------------------------------
(* Failures and the world outside.                                          *)

\* the transactions r waits for: those whose locks exclude its next one
WaitsFor(r) ==
  LET u == req[r].user
      s == req[r].sess
  IN CASE pc[r] = "lockSession" -> {runLock[s]} \ {None, r}
       [] pc[r] = "lockUser" -> ({userX[u]} \cup userS[u]) \ {None, r}
       [] pc[r] = "highScore" -> {bestLock[runs[s].game][u]} \ {None, r}
       [] pc[r] = "highScoreUser" -> {userX[u]} \ {None, r}
       [] OTHER -> {}

\* everyone in S waits for another in S
Deadlocked(S) == S # {} /\ \A r \in S : WaitsFor(r) \cap S # {}
\* InnoDB finds the circle and makes one of its transactions fail (1213)
DeadlockVictim(r) ==
  /\ \E S \in SUBSET Reqs : r \in S /\ Deadlocked(S)
  /\ Throw(r, "Retryable")
  /\ UNCHANGED <<tables, clock, locks, req, tx, attempt>>

\* 1205 after innodb_lock_wait_timeout
LockWaitTimeout(r) ==
  /\ WaitsFor(r) # {}
  /\ Throw(r, "Retryable")
  /\ UNCHANGED <<tables, clock, locks, req, tx, attempt>>

StatementFails(r) ==
  /\ pc[r] \in InTx
  /\ Throw(r, "Refused")
  /\ UNCHANGED <<tables, clock, locks, req, tx, attempt>>

PoolFails(r) ==
  /\ pc[r] = "connect"
  /\ Answer(r, Refusal("Refused"))
  /\ Goto(r, "done")
  /\ LoopEnds(r)
  /\ UNCHANGED <<tables, clock, locks, req, tx>>

InFlight(r) == pc[r] \notin {"idle", "done"}
Crash ==
  /\ \E r \in Reqs : InFlight(r)
  /\ pc' = [r \in Reqs |-> IF InFlight(r) THEN "done" ELSE pc[r]]
  /\ resp' = [r \in Reqs |-> IF InFlight(r) THEN None ELSE resp[r]]
  /\ tx' = [r \in Reqs |-> EmptyTx]
  /\ userX' = [u \in Users |-> None]
  /\ userS' = [u \in Users |-> {}]
  /\ runLock' = [s \in SkillSessions |-> None]
  /\ bestLock' = [g \in SkillGameKeys |-> [u \in Users |-> None]]
  /\ attempt' = [r \in Reqs |-> 1]
  /\ UNCHANGED <<tables, clock, req>>

TimePasses ==
  /\ \E later \in Instants : later > clock /\ clock' = later
  /\ UNCHANGED <<tables, locks, req, pc, tx, attempt, resp>>

\* a bet or a paid settlement writes a users row nobody has locked; so does an
\* administrator. A loss leaves the account alone.
Unlocked(u) == userX[u] = None /\ userS[u] = {}
Rest == <<runs, issuedAt, best, clock, locks, req, pc, tx, attempt, resp>>
Bet ==
  /\ \E s \in Sessions, u \in Users, k \in Keys \cup {NoKey}, b \in Bets :
       Unlocked(u) /\ Money!PlaceBet(s, u, k, b)
  /\ UNCHANGED Rest
Settle ==
  /\ \E s \in Sessions :
       \/ Money!SettleLoss(s)
       \/ /\ slips[s] # None
          /\ Unlocked(slips[s].user)
          /\ \E p \in 1 .. MaxPayout : Money!SettleWin(s, p)
  /\ UNCHANGED Rest
ChangeStatus ==
  /\ \E change \in AdminChanges :
       Unlocked(change[1]) /\ Money!ChangeStatus(change[1], change[2])
  /\ UNCHANGED Rest

Handle(r) ==
  \/ Connect(r) \/ LockSession(r) \/ Judge(r) \/ LockUser(r) \/ Credit(r)
  \/ InsertReward(r) \/ Mark(r) \/ HighScore(r) \/ HighScoreUser(r)
  \/ Commit(r) \/ Rollback(r) \/ Retry(r)

Fail(r) == CommitAckLost(r) \/ LockWaitTimeout(r) \/ StatementFails(r) \/ PoolFails(r)

Next ==
  \/ \E s \in SkillSessions : Start(s)
  \/ \E r \in Reqs : Submit(r) \/ Handle(r) \/ DeadlockVictim(r) \/ Fail(r)
  \/ Crash \/ TimePasses \/ Bet \/ Settle \/ ChangeStatus

Spec == Init /\ [][Next]_vars
---------------------------------------------------------------------------
(* Properties.                                                             *)

\* Types of the tables, the locks and the requests; a session that is
\* SUBMITTED has its score and its reward.
TypeOK ==
  /\ balance \in [Users -> Int]
  /\ status \in [Users -> {"ACTIVE", "SUSPENDED"}]
  /\ ledger \in [Users -> Seq(Entry)]
  /\ runs \in [SkillSessions -> Run \cup {None}]
  /\ \A s \in SkillSessions : runs[s] # None /\ runs[s].status = "SUBMITTED" =>
       runs[s].score \in Nat /\ runs[s].reward \in Nat
  /\ issuedAt \in [SkillSessions -> Nat]
  /\ best \in [SkillGameKeys -> [Users -> Nat \cup {None}]]
  /\ clock \in Nat
  /\ userX \in [Users -> Reqs \cup {None}]
  /\ userS \in [Users -> SUBSET Reqs]
  /\ runLock \in [SkillSessions -> Reqs \cup {None}]
  /\ bestLock \in [SkillGameKeys -> [Users -> Reqs \cup {None}]]
  /\ req \in [Reqs -> Bodies \cup {None}]
  /\ pc \in [Reqs -> Labels]
  /\ tx \in [Reqs -> Tx]
  /\ attempt \in [Reqs -> Nat \ {0}]
  /\ resp \in [Reqs -> Response \cup {None}]

\* schema.sql: "every mutation writes a ledger row carrying balance_after so
\* the balance can be fully reconstructed". With rewards among bets and payouts
\* each row is the previous one plus its amount and the last one is the
\* balance, although a reward's balance_after is computed in memory from a
\* balance selected two statements before.
BalanceBefore(u, i) == IF i = 1 THEN Opening[u] ELSE ledger[u][i - 1].after
BalanceChain ==
  \A u \in Users :
    /\ balance[u] = BalanceBefore(u, Len(ledger[u]) + 1)
    /\ balance[u] >= 0
    /\ \A i \in 1 .. Len(ledger[u]) :
         ledger[u][i].after = BalanceBefore(u, i) + ledger[u][i].amount

\* skillService.submit "no second credit": every session that was submitted
\* with a reward has been credited that reward once, to its player, and
\* nothing else was credited, whatever raced, failed or was repeated.
RewardRows(u, s) ==
  {i \in 1 .. Len(ledger[u]) : ledger[u][i].reason = "SKILL_REWARD" /\ ledger[u][i].sess = s}
IsPaid(s) == /\ runs[s] # None /\ runs[s].status = "SUBMITTED"
             /\ runs[s].reward \in Nat \ {0}
RewardsMatchRuns ==
  \A s \in SkillSessions, u \in Users :
    IF IsPaid(s) /\ runs[s].user = u
    THEN \E i \in RewardRows(u, s) :
           RewardRows(u, s) = {i} /\ ledger[u][i].amount = runs[s].reward
    ELSE RewardRows(u, s) = {}

\* skill_high_scores holds the maximum over the player's submitted runs of the
\* game, in whatever order concurrent submissions reached their upserts.
ScoresOf(g, u) ==
  {runs[s].score : s \in {t \in SkillSessions :
     /\ runs[t] # None /\ runs[t].status = "SUBMITTED"
     /\ runs[t].game = g /\ runs[t].user = u /\ runs[t].score > 0}}
BestScoreIsMax ==
  \A g \in SkillGameKeys, u \in Users :
    IF ScoresOf(g, u) = {} THEN best[g][u] = None
    ELSE best[g][u] \in ScoresOf(g, u) /\ \A x \in ScoresOf(g, u) : x <= best[g][u]

\* A client that is told a score and a reward is told those stored for its own
\* session, and one session is judged in at most one answer: all others are
\* replays or refusals.
Told(r) == pc[r] = "done" /\ resp[r] # None /\ resp[r].code = "OK"
AnswersAreStored ==
  /\ \A r \in Reqs : Told(r) =>
       LET row == runs[req[r].sess] IN
       /\ row # None /\ row.status = "SUBMITTED" /\ row.user = req[r].user
       /\ resp[r].score = row.score /\ resp[r].reward = row.reward
  /\ \A r, t \in Reqs :
       /\ Told(r) /\ Told(t) /\ req[r].sess = req[t].sess
       /\ ~resp[r].replay /\ ~resp[t].replay
       => r = t

\* Nobody is paid or ranked for what was not played: a stored score is 0 or
\* the score some submission of the owner, with the session's own token, earns
\* by the rules of the game, and it fits in the time between the start of the
\* session and the end of its window.
ScoresAreEarned ==
  \A s \in SkillSessions :
    runs[s] # None /\ runs[s].status = "SUBMITTED" /\ runs[s].score > 0 =>
      \E r \in Reqs, time \in 0 .. SubmitWindow :
        /\ req[r] # None
        /\ req[r].sess = s /\ req[r].token = s /\ req[r].user = runs[s].user
        /\ Earns(runs[s].game, s, req[r].submission, runs[s].score, time)
        /\ time <= clock - issuedAt[s]

\* A lock is held only inside a transaction: every path out of the retry loop,
\* a crash included, leaves the account, the session and the best score free.
LocksAreReleased ==
  LET running == {r \in Reqs : pc[r] \in InTx \cup {"rollback"}} \cup {None} IN
  /\ \A u \in Users : userX[u] \in running /\ userS[u] \subseteq running
  /\ \A s \in SkillSessions : runLock[s] \in running
  /\ \A g \in SkillGameKeys, u \in Users : bestLock[g][u] \in running

\* The endpoints implement the atomic economy of SkillEconomy: a session is
\* started, then submitted at most once, in one step with its credit and its
\* best score, and only an active account is credited.
Economy == INSTANCE SkillEconomy
ImplementsSkillEconomy == Economy!Spec

\* BaseSkillGame.js: "valid=false means the submission failed anti-cheat", and
\* skillService.js:67 "Idempotent on replay of an already-SUBMITTED session
\* (returns the stored result, no second credit)": two answers about the same
\* session agree on whether it was valid.
ReplayKeepsVerdict ==
  \A r, t \in Reqs :
    Told(r) /\ Told(t) /\ req[r].sess = req[t].sess => resp[r].valid = resp[t].valid
=============================================================================
