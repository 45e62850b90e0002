---------------------------- MODULE Leaderboard ----------------------------
(* The live leaderboards: every fresh win is added to leaderboard_scores    *)
(* (MySQL) and then to sorted sets in Redis, best effort; every instance    *)
(* runs a cron job per period that rewrites the scores from points_ledger   *)
(* and swaps a rebuilt sorted set into place. Days pass, Redis comes and    *)
(* goes, statements fail and instances crash between any two steps.         *)
EXTENDS Integers, FiniteSets, FiniteSetsExt

CONSTANTS Users,        \* numeric user ids
          Wins,         \* settlements with a positive payout
          Winner,       \* [Wins -> Users]
          Amount,       \* [Wins -> Nat \ {0}], points won
          Home,         \* [Wins -> Instances], the instance serving the request
          Instances,    \* running Node processes
          ProcessId,    \* [Instances -> Nat], process.pid
          PeriodTypes,  \* the boards kept: "global", "daily", "weekly"
          Scheduled,    \* the boards with a cron expression
          DaysPerWeek,  \* 7
          FirstWeekday, \* getUTCDay of day 0; 0 is Sunday
          LastDay,
          MaxTop,       \* MAX_TOP_LIMIT, the rows a rebuild reads
          RowsPerRead,  \* commands of a rebuild Redis executes without a break
          MaxFaults,    \* bound on the number of failures
          None

ASSUME ScheduledAssumption == Scheduled \subseteq PeriodTypes
ASSUME WinsAssumption ==
  /\ PeriodTypes \subseteq {"global", "daily", "weekly"}
  /\ Winner \in [Wins -> Users]
  /\ Home \in [Wins -> Instances]
  /\ ProcessId \in [Instances -> Nat]
  /\ \A w \in Wins : Amount[w] \in Nat \ {0}
ASSUME BoundsAssumption ==
  /\ DaysPerWeek \in Nat \ {0} /\ FirstWeekday \in 0 .. DaysPerWeek - 1
  /\ MaxTop \in Nat \ {0}
  /\ RowsPerRead \in Nat \ {0}
  /\ LastDay \in Nat /\ MaxFaults \in Nat
ASSUME FiniteAssumption ==
  IsFiniteSet(Users) /\ Users \subseteq Nat /\ IsFiniteSet(Wins)

VARIABLES
  day,      \* today, in UTC
  paidOn,   \* created_at of each win's GAME_PAYOUT row in points_ledger
  phase,    \* what the request of each win, or its pipeline, is doing
  asked,    \* the day incrementScore computed its keys with
  pending,  \* boards whose upsert, then boards whose ZINCRBY is still to execute
  scores,   \* leaderboard_scores
  rowLock,  \* the job whose transaction wrote a row and has not committed
  ready,    \* the instances whose Redis client is ready
  cache,    \* the sorted sets in Redis
  tmp,      \* the temporary sets rebuilds fill, named by key and process id
  job,      \* the reconcile job of each instance and period type
  faults    \* failures so far

wins == <<paidOn, phase, asked, pending>>
boards == <<scores, rowLock, cache, tmp>>
vars == <<day, wins, boards, ready, job, faults>>

---------------------------------------------------------------------------
(* Keys and windows.                                                       *)

Days == 0 .. LastDay
getUTCDay(d) == (d + FirstWeekday) % DaysPerWeek
\* the Monday of the week of d
weekStartUtc(d) ==
  d + (IF getUTCDay(d) = 0 THEN -(DaysPerWeek - 1) ELSE 1 - getUTCDay(d))
\* period_key of a board on a day; its Redis key is named after it
Key(t, d) == IF t = "global" THEN <<t, 0>>
             ELSE IF t = "daily" THEN <<t, d>>
             ELSE <<t, weekStartUtc(d)>>
Keys == {Key(t, d) : t \in PeriodTypes, d \in Days}
Now(t) == Key(t, day)

\* slip: the window of a week begins on its Sunday
SundayWeeks(t, d) ==
  IF t = "global" THEN None
  ELSE IF t = "daily" THEN <<d, d + 1>>
  ELSE <<d - getUTCDay(d), d - getUTCDay(d) + DaysPerWeek>>
\* the window [start, end) in days, None for all time
periodTimeRange(t, d) ==
  IF t = "global" THEN None
  ELSE IF t = "daily" THEN <<d, d + 1>>
  ELSE <<weekStartUtc(d), weekStartUtc(d) + DaysPerWeek>>
InRange(d, range) == range = None \/ (range[1] <= d /\ d < range[2])

\* the ledger rows of u others can see: those of committed transactions
Committed(u) == {w \in Wins : Winner[w] = u /\ phase[w] \notin {"idle", "paying"}}
CreditsIn(u, range) == {w \in Committed(u) : InRange(paidOn[w], range)}
\* those that belong on the board with key k
Credits(u, k) == {w \in Committed(u) : Key(k[1], paidOn[w]) = k}
SumOfAmounts(ws) == MapThenSumSet(LAMBDA w : Amount[w], ws)
Total(u, k) == SumOfAmounts(Credits(u, k))

Players(board) == {u \in Users : board[u] # None}
EmptyBoard == [u \in Users |-> None]
Added(board, u, n) ==
  [board EXCEPT ![u] = IF board[u] = None THEN n ELSE board[u] + n]
\* ORDER BY score DESC, user_id ASC LIMIT n
Before(board, v, u) == board[v] > board[u] \/ (board[v] = board[u] /\ v < u)
Top(board, n) ==
  [u \in Users |->
     IF u \in Players(board)
        /\ Cardinality({v \in Players(board) : Before(board, v, u)}) < n
     THEN board[u] ELSE None]

NoJob == [pc |-> "idle", key |-> None, range |-> None, sums |-> EmptyBoard,
          todo |-> {}, rows |-> EmptyBoard, refused |-> {}]
Jobs == Instances \X Scheduled
TmpKeys == Keys \X {ProcessId[i] : i \in Instances}
Ranges == {periodTimeRange(t, d) : t \in PeriodTypes, d \in Days}
ASSUME NoneAssumption ==
  None \notin Nat /\ None \notin Keys /\ None \notin Jobs /\ None \notin Int \X Int

Init ==
  /\ day = 0
  /\ paidOn = [w \in Wins |-> None]
  /\ phase = [w \in Wins |-> "idle"]
  /\ asked = [w \in Wins |-> None]
  /\ pending = [w \in Wins |-> {}]
  /\ scores = [k \in Keys |-> EmptyBoard]
  /\ rowLock = [k \in Keys |-> [u \in Users |-> None]]
  /\ ready = Instances
  /\ cache = [k \in Keys |-> EmptyBoard]
  /\ tmp = [x \in TmpKeys |-> EmptyBoard]
  /\ job = [j \in Jobs |-> NoJob]
  /\ faults = 0

Fault == faults < MaxFaults /\ faults' = faults + 1

---------------------------------------------------------------------------
(* The settlement of a win, then creditLeaderboard: incrementScore.         *)

\* the INSERT of the payout's ledger row stamps it with the time
Pay(w) ==
  /\ phase[w] = "idle"
  /\ phase' = [phase EXCEPT ![w] = "paying"]
  /\ paidOn' = [paidOn EXCEPT ![w] = day]
  /\ UNCHANGED <<day, asked, pending, boards, ready, job, faults>>

\* COMMIT shows it to others
Settle(w) ==
  /\ phase[w] = "paying"
  /\ phase' = [phase EXCEPT ![w] = "settled"]
  /\ UNCHANGED <<day, paidOn, asked, pending, boards, ready, job, faults>>

\* or the transaction is rolled back, and may be tried again
SettleFails(w) ==
  /\ phase[w] = "paying"
  /\ Fault
  /\ phase' = [phase EXCEPT ![w] = "idle"]
  /\ paidOn' = [paidOn EXCEPT ![w] = None]
  /\ UNCHANGED <<day, asked, pending, boards, ready, job>>

\* incrementScore reads the clock and sends the upserts of all boards at once
Increment(w) ==
  /\ phase[w] = "settled"
  /\ phase' = [phase EXCEPT ![w] = "upserting"]
  /\ asked' = [asked EXCEPT ![w] = day]
  /\ pending' = [pending EXCEPT ![w] = PeriodTypes]
  /\ UNCHANGED <<day, paidOn, boards, ready, job, faults>>

\* slip: the first success is enough
SomeStored(w, t) == phase[w] = "upserting"
\* await Promise.all: the last success of a call that has not failed
AllStored(w, t) == phase[w] = "upserting" /\ pending[w] = {t}

\* an upsert still runs when another one has rejected the call
Upserting(w, t) == phase[w] \in {"upserting", "done"} /\ t \in pending[w]

Upsert(w, t) ==
  LET k == Key(t, asked[w])
      u == Winner[w]
  IN
  /\ Upserting(w, t)
  /\ rowLock[k][u] = None
  /\ scores' = [scores EXCEPT ![k] = Added(@, u, Amount[w])]
  /\ IF AllStored(w, t)
     THEN /\ phase' = [phase EXCEPT ![w] = "caching"]
          /\ pending' = [pending EXCEPT ![w] = PeriodTypes]
     ELSE /\ pending' = [pending EXCEPT ![w] = @ \ {t}]
          /\ UNCHANGED phase
  /\ UNCHANGED <<day, paidOn, asked, rowLock, cache, tmp, ready, job, faults>>

\* a failed upsert rejects the call at once; the others still run
UpsertFails(w, t) ==
  /\ Upserting(w, t)
  /\ Fault
  /\ pending' = [pending EXCEPT ![w] = @ \ {t}]
  /\ phase' = [phase EXCEPT ![w] = "done"]
  /\ UNCHANGED <<day, paidOn, asked, boards, ready, job>>

\* What Redis refuses (it is out of memory) is a failure nobody handles: the
\* results of a pipeline are not looked at.
Refused(what) == IF what = {} THEN UNCHANGED faults ELSE Fault
WriteCache(w, types) ==
  LET keys == {Key(t, asked[w]) : t \in types} IN
  cache' = [k \in Keys |-> IF k \in keys THEN Added(cache[k], Winner[w], Amount[w])
                           ELSE cache[k]]

\* Redis executes ZINCRBYs of the pipeline a ready client sends
CacheIncrement(w) ==
  /\ (phase[w] = "caching" /\ Home[w] \in ready) \/ phase[w] = "sent"
  /\ \E types \in SUBSET pending[w] \ {{}} : \E refused \in SUBSET types :
       /\ Refused(refused)
       /\ WriteCache(w, types \ refused)
       /\ pending' = [pending EXCEPT ![w] = @ \ types]
  /\ phase' = [phase EXCEPT ![w] = "sent"]
  /\ UNCHANGED <<day, paidOn, asked, scores, rowLock, tmp, ready, job>>

\* the pipeline of w is over
Over(w) ==
  /\ phase' = [phase EXCEPT ![w] = "done"]
  /\ pending' = [pending EXCEPT ![w] = {}]
  /\ UNCHANGED <<day, paidOn, asked, boards, ready, job, faults>>

IncrementAnswered(w) == phase[w] = "sent" /\ pending[w] = {} /\ Over(w)

\* The client is not ready: the write is skipped, or the pipeline that waits
\* to be sent again is given up.
CacheSkipped(w) == phase[w] = "caching" /\ Home[w] \notin ready /\ Over(w)

---------------------------------------------------------------------------
(* runReconcile: reconcilePeriodFromLedger, then rebuildFromDatabase.        *)

Working == {"sum", "upsert", "commit", "readTop", "swap", "fill", "renamed"}
Run(j, state) == job' = [job EXCEPT ![j] = state]
\* slip: only COMMIT ends the transaction of the job
UnlockedByCommit(j) == IF job[j].pc # "commit" THEN rowLock
                       ELSE [k \in Keys |-> [u \in Users |->
                               IF rowLock[k][u] = j THEN None ELSE rowLock[k][u]]]
\* COMMIT or ROLLBACK releases the rows the job has written
Unlocked(j) == [k \in Keys |-> [u \in Users |->
                  IF rowLock[k][u] = j THEN None ELSE rowLock[k][u]]]
\* slip: without `finally` a failed run blocks every later tick
StillRunning(j) == [NoJob EXCEPT !.pc = "stuck"]
\* state[period] = false
Cleared(j) == NoJob

\* the cron fires; a tick that finds the job running is skipped
Tick(j) ==
  /\ job[j].pc = "idle"
  /\ Run(j, [NoJob EXCEPT !.pc = "sum", !.key = Now(j[2]),
                          !.range = periodTimeRange(j[2], day)])
  /\ UNCHANGED <<day, wins, boards, ready, faults>>

\* SELECT user_id, SUM(amount) ... GROUP BY user_id, outside the transaction
SumLedger(j) ==
  LET credits(u) == CreditsIn(u, job[j].range)
      paid == {u \in Users : credits(u) # {}}
  IN
  /\ job[j].pc = "sum"
  /\ Run(j, [job[j] EXCEPT
               !.pc = IF paid = {} THEN "readTop" ELSE "upsert",
               !.sums = [u \in Users |-> IF u \in paid THEN SumOfAmounts(credits(u)) ELSE None],
               !.todo = paid])
  /\ UNCHANGED <<day, wins, boards, ready, faults>>

\* one upsert of the transaction, which keeps the row locked
UpsertRow(j) ==
  /\ job[j].pc = "upsert"
  /\ \E u \in job[j].todo :
       /\ rowLock[job[j].key][u] \in {None, j}
       /\ rowLock' = [rowLock EXCEPT ![job[j].key][u] = j]
       /\ Run(j, [job[j] EXCEPT !.todo = @ \ {u},
                                !.pc = IF job[j].todo = {u} THEN "commit" ELSE @])
  /\ UNCHANGED <<day, wins, scores, cache, tmp, ready, faults>>

\* slip: score = score + VALUES(score), as in an increment
Accumulated(old, sum) == IF old = None THEN sum ELSE old + sum
\* ON DUPLICATE KEY UPDATE score = VALUES(score)
Reconciled(old, sum) == sum

CommitRows(j) ==
  LET k == job[j].key IN
  /\ job[j].pc = "commit"
  /\ scores' = [scores EXCEPT ![k] = [u \in Users |->
                  IF job[j].sums[u] = None THEN scores[k][u]
                  ELSE Reconciled(scores[k][u], job[j].sums[u])]]
  /\ rowLock' = Unlocked(j)
  /\ Run(j, [NoJob EXCEPT !.pc = "readTop", !.key = k])
  /\ UNCHANGED <<day, wins, cache, tmp, ready, faults>>

\* slip: only a cold key is rebuilt
ColdKey(i, k) == Players(cache[k]) = {}
\* a rebuild needs Redis and at least one row
Rebuildable(i, k) == i \in ready /\ Players(scores[k]) # {}

\* getTop; rebuildFromDatabase gives up without Redis or without rows
ReadTop(j) ==
  LET k == job[j].key IN
  /\ job[j].pc = "readTop"
  /\ Run(j, IF Rebuildable(j[1], k)
            THEN [job[j] EXCEPT !.pc = "swap", !.rows = Top(scores[k], MaxTop)]
            ELSE NoJob)
  /\ UNCHANGED <<day, wins, boards, ready, faults>>

\* slip: the temporary key is not named after the process
SharedTmpKey(j) == <<job[j].key, ProcessId[CHOOSE i \in Instances : TRUE]>>
TmpKey(j) == <<job[j].key, ProcessId[j[1]]>>

\* The pipeline: DEL, a ZADD per row, RENAME over the live key. Redis executes
\* what one read of the socket brings, RowsPerRead rows here, and then serves
\* other clients. A refused ZADD does not stop it.
Piping(j) == (job[j].pc = "swap" /\ j[1] \in ready) \/ job[j].pc = "fill"
ToFill(j) == IF job[j].pc = "swap" THEN Players(job[j].rows) ELSE job[j].todo
Piece(j) ==
  {u \in ToFill(j) :
     Cardinality({v \in ToFill(j) : Before(job[j].rows, v, u)}) < RowsPerRead}
Filled(j, refused) ==
  [u \in Users |-> IF u \in Piece(j) \ refused THEN job[j].rows[u]
                  ELSE IF job[j].pc = "swap" THEN None ELSE tmp[TmpKey(j)][u]]

Fill(j) ==
  /\ Piping(j)
  /\ Piece(j) # ToFill(j)
  /\ \E refused \in SUBSET Piece(j) :
       /\ Refused(refused)
       /\ tmp' = [tmp EXCEPT ![TmpKey(j)] = Filled(j, refused)]
       /\ Run(j, [job[j] EXCEPT !.pc = "fill", !.todo = ToFill(j) \ Piece(j),
                                !.refused = @ \cup refused])
  /\ UNCHANGED <<day, wins, scores, rowLock, cache, ready>>

\* the last piece ends with the RENAME, which needs a temporary set with rows
Swap(j) ==
  /\ Piping(j)
  /\ Piece(j) = ToFill(j)
  /\ \E refused \in SUBSET Piece(j) :
       /\ Refused(refused)
       /\ cache' = IF Players(Filled(j, refused)) = {} THEN cache
                   ELSE [cache EXCEPT ![job[j].key] = Filled(j, refused)]
       /\ Run(j, [job[j] EXCEPT !.pc = "renamed", !.todo = {}, !.refused = @ \cup refused])
  /\ tmp' = [tmp EXCEPT ![TmpKey(j)] = EmptyBoard]
  /\ UNCHANGED <<day, wins, scores, rowLock, ready>>

RebuildAnswered(j) ==
  /\ job[j].pc = "renamed"
  /\ Run(j, NoJob)
  /\ UNCHANGED <<day, wins, boards, ready, faults>>

\* the client is not ready any more: every command is rejected, del(tmp) too,
\* or the pipeline that waits to be sent again is given up
SwapOffline(j) ==
  /\ job[j].pc = "swap" /\ j[1] \notin ready
  /\ Run(j, NoJob)
  /\ UNCHANGED <<day, wins, boards, ready, faults>>

\* a statement fails: ROLLBACK; the error is logged, `finally`
JobFails(j) ==
  /\ job[j].pc \in {"sum", "upsert", "commit", "readTop"}
  /\ Fault
  /\ rowLock' = Unlocked(j)
  /\ Run(j, Cleared(j))
  /\ UNCHANGED <<day, wins, scores, cache, tmp, ready>>

\* a row lock held by another job ends in a lock-wait timeout or a deadlock
JobLockTimeout(j) ==
  /\ job[j].pc = "upsert"
  /\ \E u \in job[j].todo : rowLock[job[j].key][u] \notin {None, j}
  /\ rowLock' = Unlocked(j)
  /\ Run(j, Cleared(j))
  /\ UNCHANGED <<day, wins, scores, cache, tmp, ready, faults>>

---------------------------------------------------------------------------
(* Days, Redis and crashes.                                                *)

NextDay ==
  /\ day < LastDay
  /\ day' = day + 1
  /\ UNCHANGED <<wins, boards, ready, job, faults>>

\* Connections are lost. What Redis executed of a pipeline stays. The client
\* keeps a pipeline no reply of which has arrived and sends the whole of it
\* again when it is back; the others are over.
PipedWins == {w \in Wins : phase[w] = "sent"}
PipedJobs == {j \in Jobs : job[j].pc \in {"fill", "renamed"}}
CutOff(instances) ==
  /\ ready' = ready \ instances
  /\ \E again \in SUBSET PipedWins :
       /\ phase' = [w \in Wins |->
                      IF w \notin PipedWins \/ Home[w] \notin instances THEN phase[w]
                      ELSE IF w \in again THEN "caching" ELSE "done"]
       /\ pending' = [w \in Wins |->
                        IF w \notin PipedWins \/ Home[w] \notin instances THEN pending[w]
                        ELSE IF w \in again THEN PeriodTypes ELSE {}]
  /\ \E again \in SUBSET PipedJobs :
       job' = [j \in Jobs |->
                 IF j \notin PipedJobs \/ j[1] \notin instances THEN job[j]
                 ELSE IF j \in again
                      THEN [job[j] EXCEPT !.pc = "swap", !.todo = {}, !.refused = {}]
                      ELSE NoJob]

ConnectionLost(i) ==
  /\ i \in ready
  /\ Fault
  /\ CutOff({i})
  /\ UNCHANGED <<day, paidOn, asked, boards>>

\* Redis goes and will return with its data or, restarted, without
RedisGoes ==
  /\ Fault
  /\ CutOff(Instances)
  /\ \/ UNCHANGED <<cache, tmp>>
     \/ /\ cache' = [k \in Keys |-> EmptyBoard]
        /\ tmp' = [x \in TmpKeys |-> EmptyBoard]
  /\ UNCHANGED <<day, paidOn, asked, scores, rowLock>>

Reconnect(i) ==
  /\ i \notin ready
  /\ ready' = ready \cup {i}
  /\ UNCHANGED <<day, wins, boards, job, faults>>

\* the TTL of a daily or weekly key outlasts its period
Expire(k) ==
  /\ k[1] # "global" /\ k # Now(k[1])
  /\ Players(cache[k]) # {}
  /\ cache' = [cache EXCEPT ![k] = EmptyBoard]
  /\ UNCHANGED <<day, wins, scores, rowLock, tmp, ready, job, faults>>

\* a process dies: its requests and jobs stop, MySQL rolls back
Crash(i) ==
  LET mine == {j \in Jobs : j[1] = i}
      unpaid == {w \in Wins : Home[w] = i /\ phase[w] \in {"idle", "paying"}}
      lost == {w \in Wins : Home[w] = i /\ phase[w] \notin {"idle", "paying"}}
  IN
  /\ Fault
  /\ job' = [j \in Jobs |-> IF j \in mine THEN NoJob ELSE job[j]]
  /\ rowLock' = [k \in Keys |-> [u \in Users |->
                   IF rowLock[k][u] \in mine THEN None ELSE rowLock[k][u]]]
  /\ phase' = [w \in Wins |-> IF w \in unpaid THEN "idle"
                              ELSE IF w \in lost THEN "done" ELSE phase[w]]
  /\ paidOn' = [w \in Wins |-> IF w \in unpaid THEN None ELSE paidOn[w]]
  /\ pending' = [w \in Wins |-> IF w \in lost THEN {} ELSE pending[w]]
  /\ ready' = ready \ {i}
  /\ UNCHANGED <<day, asked, scores, cache, tmp>>

Serve(w) == Increment(w) \/ CacheIncrement(w) \/ IncrementAnswered(w) \/ CacheSkipped(w)
Work(j) == SumLedger(j) \/ UpsertRow(j) \/ CommitRows(j) \/ ReadTop(j) \/ Fill(j) \/ Swap(j)
           \/ RebuildAnswered(j) \/ SwapOffline(j) \/ JobLockTimeout(j)

Next ==
  \/ \E w \in Wins : Pay(w) \/ Settle(w) \/ SettleFails(w) \/ Serve(w)
  \/ \E w \in Wins, t \in PeriodTypes : Upsert(w, t) \/ UpsertFails(w, t)
  \/ \E j \in Jobs : Tick(j) \/ Work(j) \/ JobFails(j)
  \/ \E k \in Keys : Expire(k)
  \/ \E i \in Instances : ConnectionLost(i) \/ Reconnect(i) \/ Crash(i)
  \/ NextDay \/ RedisGoes

Spec == Init /\ [][Next]_vars

Fairness ==
  /\ \A w \in Wins : WF_vars(Serve(w))
  /\ \A w \in Wins, t \in PeriodTypes : WF_vars(Upsert(w, t))
  /\ \A j \in Jobs : WF_vars(Tick(j)) /\ WF_vars(Work(j))
  /\ \A i \in Instances : WF_vars(Reconnect(i))
FairSpec == Spec /\ Fairness

---------------------------------------------------------------------------
(* GET /api/leaderboard at an instance: the first n lines of the listing,    *)
(* then the caller's own rank and score.                                     *)

\* ZREVRANGE breaks ties by the member, last first (ids of one digit)
RedisBefore(board, v, u) == board[v] > board[u] \/ (board[v] = board[u] /\ v > u)
RedisTop(board, n) ==
  [u \in Users |->
     IF u \in Players(board)
        /\ Cardinality({v \in Players(board) : RedisBefore(board, v, u)}) < n
     THEN board[u] ELSE None]
\* Redis when ready and not empty, else MySQL
FromRedis(i, k) == i \in ready /\ Players(cache[k]) # {}
Listed(i, k, n) == IF FromRedis(i, k) THEN RedisTop(cache[k], n) ELSE Top(scores[k], n)

\* slip: counts the scores that are not lower
CountNotLower(board, u) == Cardinality({v \in Players(board) : board[v] >= board[u]})
\* COUNT(*) of higher.score > l.score
CountHigher(board, u) == Cardinality({v \in Players(board) : board[v] > board[u]})
\* getRank and ZREVRANK + 1
DurableRank(k, u) ==
  IF scores[k][u] = None THEN None ELSE 1 + CountHigher(scores[k], u)
CachedRank(k, u) ==
  IF cache[k][u] = None THEN None
  ELSE 1 + Cardinality({v \in Players(cache[k]) : RedisBefore(cache[k], v, u)})

\* slip: a ready Redis has the last word
AsksWhenDown(i, k, u) == i \notin ready
\* Redis is down, or does not have this member
AsksMySQL(i, k, u) == i \notin ready \/ cache[k][u] = None
getPlayerRank(i, k, u) ==
  IF AsksMySQL(i, k, u) THEN DurableRank(k, u) ELSE CachedRank(k, u)
getPlayerScore(i, k, u) == IF AsksMySQL(i, k, u) THEN scores[k][u] ELSE cache[k][u]
\* a command that fails or times out is answered by MySQL too
RankAnswers(i, k, u) == {getPlayerRank(i, k, u), DurableRank(k, u)}

---------------------------------------------------------------------------
(* Properties.                                                             *)

Board == [Users -> Nat \cup {None}]
\* Types of the tables, the sorted sets, the requests and the jobs.
TypeOK ==
  /\ day \in Days
  /\ paidOn \in [Wins -> Days \cup {None}]
  /\ phase \in [Wins -> {"idle", "paying", "settled", "upserting", "caching", "sent", "done"}]
  /\ asked \in [Wins -> Days \cup {None}]
  /\ pending \in [Wins -> SUBSET PeriodTypes]
  /\ scores \in [Keys -> Board]
  /\ rowLock \in [Keys -> [Users -> Jobs \cup {None}]]
  /\ ready \subseteq Instances
  /\ cache \in [Keys -> Board]
  /\ tmp \in [TmpKeys -> Board]
  /\ job \in [Jobs -> [pc : Working \cup {"idle"}, key : Keys \cup {None},
                       range : Ranges \cup {None}, sums : Board, todo : SUBSET Users,
                       rows : Board, refused : SUBSET Users]]
  /\ faults \in 0 .. MaxFaults

\* MySQL first: a player Redis shows on a board has a row on that board, so a
\* rebuild that finds no rows leaves no stale sorted set behind, whatever
\* upserts, pipelines, rebuilds and restarts raced.
CachedPlayersAreDurable ==
  \A k \in Keys : Players(cache[k]) \subseteq Players(scores[k])

\* Reconciling and incrementing race, so a win can be counted by a sum, by its
\* upsert and by its ZINCRBY, and a lost connection makes the client repeat
\* ZINCRBYs Redis may have executed. No more than that: the all-time board never
\* shows a player over twice (MySQL) or, each failure adding one, three times
\* (Redis) what the ledger paid, and shows no player it paid nothing.
DriftIsBounded ==
  \A k \in Keys, u \in Users : k[1] = "global" =>
    /\ scores[k][u] # None => scores[k][u] \in 1 .. 2 * Total(u, k)
    /\ cache[k][u] # None => cache[k][u] \in 1 .. (3 + faults) * Total(u, k)

\* A job keeps rows locked only inside its transaction, so a failed or dead
\* job never blocks the increments of a settlement.
RowLocksAreReleased ==
  \A k \in Keys, u \in Users :
    rowLock[k][u] # None =>
      LET j == rowLock[k][u] IN
      job[j].pc \in {"upsert", "commit"} /\ job[j].key = k /\ u \notin job[j].todo

\* The rank a player reads of himself from MySQL is the place of the first line
\* of the listing with his score, so players who tie share a rank, although the
\* listing numbers them apart; and one whom the limit leaves out, tied or not,
\* never reads a better rank than a player who is listed.
Place(listing, u) == 1 + Cardinality({v \in Players(listing) : Before(listing, v, u)})
RanksMatchListing ==
  \A i \in Instances, k \in Keys : ~FromRedis(i, k) =>
    LET rank == [u \in Users |-> getPlayerRank(i, k, u)] IN
    \A n \in 1 .. MaxTop :
      LET listing == Listed(i, k, n) IN
      /\ \A u \in Players(listing) : \E first \in Players(listing) :
           /\ listing[first] = listing[u] /\ Place(listing, first) = rank[u]
           /\ \A v \in Players(listing) :
                listing[v] = listing[u] => v = first \/ Before(listing, first, v)
      /\ \A u \in Players(scores[k]) \ Players(listing) :
           \A v \in Players(listing) : rank[v] <= rank[u]

\* A player a board has shown keeps a rank on it at every instance: whatever
\* happens between the listing and the read of his own rank (a Redis outage, a
\* restart without data, an expired or rebuilt key, a failed command), the answer
\* is not null.
OnBoard(k, u) == scores[k][u] # None \/ cache[k][u] # None
ListedPlayersStayRanked ==
  [][\A k \in Keys, u \in Users : OnBoard(k, u) =>
       /\ OnBoard(k, u)'
       /\ \A i \in Instances : None \notin RankAnswers(i, k, u)']_<<scores, cache, ready>>

\* The scores of paid players, drifted by lost, doubled or misplaced
\* increments, settle on what the ledger paid them (leaderboardService.js:182).
ScoresSelfRepair ==
  <>[](\A t \in Scheduled, u \in Users :
         Credits(u, Now(t)) # {} => scores[Now(t)][u] = Total(u, Now(t)))

\* leaderboardService.js:147 "Rebuilds atomically": the set a rebuild renames
\* over the live key is the one it has read from MySQL, less the rows Redis
\* refused, although another instance may rebuild the same board at the same time
\* or have died over it, or the pipeline is sent twice; provided that process ids
\* differ.
RebuildsAreWhole ==
  [][\A j \in Jobs, u \in Users :
       job[j].pc \in {"swap", "fill"} /\ job'[j].pc = "renamed" =>
         cache'[job[j].key][u] = IF u \in job'[j].refused THEN None ELSE job[j].rows[u]]_cache

\* What players read of the current boards, of others and of themselves, at any
\* instance, settles on the ledger too, after outages, restarts, refused commands
\* and races between ZINCRBY and a rebuild.
ReadsSelfRepair ==
  <>[](\A i \in Instances, t \in Scheduled, u \in Users :
         Credits(u, Now(t)) # {} =>
           /\ Listed(i, Now(t), MaxTop)[u] = Total(u, Now(t))
           /\ getPlayerScore(i, Now(t), u) = Total(u, Now(t)))

\* config.js:71 "Periodic reconciliation from points_ledger (repairs any
\* leaderboard drift)": the boards of the current periods settle on the ledger
\* for every user, also one it paid nothing.
AnyDriftIsRepaired ==
  <>[](\A t \in Scheduled, u \in Users :
         scores[Now(t)][u] \in {None, 0} \/ scores[Now(t)][u] = Total(u, Now(t)))

\* leaderboardService.js:24 "serve from Redis when available and warm;
\* otherwise fall back to MySQL": with no request or job under way, a board
\* served from Redis lists every player the table has.
Quiet ==
  /\ \A w \in Wins : phase[w] \in {"idle", "done"} /\ pending[w] = {}
  /\ \A j \in Jobs : job[j].pc = "idle"
ColdBoardFallsBack ==
  Quiet => \A i \in Instances, k \in Keys :
    FromRedis(i, k) => Players(Top(scores[k], MaxTop)) \subseteq Players(cache[k])
=============================================================================
