-------------------------- MODULE LeaderboardProofs --------------------------
(* Theorems about Leaderboard for any number of users, wins, instances,      *)
(* boards, days and failures: types, the windows of the ledger, the rows     *)
(* reconciliation locks, the players Redis shows, how far the all-time board *)
(* can drift, the rebuilt sets, and what a player reads of himself.          *)
EXTENDS Leaderboard, FiniteSums

\* what a set of wins is worth
LEMMA WinsAreSums == \A S : SumOfAmounts(S) = SumOf(Amount, S)
BY DEF SumOfAmounts, MapThenSumSet, MapThenFoldSet, SumOf, SumFn, AnyOf

---------------------------------------------------------------------------
(* Windows: the ledger rows a reconciliation sums for a board are those of   *)
(* the days that share its key.                                              *)

LEMMA MulStep ==
  ASSUME NEW m \in Nat \ {0}, NEW a \in Int, NEW b \in Int, a < b
  PROVE  m * a + m <= m * b
<1>1. b = a + 1 + (b - a - 1) /\ b - a - 1 \in Nat
  OBVIOUS
<1>2. \A n \in Nat : m * n \in Nat
  OBVIOUS
<1>3. m * b = m * a + m + m * (b - a - 1)
  BY <1>1
<1> QED BY <1>1, <1>2, <1>3

\* the Mondays before day 0 and after it are DaysPerWeek apart
LEMMA Mondays ==
  \A d \in Int : \E q \in Int :
    /\ weekStartUtc(d) = DaysPerWeek * q - FirstWeekday + 1
    /\ weekStartUtc(d) <= d /\ d < weekStartUtc(d) + DaysPerWeek
<1> TAKE d \in Int
<1> DEFINE r == (d + FirstWeekday) % DaysPerWeek
           p == (d + FirstWeekday) \div DaysPerWeek
<1>1. DaysPerWeek \in Nat \ {0} /\ FirstWeekday \in Nat
  BY BoundsAssumption
<1>2. p \in Int /\ r \in 0 .. DaysPerWeek - 1 /\ d + FirstWeekday = DaysPerWeek * p + r
  BY <1>1
<1>3. getUTCDay(d) = r
  BY DEF getUTCDay
<1> HIDE DEF r, p
<1>4. CASE r = 0
  <2>1. weekStartUtc(d) = d - DaysPerWeek + 1
    BY <1>1, <1>3, <1>4 DEF weekStartUtc
  <2>2. weekStartUtc(d) = DaysPerWeek * (p - 1) - FirstWeekday + 1
    BY <1>1, <1>2, <1>4, <2>1
  <2>3. p - 1 \in Int /\ weekStartUtc(d) <= d /\ d < weekStartUtc(d) + DaysPerWeek
    BY <1>1, <1>2, <2>1
  <2> QED BY <2>2, <2>3
<1>5. CASE r # 0
  <2>1. weekStartUtc(d) = d + 1 - r
    BY <1>1, <1>2, <1>3, <1>5 DEF weekStartUtc
  <2>2. weekStartUtc(d) = DaysPerWeek * p - FirstWeekday + 1
    BY <1>1, <1>2, <2>1
  <2> QED BY <1>1, <1>2, <1>5, <2>1, <2>2
<1> QED BY <1>4, <1>5

\* A win of day e is in the window of a reconciliation that runs on day d
\* exactly when it belongs on the board that reconciliation writes, for weeks
\* of any length and whatever day of the week day 0 is.
THEOREM WindowsMatchKeys ==
  \A t \in PeriodTypes, d \in Days, e \in Days :
    InRange(e, periodTimeRange(t, d)) <=> Key(t, e) = Key(t, d)
<1> TAKE t \in PeriodTypes, d \in Days, e \in Days
<1>1. d \in Int /\ e \in Int /\ DaysPerWeek \in Nat \ {0} /\ FirstWeekday \in Nat
  BY BoundsAssumption DEF Days
<1>2. \A a \in Int, b \in Int : <<a, b>> # None
  BY NoneAssumption
<1>3. CASE t = "global"
  BY <1>3 DEF InRange, periodTimeRange, Key
<1>4. CASE t = "daily"
  <2>1. InRange(e, periodTimeRange(t, d)) <=> d <= e /\ e < d + 1
    BY <1>1, <1>2, <1>4 DEF InRange, periodTimeRange
  <2>2. Key(t, e) = Key(t, d) <=> e = d
    BY <1>4 DEF Key
  <2> QED BY <1>1, <2>1, <2>2
<1>5. CASE t \notin {"global", "daily"}
  <2>1. PICK p \in Int : /\ weekStartUtc(d) = DaysPerWeek * p - FirstWeekday + 1
                         /\ weekStartUtc(d) <= d /\ d < weekStartUtc(d) + DaysPerWeek
    BY <1>1, Mondays
  <2>2. PICK q \in Int : /\ weekStartUtc(e) = DaysPerWeek * q - FirstWeekday + 1
                         /\ weekStartUtc(e) <= e /\ e < weekStartUtc(e) + DaysPerWeek
    BY <1>1, Mondays
  <2>3. PICK s \in Int : s = weekStartUtc(d)
    BY <1>1, <2>1
  <2>4. PICK r \in Int : r = weekStartUtc(e)
    BY <1>1, <2>2
  <2>5. InRange(e, periodTimeRange(t, d)) <=> s <= e /\ e < s + DaysPerWeek
    BY <1>1, <1>2, <1>5, <2>3 DEF InRange, periodTimeRange
  <2>6. Key(t, e) = Key(t, d) <=> r = s
    BY <1>5, <2>3, <2>4 DEF Key
  <2>7. p < q => s + DaysPerWeek <= r
    BY <1>1, <2>1, <2>2, <2>3, <2>4, MulStep
  <2>8. q < p => r + DaysPerWeek <= s
    BY <1>1, <2>1, <2>2, <2>3, <2>4, MulStep
  <2>9. p = q => r = s
    BY <2>1, <2>2, <2>3, <2>4
  <2> QED BY <1>1, <2>2, <2>4, <2>5, <2>6, <2>7, <2>8, <2>9
<1> QED BY <1>3, <1>4, <1>5
---------------------------------------------------------------------------
(* Boards, keys and the types of the state.                                  *)

JobState == [pc : Working \cup {"idle"}, key : Keys \cup {None}, range : Ranges \cup {None},
             sums : Board, todo : SUBSET Users, rows : Board, refused : SUBSET Users]

\* which fields mean something at which point of a request or a job
WinShape ==
  \A w \in Wins :
    /\ phase[w] = "idle" <=> paidOn[w] = None
    /\ phase[w] \in {"idle", "paying", "settled"} => pending[w] = {}
    /\ pending[w] # {} \/ phase[w] \in {"upserting", "caching", "sent"} => asked[w] \in Days
\* a job in state n reconciles a board of type t
Shaped(n, t) ==
  n.pc # "idle" =>
    /\ n.key \in Keys /\ n.key[1] = t
    /\ n.pc = "sum" /\ t = "global" => n.range = None
JobShape == \A j \in Jobs : Shaped(job[j], j[2])
TypeInv == TypeOK /\ WinShape /\ JobShape

LEMMA KeyTypes ==
  /\ \A t \in PeriodTypes, d \in Days : Key(t, d) \in Keys /\ Key(t, d)[1] = t
  /\ \A k \in Keys : k[1] \in PeriodTypes /\ (k[1] = "global" => k = <<"global", 0>>)
  /\ \A j \in Jobs : j[2] \in PeriodTypes
<1>1. \A t, d : Key(t, d)[1] = t /\ (t = "global" => Key(t, d) = <<"global", 0>>)
  BY DEF Key
<1>2. \A j \in Jobs : j[2] \in PeriodTypes
  BY ScheduledAssumption DEF Jobs
<1> QED BY <1>1, <1>2 DEF Keys

LEMMA BoardTypes ==
  /\ EmptyBoard \in Board
  /\ NoJob \in JobState
  /\ \A b \in Board : Players(b) \subseteq Users /\ \A u \in Players(b) : b[u] \in Nat
  /\ \A b \in Board : \A n : Top(b, n) \in Board /\ Players(Top(b, n)) \subseteq Players(b)
  /\ \A b \in Board, u \in Users, n \in Nat : Added(b, u, n) \in Board
<1>1. EmptyBoard \in Board
  BY DEF EmptyBoard, Board
<1>2. NoJob \in JobState
  BY <1>1 DEF NoJob, JobState
<1>3. ASSUME NEW b \in Board
      PROVE  /\ Players(b) \subseteq Users /\ \A u \in Players(b) : b[u] \in Nat
             /\ \A n : Top(b, n) \in Board /\ Players(Top(b, n)) \subseteq Players(b)
  BY DEF Board, Players, Top
<1>4. ASSUME NEW b \in Board, NEW u \in Users, NEW n \in Nat
      PROVE  Added(b, u, n) \in Board
  BY DEF Board, Added
<1> QED BY <1>1, <1>2, <1>3, <1>4

LEMMA WinTypes ==
  ASSUME NEW S \in SUBSET Wins
  PROVE  IsFiniteSet(S) /\ SumOfAmounts(S) \in Nat
<1>1. IsFiniteSet(S) /\ \A w \in S : Amount[w] \in Nat
  BY FiniteAssumption, WinsAssumption, FS_Subset
<1> QED BY <1>1, SumType, WinsAreSums

LEMMA InitType == Init => TypeInv
<1> SUFFICES ASSUME Init PROVE TypeInv
  OBVIOUS
<1>1. TypeOK
  BY BoardTypes, BoundsAssumption DEF Init, TypeOK, JobState, Days
<1>2. WinShape /\ JobShape
  BY DEF Init, WinShape, JobShape, Shaped, NoJob
<1> QED BY <1>1, <1>2 DEF TypeInv

LEMMA RunType ==
  ASSUME TypeInv, NEW j \in Jobs, NEW st \in JobState, Run(j, st),
         Shaped(st, j[2])
  PROVE  job' \in [Jobs -> JobState] /\ JobShape'
<1>1. job \in [Jobs -> JobState]
  BY DEF TypeInv, TypeOK, JobState
<1>2. \A i \in Jobs : job'[i] = IF i = j THEN st ELSE job[i]
  BY <1>1 DEF Run
<1>3. job' \in [Jobs -> JobState]
  BY <1>1 DEF Run
<1>4. JobShape'
  BY <1>2 DEF JobShape, TypeInv
<1> QED BY <1>3, <1>4

LEMMA EndType ==
  ASSUME TypeInv, NEW j \in Jobs, Run(j, NoJob) \/ Run(j, Cleared(j))
  PROVE  job' \in [Jobs -> JobState] /\ JobShape'
BY RunType, BoardTypes DEF Cleared, NoJob, Shaped

LEMMA UnlockedType ==
  ASSUME TypeInv, NEW j \in Jobs
  PROVE  Unlocked(j) \in [Keys -> [Users -> Jobs \cup {None}]]
BY DEF TypeInv, TypeOK, Unlocked

LEMMA FaultType == TypeInv /\ Fault => faults' \in 0 .. MaxFaults
BY BoundsAssumption DEF TypeInv, TypeOK, Fault

---------------------------------------------------------------------------
(* Types: the requests.                                                      *)

LEMMA SettleType ==
  ASSUME TypeInv, NEW w \in Wins, Pay(w) \/ Settle(w) \/ SettleFails(w) \/ Increment(w)
  PROVE  TypeInv'
<1>1. TypeOK'
  <2>1. CASE Pay(w)
    BY <2>1 DEF Pay, TypeInv, TypeOK, boards
  <2>2. CASE Settle(w)
    BY <2>2 DEF Settle, TypeInv, TypeOK, boards
  <2>3. CASE SettleFails(w)
    BY <2>3, FaultType DEF SettleFails, TypeInv, TypeOK, boards
  <2>4. CASE Increment(w)
    BY <2>4 DEF Increment, TypeInv, TypeOK, boards
  <2> QED BY <2>1, <2>2, <2>3, <2>4
<1>2. WinShape'
  <2>1. day \in Days /\ day # None
    BY NoneAssumption, BoundsAssumption DEF TypeInv, TypeOK, Days
  <2> QED BY <2>1 DEF Pay, Settle, SettleFails, Increment, TypeInv, TypeOK, WinShape
<1>3. JobShape'
  BY DEF Pay, Settle, SettleFails, Increment, TypeInv, JobShape
<1> QED BY <1>1, <1>2, <1>3 DEF TypeInv

LEMMA UpsertType ==
  ASSUME TypeInv, NEW w \in Wins, NEW t \in PeriodTypes, Upsert(w, t) \/ UpsertFails(w, t)
  PROVE  TypeInv'
<1>1. /\ t \in pending[w] /\ asked[w] \in Days
      /\ phase[w] \in {"upserting", "done"}
  BY DEF Upsert, UpsertFails, Upserting, TypeInv, WinShape
<1>2. scores' \in [Keys -> Board]
  <2> DEFINE k == Key(t, asked[w])
             b == Added(scores[k], Winner[w], Amount[w])
  <2>1. k \in Keys
    BY <1>1, KeyTypes
  <2>2. scores[k] \in Board
    BY <2>1 DEF TypeInv, TypeOK
  <2>3. b \in Board
    BY <2>2, WinsAssumption, BoardTypes
  <2>4. Upsert(w, t) => scores' = [scores EXCEPT ![k] = b]
    BY DEF Upsert
  <2> HIDE DEF k, b
  <2> QED BY <2>1, <2>3, <2>4 DEF UpsertFails, TypeInv, TypeOK, boards
<1>3. faults' \in 0 .. MaxFaults
  BY FaultType DEF Upsert, UpsertFails, TypeInv, TypeOK
<1>4. TypeOK'
  <2>1. CASE Upsert(w, t)
    <3>1. /\ phase' \in [Wins -> {"idle", "paying", "settled", "upserting", "caching",
                                  "sent", "done"}]
          /\ pending' \in [Wins -> SUBSET PeriodTypes]
      <4>1. CASE AllStored(w, t)
        BY <2>1, <4>1 DEF Upsert, TypeInv, TypeOK
      <4>2. CASE ~AllStored(w, t)
        BY <2>1, <4>2 DEF Upsert, TypeInv, TypeOK
      <4> QED BY <4>1, <4>2
    <3> QED BY <2>1, <3>1, <1>2, <1>3 DEF Upsert, TypeInv, TypeOK
  <2>2. CASE UpsertFails(w, t)
    BY <2>2, <1>2, <1>3 DEF UpsertFails, TypeInv, TypeOK, boards
  <2> QED BY <2>1, <2>2
<1>5. WinShape'
  BY <1>1 DEF Upsert, UpsertFails, AllStored, TypeInv, TypeOK, WinShape
<1>6. JobShape'
  BY DEF Upsert, UpsertFails, TypeInv, JobShape
<1> QED BY <1>4, <1>5, <1>6 DEF TypeInv

LEMMA WriteCacheType ==
  ASSUME TypeInv, NEW w \in Wins, asked[w] \in Days, NEW types \in SUBSET PeriodTypes,
         WriteCache(w, types)
  PROVE  cache' \in [Keys -> Board]
<1>1. \A k \in Keys : Added(cache[k], Winner[w], Amount[w]) \in Board
  BY WinsAssumption, BoardTypes DEF TypeInv, TypeOK
<1> QED BY <1>1 DEF WriteCache, TypeInv, TypeOK

\* what a ZINCRBY pipeline does
LEMMA SendsPart ==
  ASSUME TypeInv, NEW w \in Wins, CacheIncrement(w)
  PROVE  /\ phase[w] \in {"caching", "sent"} /\ asked[w] \in Days
         /\ \E types \in SUBSET pending[w] \ {{}} : \E refused \in SUBSET types :
              /\ Refused(refused)
              /\ WriteCache(w, types \ refused)
              /\ pending' = [pending EXCEPT ![w] = @ \ types]
         /\ phase' = [phase EXCEPT ![w] = "sent"]
<1>1. \E types \in SUBSET pending[w] \ {{}} : \E refused \in SUBSET types :
        /\ Refused(refused)
        /\ WriteCache(w, types \ refused)
        /\ pending' = [pending EXCEPT ![w] = @ \ types]
  BY DEF CacheIncrement
<1>2. phase[w] \in {"caching", "sent"} /\ phase' = [phase EXCEPT ![w] = "sent"]
  BY DEF CacheIncrement
<1>3. asked[w] \in Days
  BY <1>2 DEF TypeInv, WinShape
<1> QED BY <1>1, <1>2, <1>3

LEMMA RefusedType == \A what : TypeInv /\ Refused(what) => faults' \in 0 .. MaxFaults
BY FaultType DEF Refused, TypeInv, TypeOK

LEMMA CacheType ==
  ASSUME TypeInv, NEW w \in Wins, CacheIncrement(w)
  PROVE  TypeInv'
<1>0. PICK types \in SUBSET pending[w] \ {{}} : \E refused \in SUBSET types :
        /\ Refused(refused)
        /\ WriteCache(w, types \ refused)
        /\ pending' = [pending EXCEPT ![w] = @ \ types]
  BY SendsPart
<1>1. PICK refused \in SUBSET types :
        /\ Refused(refused)
        /\ WriteCache(w, types \ refused)
        /\ pending' = [pending EXCEPT ![w] = @ \ types]
  BY <1>0
<1>2. /\ phase[w] \in {"caching", "sent"} /\ asked[w] \in Days
      /\ phase' = [phase EXCEPT ![w] = "sent"]
  BY SendsPart
<1>3. types \ refused \in SUBSET PeriodTypes
  BY DEF TypeInv, TypeOK
<1>4. cache' \in [Keys -> Board]
  BY <1>1, <1>2, <1>3, WriteCacheType
<1>5. faults' \in 0 .. MaxFaults
  BY <1>1, RefusedType
<1>6. TypeOK'
  BY <1>1, <1>2, <1>4, <1>5 DEF CacheIncrement, TypeInv, TypeOK
<1>7. WinShape'
  BY <1>1, <1>2 DEF CacheIncrement, TypeInv, TypeOK, WinShape
<1>8. JobShape'
  BY DEF CacheIncrement, TypeInv, JobShape
<1> QED BY <1>6, <1>7, <1>8 DEF TypeInv

LEMMA OverType ==
  ASSUME TypeInv, NEW w \in Wins, IncrementAnswered(w) \/ CacheSkipped(w)
  PROVE  TypeInv'
<1>1. Over(w) /\ phase[w] \in {"caching", "sent"}
  BY DEF IncrementAnswered, CacheSkipped
<1> QED BY <1>1 DEF Over, TypeInv, TypeOK, WinShape, JobShape, boards

---------------------------------------------------------------------------
(* Types: the jobs.                                                          *)

LEMMA TickType ==
  ASSUME TypeInv, NEW j \in Jobs, Tick(j)
  PROVE  TypeInv'
<1> DEFINE st == [NoJob EXCEPT !.pc = "sum", !.key = Now(j[2]),
                              !.range = periodTimeRange(j[2], day)]
<1>1. /\ Now(j[2]) \in Keys /\ Now(j[2])[1] = j[2]
      /\ periodTimeRange(j[2], day) \in Ranges
      /\ j[2] = "global" => periodTimeRange(j[2], day) = None
  <2>1. day \in Days /\ j[2] \in PeriodTypes
    BY KeyTypes DEF TypeInv, TypeOK
  <2>2. j[2] = "global" => periodTimeRange(j[2], day) = None
    BY DEF periodTimeRange
  <2> QED BY <2>1, <2>2, KeyTypes DEF Now, Ranges
<1>2. st \in JobState /\ st.key = Now(j[2]) /\ st.range = periodTimeRange(j[2], day)
  <2> PICK r \in Ranges : r = periodTimeRange(j[2], day)
    BY <1>1
  <2> QED BY <1>1, BoardTypes DEF JobState, Working, NoJob
<1>3. Run(j, st)
  BY DEF Tick
<1> HIDE DEF st
<1>4. Shaped(st, j[2])
  BY <1>1, <1>2 DEF Shaped
<1>5. job' \in [Jobs -> JobState] /\ JobShape'
  BY <1>2, <1>3, <1>4, RunType
<1> QED BY <1>5 DEF Tick, TypeInv, TypeOK, WinShape, JobState, wins, boards

LEMMA SumLedgerType ==
  ASSUME TypeInv, NEW j \in Jobs, SumLedger(j)
  PROVE  TypeInv'
<1> DEFINE credits(u) == CreditsIn(u, job[j].range)
           paid == {u \in Users : credits(u) # {}}
           sums == [u \in Users |-> IF u \in paid THEN SumOfAmounts(credits(u)) ELSE None]
           st == [job[j] EXCEPT !.pc = IF paid = {} THEN "readTop" ELSE "upsert",
                                !.sums = sums, !.todo = paid]
<1>1. sums \in Board /\ paid \in SUBSET Users
  <2>1. \A u : credits(u) \in SUBSET Wins
    BY DEF CreditsIn, Committed
  <2>2. \A u : SumOfAmounts(credits(u)) \in Nat
    BY <2>1, WinTypes
  <2> QED BY <2>2 DEF Board
<1>2. job[j] \in JobState
  BY DEF TypeInv, TypeOK, JobState
<1>3. st \in JobState /\ st.key = job[j].key /\ st.pc \in {"readTop", "upsert"}
  BY <1>1, <1>2 DEF JobState, Working
<1>4. Run(j, st) /\ job[j].pc = "sum"
  BY DEF SumLedger
<1> HIDE DEF st, paid, sums, credits
<1>5. Shaped(st, j[2])
  BY <1>3, <1>4 DEF Shaped, TypeInv, JobShape
<1>6. job' \in [Jobs -> JobState] /\ JobShape'
  BY <1>3, <1>4, <1>5, RunType
<1> QED BY <1>6 DEF SumLedger, TypeInv, TypeOK, WinShape, JobState, wins, boards

LEMMA UpsertRowType ==
  ASSUME TypeInv, NEW j \in Jobs, UpsertRow(j)
  PROVE  TypeInv'
<1>1. PICK u \in job[j].todo :
        /\ rowLock' = [rowLock EXCEPT ![job[j].key][u] = j]
        /\ Run(j, [job[j] EXCEPT !.todo = @ \ {u},
                                 !.pc = IF job[j].todo = {u} THEN "commit" ELSE @])
  BY DEF UpsertRow
<1> DEFINE st == [job[j] EXCEPT !.todo = @ \ {u},
                                !.pc = IF job[j].todo = {u} THEN "commit" ELSE @]
<1>2. job[j] \in JobState /\ job[j].key \in Keys /\ job[j].pc = "upsert"
  BY DEF UpsertRow, TypeInv, TypeOK, JobState, JobShape, Shaped
<1>3. st \in JobState /\ st.key = job[j].key /\ st.pc \in {"upsert", "commit"}
  BY <1>2 DEF JobState, Working
<1>4. Run(j, st)
  BY <1>1
<1> HIDE DEF st
<1>5. Shaped(st, j[2])
  BY <1>2, <1>3 DEF Shaped, TypeInv, JobShape
<1>7. job' \in [Jobs -> JobState] /\ JobShape'
  BY <1>3, <1>4, <1>5, RunType
<1>6. rowLock' \in [Keys -> [Users -> Jobs \cup {None}]]
  BY <1>1, <1>2 DEF TypeInv, TypeOK, JobState
<1> QED BY <1>6, <1>7 DEF UpsertRow, TypeInv, TypeOK, WinShape, JobState, wins, boards

LEMMA CommitRowsType ==
  ASSUME TypeInv, NEW j \in Jobs, CommitRows(j)
  PROVE  TypeInv'
<1> DEFINE k == job[j].key
           row == [u \in Users |-> IF job[j].sums[u] = None THEN scores[k][u]
                                   ELSE Reconciled(scores[k][u], job[j].sums[u])]
           st == [NoJob EXCEPT !.pc = "readTop", !.key = k]
<1>1. job[j] \in JobState /\ k \in Keys /\ k[1] = j[2]
  BY DEF CommitRows, TypeInv, TypeOK, JobState, JobShape, Shaped
<1>2. row \in Board
  BY <1>1 DEF TypeInv, TypeOK, Board, JobState, Reconciled
<1>3. scores' = [scores EXCEPT ![k] = row] /\ rowLock' = Unlocked(j) /\ Run(j, st)
  BY DEF CommitRows
<1>4. st \in JobState /\ Shaped(st, j[2])
  BY <1>1, BoardTypes DEF JobState, Working, Shaped, NoJob
<1> HIDE DEF st, row
<1>5. job' \in [Jobs -> JobState] /\ JobShape'
  BY <1>3, <1>4, RunType
<1>6. scores' \in [Keys -> Board]
  BY <1>2, <1>3 DEF TypeInv, TypeOK
<1> QED BY <1>3, <1>5, <1>6, UnlockedType DEF CommitRows, TypeInv, TypeOK, WinShape, JobState, wins

LEMMA ReadTopType ==
  ASSUME TypeInv, NEW j \in Jobs, ReadTop(j)
  PROVE  TypeInv'
<1> DEFINE k == job[j].key
           st == [job[j] EXCEPT !.pc = "swap", !.rows = Top(scores[k], MaxTop)]
<1>1. job[j] \in JobState /\ k \in Keys /\ k[1] = j[2]
  BY DEF ReadTop, TypeInv, TypeOK, JobState, JobShape, Shaped
<1>2. Top(scores[k], MaxTop) \in Board
  BY <1>1, BoardTypes DEF TypeInv, TypeOK
<1>3. st \in JobState /\ Shaped(st, j[2])
  BY <1>1, <1>2 DEF JobState, Working, Shaped
<1>4. Run(j, st) \/ Run(j, NoJob)
  BY DEF ReadTop
<1> HIDE DEF st
<1>5. job' \in [Jobs -> JobState] /\ JobShape'
  BY <1>3, <1>4, RunType, EndType
<1> QED BY <1>5 DEF ReadTop, TypeInv, TypeOK, WinShape, JobState, wins, boards

LEMMA FilledType ==
  ASSUME TypeInv, NEW j \in Jobs, Piping(j)
  PROVE  /\ job[j] \in JobState /\ job[j].key \in Keys /\ job[j].key[1] = j[2]
         /\ TmpKey(j) \in TmpKeys
         /\ ToFill(j) \subseteq Users /\ Piece(j) \subseteq ToFill(j)
         /\ \A refused : Filled(j, refused) \in Board
<1>1. job[j] \in JobState /\ job[j].key \in Keys /\ job[j].key[1] = j[2]
  BY DEF Piping, TypeInv, TypeOK, JobState, JobShape, Shaped
<1>2. TmpKey(j) \in TmpKeys
  BY <1>1 DEF TmpKey, TmpKeys, Jobs
<1>3. ToFill(j) \subseteq Users /\ Piece(j) \subseteq ToFill(j)
  BY <1>1, BoardTypes DEF ToFill, Piece, JobState
<1>4. tmp[TmpKey(j)] \in Board
  BY <1>2 DEF TypeInv, TypeOK
<1> QED BY <1>1, <1>2, <1>3, <1>4 DEF Filled, Board, JobState

\* what a piece of a rebuild's pipeline does to its job, and the last piece
LEMMA FillsPart ==
  ASSUME TypeInv, NEW j \in Jobs, Fill(j)
  PROVE  /\ Piping(j) /\ Piece(j) # ToFill(j)
         /\ \E refused \in SUBSET Piece(j) :
              /\ Refused(refused)
              /\ tmp' = [tmp EXCEPT ![TmpKey(j)] = Filled(j, refused)]
              /\ \E st \in JobState :
                   /\ Run(j, st)
                   /\ st.pc = "fill" /\ st.todo = ToFill(j) \ Piece(j)
                   /\ st.key = job[j].key /\ st.sums = job[j].sums /\ st.rows = job[j].rows
                   /\ st.refused = job[j].refused \cup refused
<1>1. PICK refused \in SUBSET Piece(j) :
        /\ Refused(refused)
        /\ tmp' = [tmp EXCEPT ![TmpKey(j)] = Filled(j, refused)]
        /\ Run(j, [job[j] EXCEPT !.pc = "fill", !.todo = ToFill(j) \ Piece(j),
                                 !.refused = @ \cup refused])
  BY DEF Fill
<1> DEFINE st == [job[j] EXCEPT !.pc = "fill", !.todo = ToFill(j) \ Piece(j),
                               !.refused = @ \cup refused]
<1>2. Piping(j) /\ Piece(j) # ToFill(j)
  BY DEF Fill
<1>3. /\ st \in JobState /\ st.pc = "fill" /\ st.todo = ToFill(j) \ Piece(j)
      /\ st.key = job[j].key /\ st.sums = job[j].sums /\ st.rows = job[j].rows
      /\ st.refused = job[j].refused \cup refused
  BY <1>2, FilledType DEF JobState, Working
<1>4. Run(j, st)
  BY <1>1
<1> HIDE DEF st
<1> QED BY <1>1, <1>2, <1>3, <1>4

LEMMA SwapsPart ==
  ASSUME TypeInv, NEW j \in Jobs, Swap(j)
  PROVE  /\ Piping(j) /\ Piece(j) = ToFill(j)
         /\ \E refused \in SUBSET Piece(j) :
              /\ Refused(refused)
              /\ cache' = IF Players(Filled(j, refused)) = {} THEN cache
                          ELSE [cache EXCEPT ![job[j].key] = Filled(j, refused)]
              /\ \E st \in JobState :
                   /\ Run(j, st)
                   /\ st.pc = "renamed" /\ st.todo = {}
                   /\ st.key = job[j].key /\ st.sums = job[j].sums /\ st.rows = job[j].rows
                   /\ st.refused = job[j].refused \cup refused
<1>1. PICK refused \in SUBSET Piece(j) :
        /\ Refused(refused)
        /\ cache' = IF Players(Filled(j, refused)) = {} THEN cache
                    ELSE [cache EXCEPT ![job[j].key] = Filled(j, refused)]
        /\ Run(j, [job[j] EXCEPT !.pc = "renamed", !.todo = {}, !.refused = @ \cup refused])
  BY DEF Swap
<1> DEFINE st == [job[j] EXCEPT !.pc = "renamed", !.todo = {}, !.refused = @ \cup refused]
<1>2. Piping(j) /\ Piece(j) = ToFill(j)
  BY DEF Swap
<1>3. /\ st \in JobState /\ st.pc = "renamed" /\ st.todo = {}
      /\ st.key = job[j].key /\ st.sums = job[j].sums /\ st.rows = job[j].rows
      /\ st.refused = job[j].refused \cup refused
  BY <1>2, FilledType DEF JobState, Working
<1>4. Run(j, st)
  BY <1>1
<1> HIDE DEF st
<1> QED BY <1>1, <1>2, <1>3, <1>4

LEMMA FillType ==
  ASSUME TypeInv, NEW j \in Jobs, Fill(j)
  PROVE  TypeInv'
<1>1. PICK refused \in SUBSET Piece(j), st \in JobState :
        /\ Refused(refused) /\ tmp' = [tmp EXCEPT ![TmpKey(j)] = Filled(j, refused)]
        /\ Run(j, st) /\ st.pc = "fill" /\ st.key = job[j].key
  BY FillsPart
<1>2. Piping(j) /\ job[j].key \in Keys /\ job[j].key[1] = j[2]
  BY FillsPart, FilledType
<1>3. job' \in [Jobs -> JobState] /\ JobShape'
  BY <1>1, <1>2, RunType DEF Shaped
<1>4. tmp' \in [TmpKeys -> Board]
  BY <1>1, <1>2, FilledType DEF TypeInv, TypeOK
<1>5. faults' \in 0 .. MaxFaults
  BY <1>1, RefusedType
<1> QED BY <1>3, <1>4, <1>5 DEF Fill, TypeInv, TypeOK, WinShape, JobState, wins

LEMMA SwapType ==
  ASSUME TypeInv, NEW j \in Jobs, Swap(j)
  PROVE  TypeInv'
<1>1. PICK refused \in SUBSET Piece(j), st \in JobState :
        /\ Refused(refused)
        /\ cache' = IF Players(Filled(j, refused)) = {} THEN cache
                    ELSE [cache EXCEPT ![job[j].key] = Filled(j, refused)]
        /\ Run(j, st) /\ st.pc = "renamed" /\ st.key = job[j].key
  BY SwapsPart
<1>2. Piping(j) /\ job[j].key \in Keys /\ job[j].key[1] = j[2]
  BY SwapsPart, FilledType
<1>3. job' \in [Jobs -> JobState] /\ JobShape'
  BY <1>1, <1>2, RunType DEF Shaped
<1>4. tmp' \in [TmpKeys -> Board] /\ cache' \in [Keys -> Board]
  BY <1>1, <1>2, FilledType, BoardTypes DEF Swap, TypeInv, TypeOK
<1>5. faults' \in 0 .. MaxFaults
  BY <1>1, RefusedType
<1> QED BY <1>3, <1>4, <1>5 DEF Swap, TypeInv, TypeOK, WinShape, JobState, wins

LEMMA StopType ==
  ASSUME TypeInv, NEW j \in Jobs,
         RebuildAnswered(j) \/ JobFails(j) \/ SwapOffline(j) \/ JobLockTimeout(j)
  PROVE  TypeInv'
<1>1. job' \in [Jobs -> JobState] /\ JobShape'
  BY EndType DEF RebuildAnswered, JobFails, SwapOffline, JobLockTimeout
<1>2. rowLock' \in [Keys -> [Users -> Jobs \cup {None}]]
  <2>1. rowLock' = rowLock \/ rowLock' = Unlocked(j)
    BY DEF RebuildAnswered, JobFails, SwapOffline, JobLockTimeout, boards
  <2> QED BY <2>1, UnlockedType DEF TypeInv, TypeOK
<1>3. faults' \in 0 .. MaxFaults
  BY FaultType DEF RebuildAnswered, JobFails, SwapOffline, JobLockTimeout, TypeInv, TypeOK
<1> QED BY <1>1, <1>2, <1>3 DEF RebuildAnswered, JobFails, SwapOffline, JobLockTimeout,
                                TypeInv, TypeOK, WinShape, JobState, wins, boards

---------------------------------------------------------------------------
(* Types: days, Redis and crashes.                                           *)

\* what becomes of a request and of a job when connections are lost
LEMMA CutWins ==
  ASSUME TypeInv, NEW instances \in SUBSET Instances, CutOff(instances), NEW w \in Wins
  PROVE  \/ phase'[w] = phase[w] /\ pending'[w] = pending[w]
         \/ phase[w] = "sent" /\ phase'[w] = "caching" /\ pending'[w] = PeriodTypes
         \/ phase[w] = "sent" /\ phase'[w] = "done" /\ pending'[w] = {}
<1> USE DEF PipedWins, TypeInv, TypeOK
<1>1. PICK again \in SUBSET PipedWins :
        /\ phase' = [v \in Wins |->
                       IF v \notin PipedWins \/ Home[v] \notin instances THEN phase[v]
                       ELSE IF v \in again THEN "caching" ELSE "done"]
        /\ pending' = [v \in Wins |->
                         IF v \notin PipedWins \/ Home[v] \notin instances THEN pending[v]
                         ELSE IF v \in again THEN PeriodTypes ELSE {}]
  BY DEF CutOff
<1> QED BY <1>1

LEMMA CutJobs ==
  ASSUME TypeInv, NEW instances \in SUBSET Instances, CutOff(instances), NEW j \in Jobs
  PROVE  \/ job'[j] = job[j] /\ (job[j].pc \in {"fill", "renamed"} => j[1] \notin instances)
         \/ /\ job[j].pc \in {"fill", "renamed"}
            /\ job'[j] = NoJob
         \/ /\ job[j].pc \in {"fill", "renamed"}
            /\ job'[j] \in JobState /\ job'[j].pc = "swap"
            /\ job'[j].key = job[j].key /\ job'[j].sums = job[j].sums
            /\ job'[j].rows = job[j].rows /\ job'[j].refused = {}
<1>1. PICK again \in SUBSET PipedJobs :
        job' = [i \in Jobs |->
                  IF i \notin PipedJobs \/ i[1] \notin instances THEN job[i]
                  ELSE IF i \in again
                       THEN [job[i] EXCEPT !.pc = "swap", !.todo = {}, !.refused = {}]
                       ELSE NoJob]
  BY DEF CutOff
<1>2. job[j] \in JobState
  BY DEF TypeInv, TypeOK, JobState
<1> DEFINE st == [job[j] EXCEPT !.pc = "swap", !.todo = {}, !.refused = {}]
<1>3. /\ st \in JobState /\ st.pc = "swap" /\ st.key = job[j].key /\ st.sums = job[j].sums
      /\ st.rows = job[j].rows /\ st.refused = {}
  BY <1>2 DEF JobState, Working
<1>4. j \in PipedJobs <=> job[j].pc \in {"fill", "renamed"}
  BY DEF PipedJobs
<1>5. CASE j \notin PipedJobs \/ j[1] \notin instances
  BY <1>1, <1>4, <1>5
<1>6. CASE ~(j \notin PipedJobs \/ j[1] \notin instances)
  <2>1. job'[j] \in {st, NoJob}
    BY <1>1, <1>6
  <2>2. j \in PipedJobs
    BY <1>6
  <2> HIDE DEF st
  <2>3. CASE job'[j] = st
    BY <1>3, <1>4, <2>2, <2>3
  <2>4. CASE job'[j] = NoJob
    BY <1>4, <2>2, <2>4
  <2> QED BY <2>1, <2>3, <2>4
<1> QED BY <1>5, <1>6

LEMMA CutType ==
  ASSUME TypeInv, NEW instances \in SUBSET Instances, CutOff(instances),
         UNCHANGED <<paidOn, asked>>
  PROVE  /\ ready' \subseteq Instances
         /\ phase' \in [Wins -> {"idle", "paying", "settled", "upserting", "caching",
                                 "sent", "done"}]
         /\ pending' \in [Wins -> SUBSET PeriodTypes]
         /\ job' \in [Jobs -> JobState]
         /\ WinShape' /\ JobShape'
<1>1. ready' \subseteq Instances
  BY DEF CutOff, TypeInv, TypeOK
<1>2. /\ DOMAIN phase' = Wins /\ phase' = [w \in Wins |-> phase'[w]]
      /\ DOMAIN pending' = Wins /\ pending' = [w \in Wins |-> pending'[w]]
      /\ DOMAIN job' = Jobs /\ job' = [j \in Jobs |-> job'[j]]
  BY DEF CutOff
<1>3. /\ phase' \in [Wins -> {"idle", "paying", "settled", "upserting", "caching",
                              "sent", "done"}]
      /\ pending' \in [Wins -> SUBSET PeriodTypes]
  <2>1. /\ phase \in [Wins -> {"idle", "paying", "settled", "upserting", "caching",
                               "sent", "done"}]
        /\ pending \in [Wins -> SUBSET PeriodTypes]
    BY DEF TypeInv, TypeOK
  <2>2. ASSUME NEW w \in Wins
        PROVE  /\ phase'[w] \in {"idle", "paying", "settled", "upserting", "caching",
                                 "sent", "done"}
               /\ pending'[w] \in SUBSET PeriodTypes
    <3>1. \/ phase'[w] = phase[w] /\ pending'[w] = pending[w]
          \/ phase'[w] \in {"caching", "done"} /\ pending'[w] \in {PeriodTypes, {}}
      BY CutWins
    <3> QED BY <2>1, <3>1
  <2> QED BY <1>2, <2>2
<1>4. WinShape'
  BY <1>3, CutWins DEF TypeInv, TypeOK, WinShape
<1>5. \A j \in Jobs : job'[j] \in JobState /\ Shaped(job'[j], j[2])
  <2> TAKE j \in Jobs
  <2>1. job[j] \in JobState /\ Shaped(job[j], j[2])
    BY DEF TypeInv, TypeOK, JobState, JobShape
  <2>2. NoJob \in JobState /\ NoJob.pc = "idle"
    BY BoardTypes DEF NoJob
  <2> QED BY <2>1, <2>2, CutJobs DEF Shaped
<1>6. job' \in [Jobs -> JobState] /\ JobShape'
  BY <1>2, <1>5 DEF JobShape
<1> QED BY <1>1, <1>3, <1>4, <1>6

LEMMA WorldType ==
  ASSUME TypeInv,
         NextDay \/ RedisGoes \/ (\E k \in Keys : Expire(k))
         \/ (\E i \in Instances : ConnectionLost(i) \/ Reconnect(i))
  PROVE  TypeInv'
<1>1. CASE NextDay
  BY <1>1, BoundsAssumption
     DEF NextDay, TypeInv, TypeOK, WinShape, JobShape, wins, boards, Days
<1>2. CASE RedisGoes
  <2>1. CutOff(Instances) /\ Fault /\ UNCHANGED <<day, paidOn, asked, scores, rowLock>>
    BY <1>2 DEF RedisGoes
  <2>2. cache' \in [Keys -> Board] /\ tmp' \in [TmpKeys -> Board]
    BY <1>2, BoardTypes DEF RedisGoes, TypeInv, TypeOK
  <2> QED BY <2>1, <2>2, CutType, FaultType DEF TypeInv, TypeOK, JobState
<1>3. ASSUME NEW i \in Instances, ConnectionLost(i) PROVE TypeInv'
  <2>1. CutOff({i}) /\ Fault /\ UNCHANGED <<day, paidOn, asked, boards>>
    BY <1>3 DEF ConnectionLost
  <2>2. {i} \in SUBSET Instances
    OBVIOUS
  <2> QED BY <2>1, <2>2, CutType, FaultType DEF TypeInv, TypeOK, JobState, boards
<1>4. ASSUME NEW i \in Instances, Reconnect(i) PROVE TypeInv'
  BY <1>4 DEF Reconnect, TypeInv, TypeOK, WinShape, JobShape, wins, boards
<1>5. ASSUME NEW k \in Keys, Expire(k) PROVE TypeInv'
  BY <1>5, BoardTypes DEF Expire, TypeInv, TypeOK, WinShape, JobShape, wins
<1> QED BY <1>1, <1>2, <1>3, <1>4, <1>5

LEMMA CrashType ==
  ASSUME TypeInv, NEW i \in Instances, Crash(i)
  PROVE  TypeInv'
<1>1. job' \in [Jobs -> JobState] /\ JobShape'
  BY BoardTypes DEF Crash, TypeInv, TypeOK, JobState, JobShape, Shaped, NoJob
<1>2. rowLock' \in [Keys -> [Users -> Jobs \cup {None}]]
  BY DEF Crash, TypeInv, TypeOK
<1>3. /\ phase' \in [Wins -> {"idle", "paying", "settled", "upserting", "caching",
                              "sent", "done"}]
      /\ pending' \in [Wins -> SUBSET PeriodTypes]
      /\ paidOn' \in [Wins -> Days \cup {None}]
      /\ ready' \subseteq Instances
  BY DEF Crash, TypeInv, TypeOK
<1>4. WinShape'
  BY DEF Crash, TypeInv, TypeOK, WinShape
<1> QED BY <1>1, <1>2, <1>3, <1>4, FaultType DEF Crash, TypeInv, TypeOK, JobState

LEMMA NextType == TypeInv /\ [Next]_vars => TypeInv'
<1> SUFFICES ASSUME TypeInv, [Next]_vars PROVE TypeInv'
  OBVIOUS
<1>1. ASSUME NEW w \in Wins, Pay(w) \/ Settle(w) \/ SettleFails(w) \/ Serve(w)
      PROVE  TypeInv'
  BY <1>1, SettleType, CacheType, OverType DEF Serve
<1>2. ASSUME NEW j \in Jobs, Tick(j) \/ Work(j) \/ JobFails(j) PROVE TypeInv'
  BY <1>2, TickType, SumLedgerType, UpsertRowType, CommitRowsType, ReadTopType, FillType,
     SwapType, StopType DEF Work
<1>3. CASE UNCHANGED vars
  BY <1>3 DEF vars, wins, boards, TypeInv, TypeOK, WinShape, JobShape
<1> QED BY <1>1, <1>2, <1>3, UpsertType, WorldType, CrashType DEF Next

\* Tables, sorted sets, requests and jobs keep their types, with scores that
\* are sums of any number of wins.
THEOREM TypesHold == Spec => []TypeOK
<1>1. TypeInv => TypeOK
  BY DEF TypeInv
<1> QED BY <1>1, InitType, NextType, PTL DEF Spec

---------------------------------------------------------------------------
(* Row locks: a locked row belongs to the transaction of a job that is still *)
(* open and has written it.                                                  *)

\* a step of a job without a transaction
LEMMA LocksStand ==
  ASSUME TypeInv, RowLocksAreReleased, NEW j \in Jobs, NEW st,
         job[j].pc \notin {"upsert", "commit"}, Run(j, st), UNCHANGED rowLock
  PROVE  RowLocksAreReleased'
<1>1. \A k \in Keys, u \in Users : rowLock[k][u] # j
  BY NoneAssumption DEF RowLocksAreReleased
<1>2. \A i \in Jobs : i # j => job'[i] = job[i]
  BY DEF Run, TypeInv, TypeOK
<1> QED BY <1>1, <1>2 DEF RowLocksAreReleased, TypeInv, TypeOK

\* a step that ends the transaction of a job
LEMMA LocksGo ==
  ASSUME TypeInv, RowLocksAreReleased, NEW j \in Jobs, NEW st,
         Run(j, st), rowLock' = Unlocked(j)
  PROVE  RowLocksAreReleased'
<1>1. \A k \in Keys, u \in Users :
        rowLock'[k][u] = IF rowLock[k][u] = j THEN None ELSE rowLock[k][u]
  BY DEF Unlocked
<1>2. \A i \in Jobs : i # j => job'[i] = job[i]
  BY DEF Run, TypeInv, TypeOK
<1> QED BY <1>1, <1>2 DEF RowLocksAreReleased, TypeInv, TypeOK

LEMMA UpsertRowLocks ==
  ASSUME TypeInv, RowLocksAreReleased, NEW j \in Jobs, UpsertRow(j)
  PROVE  RowLocksAreReleased'
<1>1. PICK v \in job[j].todo :
        /\ rowLock' = [rowLock EXCEPT ![job[j].key][v] = j]
        /\ Run(j, [job[j] EXCEPT !.todo = @ \ {v},
                                 !.pc = IF job[j].todo = {v} THEN "commit" ELSE @])
  BY DEF UpsertRow
<1>2. job[j] \in JobState /\ job[j].key \in Keys /\ job[j].pc = "upsert"
  BY DEF UpsertRow, TypeInv, TypeOK, JobState, JobShape, Shaped
<1>3. /\ job'[j].pc \in {"upsert", "commit"} /\ job'[j].key = job[j].key
      /\ job'[j].todo = job[j].todo \ {v}
      /\ \A i \in Jobs : i # j => job'[i] = job[i]
  BY <1>1, <1>2 DEF Run, TypeInv, TypeOK, JobState
<1>4. \A k \in Keys, u \in Users :
        rowLock'[k][u] = IF k = job[j].key /\ u = v THEN j ELSE rowLock[k][u]
  BY <1>1, <1>2 DEF TypeInv, TypeOK, JobState
<1> SUFFICES ASSUME NEW k \in Keys, NEW u \in Users, rowLock'[k][u] # None
             PROVE  LET i == rowLock'[k][u] IN
                    /\ job'[i].pc \in {"upsert", "commit"} /\ job'[i].key = k
                    /\ u \notin job'[i].todo
  BY DEF RowLocksAreReleased
<1>5. CASE k = job[j].key /\ u = v
  BY <1>3, <1>4, <1>5
<1>6. CASE ~(k = job[j].key /\ u = v)
  <2>1. rowLock'[k][u] = rowLock[k][u] /\ rowLock[k][u] \in Jobs
    BY <1>4, <1>6 DEF TypeInv, TypeOK
  <2> QED BY <1>3, <2>1 DEF RowLocksAreReleased
<1> QED BY <1>5, <1>6

LEMMA WorldLocks ==
  ASSUME TypeInv, RowLocksAreReleased,
         RedisGoes \/ (\E i \in Instances : ConnectionLost(i) \/ Crash(i))
         \/ UNCHANGED <<rowLock, job>>
  PROVE  RowLocksAreReleased'
<1>1. ASSUME NEW instances \in SUBSET Instances, CutOff(instances), UNCHANGED rowLock
      PROVE  RowLocksAreReleased'
  <2>1. \A j \in Jobs : job[j].pc \in {"upsert", "commit"} => job'[j] = job[j]
    BY <1>1, CutJobs
  <2> QED BY <1>1, <2>1 DEF RowLocksAreReleased, TypeInv, TypeOK
<1>2. ASSUME NEW i \in Instances, Crash(i) PROVE RowLocksAreReleased'
  <2>1. \A j \in Jobs : j[1] # i => job'[j] = job[j]
    BY <1>2 DEF Crash
  <2>2. \A k \in Keys, u \in Users :
          rowLock'[k][u] # None => rowLock'[k][u] = rowLock[k][u] /\ rowLock[k][u][1] # i
    BY <1>2 DEF Crash, TypeInv, TypeOK
  <2>3. \A k \in Keys, u \in Users : rowLock[k][u] \in Jobs \cup {None}
    BY DEF TypeInv, TypeOK
  <2> QED BY <2>1, <2>2, <2>3 DEF RowLocksAreReleased
<1>3. CASE UNCHANGED <<rowLock, job>>
  BY <1>3 DEF RowLocksAreReleased
<1>4. RedisGoes => CutOff(Instances) /\ UNCHANGED rowLock
  BY DEF RedisGoes
<1>5. \A i \in Instances :
        ConnectionLost(i) => CutOff({i}) /\ {i} \in SUBSET Instances /\ UNCHANGED rowLock
  BY DEF ConnectionLost, boards
<1> QED BY <1>1, <1>2, <1>3, <1>4, <1>5

LEMMA NextLocks ==
  TypeInv /\ RowLocksAreReleased /\ [Next]_vars => RowLocksAreReleased'
<1> SUFFICES ASSUME TypeInv, RowLocksAreReleased, [Next]_vars PROVE RowLocksAreReleased'
  OBVIOUS
<1>1. ASSUME NEW w \in Wins, Pay(w) \/ Settle(w) \/ SettleFails(w) \/ Serve(w)
      PROVE  RowLocksAreReleased'
  BY <1>1, WorldLocks
     DEF Pay, Settle, SettleFails, Serve, Increment, CacheIncrement, IncrementAnswered,
         CacheSkipped, Over, boards
<1>2. ASSUME NEW w \in Wins, NEW t \in PeriodTypes, Upsert(w, t) \/ UpsertFails(w, t)
      PROVE  RowLocksAreReleased'
  BY <1>2, WorldLocks DEF Upsert, UpsertFails, boards
<1>3. ASSUME NEW j \in Jobs,
             Tick(j) \/ SumLedger(j) \/ ReadTop(j) \/ RebuildAnswered(j) \/ SwapOffline(j)
      PROVE  RowLocksAreReleased'
  <2>1. job[j].pc \notin {"upsert", "commit"} /\ UNCHANGED rowLock
    BY <1>3 DEF Tick, SumLedger, ReadTop, RebuildAnswered, SwapOffline, boards
  <2>2. \E st : Run(j, st)
    BY <1>3 DEF Tick, SumLedger, ReadTop, RebuildAnswered, SwapOffline
  <2> QED BY <2>1, <2>2, LocksStand
<1>4. ASSUME NEW j \in Jobs, Fill(j) \/ Swap(j) PROVE RowLocksAreReleased'
  <2>1. job[j].pc \notin {"upsert", "commit"} /\ UNCHANGED rowLock
    BY <1>4 DEF Fill, Swap, Piping
  <2>2. \E st : Run(j, st)
    BY <1>4, FillsPart, SwapsPart
  <2> QED BY <2>1, <2>2, LocksStand
<1>5. ASSUME NEW j \in Jobs, CommitRows(j) \/ JobFails(j) \/ JobLockTimeout(j)
      PROVE  RowLocksAreReleased'
  BY <1>5, LocksGo DEF CommitRows, JobFails, JobLockTimeout
<1>6. ASSUME NextDay \/ (\E k \in Keys : Expire(k)) \/ (\E i \in Instances : Reconnect(i))
      PROVE  RowLocksAreReleased'
  BY <1>6, WorldLocks DEF NextDay, Reconnect, Expire, boards
<1>7. CASE UNCHANGED vars
  BY <1>7, WorldLocks DEF vars, boards
<1> QED BY <1>1, <1>2, <1>3, <1>4, <1>5, <1>6, <1>7, UpsertRowLocks, WorldLocks DEF Next, Work

\* However jobs fail, time out, race or die, no row of leaderboard_scores is
\* locked but by an open transaction that has written it.
THEOREM RowLocksEnd == Spec => []RowLocksAreReleased
<1>1. Init => RowLocksAreReleased
  BY DEF Init, RowLocksAreReleased
<1> QED BY <1>1, InitType, NextType, NextLocks, PTL DEF Spec

---------------------------------------------------------------------------
(* Players: rows of leaderboard_scores are never deleted, and whatever is on *)
(* its way to Redis names only players that have one.                        *)

\* the boards a request has a row on when it still has something to send
Written(w) == IF phase[w] = "upserting" THEN PeriodTypes \ pending[w]
              ELSE IF phase[w] \in {"caching", "sent"} THEN PeriodTypes ELSE {}
Sent(w) == \A t \in Written(w) : Winner[w] \in Players(scores[Key(t, asked[w])])
Piped == {"swap", "fill", "renamed"}
DurableInv ==
  /\ CachedPlayersAreDurable
  /\ \A w \in Wins : Sent(w)
  /\ \A j \in Jobs : job[j].pc \in Piped =>
       Players(job[j].rows) \subseteq Players(scores[job[j].key])
  /\ \A x \in TmpKeys : Players(tmp[x]) \subseteq Players(scores[x[1]])

\* what one step may do to the scores
LEMMA ScoresStep ==
  ASSUME TypeInv, [Next]_vars
  PROVE  \/ UNCHANGED scores
         \/ \E w \in Wins, t \in PeriodTypes : Upsert(w, t)
         \/ \E j \in Jobs : CommitRows(j)
<1>1. ASSUME NEW w \in Wins, Pay(w) \/ Settle(w) \/ SettleFails(w) \/ Serve(w)
      PROVE  UNCHANGED scores
  BY <1>1 DEF Pay, Settle, SettleFails, Serve, Increment, CacheIncrement, IncrementAnswered,
              CacheSkipped, Over, boards
<1>2. ASSUME NEW w \in Wins, NEW t \in PeriodTypes, UpsertFails(w, t)
      PROVE  UNCHANGED scores
  BY <1>2 DEF UpsertFails, boards
<1>3. ASSUME NEW j \in Jobs, Tick(j) \/ Work(j) \/ JobFails(j), ~CommitRows(j)
      PROVE  UNCHANGED scores
  BY <1>3 DEF Tick, Work, SumLedger, UpsertRow, ReadTop, Fill, Swap, RebuildAnswered,
              SwapOffline, JobLockTimeout, JobFails, boards
<1>4. CASE NextDay \/ RedisGoes \/ (\E k \in Keys : Expire(k))
           \/ \E i \in Instances : ConnectionLost(i) \/ Reconnect(i) \/ Crash(i)
  BY <1>4 DEF NextDay, RedisGoes, Expire, ConnectionLost, Reconnect, Crash, boards
<1>5. CASE UNCHANGED vars
  BY <1>5 DEF vars, boards
<1> QED BY <1>1, <1>2, <1>3, <1>4, <1>5 DEF Next

LEMMA UpsertScores ==
  ASSUME TypeInv, NEW w \in Wins, NEW t \in PeriodTypes, Upsert(w, t)
  PROVE  LET k == Key(t, asked[w])  u == Winner[w] IN
         /\ k \in Keys /\ u \in Users /\ Amount[w] \in Nat \ {0}
         /\ scores'[k][u] = IF scores[k][u] = None THEN Amount[w]
                            ELSE scores[k][u] + Amount[w]
         /\ \A l \in Keys, v \in Users : l # k \/ v # u => scores'[l][v] = scores[l][v]
<1>1. Key(t, asked[w]) \in Keys
  BY KeyTypes DEF Upsert, Upserting, TypeInv, WinShape
<1>2. PICK k \in Keys : k = Key(t, asked[w])
  BY <1>1
<1>3. scores' = [scores EXCEPT ![k] = Added(scores[k], Winner[w], Amount[w])]
  BY <1>2 DEF Upsert
<1>4. scores \in [Keys -> Board] /\ Winner[w] \in Users /\ Amount[w] \in Nat \ {0}
  BY WinsAssumption DEF TypeInv, TypeOK
<1> QED BY <1>2, <1>3, <1>4 DEF Added, Board

LEMMA CommitScores ==
  ASSUME TypeInv, NEW j \in Jobs, CommitRows(j)
  PROVE  /\ job[j] \in JobState /\ job[j].key \in Keys /\ job[j].key[1] = j[2]
         /\ \A v \in Users :
              scores'[job[j].key][v] = IF job[j].sums[v] = None THEN scores[job[j].key][v]
                                       ELSE job[j].sums[v]
         /\ \A l \in Keys : l # job[j].key => scores'[l] = scores[l]
<1>1. job[j] \in JobState /\ job[j].key \in Keys /\ job[j].key[1] = j[2]
  BY DEF CommitRows, TypeInv, TypeOK, JobState, JobShape, Shaped
<1> QED BY <1>1 DEF CommitRows, Reconciled, TypeInv, TypeOK

LEMMA PlayersStay ==
  ASSUME TypeInv, [Next]_vars, NEW k \in Keys
  PROVE  Players(scores[k]) \subseteq Players(scores[k])'
<1>1. CASE UNCHANGED scores
  BY <1>1 DEF Players
<1>2. ASSUME NEW w \in Wins, NEW t \in PeriodTypes, Upsert(w, t)
      PROVE  Players(scores[k]) \subseteq Players(scores[k])'
  <2>1. \A v \in Players(scores[k]) : scores[k][v] \in Nat
    BY BoardTypes DEF TypeInv, TypeOK
  <2> QED BY <1>2, <2>1, UpsertScores, NoneAssumption DEF Players
<1>3. ASSUME NEW j \in Jobs, CommitRows(j)
      PROVE  Players(scores[k]) \subseteq Players(scores[k])'
  BY <1>3, CommitScores DEF Players
<1> QED BY <1>1, <1>2, <1>3, ScoresStep

\* a step of w that writes no row, or one of another request
LEMMA SentStays ==
  ASSUME TypeInv, [Next]_vars, NEW w \in Wins, Sent(w),
         \/ Written(w)' = {}
         \/ asked'[w] = asked[w] /\ Written(w)' \subseteq Written(w)
  PROVE  Sent(w)'
<1> SUFFICES ASSUME NEW t \in Written(w)', asked'[w] = asked[w], t \in Written(w)
             PROVE  Winner[w] \in Players(scores[Key(t, asked[w])])'
  BY DEF Sent
<1>1. t \in PeriodTypes /\ asked[w] \in Days
  BY DEF Written, TypeInv, WinShape
<1>2. PICK k \in Keys : k = Key(t, asked[w])
  BY <1>1, KeyTypes
<1>3. Winner[w] \in Players(scores[k])'
  BY <1>2, PlayersStay DEF Sent
<1> QED BY <1>2, <1>3

LEMMA SentUpsert ==
  ASSUME TypeInv, [Next]_vars, NEW w \in Wins, Sent(w), NEW t \in PeriodTypes, Upsert(w, t)
  PROVE  Sent(w)'
<1>1. asked'[w] = asked[w] /\ Written(w)' \subseteq Written(w) \cup {t}
  BY DEF Upsert, Upserting, AllStored, Written, TypeInv, TypeOK
<1> SUFFICES ASSUME NEW s \in Written(w)'
             PROVE  Winner[w] \in Players(scores[Key(s, asked[w])])'
  BY DEF Sent
<1>2. s \in PeriodTypes /\ asked[w] \in Days
  BY <1>1 DEF Written, Upsert, Upserting, TypeInv, WinShape
<1>3. PICK k \in Keys : k = Key(s, asked[w])
  BY <1>2, KeyTypes
<1>4. Winner[w] \in Players(scores[k])'
  <2>1. CASE s = t
    <3>1. \A v \in Players(scores[k]) : scores[k][v] \in Nat
      BY BoardTypes DEF TypeInv, TypeOK
    <3> QED BY <1>3, <2>1, <3>1, UpsertScores, NoneAssumption DEF Players
  <2>2. CASE s # t
    <3>1. Winner[w] \in Players(scores[k])
      BY <1>1, <1>3, <2>2 DEF Sent
    <3> QED BY <3>1, PlayersStay
  <2> QED BY <2>1, <2>2
<1> QED BY <1>1, <1>3, <1>4

\* what one step may do to the request of a win
LEMMA RequestStep ==
  ASSUME TypeInv, [Next]_vars, NEW w \in Wins
  PROVE  \/ UNCHANGED <<phase[w], pending[w], asked[w], paidOn[w]>>
         \/ Pay(w) \/ Settle(w) \/ SettleFails(w) \/ Serve(w)
         \/ \E t \in PeriodTypes : Upsert(w, t) \/ UpsertFails(w, t)
         \/ /\ phase[w] = "sent" /\ phase'[w] = "caching" /\ pending'[w] = PeriodTypes
            /\ UNCHANGED <<asked[w], paidOn[w]>>
            /\ faults' = faults + 1
         \/ /\ phase[w] = "sent" /\ phase'[w] = "done" /\ pending'[w] = {}
            /\ UNCHANGED <<asked[w], paidOn[w]>>
            /\ faults' = faults + 1
         \/ /\ phase[w] \in {"idle", "paying"} /\ phase'[w] = "idle" /\ paidOn'[w] = None
            /\ UNCHANGED <<asked[w], pending[w]>>
         \/ /\ phase[w] \notin {"idle", "paying"} /\ phase'[w] = "done" /\ pending'[w] = {}
            /\ UNCHANGED <<asked[w], paidOn[w]>>
<1> DEFINE same == UNCHANGED <<phase[w], pending[w], asked[w], paidOn[w]>>
           cut == \/ /\ phase[w] = "sent" /\ phase'[w] = "caching" /\ pending'[w] = PeriodTypes
                     /\ UNCHANGED <<asked[w], paidOn[w]>>
                  \/ /\ phase[w] = "sent" /\ phase'[w] = "done" /\ pending'[w] = {}
                     /\ UNCHANGED <<asked[w], paidOn[w]>>
<1>1. ASSUME NEW v \in Wins, v # w, Pay(v) \/ Settle(v) \/ SettleFails(v) \/ Serve(v)
      PROVE  same
  BY <1>1 DEF Pay, Settle, SettleFails, Serve, Increment, CacheIncrement, IncrementAnswered,
              CacheSkipped, Over, TypeInv, TypeOK
<1>2. ASSUME NEW v \in Wins, v # w, NEW t \in PeriodTypes, Upsert(v, t) \/ UpsertFails(v, t)
      PROVE  same
  BY <1>2 DEF Upsert, UpsertFails, TypeInv, TypeOK
<1>3. ASSUME NEW instances \in SUBSET Instances, CutOff(instances), UNCHANGED <<paidOn, asked>>
      PROVE  same \/ cut
  BY <1>3, CutWins
<1>4. RedisGoes => CutOff(Instances) /\ UNCHANGED <<paidOn, asked>> /\ faults' = faults + 1
  BY DEF RedisGoes, Fault
<1>5. \A i \in Instances : ConnectionLost(i) =>
        /\ CutOff({i}) /\ {i} \in SUBSET Instances
        /\ UNCHANGED <<paidOn, asked>> /\ faults' = faults + 1
  BY DEF ConnectionLost, Fault
<1>6. (RedisGoes \/ \E i \in Instances : ConnectionLost(i))
        => same \/ (cut /\ faults' = faults + 1)
  <2> HIDE DEF same, cut
  <2> QED BY <1>3, <1>4, <1>5
<1>7. ASSUME NEW i \in Instances, Crash(i)
      PROVE  \/ same
             \/ /\ phase[w] \in {"idle", "paying"} /\ phase'[w] = "idle" /\ paidOn'[w] = None
                /\ UNCHANGED <<asked[w], pending[w]>>
             \/ /\ phase[w] \notin {"idle", "paying"} /\ phase'[w] = "done" /\ pending'[w] = {}
                /\ UNCHANGED <<asked[w], paidOn[w]>>
  BY <1>7 DEF Crash, TypeInv, TypeOK
<1>8. UNCHANGED wins => same
  BY DEF wins
<1>9. ASSUME NEW j \in Jobs, Tick(j) \/ Work(j) \/ JobFails(j) PROVE UNCHANGED wins
  BY <1>9 DEF Tick, Work, SumLedger, UpsertRow, CommitRows, ReadTop, Fill, Swap,
              RebuildAnswered, SwapOffline, JobLockTimeout, JobFails
<1>10. CASE NextDay \/ (\E k \in Keys : Expire(k)) \/ (\E i \in Instances : Reconnect(i))
            \/ UNCHANGED vars
  <2>1. UNCHANGED wins
    BY <1>10 DEF NextDay, Expire, Reconnect, vars
  <2> QED BY <1>8, <2>1
<1> QED BY <1>1, <1>2, <1>6, <1>7, <1>8, <1>9, <1>10 DEF Next

LEMMA NextSent ==
  ASSUME TypeInv, [Next]_vars, NEW w \in Wins, Sent(w)
  PROVE  Sent(w)'
<1>1. CASE UNCHANGED <<phase[w], pending[w], asked[w], paidOn[w]>>
  BY <1>1, SentStays DEF Written
<1>2. CASE Pay(w) \/ Settle(w) \/ SettleFails(w) \/ Serve(w)
  <2>1. CASE CacheIncrement(w)
    <3>1. phase[w] \in {"caching", "sent"} /\ phase'[w] = "sent" /\ asked'[w] = asked[w]
      BY <2>1 DEF CacheIncrement, TypeInv, TypeOK
    <3> QED BY <3>1, SentStays DEF Written
  <2>2. CASE ~CacheIncrement(w)
    <3>1. Written(w)' = {}
      BY <1>2, <2>2 DEF Pay, Settle, SettleFails, Serve, Increment, IncrementAnswered,
                        CacheSkipped, Over, Written, TypeInv, TypeOK
    <3> QED BY <3>1, SentStays
  <2> QED BY <2>1, <2>2
<1>3. ASSUME NEW t \in PeriodTypes, UpsertFails(w, t) PROVE Sent(w)'
  <2>1. phase'[w] = "done"
    BY <1>3 DEF UpsertFails, TypeInv, TypeOK
  <2> QED BY <2>1, SentStays DEF Written
<1>4. CASE phase[w] = "sent" /\ phase'[w] = "caching" /\ UNCHANGED <<asked[w], paidOn[w]>>
  BY <1>4, SentStays DEF Written
<1>5. CASE phase'[w] \in {"idle", "done"}
  BY <1>5, SentStays DEF Written
<1> QED BY <1>1, <1>2, <1>3, <1>4, <1>5, SentUpsert, RequestStep

\* what a rebuild is about to show
LEMMA FilledPlayers ==
  ASSUME TypeInv, DurableInv, NEW j \in Jobs, Piping(j)
  PROVE  \A refused : Players(Filled(j, refused)) \subseteq Players(scores[job[j].key])
<1>1. Players(job[j].rows) \subseteq Players(scores[job[j].key])
  BY DEF DurableInv, Piping, Piped
<1>2. TmpKey(j) \in TmpKeys /\ TmpKey(j)[1] = job[j].key
  BY FilledType DEF TmpKey
<1>3. Players(tmp[TmpKey(j)]) \subseteq Players(scores[job[j].key])
  BY <1>2 DEF DurableInv
<1>4. \A refused : \A u \in Users :
        Filled(j, refused)[u] \in {None, job[j].rows[u], tmp[TmpKey(j)][u]}
  BY DEF Filled
<1> QED BY <1>1, <1>3, <1>4 DEF Players

\* what one step may do to the temporary sets
LEMMA TmpMoves ==
  ASSUME [Next]_vars
  PROVE  \/ UNCHANGED tmp
         \/ \E j \in Jobs : Fill(j) \/ Swap(j)
         \/ RedisGoes
<1>1. ASSUME NEW w \in Wins, Pay(w) \/ Settle(w) \/ SettleFails(w) \/ Serve(w)
      PROVE  UNCHANGED tmp
  BY <1>1 DEF Pay, Settle, SettleFails, Serve, Increment, CacheIncrement, IncrementAnswered,
              CacheSkipped, Over, boards
<1>2. ASSUME NEW w \in Wins, NEW t \in PeriodTypes, Upsert(w, t) \/ UpsertFails(w, t)
      PROVE  UNCHANGED tmp
  BY <1>2 DEF Upsert, UpsertFails, boards
<1>3. ASSUME NEW j \in Jobs, Tick(j) \/ Work(j) \/ JobFails(j), ~Fill(j), ~Swap(j)
      PROVE  UNCHANGED tmp
  BY <1>3 DEF Tick, Work, SumLedger, UpsertRow, CommitRows, ReadTop, RebuildAnswered,
              SwapOffline, JobLockTimeout, JobFails, boards
<1>4. CASE NextDay \/ (\E k \in Keys : Expire(k))
           \/ \E i \in Instances : ConnectionLost(i) \/ Reconnect(i) \/ Crash(i)
  BY <1>4 DEF NextDay, Expire, ConnectionLost, Reconnect, Crash, boards
<1>5. CASE UNCHANGED vars
  BY <1>5 DEF vars, boards
<1> QED BY <1>1, <1>2, <1>3, <1>4, <1>5 DEF Next

LEMMA TmpStep ==
  ASSUME TypeInv, [Next]_vars, NEW x \in TmpKeys
  PROVE  \/ tmp'[x] = tmp[x]
         \/ tmp'[x] = EmptyBoard
         \/ \E j \in Jobs : /\ Fill(j) /\ TmpKey(j) = x
                            /\ \E refused : tmp'[x] = Filled(j, refused)
<1>1. ASSUME NEW j \in Jobs, Fill(j)
      PROVE  \/ tmp'[x] = tmp[x]
             \/ Fill(j) /\ TmpKey(j) = x /\ \E refused : tmp'[x] = Filled(j, refused)
  <2>1. PICK refused : tmp' = [tmp EXCEPT ![TmpKey(j)] = Filled(j, refused)]
    BY <1>1 DEF Fill
  <2> QED BY <1>1, <2>1 DEF TypeInv, TypeOK
<1>2. ASSUME NEW j \in Jobs, Swap(j) PROVE tmp'[x] \in {tmp[x], EmptyBoard}
  BY <1>2 DEF Swap, TypeInv, TypeOK
<1>3. RedisGoes => tmp'[x] \in {tmp[x], EmptyBoard}
  BY DEF RedisGoes, TypeInv, TypeOK
<1> QED BY <1>1, <1>2, <1>3, TmpMoves

LEMMA NextTmp ==
  ASSUME TypeInv, DurableInv, [Next]_vars, NEW x \in TmpKeys
  PROVE  (Players(tmp[x]) \subseteq Players(scores[x[1]]))'
<1>1. x[1] \in Keys
  BY DEF TmpKeys
<1>2. Players(tmp[x]) \subseteq Players(scores[x[1]])'
  BY <1>1, PlayersStay DEF DurableInv
<1>3. CASE tmp'[x] = tmp[x] \/ tmp'[x] = EmptyBoard
  BY <1>2, <1>3 DEF Players, EmptyBoard
<1>4. ASSUME NEW j \in Jobs, Fill(j), TmpKey(j) = x, NEW refused, tmp'[x] = Filled(j, refused)
      PROVE  (Players(tmp[x]) \subseteq Players(scores[x[1]]))'
  <2>1. UNCHANGED scores /\ x[1] = job[j].key
    BY <1>4 DEF Fill, TmpKey
  <2>2. Players(Filled(j, refused)) \subseteq Players(scores[x[1]])
    BY <1>4, <2>1, FilledPlayers DEF Fill
  <2> QED BY <1>4, <2>1, <2>2
<1> QED BY <1>3, <1>4, TmpStep

\* what one step may do to a job, whose next state is n
Idles(n) ==
  n.pc \notin Piped /\ n.sums = EmptyBoard /\ n.rows = EmptyBoard /\ n.refused = {}
Sums(j, n) ==
  /\ SumLedger(j)
  /\ n.pc \notin Piped /\ n.key = job[j].key /\ n.rows = job[j].rows
  /\ n.refused = job[j].refused
  /\ \A u \in Users : n.sums[u] = IF CreditsIn(u, job[j].range) # {}
                                  THEN SumOfAmounts(CreditsIn(u, job[j].range)) ELSE None
Writes(j, n) ==
  /\ UpsertRow(j)
  /\ n.pc \notin Piped /\ n.key = job[j].key
  /\ n.sums = job[j].sums /\ n.rows = job[j].rows /\ n.refused = job[j].refused
Reads(j, n) ==
  /\ ReadTop(j)
  /\ n.pc = "swap" /\ n.key = job[j].key
  /\ n.sums = job[j].sums /\ n.rows = Top(scores[job[j].key], MaxTop)
  /\ n.refused = job[j].refused
Pipes(j, n) ==
  /\ job[j].pc \in Piped /\ n.pc \in Piped /\ n.key = job[j].key
  /\ n.sums = job[j].sums /\ n.rows = job[j].rows
  /\ n.pc = "swap" => n.refused = {}
  /\ n.pc = "fill" => Fill(j)
  /\ n.pc = "renamed" => Swap(j)
Moves(j, n) ==
  \/ n = job[j]
  \/ Idles(n) \/ Sums(j, n) \/ Writes(j, n) \/ Reads(j, n) \/ Pipes(j, n)

LEMMA SumLedgerMoves ==
  ASSUME TypeInv, NEW j \in Jobs, SumLedger(j) PROVE Sums(j, job'[j])
<1> PICK o \in JobState : o = job[j]
  BY DEF TypeInv, TypeOK, JobState
<1> DEFINE paid == {u \in Users : CreditsIn(u, o.range) # {}}
           sums == [u \in Users |-> IF u \in paid THEN SumOfAmounts(CreditsIn(u, o.range))
                                   ELSE None]
           st == [o EXCEPT !.pc = IF paid = {} THEN "readTop" ELSE "upsert",
                           !.sums = sums, !.todo = paid]
<1>1. Run(j, st)
  BY DEF SumLedger
<1>2. job'[j] = st
  <2> HIDE DEF st
  <2> QED BY <1>1 DEF Run, TypeInv, TypeOK
<1>3. \A u \in Users :
        sums[u] = IF CreditsIn(u, o.range) # {} THEN SumOfAmounts(CreditsIn(u, o.range))
                  ELSE None
  OBVIOUS
<1>4. /\ st.pc \notin Piped /\ st.key = o.key /\ st.rows = o.rows
      /\ st.refused = o.refused /\ st.sums = sums
  <2> HIDE DEF sums, paid
  <2> QED BY DEF JobState, Piped
<1> HIDE DEF sums, st
<1> QED BY <1>2, <1>3, <1>4 DEF Sums

LEMMA JobStep ==
  ASSUME TypeInv, [Next]_vars, NEW j \in Jobs
  PROVE  Moves(j, job'[j])
<1> PICK n : n = job'[j]
  OBVIOUS
<1> PICK o \in JobState : o = job[j]
  BY DEF TypeInv, TypeOK, JobState
<1>1. \A st : Run(j, st) => n = st
  BY DEF Run, TypeInv, TypeOK
<1>2. NoJob.pc = "idle" /\ NoJob.sums = EmptyBoard /\ NoJob.rows = EmptyBoard
      /\ NoJob.refused = {}
  BY DEF NoJob
<1>3. ASSUME NEW i \in Jobs, Tick(i) \/ Work(i) \/ JobFails(i), i # j
      PROVE  n = o
  <2>1. \A st : Run(i, st) => n = o
    BY <1>3 DEF Run, TypeInv, TypeOK
  <2>2. Fill(i) \/ Swap(i) => \E st : Run(i, st)
    BY DEF Fill, Swap
  <2>3. Tick(i) \/ SumLedger(i) \/ UpsertRow(i) => \E st : Run(i, st)
    BY DEF Tick, SumLedger, UpsertRow
  <2>4. CommitRows(i) \/ ReadTop(i) \/ RebuildAnswered(i) \/ SwapOffline(i)
        \/ JobLockTimeout(i) \/ JobFails(i) => \E st : Run(i, st)
    BY DEF CommitRows, ReadTop, RebuildAnswered, SwapOffline, JobLockTimeout, JobFails
  <2> QED BY <1>3, <2>1, <2>2, <2>3, <2>4 DEF Work
<1>4. CASE Tick(j)
  <2>1. n = [NoJob EXCEPT !.pc = "sum", !.key = Now(j[2]),
                          !.range = periodTimeRange(j[2], day)]
    BY <1>1, <1>4 DEF Tick
  <2>2. Idles(n)
    BY <2>1 DEF Idles, NoJob, Piped
  <2> QED BY <2>2 DEF Moves
<1>5. CASE CommitRows(j)
  <2>1. n = [NoJob EXCEPT !.pc = "readTop", !.key = job[j].key]
    BY <1>1, <1>5 DEF CommitRows
  <2>2. Idles(n)
    BY <2>1 DEF Idles, NoJob, Piped
  <2> QED BY <2>2 DEF Moves
<1>6. CASE RebuildAnswered(j) \/ SwapOffline(j) \/ JobLockTimeout(j) \/ JobFails(j)
  <2>1. n = NoJob
    BY <1>1, <1>6 DEF RebuildAnswered, SwapOffline, JobLockTimeout, JobFails, Cleared
  <2> QED BY <1>2, <2>1 DEF Idles, Moves, Piped
<1>7. CASE SumLedger(j)
  BY <1>7, SumLedgerMoves DEF Moves
<1>8. CASE UpsertRow(j)
  <2>1. PICK u : n = [o EXCEPT !.todo = @ \ {u},
                               !.pc = IF o.todo = {u} THEN "commit" ELSE @]
    BY <1>1, <1>8 DEF UpsertRow
  <2>2. o.pc = "upsert"
    BY <1>8 DEF UpsertRow
  <2>3. Writes(j, n)
    BY <1>8, <2>1, <2>2 DEF JobState, Writes, Piped
  <2> QED BY <2>3 DEF Moves
<1>9. CASE ReadTop(j)
  <2>1. n = [o EXCEPT !.pc = "swap", !.rows = Top(scores[o.key], MaxTop)] \/ n = NoJob
    BY <1>1, <1>9 DEF ReadTop
  <2>2. Reads(j, n) \/ Idles(n)
    BY <1>2, <1>9, <2>1 DEF JobState, Reads, Idles, Piped
  <2> QED BY <2>2 DEF Moves
<1>10. CASE Fill(j) \/ Swap(j)
  <2>1. \E st \in JobState :
          /\ Run(j, st)
          /\ (st.pc = "fill" /\ Fill(j)) \/ (st.pc = "renamed" /\ Swap(j))
          /\ st.key = o.key /\ st.sums = o.sums /\ st.rows = o.rows
    BY <1>10, FillsPart, SwapsPart
  <2>2. job[j].pc \in Piped
    BY <1>10 DEF Fill, Swap, Piping, Piped
  <2>3. Pipes(j, n)
    BY <1>1, <2>1, <2>2 DEF Pipes, Piped
  <2> QED BY <2>3 DEF Moves
<1>11. ASSUME NEW instances \in SUBSET Instances, CutOff(instances) PROVE Moves(j, n)
  <2>1. n = o \/ n = NoJob \/ Pipes(j, n)
    BY <1>11, CutJobs DEF Pipes, Piped
  <2> QED BY <1>2, <2>1 DEF Moves, Idles, Piped
<1>12. ASSUME NEW i \in Instances, Crash(i) PROVE Moves(j, n)
  <2>1. n = o \/ n = NoJob
    BY <1>12 DEF Crash
  <2> QED BY <1>2, <2>1 DEF Moves, Idles, Piped
<1>13. RedisGoes => CutOff(Instances)
  BY DEF RedisGoes
<1>14. \A i \in Instances : ConnectionLost(i) => CutOff({i}) /\ {i} \in SUBSET Instances
  BY DEF ConnectionLost
<1>15. ASSUME NEW w \in Wins, Pay(w) \/ Settle(w) \/ SettleFails(w) \/ Serve(w)
       PROVE  n = o
  BY <1>15 DEF Pay, Settle, SettleFails, Serve, Increment, CacheIncrement,
               IncrementAnswered, CacheSkipped, Over
<1>16. ASSUME NEW w \in Wins, NEW t \in PeriodTypes, Upsert(w, t) \/ UpsertFails(w, t)
       PROVE  n = o
  BY <1>16 DEF Upsert, UpsertFails
<1>17. ASSUME NextDay \/ (\E k \in Keys : Expire(k)) \/ (\E i \in Instances : Reconnect(i))
              \/ UNCHANGED vars
       PROVE  n = o
  BY <1>17 DEF NextDay, Expire, Reconnect, vars
<1>18. n = o => Moves(j, n)
  BY DEF Moves
<1>19. Moves(j, n)
  <2>1. ASSUME NEW i \in Jobs, Tick(i) \/ Work(i) \/ JobFails(i) PROVE Moves(j, n)
    <3>1. CASE i # j
      BY <1>3, <1>18, <2>1, <3>1
    <3>2. CASE i = j
      BY <1>4, <1>5, <1>6, <1>7, <1>8, <1>9, <1>10, <2>1, <3>2 DEF Work
    <3> QED BY <3>1, <3>2
  <2> QED BY <1>11, <1>12, <1>13, <1>14, <1>15, <1>16, <1>17, <1>18, <2>1 DEF Next
<1> QED BY <1>19

LEMMA NextRows ==
  ASSUME TypeInv, DurableInv, [Next]_vars, NEW j \in Jobs, job'[j].pc \in Piped
  PROVE  Players(job'[j].rows) \subseteq Players(scores'[job'[j].key])
<1>1. job[j].pc # "idle" => job[j].key \in Keys
  BY DEF TypeInv, JobShape, Shaped
<1>2. CASE Reads(j, job'[j])
  <2>1. job[j].key \in Keys /\ UNCHANGED scores
    BY <1>1, <1>2 DEF Reads, ReadTop, boards
  <2>2. Players(Top(scores[job[j].key], MaxTop)) \subseteq Players(scores[job[j].key])
    BY <2>1, BoardTypes DEF TypeInv, TypeOK
  <2> QED BY <1>2, <2>1, <2>2 DEF Reads
<1>3. CASE job'[j] = job[j] \/ Pipes(j, job'[j])
  <2>1. job[j].pc \in Piped /\ job'[j].rows = job[j].rows /\ job'[j].key = job[j].key
    BY <1>3 DEF Pipes
  <2>2. PICK k \in Keys : k = job[j].key
    BY <1>1, <2>1 DEF Piped
  <2>3. Players(job[j].rows) \subseteq Players(scores[k])
    BY <2>1, <2>2 DEF DurableInv
  <2>4. Players(job[j].rows) \subseteq Players(scores[k])'
    BY <2>3, PlayersStay
  <2> QED BY <2>1, <2>2, <2>4
<1> QED BY <1>2, <1>3, JobStep DEF Moves, Idles, Sums, Writes

\* what one step may do to the sorted sets
LEMMA CacheMoves ==
  ASSUME [Next]_vars
  PROVE  \/ UNCHANGED cache
         \/ \E w \in Wins : CacheIncrement(w)
         \/ \E j \in Jobs : Swap(j)
         \/ RedisGoes
         \/ \E k \in Keys : Expire(k)
<1>1. ASSUME NEW w \in Wins, Pay(w) \/ Settle(w) \/ SettleFails(w) \/ Serve(w),
             ~CacheIncrement(w)
      PROVE  UNCHANGED cache
  BY <1>1 DEF Pay, Settle, SettleFails, Serve, Increment, IncrementAnswered,
              CacheSkipped, Over, boards
<1>2. ASSUME NEW w \in Wins, NEW t \in PeriodTypes, Upsert(w, t) \/ UpsertFails(w, t)
      PROVE  UNCHANGED cache
  BY <1>2 DEF Upsert, UpsertFails, boards
<1>3. ASSUME NEW j \in Jobs, Tick(j) \/ Work(j) \/ JobFails(j), ~Swap(j)
      PROVE  UNCHANGED cache
  BY <1>3 DEF Tick, Work, SumLedger, UpsertRow, CommitRows, ReadTop, Fill, RebuildAnswered,
              SwapOffline, JobLockTimeout, JobFails, boards
<1>4. CASE NextDay \/ \E i \in Instances : ConnectionLost(i) \/ Reconnect(i) \/ Crash(i)
  BY <1>4 DEF NextDay, ConnectionLost, Reconnect, Crash, boards
<1>5. CASE UNCHANGED vars
  BY <1>5 DEF vars, boards
<1> QED BY <1>1, <1>2, <1>3, <1>4, <1>5 DEF Next

LEMMA CacheStep ==
  ASSUME TypeInv, [Next]_vars, NEW k \in Keys
  PROVE  \/ cache'[k] = cache[k]
         \/ cache'[k] = EmptyBoard
         \/ \E w \in Wins, t \in PeriodTypes :
              /\ CacheIncrement(w)
              /\ phase[w] \in {"caching", "sent"} /\ phase'[w] = "sent"
              /\ asked[w] \in Days /\ k = Key(t, asked[w])
              /\ t \in pending[w] /\ t \notin pending'[w] /\ pending'[w] \subseteq pending[w]
              /\ cache'[k] = Added(cache[k], Winner[w], Amount[w])
         \/ \E j \in Jobs : Swap(j) /\ job[j].key = k
                            /\ \E refused : cache'[k] = Filled(j, refused)
<1>1. ASSUME NEW w \in Wins, CacheIncrement(w), cache'[k] # cache[k]
      PROVE  \E t \in PeriodTypes :
               /\ phase[w] \in {"caching", "sent"} /\ phase'[w] = "sent"
               /\ asked[w] \in Days /\ k = Key(t, asked[w])
               /\ t \in pending[w] /\ t \notin pending'[w] /\ pending'[w] \subseteq pending[w]
               /\ cache'[k] = Added(cache[k], Winner[w], Amount[w])
  <2>1. PICK types \in SUBSET pending[w] \ {{}} : \E refused \in SUBSET types :
          /\ Refused(refused)
          /\ WriteCache(w, types \ refused)
          /\ pending' = [pending EXCEPT ![w] = @ \ types]
    BY <1>1, SendsPart
  <2>2. PICK refused \in SUBSET types :
          /\ WriteCache(w, types \ refused)
          /\ pending' = [pending EXCEPT ![w] = @ \ types]
    BY <2>1
  <2>3. PICK t \in types \ refused : k = Key(t, asked[w])
    BY <1>1, <2>2 DEF WriteCache
  <2>4. cache'[k] = Added(cache[k], Winner[w], Amount[w])
    BY <2>2, <2>3 DEF WriteCache
  <2>5. pending'[w] = pending[w] \ types /\ t \in pending[w] /\ t \in PeriodTypes
    BY <2>1, <2>2, <2>3 DEF TypeInv, TypeOK
  <2>6. phase[w] \in {"caching", "sent"} /\ phase'[w] = "sent" /\ asked[w] \in Days
    BY <1>1, SendsPart DEF TypeInv, TypeOK
  <2> QED BY <2>3, <2>4, <2>5, <2>6
<1>2. ASSUME NEW j \in Jobs, Swap(j)
      PROVE  \/ cache'[k] = cache[k]
             \/ job[j].key = k /\ \E refused : cache'[k] = Filled(j, refused)
  <2>1. PICK refused : cache' = IF Players(Filled(j, refused)) = {} THEN cache
                                ELSE [cache EXCEPT ![job[j].key] = Filled(j, refused)]
    BY <1>2, SwapsPart
  <2> QED BY <2>1 DEF TypeInv, TypeOK
<1>3. (\E l \in Keys : Expire(l)) \/ RedisGoes => cache'[k] \in {cache[k], EmptyBoard}
  BY DEF Expire, RedisGoes, TypeInv, TypeOK
<1> QED BY <1>1, <1>2, <1>3, CacheMoves

LEMMA NextCache ==
  ASSUME TypeInv, DurableInv, [Next]_vars, NEW k \in Keys
  PROVE  (Players(cache[k]) \subseteq Players(scores[k]))'
<1>1. Players(cache[k]) \subseteq Players(scores[k])'
  BY PlayersStay DEF DurableInv, CachedPlayersAreDurable
<1>2. CASE cache'[k] = cache[k] \/ cache'[k] = EmptyBoard
  BY <1>1, <1>2 DEF Players, EmptyBoard
<1>3. ASSUME NEW w \in Wins, NEW t \in PeriodTypes, phase[w] \in {"caching", "sent"},
             k = Key(t, asked[w]), cache'[k] = Added(cache[k], Winner[w], Amount[w])
      PROVE  (Players(cache[k]) \subseteq Players(scores[k]))'
  <2>1. Winner[w] \in Players(scores[k])
    BY <1>3 DEF DurableInv, Sent, Written
  <2>2. Players(Added(cache[k], Winner[w], Amount[w]))
          \subseteq Players(cache[k]) \cup {Winner[w]}
    BY DEF Added, Players, TypeInv, TypeOK, Board
  <2>3. Winner[w] \in Players(scores[k])'
    BY <2>1, PlayersStay
  <2> QED BY <1>1, <1>3, <2>2, <2>3
<1>4. ASSUME NEW j \in Jobs, Swap(j), job[j].key = k, NEW refused,
             cache'[k] = Filled(j, refused)
      PROVE  (Players(cache[k]) \subseteq Players(scores[k]))'
  <2>1. Players(Filled(j, refused)) \subseteq Players(scores[k]) /\ UNCHANGED scores
    BY <1>4, FilledPlayers DEF Swap
  <2> QED BY <1>4, <2>1
<1> QED BY <1>2, <1>3, <1>4, CacheStep

LEMMA InitDurable == Init => DurableInv
BY DEF Init, DurableInv, CachedPlayersAreDurable, Sent, Written, Players, EmptyBoard, NoJob,
       TmpKeys, Piped

LEMMA NextDurable == TypeInv /\ DurableInv /\ [Next]_vars => DurableInv'
<1> SUFFICES ASSUME TypeInv, DurableInv, [Next]_vars PROVE DurableInv'
  OBVIOUS
<1>1. \A w \in Wins : Sent(w)'
  BY NextSent DEF DurableInv
<1>2. CachedPlayersAreDurable'
  BY NextCache DEF CachedPlayersAreDurable
<1>3. (\A x \in TmpKeys : Players(tmp[x]) \subseteq Players(scores[x[1]]))'
  BY NextTmp
<1>4. (\A j \in Jobs : job[j].pc \in Piped =>
         Players(job[j].rows) \subseteq Players(scores[job[j].key]))'
  BY NextRows
<1> QED BY <1>1, <1>2, <1>3, <1>4 DEF DurableInv

\* MySQL first: whatever upserts, pipelines sent again, refused commands, rebuilds
\* by several instances, outages and restarts raced, a player in a sorted set has
\* a row on that board.
THEOREM CachedPlayersHaveRows == Spec => []CachedPlayersAreDurable
<1>1. DurableInv => CachedPlayersAreDurable
  BY DEF DurableInv
<1> QED BY <1>1, InitType, NextType, InitDurable, NextDurable, PTL DEF Spec

RanksExist ==
  \A k \in Keys, u \in Users :
    /\ scores[k][u] # None => DurableRank(k, u) # None
    /\ cache[k][u] # None => CachedRank(k, u) # None

LEMMA RankTypes == RanksExist
<1>1. ASSUME NEW S \in SUBSET Users PROVE 1 + Cardinality(S) # None
  <2>1. Cardinality(S) \in Nat
    BY FiniteAssumption, FS_Subset, FS_CardinalityType
  <2>2. 1 + Cardinality(S) \in Nat
    BY <2>1
  <2> QED BY <2>2, NoneAssumption
<1>2. \A b, u : /\ {v \in Players(b) : b[v] > b[u]} \in SUBSET Users
                /\ {v \in Players(b) : RedisBefore(b, v, u)} \in SUBSET Users
  BY DEF Players
<1> QED BY <1>1, <1>2 DEF RanksExist, DurableRank, CachedRank, CountHigher

\* Between the listing that shows a player and the read of his own rank, no
\* outage, restart, expiry, rebuild or failed command makes the rank null, at
\* any instance.
THEOREM ShownPlayersHaveRanks == Spec => ListedPlayersStayRanked
<1> DEFINE Stays == \A k \in Keys, u \in Users : OnBoard(k, u) =>
                      /\ OnBoard(k, u)'
                      /\ \A i \in Instances : None \notin RankAnswers(i, k, u)'
<1>1. TypeInv /\ DurableInv /\ RanksExist' /\ [Next]_vars => Stays
  <2> SUFFICES ASSUME TypeInv, DurableInv, RanksExist', [Next]_vars,
                      NEW k \in Keys, NEW u \in Users, OnBoard(k, u)
               PROVE  /\ OnBoard(k, u)'
                      /\ \A i \in Instances : None \notin RankAnswers(i, k, u)'
    OBVIOUS
  <2>1. u \in Players(scores[k])
    BY DEF OnBoard, DurableInv, CachedPlayersAreDurable, Players
  <2>2. scores'[k][u] # None
    BY <2>1, PlayersStay DEF Players
  <2>3. (scores[k][u] # None => DurableRank(k, u) # None)'
        /\ (cache[k][u] # None => CachedRank(k, u) # None)'
    BY DEF RanksExist
  <2>4. ASSUME NEW i \in Instances PROVE None \notin RankAnswers(i, k, u)'
    BY <2>2, <2>3 DEF RankAnswers, getPlayerRank, AsksMySQL
  <2> QED BY <2>2, <2>4 DEF OnBoard
<1> QED BY <1>1, RankTypes, InitType, NextType, InitDurable, NextDurable, PTL
        DEF Spec, ListedPlayersStayRanked

---------------------------------------------------------------------------
(* Drift of the all-time board. A win is counted by the sums of the ledger,  *)
(* by its own upsert and by its own ZINCRBY: what MySQL shows is bounded by  *)
(* the first two, what Redis shows by all three and, because a cut-off       *)
(* pipeline may be executed again, by the number of failures.                *)

Won(u) == Committed(u)
Stored(u) == {w \in Won(u) : \/ phase[w] \in {"caching", "sent"}
                             \/ phase[w] # "settled" /\ "global" \notin pending[w]}
Showed(u) == {w \in Won(u) : \/ phase[w] = "done"
                             \/ phase[w] = "sent" /\ "global" \notin pending[w]}
Paid(u) == SumOf(Amount, Won(u))
Again(u) == faults * Paid(u)
InTable(u) == Paid(u) + SumOf(Amount, Stored(u))
InRedis(u) == InTable(u) + Again(u) + SumOf(Amount, Showed(u))

DriftInv ==
  \A u \in Users :
    /\ \A k \in Keys : k[1] = "global" =>
         /\ scores[k][u] # None => scores[k][u] \in 1 .. InTable(u)
         /\ cache[k][u] # None => cache[k][u] \in 1 .. InRedis(u)
    /\ \A x \in TmpKeys : x[1][1] = "global" /\ tmp[x][u] # None =>
         tmp[x][u] \in 1 .. InTable(u)
    /\ \A j \in Jobs : job[j].pc # "idle" /\ j[2] = "global" =>
         /\ job[j].sums[u] # None => job[j].sums[u] \in 1 .. Paid(u)
         /\ job[j].rows[u] # None => job[j].rows[u] \in 1 .. InTable(u)

LEMMA Products ==
  ASSUME NEW f \in Nat, NEW g \in Nat, NEW p \in Nat, NEW q \in Nat, f <= g, p <= q
  PROVE  /\ f * p \in Nat /\ g * q \in Nat /\ f * p <= g * q
         /\ g = f + 1 => f * p + p <= g * q
         /\ (3 + f) * p = 3 * p + f * p
<1>1. \A a \in Nat, b \in Nat : a * b \in Nat
  OBVIOUS
<1>2. f * q = f * p + f * (q - p) /\ q - p \in Nat
  OBVIOUS
<1>3. g * q = f * q + (g - f) * q /\ g - f \in Nat
  OBVIOUS
<1>4. f * (q - p) \in Nat /\ (g - f) * q \in Nat /\ f * p \in Nat /\ g * q \in Nat
  BY <1>1, <1>2, <1>3
<1>5. f * p <= g * q
  BY <1>2, <1>3, <1>4
<1>6. g = f + 1 => g * q = f * q + q
  OBVIOUS
<1>7. g = f + 1 => f * p + p <= g * q
  BY <1>2, <1>4, <1>6
<1>8. (3 + f) * p = 3 * p + f * p
  OBVIOUS
<1> QED BY <1>4, <1>5, <1>7, <1>8

LEMMA SumsOfWins ==
  ASSUME NEW S \in SUBSET Wins
  PROVE  /\ SumOf(Amount, S) \in Nat
         /\ \A T \in SUBSET S : SumOf(Amount, T) \in Nat /\ SumOf(Amount, T) <= SumOf(Amount, S)
         /\ \A T \in SUBSET S : \A w \in S \ T :
              SumOf(Amount, T) + Amount[w] <= SumOf(Amount, S)
<1>1. \A T \in SUBSET Wins : IsFiniteSet(T) /\ \A w \in T : Amount[w] \in Nat
  BY FiniteAssumption, WinsAssumption, FS_Subset
<1>2. \A T \in SUBSET Wins : SumOf(Amount, T) \in Nat
  BY <1>1, SumType
<1>3. \A T \in SUBSET S : SumOf(Amount, T) <= SumOf(Amount, S)
  BY <1>1, SumGrows
<1>4. ASSUME NEW T \in SUBSET S, NEW w \in S \ T
      PROVE  SumOf(Amount, T) + Amount[w] <= SumOf(Amount, S)
  <2>1. T \cup {w} \in SUBSET S
    OBVIOUS
  <2>2. SumOf(Amount, T \cup {w}) <= SumOf(Amount, S)
    BY <1>3, <2>1
  <2>3. SumOf(Amount, T \cup {w}) = SumOf(Amount, T) + Amount[w]
    BY <1>1, SumAdd
  <2> QED BY <2>2, <2>3
<1> QED BY <1>2, <1>3, <1>4

LEMMA DriftTypes ==
  ASSUME TypeInv, NEW u
  PROVE  /\ Won(u) \subseteq Wins /\ Stored(u) \subseteq Won(u) /\ Showed(u) \subseteq Won(u)
         /\ Paid(u) \in Nat /\ Again(u) \in Nat /\ InTable(u) \in Nat /\ InRedis(u) \in Nat
         /\ Paid(u) <= InTable(u) /\ InTable(u) <= 2 * Paid(u)
         /\ InTable(u) <= InRedis(u) /\ InRedis(u) <= (3 + faults) * Paid(u)
<1>1. Won(u) \subseteq Wins /\ Stored(u) \subseteq Won(u) /\ Showed(u) \subseteq Won(u)
  BY DEF Won, Stored, Showed, Committed
<1>2. /\ SumOf(Amount, Won(u)) \in Nat
      /\ SumOf(Amount, Stored(u)) \in Nat /\ SumOf(Amount, Stored(u)) <= SumOf(Amount, Won(u))
      /\ SumOf(Amount, Showed(u)) \in Nat /\ SumOf(Amount, Showed(u)) <= SumOf(Amount, Won(u))
  BY <1>1, SumsOfWins
<1>3. Paid(u) \in Nat /\ faults \in Nat
  BY <1>2, BoundsAssumption DEF Paid, TypeInv, TypeOK
<1>4. Again(u) \in Nat /\ (3 + faults) * Paid(u) = 3 * Paid(u) + Again(u)
  BY <1>3, Products DEF Again
<1> QED BY <1>1, <1>2, <1>3, <1>4 DEF Paid, InTable, InRedis

LEMMA PaidIsTotal ==
  ASSUME TypeInv, NEW u, NEW k \in Keys, k[1] = "global"
  PROVE  Credits(u, k) = Won(u) /\ Total(u, k) = Paid(u)
<1>1. k = <<"global", 0>>
  BY KeyTypes
<1>2. Credits(u, k) = Won(u)
  BY <1>1 DEF Credits, Won, Key
<1> QED BY <1>2, WinsAreSums DEF Paid, Total

LEMMA FaultsGrow ==
  ASSUME TypeInv, [Next]_vars
  PROVE  faults' \in {faults, faults + 1}
<1>1. ASSUME NEW w \in Wins, Pay(w) \/ Settle(w) \/ SettleFails(w) \/ Serve(w)
      PROVE  faults' \in {faults, faults + 1}
  BY <1>1, SendsPart
     DEF Pay, Settle, SettleFails, Serve, Increment, IncrementAnswered, CacheSkipped, Over,
         Fault, Refused
<1>2. ASSUME NEW w \in Wins, NEW t \in PeriodTypes, Upsert(w, t) \/ UpsertFails(w, t)
      PROVE  faults' \in {faults, faults + 1}
  BY <1>2 DEF Upsert, UpsertFails, Fault
<1>3. ASSUME NEW j \in Jobs, Fill(j) \/ Swap(j) PROVE faults' \in {faults, faults + 1}
  BY <1>3, FillsPart, SwapsPart DEF Refused, Fault
<1>4. ASSUME NEW j \in Jobs, Tick(j) \/ Work(j) \/ JobFails(j), ~Fill(j), ~Swap(j)
      PROVE  faults' \in {faults, faults + 1}
  BY <1>4 DEF Tick, Work, SumLedger, UpsertRow, CommitRows, ReadTop, RebuildAnswered,
              SwapOffline, JobLockTimeout, JobFails, Fault
<1>5. CASE NextDay \/ RedisGoes \/ (\E k \in Keys : Expire(k))
           \/ \E i \in Instances : ConnectionLost(i) \/ Reconnect(i) \/ Crash(i)
  BY <1>5 DEF NextDay, RedisGoes, Expire, ConnectionLost, Reconnect, Crash, Fault
<1>6. CASE UNCHANGED vars
  BY <1>6 DEF vars
<1> QED BY <1>1, <1>2, <1>3, <1>4, <1>5, <1>6 DEF Next

\* A committed win stays so, a stored one stays stored, and one the sorted set
\* shows stays shown unless a failure makes its pipeline start again.
LEMMA WinsMove ==
  ASSUME TypeInv, [Next]_vars, NEW w \in Wins
  PROVE  /\ phase[w] \notin {"idle", "paying"} => phase'[w] \notin {"idle", "paying"}
         /\ phase[w] \in {"caching", "sent"}
            \/ (phase[w] \notin {"idle", "paying", "settled"} /\ "global" \notin pending[w])
              => phase'[w] \in {"caching", "sent"}
                 \/ (phase'[w] # "settled" /\ "global" \notin pending'[w])
         /\ phase[w] = "done" => phase'[w] = "done"
         /\ phase[w] = "sent" /\ "global" \notin pending[w] =>
              \/ phase'[w] = "done"
              \/ phase'[w] = "sent" /\ "global" \notin pending'[w]
              \/ faults' = faults + 1 /\ \A v \in Wins : ~CacheIncrement(v)
<1>1. CASE UNCHANGED <<phase[w], pending[w], asked[w], paidOn[w]>>
  BY <1>1
<1>2. CASE Pay(w) \/ Settle(w) \/ SettleFails(w) \/ Serve(w)
  <2>1. CASE CacheIncrement(w)
    <3>1. PICK types : pending' = [pending EXCEPT ![w] = @ \ types]
      BY <2>1, SendsPart
    <3>2. phase[w] \in {"caching", "sent"} /\ phase' = [phase EXCEPT ![w] = "sent"]
      BY <2>1, SendsPart
    <3>3. pending'[w] \subseteq pending[w] /\ phase'[w] = "sent"
      BY <3>1, <3>2 DEF TypeInv, TypeOK
    <3> QED BY <3>2, <3>3
  <2>2. CASE ~CacheIncrement(w)
    BY <1>2, <2>2 DEF Pay, Settle, SettleFails, Serve, Increment, IncrementAnswered,
                      CacheSkipped, Over, TypeInv, TypeOK
  <2> QED BY <2>1, <2>2
<1>3. CASE \E t \in PeriodTypes : Upsert(w, t) \/ UpsertFails(w, t)
  BY <1>3 DEF Upsert, UpsertFails, Upserting, AllStored, TypeInv, TypeOK
<1>4. CASE /\ phase[w] = "sent" /\ phase'[w] = "caching" /\ faults' = faults + 1
  <2>1. ASSUME NEW v \in Wins, CacheIncrement(v) PROVE FALSE
    <3>1. phase' = [phase EXCEPT ![v] = "sent"]
      BY <2>1, SendsPart
    <3> QED BY <1>4, <3>1 DEF TypeInv, TypeOK
  <2> QED BY <1>4, <2>1
<1>5. CASE phase[w] \in {"idle", "paying"} /\ phase'[w] = "idle"
  BY <1>5
<1>6. CASE phase[w] \notin {"idle", "paying"} /\ phase'[w] = "done" /\ pending'[w] = {}
  BY <1>6
<1> QED BY <1>1, <1>2, <1>3, <1>4, <1>5, <1>6, RequestStep

LEMMA BoundsGrow ==
  ASSUME TypeInv, [Next]_vars, NEW u
  PROVE  /\ Won(u) \subseteq Won(u)' /\ Stored(u) \subseteq Stored(u)'
         /\ (faults' = faults \/ \E v \in Wins : CacheIncrement(v)) =>
              Showed(u) \subseteq Showed(u)'
         /\ Won(u)' \subseteq Wins /\ Stored(u)' \subseteq Wins /\ Showed(u)' \subseteq Wins
         /\ Paid(u)' \in Nat /\ InTable(u)' \in Nat /\ InRedis(u)' \in Nat
         /\ Paid(u) <= Paid(u)' /\ InTable(u) <= InTable(u)' /\ InRedis(u) <= InRedis(u)'
         /\ Paid(u)' <= InTable(u)' /\ InTable(u)' <= InRedis(u)'
         /\ InTable(u) + Again(u) + SumOf(Amount, Showed(u)') <= InRedis(u)'
<1>1. /\ Won(u) \subseteq Won(u)' /\ Stored(u) \subseteq Stored(u)'
      /\ Won(u)' \subseteq Wins /\ Stored(u)' \subseteq Won(u)' /\ Showed(u)' \subseteq Won(u)'
  BY WinsMove DEF Won, Stored, Showed, Committed
<1>2. (faults' = faults \/ \E v \in Wins : CacheIncrement(v)) => Showed(u) \subseteq Showed(u)'
  <2> SUFFICES ASSUME faults' = faults \/ \E v \in Wins : CacheIncrement(v),
                      NEW w \in Showed(u)
               PROVE  w \in Showed(u)'
    OBVIOUS
  <2>1. w \in Wins /\ w \in Won(u)'
    BY <1>1 DEF Showed, Won, Committed
  <2>2. faults \in Nat
    BY BoundsAssumption DEF TypeInv, TypeOK
  <2> QED BY <2>1, <2>2, WinsMove DEF Showed
<1>3. /\ SumOf(Amount, Won(u)') \in Nat /\ SumOf(Amount, Stored(u)') \in Nat
      /\ SumOf(Amount, Showed(u)') \in Nat
      /\ SumOf(Amount, Won(u)) \in Nat /\ SumOf(Amount, Stored(u)) \in Nat
      /\ SumOf(Amount, Showed(u)) \in Nat
      /\ SumOf(Amount, Showed(u)) <= SumOf(Amount, Won(u))
      /\ SumOf(Amount, Won(u)) <= SumOf(Amount, Won(u)')
      /\ SumOf(Amount, Stored(u)) <= SumOf(Amount, Stored(u)')
  BY <1>1, SumsOfWins, DriftTypes
<1>4. Showed(u) \subseteq Showed(u)' => SumOf(Amount, Showed(u)) <= SumOf(Amount, Showed(u)')
  BY <1>1, SumsOfWins
<1>5. /\ Paid(u) \in Nat /\ Paid(u)' \in Nat /\ Paid(u) <= Paid(u)'
      /\ faults \in Nat /\ faults' \in Nat /\ faults' \in {faults, faults + 1}
  BY <1>3, FaultsGrow, BoundsAssumption DEF Paid, TypeInv, TypeOK
<1>6. /\ Again(u) \in Nat /\ Again(u)' \in Nat /\ Again(u) <= Again(u)'
      /\ faults' = faults + 1 => Again(u) + Paid(u) <= Again(u)'
  BY <1>5, Products DEF Again
<1>7. Again(u) + SumOf(Amount, Showed(u)) <= Again(u)' + SumOf(Amount, Showed(u)')
  <2>1. CASE faults' = faults
    BY <1>2, <1>3, <1>4, <1>6, <2>1
  <2>2. CASE faults' = faults + 1
    BY <1>3, <1>6, <2>2 DEF Paid
  <2> QED BY <1>5, <2>1, <2>2
<1>8. /\ InTable(u) \in Nat /\ InTable(u)' \in Nat /\ InTable(u) <= InTable(u)'
      /\ Paid(u)' <= InTable(u)'
  BY <1>3, <1>5 DEF InTable
<1>9. /\ InRedis(u)' = InTable(u)' + Again(u)' + SumOf(Amount, Showed(u)')
      /\ InRedis(u) = InTable(u) + Again(u) + SumOf(Amount, Showed(u))
  BY DEF InRedis
<1>10. /\ InRedis(u)' \in Nat /\ InTable(u)' <= InRedis(u)' /\ InRedis(u) <= InRedis(u)'
       /\ InTable(u) + Again(u) + SumOf(Amount, Showed(u)') <= InRedis(u)'
  BY <1>3, <1>6, <1>7, <1>8, <1>9
<1> QED BY <1>1, <1>2, <1>5, <1>8, <1>10

\* Each part of DriftInv for one user is kept by every step.
LEMMA NextTableDrift ==
  ASSUME TypeInv, DriftInv, [Next]_vars, NEW u \in Users, NEW k \in Keys, k[1] = "global",
         scores'[k][u] # None
  PROVE  scores'[k][u] \in 1 .. InTable(u)'
<1>1. scores[k][u] # None => scores[k][u] \in 1 .. InTable(u)
  BY DEF DriftInv
<1>2. CASE scores'[k][u] = scores[k][u]
  BY <1>1, <1>2, BoundsGrow, DriftTypes
<1>3. ASSUME NEW w \in Wins, NEW t \in PeriodTypes, Upsert(w, t),
             scores'[k][u] # scores[k][u]
      PROVE  scores'[k][u] \in 1 .. InTable(u)'
  <2>1. k = Key(t, asked[w]) /\ u = Winner[w] /\ Amount[w] \in Nat \ {0}
    BY <1>3, UpsertScores
  <2>2. asked[w] \in Days /\ phase[w] \in {"upserting", "done"} /\ t \in pending[w]
    BY <1>3 DEF Upsert, Upserting, TypeInv, WinShape
  <2>3. t = "global"
    BY <2>1, <2>2, KeyTypes
  <2>4. w \in Stored(u)' \ Stored(u)
    <3>1. w \in Won(u)' /\ w \notin Stored(u)
      BY <1>3, <2>1, <2>2, <2>3, WinsMove DEF Stored, Won, Committed, Upsert
    <3>2. phase'[w] = "caching" \/ (phase'[w] # "settled" /\ "global" \notin pending'[w])
      BY <1>3, <2>2, <2>3 DEF Upsert, AllStored, TypeInv, TypeOK
    <3> QED BY <3>1, <3>2 DEF Stored
  <2>5. SumOf(Amount, Stored(u)) + Amount[w] <= SumOf(Amount, Stored(u)')
    BY <2>4, BoundsGrow, SumsOfWins
  <2>6. /\ SumOf(Amount, Stored(u)) \in Nat /\ SumOf(Amount, Stored(u)') \in Nat
        /\ Paid(u) \in Nat /\ Paid(u)' \in Nat /\ Paid(u) <= Paid(u)'
    BY BoundsGrow, DriftTypes, SumsOfWins
  <2>7. InTable(u) + Amount[w] <= InTable(u)' /\ InTable(u) \in Nat /\ InTable(u)' \in Nat
    BY <2>1, <2>5, <2>6 DEF InTable
  <2>8. scores'[k][u] = IF scores[k][u] = None THEN Amount[w] ELSE scores[k][u] + Amount[w]
    BY <1>3, <2>1, UpsertScores
  <2> QED BY <1>1, <2>1, <2>7, <2>8
<1>4. ASSUME NEW j \in Jobs, CommitRows(j), scores'[k][u] # scores[k][u]
      PROVE  scores'[k][u] \in 1 .. InTable(u)'
  <2>1. /\ k = job[j].key /\ scores'[k][u] = job[j].sums[u] /\ job[j].sums[u] # None
        /\ job[j].key[1] = j[2]
    BY <1>4, CommitScores
  <2>2. job[j].pc # "idle" /\ j[2] = "global"
    BY <1>4, <2>1 DEF CommitRows
  <2>3. job[j].sums[u] \in 1 .. Paid(u)
    BY <2>1, <2>2 DEF DriftInv
  <2>4. /\ Paid(u) \in Nat /\ Paid(u)' \in Nat /\ InTable(u)' \in Nat
        /\ Paid(u) <= Paid(u)' /\ Paid(u)' <= InTable(u)'
    BY BoundsGrow, DriftTypes
  <2> QED BY <2>1, <2>3, <2>4
<1> QED BY <1>2, <1>3, <1>4, ScoresStep

LEMMA FilledDrift ==
  ASSUME TypeInv, DriftInv, NEW j \in Jobs, Piping(j), NEW u \in Users, j[2] = "global"
  PROVE  \A refused : Filled(j, refused)[u] # None => Filled(j, refused)[u] \in 1 .. InTable(u)
<1>1. /\ job[j].pc # "idle" /\ TmpKey(j) \in TmpKeys /\ TmpKey(j)[1] = job[j].key
      /\ job[j].key[1] = "global"
  BY FilledType DEF Piping, TmpKey
<1>2. /\ job[j].rows[u] # None => job[j].rows[u] \in 1 .. InTable(u)
      /\ tmp[TmpKey(j)][u] # None => tmp[TmpKey(j)][u] \in 1 .. InTable(u)
  BY <1>1 DEF DriftInv
<1>3. \A refused : Filled(j, refused)[u] \in {None, job[j].rows[u], tmp[TmpKey(j)][u]}
  BY DEF Filled
<1> QED BY <1>2, <1>3

LEMMA NextCacheDrift ==
  ASSUME TypeInv, DriftInv, [Next]_vars, NEW u \in Users, NEW k \in Keys, k[1] = "global",
         cache'[k][u] # None
  PROVE  cache'[k][u] \in 1 .. InRedis(u)'
<1>1. cache[k][u] # None => cache[k][u] \in 1 .. InRedis(u)
  BY DEF DriftInv
<1>2. /\ InRedis(u) \in Nat /\ InRedis(u)' \in Nat /\ InRedis(u) <= InRedis(u)'
      /\ InTable(u) \in Nat /\ InTable(u) <= InRedis(u) /\ Again(u) \in Nat
  BY BoundsGrow, DriftTypes
<1>3. CASE cache'[k][u] = cache[k][u]
  BY <1>1, <1>2, <1>3
<1>4. CASE cache'[k] = EmptyBoard
  BY <1>4 DEF EmptyBoard
<1>5. ASSUME NEW w \in Wins, NEW t \in PeriodTypes, CacheIncrement(w),
             phase[w] \in {"caching", "sent"}, phase'[w] = "sent",
             asked[w] \in Days, k = Key(t, asked[w]), t \in pending[w], t \notin pending'[w],
             cache'[k] = Added(cache[k], Winner[w], Amount[w]),
             cache'[k][u] # cache[k][u]
      PROVE  cache'[k][u] \in 1 .. InRedis(u)'
  <2>1. cache[k] \in Board /\ Amount[w] \in Nat \ {0}
    BY WinsAssumption DEF TypeInv, TypeOK
  <2>2. /\ u = Winner[w]
        /\ cache'[k][u] = IF cache[k][u] = None THEN Amount[w] ELSE cache[k][u] + Amount[w]
    BY <1>5, <2>1 DEF Added, Board
  <2>3. t = "global"
    BY <1>5, KeyTypes
  <2>4. w \in Showed(u)' \ Showed(u)
    BY <1>5, <2>2, <2>3 DEF Showed, Won, Committed
  <2>5. SumOf(Amount, Showed(u)) + Amount[w] <= SumOf(Amount, Showed(u)')
    BY <1>5, <2>4, BoundsGrow, SumsOfWins
  <2>6. InTable(u) + Again(u) + SumOf(Amount, Showed(u)') <= InRedis(u)'
    BY BoundsGrow
  <2>7. SumOf(Amount, Showed(u)) \in Nat /\ SumOf(Amount, Showed(u)') \in Nat
    BY BoundsGrow, DriftTypes, SumsOfWins
  <2>8. InRedis(u) + Amount[w] <= InRedis(u)'
    BY <1>2, <2>1, <2>5, <2>6, <2>7 DEF InRedis
  <2> QED BY <1>1, <1>2, <2>1, <2>2, <2>8
<1>6. ASSUME NEW j \in Jobs, Swap(j), job[j].key = k, NEW refused,
             cache'[k] = Filled(j, refused)
      PROVE  cache'[k][u] \in 1 .. InRedis(u)'
  <2>1. Piping(j) /\ j[2] = "global"
    BY <1>6, FilledType DEF Swap
  <2>2. cache'[k][u] \in 1 .. InTable(u)
    BY <1>6, <2>1, FilledDrift
  <2> QED BY <1>2, <2>2
<1> QED BY <1>3, <1>4, <1>5, <1>6, CacheStep

LEMMA NextTmpDrift ==
  ASSUME TypeInv, DriftInv, [Next]_vars, NEW u \in Users, NEW x \in TmpKeys,
         x[1][1] = "global", tmp'[x][u] # None
  PROVE  tmp'[x][u] \in 1 .. InTable(u)'
<1>1. tmp[x][u] # None => tmp[x][u] \in 1 .. InTable(u)
  BY DEF DriftInv
<1>2. InTable(u) \in Nat /\ InTable(u)' \in Nat /\ InTable(u) <= InTable(u)'
  BY BoundsGrow, DriftTypes
<1>3. CASE tmp'[x] = tmp[x]
  BY <1>1, <1>2, <1>3
<1>4. CASE tmp'[x] = EmptyBoard
  BY <1>4 DEF EmptyBoard
<1>5. ASSUME NEW j \in Jobs, Fill(j), TmpKey(j) = x, NEW refused, tmp'[x] = Filled(j, refused)
      PROVE  tmp'[x][u] \in 1 .. InTable(u)'
  <2>1. Piping(j) /\ job[j].key = x[1]
    BY <1>5 DEF Fill, TmpKey
  <2>2. j[2] = "global"
    BY <2>1, FilledType
  <2>3. tmp'[x][u] \in 1 .. InTable(u)
    BY <1>5, <2>1, <2>2, FilledDrift
  <2> QED BY <1>2, <2>3
<1> QED BY <1>3, <1>4, <1>5, TmpStep

LEMMA NextJobDrift ==
  ASSUME TypeInv, DriftInv, [Next]_vars, NEW u \in Users, NEW j \in Jobs,
         job'[j].pc # "idle", j[2] = "global"
  PROVE  /\ job'[j].sums[u] # None => job'[j].sums[u] \in 1 .. Paid(u)'
         /\ job'[j].rows[u] # None => job'[j].rows[u] \in 1 .. InTable(u)'
<1>1. /\ Paid(u) \in Nat /\ Paid(u)' \in Nat /\ Paid(u) <= Paid(u)'
      /\ InTable(u) \in Nat /\ InTable(u)' \in Nat /\ InTable(u) <= InTable(u)'
  BY BoundsGrow, DriftTypes
<1>2. job[j].pc # "idle" =>
        /\ job[j].sums[u] # None => job[j].sums[u] \in 1 .. Paid(u)
        /\ job[j].rows[u] # None => job[j].rows[u] \in 1 .. InTable(u)
        /\ job[j].key \in Keys /\ job[j].key[1] = "global"
        /\ job[j].pc = "sum" => job[j].range = None
  BY DEF DriftInv, TypeInv, JobShape, Shaped
<1>3. EmptyBoard[u] = None
  BY DEF EmptyBoard
<1>4. CASE Sums(j, job'[j])
  <2>1. job[j].pc = "sum"
    BY <1>4 DEF Sums, SumLedger
  <2>2. CreditsIn(u, job[j].range) = Won(u)
    BY <1>2, <2>1 DEF CreditsIn, InRange, Won, Committed
  <2>3. SumOfAmounts(Won(u)) = Paid(u)
    BY WinsAreSums DEF Paid
  <2>4. ASSUME NEW w \in Won(u) PROVE Paid(u) >= 1
    <3>1. w \in Wins /\ Amount[w] \in Nat \ {0}
      BY WinsAssumption DEF Won, Committed
    <3>2. SumOf(Amount, {}) + Amount[w] <= SumOf(Amount, Won(u))
      BY SumsOfWins, DriftTypes
    <3> QED BY <1>1, <3>1, <3>2, SumEmpty DEF Paid
  <2> QED BY <1>1, <1>2, <1>4, <2>1, <2>2, <2>3, <2>4 DEF Sums
<1>5. CASE Reads(j, job'[j])
  <2>1. job[j].pc # "idle"
    BY <1>5 DEF Reads, ReadTop
  <2>2. Top(scores[job[j].key], MaxTop)[u] \in {None, scores[job[j].key][u]}
    BY DEF Top
  <2>3. scores[job[j].key][u] # None => scores[job[j].key][u] \in 1 .. InTable(u)
    BY <1>2, <2>1 DEF DriftInv
  <2> QED BY <1>1, <1>2, <1>5, <2>1, <2>2, <2>3 DEF Reads
<1>6. CASE Writes(j, job'[j]) \/ Pipes(j, job'[j])
  <2>1. job[j].pc # "idle"
    BY <1>6 DEF Writes, Pipes, UpsertRow, Piped
  <2> QED BY <1>1, <1>2, <1>6, <2>1 DEF Writes, Pipes
<1>7. CASE job'[j] = job[j]
  BY <1>1, <1>2, <1>7
<1>8. CASE Idles(job'[j])
  BY <1>3, <1>8 DEF Idles
<1> QED BY <1>4, <1>5, <1>6, <1>7, <1>8, JobStep DEF Moves

LEMMA InitDrift == Init => DriftInv
BY DEF Init, DriftInv, EmptyBoard, NoJob

LEMMA NextDrift == TypeInv /\ DriftInv /\ [Next]_vars => DriftInv'
<1> SUFFICES ASSUME TypeInv, DriftInv, [Next]_vars, NEW u \in Users
             PROVE  /\ \A k \in Keys : k[1] = "global" =>
                         /\ scores'[k][u] # None => scores'[k][u] \in 1 .. InTable(u)'
                         /\ cache'[k][u] # None => cache'[k][u] \in 1 .. InRedis(u)'
                    /\ \A x \in TmpKeys : x[1][1] = "global" /\ tmp'[x][u] # None =>
                         tmp'[x][u] \in 1 .. InTable(u)'
                    /\ \A j \in Jobs : job'[j].pc # "idle" /\ j[2] = "global" =>
                         /\ job'[j].sums[u] # None => job'[j].sums[u] \in 1 .. Paid(u)'
                         /\ job'[j].rows[u] # None => job'[j].rows[u] \in 1 .. InTable(u)'
  BY DEF DriftInv
<1> QED BY NextTableDrift, NextCacheDrift, NextTmpDrift, NextJobDrift

\* Reconciling and incrementing race, and a connection lost makes the client send
\* ZINCRBYs again that Redis may have executed: however the sums, the upserts and
\* the ZINCRBYs of any number of wins interleave with rebuilds, failures and
\* crashes, the all-time board never shows a player more than twice (MySQL) or
\* three times plus once per failure (Redis) what the ledger paid, and no player
\* it paid nothing.
THEOREM DriftHasABound == Spec => []DriftIsBounded
<1>1. TypeInv /\ DriftInv => DriftIsBounded
  <2> SUFFICES ASSUME TypeInv, DriftInv, NEW k \in Keys, NEW u \in Users, k[1] = "global"
               PROVE  /\ scores[k][u] # None => scores[k][u] \in 1 .. 2 * Total(u, k)
                      /\ cache[k][u] # None => cache[k][u] \in 1 .. (3 + faults) * Total(u, k)
    BY DEF DriftIsBounded
  <2>1. /\ scores[k][u] # None => scores[k][u] \in 1 .. InTable(u)
        /\ cache[k][u] # None => cache[k][u] \in 1 .. InRedis(u)
    BY DEF DriftInv
  <2>2. Total(u, k) = Paid(u) /\ Paid(u) \in Nat
    BY PaidIsTotal, DriftTypes
  <2>3. PICK most \in Nat : most = (3 + faults) * Paid(u)
    <3>1. faults \in Nat
      BY BoundsAssumption DEF TypeInv, TypeOK
    <3>2. faults * Paid(u) \in Nat /\ (3 + faults) * Paid(u) = 3 * Paid(u) + faults * Paid(u)
      BY <2>2, <3>1, Products
    <3> QED BY <2>2, <3>2
  <2>4. InTable(u) \in Nat /\ InTable(u) <= 2 * Paid(u) /\ InRedis(u) \in Nat /\ InRedis(u) <= most
    BY <2>3, DriftTypes
  <2>5. scores[k][u] # None => scores[k][u] \in 1 .. 2 * Paid(u)
    BY <2>1, <2>2, <2>4
  <2>6. cache[k][u] # None => cache[k][u] \in 1 .. most
    BY <2>1, <2>4
  <2> QED BY <2>2, <2>3, <2>5, <2>6
<1> QED BY <1>1, InitType, NextType, InitDrift, NextDrift, PTL DEF Spec

---------------------------------------------------------------------------
(* Rebuilds: while a pipeline is under way its temporary set holds the rows  *)
(* already sent, less those Redis refused, and nothing else.                 *)

PidsDiffer == \A i, l \in Instances : ProcessId[i] = ProcessId[l] => i = l

HalfFilled(j) ==
  /\ job[j].todo \subseteq Players(job[j].rows)
  /\ job[j].todo \cap job[j].refused = {}
  /\ \A u \in Users :
       tmp[TmpKey(j)][u] = IF u \in job[j].todo \cup job[j].refused THEN None
                           ELSE job[j].rows[u]
RebuildInv ==
  \A j \in Jobs :
    /\ job[j].pc \notin {"fill", "renamed"} => job[j].refused = {}
    /\ job[j].pc = "fill" => HalfFilled(j)

LEMMA TmpKeysDiffer ==
  ASSUME PidsDiffer, TypeInv, NEW i \in Jobs, NEW j \in Jobs,
         job[i].pc # "idle", job[j].pc # "idle", TmpKey(i) = TmpKey(j)
  PROVE  i = j
<1>1. job[i].key[1] = i[2] /\ job[j].key[1] = j[2]
  BY DEF TypeInv, JobShape, Shaped
<1>2. job[i].key = job[j].key /\ ProcessId[i[1]] = ProcessId[j[1]]
  BY DEF TmpKey
<1>3. i[1] = j[1] /\ i[2] = j[2]
  BY <1>1, <1>2 DEF PidsDiffer, Jobs
<1> QED BY <1>3 DEF Jobs

\* the set a piece leaves behind, or the RENAME puts into place
LEMMA PieceFills ==
  ASSUME TypeInv, RebuildInv, NEW j \in Jobs, Piping(j), NEW refused \in SUBSET Piece(j)
  PROVE  /\ ToFill(j) \subseteq Players(job[j].rows)
         /\ ToFill(j) \cap job[j].refused = {}
         /\ \A u \in Users :
              Filled(j, refused)[u] =
                IF u \in (ToFill(j) \ Piece(j)) \cup job[j].refused \cup refused THEN None
                ELSE job[j].rows[u]
<1>1. job[j].rows \in Board /\ Piece(j) \subseteq ToFill(j)
  BY FilledType DEF JobState
<1>2. CASE job[j].pc = "swap"
  <2>1. job[j].refused = {} /\ ToFill(j) = Players(job[j].rows)
    BY <1>2 DEF RebuildInv, ToFill
  <2> QED BY <1>1, <1>2, <2>1 DEF Filled, Players
<1>3. CASE job[j].pc = "fill"
  <2>1. HalfFilled(j) /\ ToFill(j) = job[j].todo
    BY <1>3 DEF RebuildInv, ToFill
  <2> QED BY <1>1, <1>3, <2>1 DEF Filled, HalfFilled
<1> QED BY <1>2, <1>3 DEF Piping

LEMMA NextRebuild ==
  ASSUME PidsDiffer, TypeInv, RebuildInv, [Next]_vars, NEW j \in Jobs, job'[j].pc = "fill"
  PROVE  HalfFilled(j)'
<1>1. CASE Fill(j)
  <2>1. Piping(j)
    BY <1>1, FillsPart
  <2>2. PICK refused \in SUBSET Piece(j), st \in JobState :
          /\ tmp' = [tmp EXCEPT ![TmpKey(j)] = Filled(j, refused)]
          /\ Run(j, st)
          /\ st.todo = ToFill(j) \ Piece(j)
          /\ st.key = job[j].key /\ st.rows = job[j].rows
          /\ st.refused = job[j].refused \cup refused
    BY <1>1, FillsPart
  <2>3. job'[j] = st
    BY <2>2 DEF Run, TypeInv, TypeOK
  <2>4. TmpKey(j)' = TmpKey(j) /\ tmp'[TmpKey(j)] = Filled(j, refused)
    BY <2>1, <2>2, <2>3, FilledType DEF TmpKey, TypeInv, TypeOK
  <2>5. /\ ToFill(j) \subseteq Players(job[j].rows)
        /\ ToFill(j) \cap job[j].refused = {}
        /\ \A u \in Users :
             Filled(j, refused)[u] =
               IF u \in (ToFill(j) \ Piece(j)) \cup job[j].refused \cup refused THEN None
               ELSE job[j].rows[u]
    BY <2>1, PieceFills
  <2>6. (ToFill(j) \ Piece(j)) \cap (job[j].refused \cup refused) = {}
    BY <2>5
  <2> QED BY <2>2, <2>3, <2>4, <2>5, <2>6 DEF HalfFilled
<1>2. CASE ~Fill(j)
  <2>1. job'[j] = job[j]
    BY <1>2, JobStep DEF Moves, Idles, Sums, Writes, Reads, Pipes, Piped
  <2>2. HalfFilled(j) /\ TmpKey(j)' = TmpKey(j) /\ TmpKey(j) \in TmpKeys
    BY <2>1, FilledType DEF RebuildInv, TmpKey, Piping
  <2>3. ~RedisGoes
    <3>1. j[1] \in Instances
      BY DEF Jobs
    <3>2. NoJob.pc = "idle"
      BY DEF NoJob
    <3> QED BY <2>1, <3>1, <3>2, CutJobs DEF RedisGoes
  <2>4. ~Swap(j)
    <3>1. \A st : Run(j, st) => job'[j] = st
      BY DEF Run, TypeInv, TypeOK
    <3> QED BY <2>1, <3>1, SwapsPart
  <2>5. tmp'[TmpKey(j)] = tmp[TmpKey(j)]
    <3>1. ASSUME NEW i \in Jobs, i # j, Fill(i) \/ Swap(i)
          PROVE  tmp'[TmpKey(j)] = tmp[TmpKey(j)]
      <4>1. job[i].pc # "idle" /\ job[j].pc # "idle"
        BY <2>1, <3>1 DEF Fill, Swap, Piping
      <4>2. TmpKey(i) # TmpKey(j)
        BY <3>1, <4>1, TmpKeysDiffer
      <4>3. \E b : tmp' = [tmp EXCEPT ![TmpKey(i)] = b]
        BY <3>1 DEF Fill, Swap
      <4> QED BY <2>2, <4>2, <4>3 DEF TypeInv, TypeOK
    <3> QED BY <1>2, <2>3, <2>4, <3>1, TmpMoves
  <2> QED BY <2>1, <2>2, <2>5 DEF HalfFilled
<1> QED BY <1>1, <1>2

LEMMA NextRefused ==
  ASSUME TypeInv, RebuildInv, [Next]_vars, NEW j \in Jobs,
         job'[j].pc \notin {"fill", "renamed"}
  PROVE  job'[j].refused = {}
<1>1. SumLedger(j) \/ UpsertRow(j) \/ ReadTop(j) => job[j].refused = {}
  BY DEF SumLedger, UpsertRow, ReadTop, RebuildInv
<1> QED BY <1>1, JobStep DEF Moves, Idles, Sums, Writes, Reads, Pipes, Piped, RebuildInv

LEMMA RebuildStep ==
  ASSUME TypeInv, RebuildInv, [Next]_vars, NEW j \in Jobs,
         job[j].pc \in {"swap", "fill"}, job'[j].pc = "renamed", cache' # cache,
         NEW u \in Users
  PROVE  cache'[job[j].key][u] = IF u \in job'[j].refused THEN None ELSE job[j].rows[u]
<1>1. Swap(j)
  <2>1. Pipes(j, job'[j])
    BY JobStep DEF Moves, Idles, Sums, Writes, Reads, Piped
  <2> QED BY <2>1 DEF Pipes
<1>2. /\ Piping(j) /\ Piece(j) = ToFill(j)
      /\ job[j].key \in Keys
  BY <1>1, SwapsPart, FilledType
<1>3. PICK refused \in SUBSET Piece(j), st \in JobState :
        /\ cache' = IF Players(Filled(j, refused)) = {} THEN cache
                    ELSE [cache EXCEPT ![job[j].key] = Filled(j, refused)]
        /\ Run(j, st)
        /\ st.refused = job[j].refused \cup refused
  BY <1>1, SwapsPart
<1>4. job'[j] = st
  BY <1>3 DEF Run, TypeInv, TypeOK
<1>5. cache'[job[j].key] = Filled(j, refused)
  BY <1>2, <1>3 DEF TypeInv, TypeOK
<1>6. Filled(j, refused)[u] = IF u \in job[j].refused \cup refused THEN None
                              ELSE job[j].rows[u]
  BY <1>2, PieceFills
<1> QED BY <1>3, <1>4, <1>5, <1>6

\* The set a rebuild renames over the live key is the one it read from MySQL,
\* less exactly the rows Redis refused, with any number of instances rebuilding
\* the same boards, dying over them or sending a pipeline twice, if no two of
\* them share a process id.
THEOREM RebuildsReplaceWhole ==
  ASSUME PidsDiffer
  PROVE  Spec => RebuildsAreWhole
<1> DEFINE Whole == \A j \in Jobs, u \in Users :
              job[j].pc \in {"swap", "fill"} /\ job'[j].pc = "renamed" =>
                cache'[job[j].key][u] = IF u \in job'[j].refused THEN None
                                        ELSE job[j].rows[u]
<1>1. Init => RebuildInv
  BY DEF Init, RebuildInv, NoJob
<1>2. TypeInv /\ RebuildInv /\ [Next]_vars => RebuildInv'
  BY NextRebuild, NextRefused DEF RebuildInv
<1>3. TypeInv /\ RebuildInv /\ [Next]_vars => [Whole]_cache
  BY RebuildStep
<1> QED BY <1>1, <1>2, <1>3, InitType, NextType, PTL DEF Spec, RebuildsAreWhole

---------------------------------------------------------------------------
(* Ranks: MySQL counts the strictly better, so its rank of a player is the   *)
(* place in the listing of the first of those who tie with him.              *)

LEMMA FewerBefore ==
  ASSUME NEW b \in Board, NEW n \in Nat,
         NEW v \in Players(b), NEW x \in Players(Top(b, n)), Before(b, v, x)
  PROVE  v \in Players(Top(b, n))
<1> DEFINE Ahead(y) == {z \in Players(b) : Before(b, z, y)}
<1>1. /\ Players(b) \subseteq Users /\ x \in Players(b) /\ Users \subseteq Nat
      /\ \A z \in Players(b) : b[z] \in Nat
  BY BoardTypes, FiniteAssumption
<1>2. Ahead(v) \subseteq Ahead(x)
  <2>1. ASSUME NEW z \in Players(b), Before(b, z, v) PROVE Before(b, z, x)
    <3>1. /\ b[z] \in Nat /\ b[v] \in Nat /\ b[x] \in Nat
          /\ z \in Nat /\ v \in Nat /\ x \in Nat
      BY <1>1
    <3> QED BY <2>1, <3>1 DEF Before
  <2> QED BY <2>1
<1>3. IsFiniteSet(Ahead(x))
  BY <1>1, FiniteAssumption, FS_Subset
<1>4. /\ Cardinality(Ahead(v)) <= Cardinality(Ahead(x))
      /\ Cardinality(Ahead(v)) \in Nat /\ Cardinality(Ahead(x)) \in Nat
  BY <1>2, <1>3, FS_Subset, FS_CardinalityType
<1>5. Cardinality(Ahead(x)) < n
  BY <1>1 DEF Players, Top
<1>6. Cardinality(Ahead(v)) < n
  BY <1>4, <1>5
<1> QED BY <1>1, <1>6 DEF Players, Top

LEMMA FirstOfTies ==
  ASSUME NEW b \in Board, NEW n \in Nat, NEW u \in Players(Top(b, n))
  PROVE  \E first \in Players(Top(b, n)) :
           /\ Top(b, n)[first] = Top(b, n)[u]
           /\ {v \in Players(Top(b, n)) : Before(Top(b, n), v, first)}
                = {v \in Players(b) : b[v] > b[u]}
           /\ \A v \in Players(Top(b, n)) :
                Top(b, n)[v] = Top(b, n)[u] => v = first \/ Before(Top(b, n), first, v)
<1> DEFINE lines == Top(b, n)
           ties == {v \in Players(lines) : lines[v] = lines[u]}
<1>1. /\ Players(b) \subseteq Users /\ Players(lines) \subseteq Players(b)
      /\ u \in Players(lines) /\ Users \subseteq Nat /\ \A v \in Players(b) : b[v] \in Nat
  BY BoardTypes, FiniteAssumption
<1>2. \A v \in Players(lines) : lines[v] = b[v]
  BY DEF Players, Top
<1>3. \A v \in Players(b), x \in Players(lines) : Before(b, v, x) => v \in Players(lines)
  BY FewerBefore
<1> HIDE DEF lines
<1>4. ties \in SUBSET Nat /\ u \in ties
  BY <1>1
<1>5. PICK m \in ties : \A v \in ties : m <= v
  <2> HIDE DEF ties
  <2> QED BY <1>4, SmallestNumber
<1>6. m \in Players(lines) /\ b[m] = b[u] /\ m \in Nat /\ lines[m] = lines[u]
  BY <1>1, <1>2, <1>5
<1>7. ASSUME NEW v \in Players(lines), lines[v] = lines[u]
      PROVE  v = m \/ Before(lines, m, v)
  BY <1>1, <1>5, <1>6, <1>7 DEF Before
<1>8. ASSUME NEW v \in Players(b)
      PROVE  (v \in Players(lines) /\ Before(lines, v, m)) <=> b[v] > b[u]
  <2>1. b[v] > b[u] => Before(b, v, m)
    BY <1>6 DEF Before
  <2>2. Before(b, v, m) => v \in Players(lines)
    BY <1>3, <1>6
  <2>3. v \in Players(lines) => (Before(lines, v, m) <=> Before(b, v, m))
    BY <1>2, <1>6 DEF Before
  <2>4. ASSUME v \in Players(lines), b[v] = b[m], v < m PROVE FALSE
    <3>1. v \in ties
      BY <1>2, <1>6, <2>4
    <3> QED BY <1>1, <1>5, <1>6, <2>4, <3>1
  <2>5. v \in Players(lines) /\ Before(b, v, m) => b[v] > b[u]
    BY <1>6, <2>4 DEF Before
  <2> QED BY <2>1, <2>2, <2>3, <2>5
<1>9. {v \in Players(lines) : Before(lines, v, m)} = {v \in Players(b) : b[v] > b[u]}
  BY <1>1, <1>8
<1>10. \E first \in Players(lines) :
           /\ lines[first] = lines[u]
           /\ {v \in Players(lines) : Before(lines, v, first)} = {v \in Players(b) : b[v] > b[u]}
           /\ \A v \in Players(lines) :
                lines[v] = lines[u] => v = first \/ Before(lines, first, v)
  BY <1>6, <1>7, <1>9
<1> QED BY <1>10 DEF lines

LEMMA RanksAgree == TypeInv => RanksMatchListing
<1> SUFFICES ASSUME TypeInv, NEW i \in Instances, NEW k \in Keys, ~FromRedis(i, k),
                    NEW n \in 1 .. MaxTop
             PROVE  LET rank == [u \in Users |-> getPlayerRank(i, k, u)]
                        listing == Listed(i, k, n)
                    IN
                    /\ \A u \in Players(listing) : \E first \in Players(listing) :
                         /\ listing[first] = listing[u] /\ Place(listing, first) = rank[u]
                         /\ \A v \in Players(listing) :
                              listing[v] = listing[u] => v = first \/ Before(listing, first, v)
                    /\ \A u \in Players(scores[k]) \ Players(listing) :
                         \A v \in Players(listing) : rank[v] <= rank[u]
  BY DEF RanksMatchListing
<1>1. PICK b \in Board : b = scores[k]
  BY DEF TypeInv, TypeOK
<1>2. PICK top : top = Top(b, n)
  OBVIOUS
<1>3. Listed(i, k, n) = top /\ n \in Nat
  BY <1>1, <1>2, BoundsAssumption DEF Listed
<1>4. /\ Players(b) \subseteq Users /\ Players(top) \subseteq Players(b)
      /\ \A v \in Players(b) : b[v] \in Nat
  BY <1>2, BoardTypes
<1>5. ASSUME NEW u \in Players(b)
      PROVE  /\ u \in Users
             /\ getPlayerRank(i, k, u) = 1 + Cardinality({v \in Players(b) : b[v] > b[u]})
  <2>1. b[u] # None /\ u \in Users
    BY <1>4 DEF Players
  <2>2. AsksMySQL(i, k, u)
    BY <2>1 DEF AsksMySQL, FromRedis, Players
  <2> QED BY <1>1, <2>1, <2>2 DEF getPlayerRank, DurableRank, CountHigher
<1>6. ASSUME NEW u \in Players(top)
      PROVE  \E first \in Players(top) :
               /\ top[first] = top[u] /\ Place(top, first) = getPlayerRank(i, k, u)
               /\ \A v \in Players(top) : top[v] = top[u] => v = first \/ Before(top, first, v)
  <2>1. PICK first \in Players(top) :
          /\ top[first] = top[u]
          /\ {v \in Players(top) : Before(top, v, first)} = {v \in Players(b) : b[v] > b[u]}
          /\ \A v \in Players(top) : top[v] = top[u] => v = first \/ Before(top, first, v)
    BY <1>2, <1>3, FirstOfTies
  <2>2. Place(top, first) = getPlayerRank(i, k, u)
    BY <1>4, <1>5, <2>1 DEF Place
  <2> QED BY <2>1, <2>2
<1>7. ASSUME NEW u \in Players(b) \ Players(top), NEW v \in Players(top)
      PROVE  getPlayerRank(i, k, v) <= getPlayerRank(i, k, u)
  <2> DEFINE Higher(y) == {z \in Players(b) : b[z] > b[y]}
  <2>1. ~(b[u] > b[v])
    <3>1. b[u] > b[v] => Before(b, u, v)
      BY DEF Before
    <3> QED BY <1>2, <1>3, <1>7, <3>1, FewerBefore
  <2>2. b[u] \in Nat /\ b[v] \in Nat /\ v \in Players(b) /\ \A z \in Players(b) : b[z] \in Nat
    BY <1>4
  <2>3. Higher(v) \subseteq Higher(u)
    BY <2>1, <2>2
  <2>4. IsFiniteSet(Higher(u))
    BY <1>4, FiniteAssumption, FS_Subset
  <2>5. /\ Cardinality(Higher(v)) <= Cardinality(Higher(u))
        /\ Cardinality(Higher(v)) \in Nat /\ Cardinality(Higher(u)) \in Nat
    BY <2>3, <2>4, FS_Subset, FS_CardinalityType
  <2>6. /\ getPlayerRank(i, k, v) = 1 + Cardinality(Higher(v))
        /\ getPlayerRank(i, k, u) = 1 + Cardinality(Higher(u))
    BY <1>5, <2>2
  <2> HIDE DEF Higher
  <2> QED BY <2>5, <2>6
<1>8. \A u \in Players(top) : u \in Users
  BY <1>4
<1> QED BY <1>1, <1>3, <1>4, <1>6, <1>7, <1>8

\* The rank MySQL answers is the place of the first of the lines with that score,
\* for any number of players, any ties between them and any length of the listing,
\* and no player left out of it reads a better rank than one who is listed.
THEOREM RanksAgreeWithListing == Spec => []RanksMatchListing
BY InitType, NextType, RanksAgree, PTL DEF Spec
=============================================================================
