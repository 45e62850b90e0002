---------------------------- MODULE GameEconomy ----------------------------
(* The money endpoints /api/game/initiate, /process and /settle: concurrent *)
(* requests, each a chain of awaited statements in one InnoDB transaction   *)
(* over a bounded connection pool, with row locks, lock-wait timeouts,      *)
(* retries, lost connections, lost commit acknowledgements and crashes of   *)
(* the process. Rows are written under an exclusive lock, so a transaction's*)
(* writes are kept in tx[r] and reach the tables at its commit; a session's *)
(* identifier is the request that creates it.                               *)
EXTENDS Integers, Sequences, FiniteSets

CONSTANTS Users, Reqs, Keys, NoKey, None,
          Opening,        \* [Users -> Nat], balances before the first request
          Bets,           \* stakes that pass the body validation
          MinBet, MaxBet, \* games_directory.min_bet and max_bet
          Payouts,        \* what engine.settle may return
          MaxPayout,      \* the cap of assertValidPayout
          MaxAttempts,    \* MAX_ATTEMPTS of withTransaction
          PoolSize,       \* connectionLimit of the pool
          AdminStatuses   \* statuses an administrator may give an account

VARIABLES
  balance,   \* users.points_balance
  status,    \* users.status
  sessions,  \* game_sessions
  ledger,    \* points_ledger, each user's rows in insertion order
  credited,  \* increments the leaderboards received per session
  userLock,  \* holder of the X lock on a users row
  sessLock,  \* holder of the X lock on a game_sessions row
  conns,     \* requests holding a pooled connection
  req,       \* the request bodies received so far
  pc,        \* the statement each request awaits next
  tx,        \* what a running transaction has read and written
  attempt,   \* the attempt of withTransaction's loop
  resp       \* the value or error the request is about to answer with

db == <<balance, status, sessions, ledger>>
locks == <<userLock, sessLock>>
vars == <<db, credited, locks, conns, req, pc, tx, attempt, resp>>

---------------------------------------------------------------------------
Meta == [over : BOOLEAN, pay : Payouts]
Row == [user : Users, key : Keys \cup {NoKey}, bet : Bets,
        status : {"ACTIVE", "SETTLED"}, meta : Meta, payout : Payouts \cup {None}]
Slip == [user : Users, key : Keys \cup {NoKey}, bet : Bets,
         status : {"ACTIVE", "SETTLED"}, payout : Payouts \cup {None}]
Entry == [reason : {"GAME_BET", "GAME_PAYOUT"}, sess : Reqs,
          amount : Int, after : Int]
Request == [kind : {"initiate", "process", "settle"}, user : Users,
            sess : Reqs, key : Keys \cup {NoKey}, bet : Bets]
Tx == [row : Row \cup {None}, delta : Int, entry : Entry \cup {None}, seen : Int]
Codes == {"OK", "Validation", "NotFound", "Forbidden", "Conflict",
          "InsufficientFunds", "Internal", "Retryable", "Duplicate"}
Response == [code : Codes, sess : Reqs \cup {None}, payout : Payouts \cup {None},
             replay : BOOLEAN, balance : Int \cup {None}]

InTx == {"lookup", "lockUser", "debit", "insertSession", "insertBet",
         "lockSession", "engine", "payout", "credit", "insertPayout",
         "close", "commit"}
HasConn == InTx \cup {"rollback", "backoff"}
HasRow == {"engine", "payout", "credit", "insertPayout", "close"}
Labels == HasConn \cup {"idle", "connect", "replayRead", "board", "done"}

ASSUME ConstantsAssumption ==
  /\ Opening \in [Users -> Nat]
  /\ Bets \subseteq Nat \ {0} /\ Bets # {}
  /\ MinBet \in Nat /\ MaxBet \in Nat
  /\ 0 \in Payouts /\ Payouts \subseteq Nat
  /\ MaxPayout \in Nat
  /\ MaxAttempts \in Nat \ {0}
  /\ PoolSize \in Nat \ {0}
  /\ AdminStatuses \subseteq {"ACTIVE", "SUSPENDED"}

ASSUME NoneAssumption ==
  /\ None \notin Row /\ None \notin Slip /\ None \notin Entry /\ None \notin Request
  /\ None \notin Response /\ None \notin Reqs /\ None \notin Payouts
  /\ None \notin Int /\ NoKey \notin Keys

EmptyTx == [row |-> None, delta |-> 0, entry |-> None, seen |-> 0]

Init ==
  /\ balance = Opening
  /\ status = [u \in Users |-> "ACTIVE"]
  /\ sessions = [s \in Reqs |-> None]
  /\ ledger = [u \in Users |-> <<>>]
  /\ credited = [s \in Reqs |-> 0]
  /\ userLock = [u \in Users |-> None]
  /\ sessLock = [s \in Reqs |-> None]
  /\ conns = {}
  /\ req = [r \in Reqs |-> None]
  /\ pc = [r \in Reqs |-> "idle"]
  /\ tx = [r \in Reqs |-> EmptyTx]
  /\ attempt = [r \in Reqs |-> 1]
  /\ resp = [r \in Reqs |-> None]

---------------------------------------------------------------------------
(* Steps of a request. A definition marked "slip" is a helper with a bug the *)
(* code could have had: no action uses it, the runs refute it in its place.  *)

Goto(r, l) == pc' = [pc EXCEPT ![r] = l]
Answer(r, a) == resp' = [resp EXCEPT ![r] = a]
ErrorOf(c) == [code |-> c, sess |-> None, payout |-> None,
               replay |-> FALSE, balance |-> None]
\* a throw inside work(connection): withTransaction rolls back next
Throw(r, c) == Goto(r, "rollback") /\ Answer(r, ErrorOf(c))
FreeConnection == Cardinality(conns) < PoolSize
\* slip: a retry takes a second connection
DisconnectUnlessRetrying(r) ==
  conns' = IF pc[r] = "backoff" THEN conns ELSE conns \ {r}
\* connection.release() or destroy()
Disconnect(r) == conns' = conns \ {r}

\* slip: the SELECT without FOR UPDATE
PlainReadOfUser(r, u) == userLock[u] = None /\ UNCHANGED userLock
\* SELECT ... FROM users ... FOR UPDATE
LockUsersRow(r, u) ==
  /\ userLock[u] = None
  /\ userLock' = [userLock EXCEPT ![u] = r]
\* slip: the status is not checked
AccountExists(u) == u \in Users
AccountActive(u) == status[u] = "ACTIVE"

\* sessions a user opened under a key (the UNIQUE index: at most one)
SessionsOf(u, k) ==
  {s \in Reqs : sessions[s] # None /\ sessions[s].user = u /\ sessions[s].key = k}
\* slips: no unique index; every error of the INSERT taken for a duplicate
NeverRefused(q) == FALSE
AnyInsertError(q) == q.key # NoKey
\* the UNIQUE (user_id, idempotency_key) index refuses the row
KeyTaken(q) == q.key # NoKey /\ SessionsOf(q.user, q.key) # {}
UniqueViolation(q) == KeyTaken(q)
ReplayOf(s) == [code |-> "OK", sess |-> s, payout |-> None,
                replay |-> TRUE, balance |-> None]

Submit(r, body) ==
  /\ pc[r] = "idle"
  /\ req' = [req EXCEPT ![r] = body]
  /\ Goto(r, "connect")
  /\ UNCHANGED <<db, credited, locks, conns, tx, attempt, resp>>

SubmitInitiate(r) ==
  \E u \in Users, k \in Keys \cup {NoKey}, b \in Bets :
    Submit(r, [kind |-> "initiate", user |-> u, sess |-> r, key |-> k, bet |-> b])

\* /process and /settle name a session, whoever owns it
SubmitOnSession(r) ==
  \E u \in Users, s \in Reqs, kind \in {"process", "settle"} :
    Submit(r, [kind |-> kind, user |-> u, sess |-> s, key |-> NoKey,
               bet |-> CHOOSE b \in Bets : TRUE])

\* pool.getConnection and BEGIN
Connect(r) ==
  /\ pc[r] = "connect"
  /\ FreeConnection
  /\ conns' = conns \cup {r}
  /\ tx' = [tx EXCEPT ![r] = EmptyTx]
  /\ Goto(r, IF req[r].kind = "initiate" THEN "lookup" ELSE "lockSession")
  /\ UNCHANGED <<db, credited, locks, req, attempt, resp>>

\* the idempotency fast path, a plain read without a lock, then the checks
\* of the game row and of engine.initiate (bad parameters)
Lookup(r) ==
  LET q == req[r] IN
  /\ pc[r] = "lookup"
  /\ \/ /\ KeyTaken(q)
        /\ \E s \in SessionsOf(q.user, q.key) : Answer(r, ReplayOf(s))
        /\ Goto(r, "commit")
     \/ /\ ~KeyTaken(q)
        /\ q.bet \notin MinBet .. MaxBet
        /\ Throw(r, "Validation")
     \/ /\ ~KeyTaken(q)
        /\ q.bet \in MinBet .. MaxBet
        /\ Goto(r, "lockUser")
        /\ UNCHANGED resp
  /\ UNCHANGED <<db, credited, locks, conns, req, tx, attempt>>

\* slip: the balance is not read
NoBalanceRead(r) == tx
\* the balance the transaction has read
Snapshot(r) == [tx EXCEPT ![r].seen = balance[req[r].user]]

\* SELECT ... FOR UPDATE on the users row, status and funds checks
LockUser(r) ==
  LET u == req[r].user IN
  /\ pc[r] = "lockUser"
  /\ LockUsersRow(r, u)
  /\ tx' = Snapshot(r)
  /\ \/ ~AccountActive(u) /\ Throw(r, "Forbidden")
     \/ /\ AccountActive(u)
        /\ balance[u] < req[r].bet
        /\ Throw(r, "InsufficientFunds")
     \/ /\ AccountActive(u)
        /\ balance[u] >= req[r].bet
        /\ Goto(r, "debit")
        /\ UNCHANGED resp
  /\ UNCHANGED <<db, credited, sessLock, conns, req, attempt>>

\* guarded UPDATE: its WHERE reads the current row, not the value selected
Debit(r) ==
  LET b == req[r].bet IN
  /\ pc[r] = "debit"
  /\ \/ /\ balance[req[r].user] >= b
        /\ tx' = [tx EXCEPT ![r].delta = -b]
        /\ Goto(r, "insertSession")
        /\ UNCHANGED resp
     \/ /\ balance[req[r].user] < b
        /\ Throw(r, "InsufficientFunds")
        /\ UNCHANGED tx
  /\ UNCHANGED <<db, credited, locks, conns, req, attempt>>

\* INSERT INTO game_sessions: the UNIQUE (user_id, idempotency_key) index
InsertSession(r) ==
  LET q == req[r] IN
  /\ pc[r] = "insertSession"
  /\ \/ /\ UniqueViolation(q)
        /\ Throw(r, "Duplicate")
        /\ UNCHANGED tx
     \/ /\ ~UniqueViolation(q)
        /\ \E p \in Payouts :
             tx' = [tx EXCEPT ![r].row =
                      [user |-> q.user, key |-> q.key, bet |-> q.bet,
                       status |-> "ACTIVE", payout |-> None,
                       meta |-> [over |-> FALSE, pay |-> p]]]
        /\ Goto(r, "insertBet")
        /\ UNCHANGED resp
  /\ UNCHANGED <<db, credited, locks, conns, req, attempt>>

\* slip: the ledger row carries the balance before the bet
BalanceBeforeBet(r) == tx[r].seen
\* INSERT INTO points_ledger of the bet, with the balance computed in memory
BalanceAfterBet(r) == tx[r].seen - req[r].bet
InsertBet(r) ==
  LET after == BalanceAfterBet(r) IN
  /\ pc[r] = "insertBet"
  /\ tx' = [tx EXCEPT ![r].entry = [reason |-> "GAME_BET", sess |-> r,
                                    amount |-> -req[r].bet, after |-> after]]
  /\ Answer(r, [code |-> "OK", sess |-> r, payout |-> None,
                replay |-> FALSE, balance |-> after])
  /\ Goto(r, "commit")
  /\ UNCHANGED <<db, credited, locks, conns, req, attempt>>

---------------------------------------------------------------------------
(* /process and /settle.                                                   *)

\* slip: only a cancelled session is refused
NotCancelled(row) == row.status # "CANCELLED"
IsActive(row) == row.status = "ACTIVE"
\* slip: the owner is not checked
AnyoneOwns(q, row) == row.user \in Users
Owns(q, row) == row.user = q.user

\* SELECT ... FOR UPDATE on the session, ownership and status checks. A
\* settled session replays to /settle with the balance read now.
LockSession(r) ==
  LET q == req[r]
      row == sessions[q.sess]
  IN
  /\ pc[r] = "lockSession"
  /\ \/ /\ row = None
        /\ Throw(r, "NotFound")
        /\ UNCHANGED <<sessLock, tx>>
     \/ /\ row # None
        /\ sessLock[q.sess] = None
        /\ sessLock' = [sessLock EXCEPT ![q.sess] = r]
        /\ \/ ~Owns(q, row) /\ Throw(r, "NotFound") /\ UNCHANGED tx
           \/ /\ Owns(q, row) /\ IsActive(row)
              /\ tx' = [tx EXCEPT ![r].row = row]
              /\ Goto(r, "engine")
              /\ UNCHANGED resp
           \/ /\ Owns(q, row) /\ ~IsActive(row)
              /\ UNCHANGED tx
              /\ IF q.kind = "process" THEN Throw(r, "Conflict")
                 ELSE /\ Answer(r, [code |-> "OK", sess |-> q.sess,
                                    payout |-> row.payout, replay |-> TRUE,
                                    balance |-> balance[q.user]])
                      /\ Goto(r, "commit")
  /\ UNCHANGED <<db, credited, userLock, conns, req, attempt>>

\* The plain read of games_directory fixes the transaction's snapshot of the
\* balance. Then engine.processStep and the metadata update: a step may be
\* refused, go on, or end the game (only an open one). /settle only reads.
Engine(r) ==
  LET q == req[r]
      row == tx[r].row
  IN
  /\ pc[r] = "engine"
  /\ \/ /\ q.kind = "process"
        /\ Throw(r, "Validation")
        /\ UNCHANGED tx
     \/ /\ q.kind = "process" /\ ~row.meta.over
        /\ \E p \in Payouts :
             tx' = [Snapshot(r) EXCEPT ![r].row.meta = [over |-> FALSE, pay |-> p]]
        /\ Answer(r, [code |-> "OK", sess |-> q.sess, payout |-> None,
                      replay |-> FALSE, balance |-> None])
        /\ Goto(r, "commit")
     \/ /\ q.kind = "process" /\ ~row.meta.over
        /\ \E p \in Payouts :
             tx' = [Snapshot(r) EXCEPT ![r].row.meta = [over |-> TRUE, pay |-> p]]
        /\ Goto(r, "payout")
        /\ UNCHANGED resp
     \/ /\ q.kind = "settle"
        /\ tx' = Snapshot(r)
        /\ Goto(r, "payout")
        /\ UNCHANGED resp
  /\ UNCHANGED <<db, credited, locks, conns, req, attempt>>

\* applySettlement up to the lock on the users row: engine.settle, the cap,
\* and for a positive payout SELECT ... FOR UPDATE with the status check
LockPayee(r) ==
  LET u == req[r].user
      p == tx[r].row.meta.pay
  IN
  /\ pc[r] = "payout"
  /\ \/ /\ p > MaxPayout
        /\ Throw(r, "Internal")
        /\ UNCHANGED <<userLock, tx>>
     \/ /\ p = 0
        /\ Goto(r, "close")
        /\ UNCHANGED <<userLock, tx, resp>>
     \/ /\ 0 < p /\ p <= MaxPayout
        /\ LockUsersRow(r, u)
        /\ IF AccountActive(u)
           THEN /\ tx' = [tx EXCEPT ![r].seen = balance[u] + p]
                /\ Goto(r, "credit")
                /\ UNCHANGED resp
           ELSE Throw(r, "Forbidden") /\ UNCHANGED tx
  /\ UNCHANGED <<db, credited, sessLock, conns, req, attempt>>

\* UPDATE users SET points_balance = points_balance + payout
Credit(r) ==
  /\ pc[r] = "credit"
  /\ tx' = [tx EXCEPT ![r].delta = tx[r].row.meta.pay]
  /\ Goto(r, "insertPayout")
  /\ UNCHANGED <<db, credited, locks, conns, req, attempt, resp>>

InsertPayout(r) ==
  /\ pc[r] = "insertPayout"
  /\ tx' = [tx EXCEPT ![r].entry =
              [reason |-> "GAME_PAYOUT", sess |-> req[r].sess,
               amount |-> tx[r].row.meta.pay, after |-> tx[r].seen]]
  /\ Goto(r, "close")
  /\ UNCHANGED <<db, credited, locks, conns, req, attempt, resp>>

\* slips: the payout is not stored; a status outside the column's ENUM
SettledWithoutPayout(row, p) == [row EXCEPT !.status = "SETTLED"]
SettledAsWin(row, p) == [row EXCEPT !.status = "WIN", !.payout = p]
Settled(row, p) == [row EXCEPT !.status = "SETTLED", !.payout = p]

\* UPDATE game_sessions ... WHERE status = 'ACTIVE'; one row must change
Close(r) ==
  LET s == req[r].sess
      p == tx[r].row.meta.pay
  IN
  /\ pc[r] = "close"
  /\ \/ /\ ~IsActive(sessions[s])
        /\ Throw(r, "Conflict")
        /\ UNCHANGED tx
     \/ /\ IsActive(sessions[s])
        /\ tx' = [tx EXCEPT ![r].row = Settled(tx[r].row, p)]
        /\ Answer(r, [code |-> "OK", sess |-> s, payout |-> p,
                      replay |-> FALSE, balance |-> tx[r].seen])
        /\ Goto(r, "commit")
  /\ UNCHANGED <<db, credited, locks, conns, req, attempt>>

---------------------------------------------------------------------------
(* withTransaction: commit, rollback, retry; and the routes after it.       *)

\* slip: a retry keeps the row locks, as without the ROLLBACK
ReleaseUnlessRetrying(r) ==
  IF pc[r] = "rollback" /\ resp[r].code = "Retryable" THEN UNCHANGED locks
  ELSE /\ userLock' = [u \in Users |-> IF userLock[u] = r THEN None ELSE userLock[u]]
       /\ sessLock' = [s \in Reqs |-> IF sessLock[s] = r THEN None ELSE sessLock[s]]
\* slip: an error gives the connection back with its transaction open
ReleaseOnCommit(r) ==
  IF pc[r] = "rollback" THEN UNCHANGED locks
  ELSE /\ userLock' = [u \in Users |-> IF userLock[u] = r THEN None ELSE userLock[u]]
       /\ sessLock' = [s \in Reqs |-> IF sessLock[s] = r THEN None ELSE sessLock[s]]
\* COMMIT, ROLLBACK and destroy() release the transaction's row locks
ReleaseLocks(r) ==
  /\ userLock' = [u \in Users |-> IF userLock[u] = r THEN None ELSE userLock[u]]
  /\ sessLock' = [s \in Reqs |-> IF sessLock[s] = r THEN None ELSE sessLock[s]]

\* COMMIT at the server: the transaction's writes reach the tables
Apply(r) ==
  LET u == req[r].user
      s == req[r].sess
      t == tx[r]
  IN
  /\ balance' = [balance EXCEPT ![u] = @ + t.delta]
  /\ ledger' = IF t.entry = None THEN ledger
               ELSE [ledger EXCEPT ![u] = Append(@, t.entry)]
  /\ sessions' = IF t.row = None THEN sessions
                 ELSE [sessions EXCEPT ![s] = t.row]
  /\ UNCHANGED status

\* slip: replays are credited too
AnyPayout(r) == resp[r].payout \notin {None, 0}
\* a fresh win still has to reach the leaderboards
Fresh(r) == ~resp[r].replay /\ resp[r].payout \notin {None, 0}

Commit(r) ==
  /\ pc[r] = "commit"
  /\ Apply(r)
  /\ ReleaseLocks(r)
  /\ Disconnect(r)
  /\ tx' = [tx EXCEPT ![r] = EmptyTx]
  /\ Goto(r, IF Fresh(r) THEN "board" ELSE "done")
  /\ UNCHANGED <<credited, req, attempt, resp>>

\* the server commits and the acknowledgement is lost: the driver's error is
\* not retryable, ROLLBACK fails too and the connection is destroyed
CommitAckLost(r) ==
  /\ pc[r] = "commit"
  /\ Apply(r)
  /\ ReleaseLocks(r)
  /\ Disconnect(r)
  /\ tx' = [tx EXCEPT ![r] = EmptyTx]
  /\ Answer(r, ErrorOf("Internal"))
  /\ Goto(r, "done")
  /\ UNCHANGED <<credited, req, attempt>>

\* ROLLBACK, or destroy() when it fails: either way the locks go. A retryable
\* error with attempts left sleeps before `finally` releases the connection.
Rollback(r) ==
  LET c == resp[r].code IN
  /\ pc[r] = "rollback"
  /\ ReleaseLocks(r)
  /\ tx' = [tx EXCEPT ![r] = EmptyTx]
  /\ \/ /\ c = "Retryable" /\ attempt[r] < MaxAttempts
        /\ Goto(r, "backoff")
        /\ UNCHANGED <<conns, resp>>
     \/ /\ c = "Retryable" /\ attempt[r] >= MaxAttempts
        /\ Disconnect(r)
        /\ Answer(r, ErrorOf("Internal"))
        /\ Goto(r, "done")
     \/ /\ c # "Retryable"
        /\ Disconnect(r)
        /\ Goto(r, IF c = "Duplicate" THEN "replayRead" ELSE "done")
        /\ UNCHANGED resp
  /\ UNCHANGED <<db, credited, req, attempt>>

Retry(r) ==
  /\ pc[r] = "backoff"
  /\ Disconnect(r)
  /\ attempt' = [attempt EXCEPT ![r] = @ + 1]
  /\ resp' = [resp EXCEPT ![r] = None]
  /\ Goto(r, "connect")
  /\ UNCHANGED <<db, credited, locks, req, tx>>

\* initiateGameSession answers a duplicate from a fresh read on the pool
ReplayRead(r) ==
  LET found == SessionsOf(req[r].user, req[r].key) IN
  /\ pc[r] = "replayRead"
  /\ FreeConnection
  /\ \/ \E s \in found : Answer(r, ReplayOf(s))
     \/ found = {} /\ Answer(r, ErrorOf("Conflict"))
  /\ Goto(r, "done")
  /\ UNCHANGED <<db, credited, locks, conns, req, tx, attempt>>

\* creditLeaderboard after the commit; its failure is logged and swallowed
CreditBoard(r) ==
  /\ pc[r] = "board"
  /\ FreeConnection
  /\ credited' = [credited EXCEPT ![resp[r].sess] = @ + 1]
  /\ Goto(r, "done")
  /\ UNCHANGED <<db, locks, conns, req, tx, attempt, resp>>

CreditBoardFails(r) ==
  /\ pc[r] = "board"
  /\ Goto(r, "done")
  /\ UNCHANGED <<db, credited, locks, conns, req, tx, attempt, resp>>

---------------------------------------------------------------------------
(* Failures and the world outside.                                         *)

\* who r waits for: the holder of the row lock its next statement asks for
WaitsFor(r) ==
  IF \/ pc[r] = "lockUser"
     \/ pc[r] = "payout" /\ tx[r].row.meta.pay \in 1 .. MaxPayout
  THEN {userLock[req[r].user]} \ {None}
  ELSE IF pc[r] = "lockSession" THEN {sessLock[req[r].sess]} \ {None}
  ELSE {}

\* errno 1205 after innodb_lock_wait_timeout (or 1213)
LockWaitTimeout(r) ==
  /\ WaitsFor(r) # {}
  /\ Throw(r, "Retryable")
  /\ UNCHANGED <<db, credited, locks, conns, req, tx, attempt>>

\* no connection can be opened, or the read on the pool fails
PoolFails(r) ==
  /\ pc[r] \in {"connect", "replayRead"}
  /\ Answer(r, ErrorOf("Internal"))
  /\ Goto(r, "done")
  /\ UNCHANGED <<db, credited, locks, conns, req, tx, attempt>>

\* a statement, BEGIN or COMMIT fails and nothing of the transaction stays
StatementFails(r) ==
  /\ pc[r] \in InTx
  /\ Throw(r, "Internal")
  /\ UNCHANGED <<db, credited, locks, conns, req, tx, attempt>>

\* the Node process dies: MySQL rolls back what was open; nobody answers
InFlight(r) == pc[r] \notin {"idle", "done"}
Crash ==
  /\ \E r \in Reqs : InFlight(r)
  /\ pc' = [r \in Reqs |-> IF InFlight(r) THEN "done" ELSE pc[r]]
  /\ resp' = [r \in Reqs |-> IF InFlight(r) THEN None ELSE resp[r]]
  /\ tx' = [r \in Reqs |-> EmptyTx]
  /\ userLock' = [u \in Users |-> None]
  /\ sessLock' = [s \in Reqs |-> None]
  /\ conns' = {}
  /\ UNCHANGED <<db, credited, req, attempt>>

\* an administrator's UPDATE, which waits for the row lock like any other
ChangeStatus(u) ==
  /\ userLock[u] = None
  /\ \E st \in AdminStatuses : status' = [status EXCEPT ![u] = st]
  /\ UNCHANGED <<balance, sessions, ledger, credited, locks, conns,
                 req, pc, tx, attempt, resp>>

Handle(r) ==
  \/ Connect(r) \/ Lookup(r) \/ LockUser(r) \/ Debit(r) \/ InsertSession(r)
  \/ InsertBet(r) \/ LockSession(r) \/ Engine(r) \/ LockPayee(r) \/ Credit(r)
  \/ InsertPayout(r) \/ Close(r) \/ Commit(r) \/ Rollback(r) \/ Retry(r)
  \/ ReplayRead(r) \/ CreditBoard(r)

Fail(r) == CommitAckLost(r) \/ CreditBoardFails(r) \/ LockWaitTimeout(r)
           \/ PoolFails(r) \/ StatementFails(r)

Next ==
  \/ \E r \in Reqs : SubmitInitiate(r) \/ SubmitOnSession(r) \/ Handle(r) \/ Fail(r)
  \/ Crash
  \/ \E u \in Users : ChangeStatus(u)

Spec == Init /\ [][Next]_vars
FairSpec == Spec /\ \A r \in Reqs : WF_vars(Handle(r))
---------------------------------------------------------------------------
(* Properties.                                                             *)

\* Types of the tables, of the locks and of every request's local state.
TypeOK ==
  /\ balance \in [Users -> Int]
  /\ status \in [Users -> {"ACTIVE", "SUSPENDED"}]
  /\ sessions \in [Reqs -> Row \cup {None}]
  /\ ledger \in [Users -> Seq(Entry)]
  /\ credited \in [Reqs -> Nat]
  /\ userLock \in [Users -> Reqs \cup {None}]
  /\ sessLock \in [Reqs -> Reqs \cup {None}]
  /\ conns \subseteq Reqs
  /\ req \in [Reqs -> Request \cup {None}]
  /\ pc \in [Reqs -> Labels]
  /\ tx \in [Reqs -> Tx]
  /\ attempt \in [Reqs -> Nat]
  /\ resp \in [Reqs -> Response \cup {None}]

\* points_balance can be rebuilt from points_ledger (schema.sql): each row's
\* balance_after is the previous row's plus its amount, the last one is the
\* balance, and no balance is ever negative. balance_after is computed in
\* memory from a balance read earlier, the balance by a relative UPDATE.
BalanceBefore(u, i) == IF i = 1 THEN Opening[u] ELSE ledger[u][i - 1].after
BalanceChain ==
  \A u \in Users :
    /\ balance[u] = BalanceBefore(u, Len(ledger[u]) + 1)
    /\ balance[u] >= 0
    /\ \A i \in 1 .. Len(ledger[u]) :
         ledger[u][i].after = BalanceBefore(u, i) + ledger[u][i].amount

\* What a transaction knows at each statement still holds when it commits:
\* the balance it read, the account's status, the free key and the active
\* session are protected by the row locks it holds from the read on, so a
\* commit is a bet, a step, a loss or a win, or writes nothing.
WritesNothing(r) == tx[r].row = None /\ tx[r].delta = 0 /\ tx[r].entry = None
HoldsAccount(r) ==
  userLock[req[r].user] = r /\ status[req[r].user] = "ACTIVE"
MayBet(r) ==
  /\ req[r].kind = "initiate" /\ req[r].sess = r
  /\ req[r].bet \in MinBet .. MaxBet
StakeReserved(r) ==
  /\ MayBet(r) /\ HoldsAccount(r)
  /\ tx[r].seen = balance[req[r].user] /\ req[r].bet <= tx[r].seen
FreshRow(r) ==
  /\ ~KeyTaken(req[r]) /\ tx[r].row \in Row
  /\ tx[r].row.user = req[r].user /\ tx[r].row.key = req[r].key
  /\ tx[r].row.bet = req[r].bet
  /\ tx[r].row.status = "ACTIVE" /\ tx[r].row.payout = None
  /\ ~tx[r].row.meta.over
Plays(r) ==
  LET s == req[r].sess IN
  /\ sessLock[s] = r /\ sessions[s] # None
  /\ sessions[s].status = "ACTIVE" /\ sessions[s].user = req[r].user
  /\ tx[r].row \in Row
  /\ tx[r].row.user = sessions[s].user /\ tx[r].row.key = sessions[s].key
  /\ tx[r].row.bet = sessions[s].bet
Pays(r, p) ==
  /\ HoldsAccount(r) /\ p \in 1 .. MaxPayout
  /\ tx[r].seen = balance[req[r].user] + p
PayoutRow(r, p) == [reason |-> "GAME_PAYOUT", sess |-> req[r].sess,
                    amount |-> p, after |-> tx[r].seen]
StillActive(r) ==
  tx[r].row.status = "ACTIVE" /\ tx[r].row.payout = sessions[req[r].sess].payout

CommitsBet(r) ==
  /\ StakeReserved(r) /\ FreshRow(r) /\ tx[r].delta = -req[r].bet
  /\ resp[r].payout = None
  /\ tx[r].entry = [reason |-> "GAME_BET", sess |-> r, amount |-> -req[r].bet,
                    after |-> tx[r].seen - req[r].bet]
CommitsStep(r) ==
  /\ Plays(r) /\ StillActive(r) /\ ~tx[r].row.meta.over
  /\ tx[r].delta = 0 /\ tx[r].entry = None
CommitsSettlement(r) ==
  LET p == tx[r].row.payout IN
  /\ Plays(r) /\ tx[r].row.status = "SETTLED"
  /\ \/ p = 0 /\ tx[r].delta = 0 /\ tx[r].entry = None
     \/ Pays(r, p) /\ tx[r].delta = p /\ tx[r].entry = PayoutRow(r, p)

Disciplined(r) ==
  LET p == tx[r].row.meta.pay IN
  /\ sessions[r] # None => pc[r] = "done"
  /\ pc[r] # "idle" /\ req[r].kind = "initiate" => req[r].sess = r
  /\ pc[r] \in {"lookup", "lockUser", "lockSession"} => WritesNothing(r)
  /\ pc[r] = "lookup" => req[r].kind = "initiate"
  /\ pc[r] = "lockUser" => MayBet(r)
  /\ pc[r] \in {"debit", "insertSession", "insertBet"} =>
       StakeReserved(r) /\ tx[r].entry = None
  /\ pc[r] \in {"debit", "insertSession"} => tx[r].row = None
  /\ pc[r] \in {"insertSession", "insertBet"} => tx[r].delta = -req[r].bet
  /\ pc[r] = "insertBet" => FreshRow(r)
  /\ pc[r] \in HasRow => Plays(r) /\ StillActive(r)
  /\ pc[r] \in {"engine", "payout", "credit"} => tx[r].delta = 0
  /\ pc[r] \in {"engine", "payout", "credit", "insertPayout"} => tx[r].entry = None
  /\ pc[r] \in {"credit", "insertPayout"} => Pays(r, p)
  /\ pc[r] = "insertPayout" => tx[r].delta = p
  /\ pc[r] = "close" =>
       \/ p = 0 /\ tx[r].delta = 0 /\ tx[r].entry = None
       \/ Pays(r, p) /\ tx[r].delta = p /\ tx[r].entry = PayoutRow(r, p)
  /\ pc[r] = "commit" => WritesNothing(r) \/ CommitsBet(r) \/ CommitsStep(r)
                           \/ CommitsSettlement(r)
LocksProtectReads == \A r \in Reqs : Disciplined(r)

\* Debit, session and ledger rows exist together or not at all, once each:
\* every session has exactly its bet row, every settled win exactly its
\* payout row, and the ledger has no other game row.
Booked(reason, s, u, amount) ==
  \E i \in 1 .. Len(ledger[u]) :
    /\ ledger[u][i].reason = reason /\ ledger[u][i].sess = s
    /\ ledger[u][i].amount = amount
NotBooked(reason, s) ==
  \A u \in Users : \A i \in 1 .. Len(ledger[u]) :
    ~(ledger[u][i].reason = reason /\ ledger[u][i].sess = s)
NeverTwice ==
  \A u \in Users : \A i, j \in 1 .. Len(ledger[u]) :
    /\ ledger[u][i].reason = ledger[u][j].reason
    /\ ledger[u][i].sess = ledger[u][j].sess
    => i = j
IsWin(s) == /\ sessions[s] # None
            /\ sessions[s].status = "SETTLED" /\ sessions[s].payout # 0
LedgerMatchesSessions ==
  /\ NeverTwice
  /\ \A s \in Reqs :
       /\ IF sessions[s] = None THEN NotBooked("GAME_BET", s)
          ELSE Booked("GAME_BET", s, sessions[s].user, -sessions[s].bet)
       /\ IF IsWin(s)
          THEN Booked("GAME_PAYOUT", s, sessions[s].user, sessions[s].payout)
          ELSE NotBooked("GAME_PAYOUT", s)

\* An idempotency key names one session of its user, although the fast path
\* reads without a lock, and every successful answer to it names that session.
OneSessionPerKey ==
  \A u \in Users, k \in Keys :
    /\ \A s, t \in SessionsOf(u, k) : s = t
    /\ \A r \in Reqs :
         /\ pc[r] = "done" /\ resp[r] # None /\ resp[r].code = "OK"
         /\ req[r].kind = "initiate" /\ req[r].user = u /\ req[r].key = k
         => resp[r].sess \in SessionsOf(u, k)

\* What a client is told is what the tables say: a success names a committed
\* session of its own, every answer that carries a payout carries the one
\* stored, and a refusal (unlike a 500) charged nothing.
AnswersAreTrue ==
  \A r \in Reqs :
    pc[r] \in {"board", "done"} /\ resp[r] # None =>
      IF resp[r].code = "OK"
      THEN /\ sessions[resp[r].sess] # None
           /\ sessions[resp[r].sess].user = req[r].user
           /\ resp[r].payout # None =>
                resp[r].payout = sessions[resp[r].sess].payout
      ELSE resp[r].code # "Internal" => sessions[r] = None

\* A balance reported to a client was at some time the committed balance of
\* the account, also on the paths that read it without a lock.
BalancesReportedExisted ==
  \A r \in Reqs :
    /\ pc[r] \in {"board", "done"} /\ resp[r] # None /\ resp[r].balance # None
    => \E i \in 1 .. Len(ledger[req[r].user]) + 1 :
         resp[r].balance = BalanceBefore(req[r].user, i)

\* The leaderboards never receive more than the ledger paid: at most one
\* increment per session, only for a settled win, although a settle may be
\* repeated and raced by /process (gameRoutes.js: "this can't double-count").
BoardNeverOvercounts ==
  \A s \in Reqs : credited[s] = 0 \/ (credited[s] = 1 /\ IsWin(s))

\* Requests never wait for each other in a circle: every transaction takes
\* the session row before the users row, so InnoDB never has to pick a victim.
NoWaitCycle ==
  \A S \in SUBSET Reqs :
    S # {} => \E r \in S : WaitsFor(r) \cap S = {}

\* A connection is held exactly between getConnection and release, on every
\* path out of the retry loop, and a row lock only inside a transaction.
NothingLeaks ==
  /\ conns = {r \in Reqs : pc[r] \in HasConn}
  /\ Cardinality(conns) <= PoolSize
  /\ \A u \in Users : userLock[u] # None => pc[userLock[u]] \in InTx \cup {"rollback"}
  /\ \A s \in Reqs : sessLock[s] # None => pc[sessLock[s]] \in InTx \cup {"rollback"}

\* gameSessionService.js:153 "A duplicate key can only surface here once the
\* winner has committed, so a fresh read is guaranteed to find it": the
\* conflict after the fresh read is unreachable.
DuplicateIsResolvable ==
  \A r \in Reqs :
    pc[r] = "replayRead" => SessionsOf(req[r].user, req[r].key) # {}

\* A suspended account neither pays nor is paid, although its status is read
\* some statements before the commit that changes the balance.
SuspendedIsFrozen ==
  [][\A u \in Users : balance'[u] # balance[u] => status[u] = "ACTIVE"]_vars

\* A settled session never changes again, whatever races with its settlement,
\* and a session that is still active has not ended in its engine.
SettledIsFinal ==
  [][\A s \in Reqs :
       /\ sessions[s] # None /\ sessions[s].status = "SETTLED"
            => sessions'[s] = sessions[s]
       /\ sessions'[s] # None /\ sessions'[s].status = "ACTIVE"
            => ~sessions'[s].meta.over]_vars

\* README.md:172 "A concurrent duplicate resolves to the winner's session
\* (200)": a request is not refused for lack of funds while the session of
\* its idempotency key exists.
DuplicateIsNotRefused ==
  [][\A r \in Reqs :
       /\ pc'[r] = "rollback" /\ pc[r] # "rollback"
       /\ resp'[r].code = "InsufficientFunds" /\ req[r].key # NoKey
       => SessionsOf(req[r].user, req[r].key) = {}]_vars

\* The endpoints implement the atomic economy of PointsEconomy.
SlipOf(row) == IF row = None THEN None
               ELSE [user |-> row.user, key |-> row.key, bet |-> row.bet,
                     status |-> row.status, payout |-> row.payout]
Economy == INSTANCE PointsEconomy
             WITH Sessions <- Reqs, slips <- [s \in Reqs |-> SlipOf(sessions[s])]
ImplementsEconomy == Economy!Spec

\* Every request that was received is answered (or dies with the process),
\* whatever locks, duplicates, timeouts and retries it meets.
EveryRequestEnds == \A r \in Reqs : pc[r] = "connect" ~> pc[r] = "done"
=============================================================================
