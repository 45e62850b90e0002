------------------------- MODULE GameEconomyAnswers -------------------------
(* What clients are told: every answer names the session it is about, a     *)
(* payout that is stored and a balance that existed; a key has one session; *)
(* the ledger and the leaderboards agree with the sessions.                 *)
EXTENDS GameEconomyProofs

\* The row a commit writes, and whose it is.
LEMMA CommitRow ==
  ASSUME TypeInv, LocksProtectReads, NEW r \in Reqs, pc[r] = "commit", tx[r].row # None
  PROVE  /\ req[r].sess \in Reqs /\ tx[r].row \in Row
         /\ tx[r].row.user = req[r].user
         /\ \/ /\ FreshRow(r) /\ req[r].sess = r /\ sessions[r] = None
               /\ tx[r].row.status = "ACTIVE" /\ tx[r].row.key = req[r].key
            \/ /\ Plays(r) /\ req[r].sess # r /\ req[r].kind # "initiate"
               /\ sessions[req[r].sess] # None
<1>1. CASE WritesNothing(r)
  BY <1>1 DEF WritesNothing
<1>2. CASE CommitsBet(r) /\ req[r].sess = r
  BY <1>2, CommitCases DEF CommitsBet, FreshRow
<1>3. CASE Plays(r) /\ req[r].sess # r
  <2>1. req[r].kind # "initiate"
    BY <1>3 DEF LocksProtectReads, Disciplined
  <2> QED BY <1>3, <2>1, CommitCases DEF Plays
<1> QED BY <1>1, <1>2, <1>3, CommitCases DEF CommitsStep, CommitsSettlement

\* A session once created keeps its owner, its key and its stake, and a
\* settled one keeps everything.
LEMMA SessionsGrow ==
  ASSUME TypeInv, LocksProtectReads, [Next]_vars, NEW s \in Reqs, sessions[s] # None
  PROVE  /\ sessions'[s] # None
         /\ sessions'[s].user = sessions[s].user
         /\ sessions'[s].key = sessions[s].key
         /\ sessions'[s].bet = sessions[s].bet
         /\ sessions[s].status = "SETTLED" => sessions'[s] = sessions[s]
<1>1. ASSUME NEW r \in Reqs, pc[r] = "commit", Apply(r), sessions'[s] # sessions[s]
      PROVE  /\ sessions'[s] # None
             /\ sessions'[s].user = sessions[s].user
             /\ sessions'[s].key = sessions[s].key
             /\ sessions'[s].bet = sessions[s].bet
             /\ sessions[s].status = "ACTIVE"
  <2>1. tx[r].row # None /\ s = req[r].sess /\ sessions'[s] = tx[r].row
    BY <1>1, Written DEF TypeInv, TypeOK
  <2>2. Plays(r)
    BY <1>1, <2>1, CommitRow
  <2> QED BY <2>1, <2>2 DEF Plays
<1> QED BY <1>1, TableSteps DEF db, ChangeStatus

\* Only the commit of s itself creates the session s, under a free key.
LEMMA SessionsBegin ==
  ASSUME TypeInv, LocksProtectReads, [Next]_vars, NEW s \in Reqs,
         sessions[s] = None, sessions'[s] # None
  PROVE  /\ pc[s] = "commit" /\ ~KeyTaken(req[s])
         /\ sessions'[s].user = req[s].user /\ sessions'[s].key = req[s].key
         /\ \A t \in Reqs \ {s} : sessions'[t] = sessions[t]
<1>1. ASSUME NEW r \in Reqs, pc[r] = "commit", Apply(r)
      PROVE  /\ r = s /\ ~KeyTaken(req[s])
             /\ sessions'[s].user = req[s].user /\ sessions'[s].key = req[s].key
             /\ \A t \in Reqs \ {s} : sessions'[t] = sessions[t]
  <2>1. tx[r].row # None /\ s = req[r].sess /\ sessions' = [sessions EXCEPT ![s] = tx[r].row]
    BY <1>1, Written DEF TypeInv, TypeOK
  <2>2. sessions'[s] = tx[r].row /\ \A t \in Reqs \ {s} : sessions'[t] = sessions[t]
    BY <2>1 DEF TypeInv, TypeOK
  <2>3. FreshRow(r) /\ r = s
    BY <1>1, <2>1, CommitRow
  <2> QED BY <2>2, <2>3 DEF FreshRow
<1> QED BY <1>1, TableSteps DEF db, ChangeStatus

---------------------------------------------------------------------------
(* One session per key.                                                    *)

KeysAreUnique ==
  \A u \in Users, k \in Keys : \A s, t \in SessionsOf(u, k) : s = t

LEMMA NextUnique ==
  TypeInv /\ LocksProtectReads /\ KeysAreUnique /\ [Next]_vars => KeysAreUnique'
<1> SUFFICES ASSUME TypeInv, LocksProtectReads, KeysAreUnique, [Next]_vars,
                    NEW u \in Users, NEW k \in Keys,
                    NEW s \in SessionsOf(u, k)', NEW t \in SessionsOf(u, k)'
             PROVE  s = t
  BY DEF KeysAreUnique
<1>1. /\ s \in Reqs /\ sessions'[s] # None /\ sessions'[s].user = u /\ sessions'[s].key = k
      /\ t \in Reqs /\ sessions'[t] # None /\ sessions'[t].user = u /\ sessions'[t].key = k
  BY DEF SessionsOf
<1>2. ASSUME NEW x \in Reqs, sessions[x] # None, sessions'[x].user = u, sessions'[x].key = k
      PROVE  x \in SessionsOf(u, k)
  BY <1>2, SessionsGrow DEF SessionsOf
<1>3. ASSUME NEW x \in Reqs, NEW y \in Reqs, x # y,
             sessions[x] = None, sessions'[x] # None,
             sessions'[x].user = u, sessions'[x].key = k,
             sessions'[y] # None, sessions'[y].user = u, sessions'[y].key = k
      PROVE  FALSE
  <2>1. sessions'[y] = sessions[y] /\ ~KeyTaken(req[x]) /\ req[x].user = u /\ req[x].key = k
    BY <1>3, SessionsBegin
  <2>2. y \in SessionsOf(u, k)
    BY <1>2, <1>3, <2>1
  <2>3. k # NoKey
    BY NoneAssumption
  <2> QED BY <2>1, <2>2, <2>3 DEF KeyTaken
<1> QED BY <1>1, <1>2, <1>3 DEF KeysAreUnique

---------------------------------------------------------------------------
(* What an answer says, from the statement that composes it to its client.  *)

\* The answer is about a session of the caller; a payout is the stored one.
Names(r) ==
  LET s == resp[r].sess IN
  /\ s \in Reqs /\ sessions[s] # None /\ sessions[s].user = req[r].user
  /\ req[r].kind = "initiate" => sessions[s].key = req[r].key
  /\ resp[r].payout # None =>
       sessions[s].status = "SETTLED" /\ sessions[s].payout = resp[r].payout
\* Before the commit it is about a session that exists, or the one written.
Promises(r) ==
  /\ resp[r].code = "OK"
  /\ \/ tx[r].row = None /\ resp[r].replay = TRUE /\ Names(r)
     \/ /\ tx[r].row # None /\ resp[r].sess = req[r].sess
        /\ resp[r].payout # None =>
             tx[r].row.status = "SETTLED" /\ tx[r].row.payout = resp[r].payout
Told(r) ==
  \/ resp[r].code = "OK" /\ Names(r)
  \/ resp[r].code # "OK" /\ (resp[r].code # "Internal" => sessions[r] = None)
Answered(r) ==
  /\ pc[r] = "lockSession" => req[r].kind # "initiate"
  /\ pc[r] = "rollback" =>
       resp[r].code # "OK" /\ (resp[r].code = "Duplicate" => KeyTaken(req[r]))
  /\ pc[r] = "replayRead" => KeyTaken(req[r])
  /\ pc[r] = "commit" => Promises(r)
  /\ pc[r] \in {"board", "done"} /\ resp[r] # None => Told(r)
AnswerInv == \A r \in Reqs : Answered(r)

\* A step of one request leaves the local state of the others alone.
LEMMA OneMoves ==
  ASSUME TypeInv, NEW r \in Reqs,
         SubmitInitiate(r) \/ SubmitOnSession(r) \/ Handle(r) \/ Fail(r),
         NEW o \in Reqs \ {r}
  PROVE  pc'[o] = pc[o] /\ tx'[o] = tx[o] /\ req'[o] = req[o] /\ resp'[o] = resp[o]
<1> USE DEF TypeInv, TypeOK, Goto, Answer, Throw
<1>1. CASE SubmitInitiate(r) \/ SubmitOnSession(r)
  BY <1>1 DEF SubmitInitiate, SubmitOnSession, Submit
<1>2. CASE Connect(r) \/ Lookup(r) \/ LockUser(r) \/ Debit(r)
  BY <1>2 DEF Connect, Lookup, LockUser, Debit, Snapshot
<1>3. CASE InsertSession(r) \/ InsertBet(r) \/ LockSession(r)
  BY <1>3 DEF InsertSession, InsertBet, LockSession
<1>4. CASE Engine(r)
  <2>1. req' = req
    BY <1>4 DEF Engine
  <2>2. pc'[o] = pc[o] /\ resp'[o] = resp[o]
    BY <1>4 DEF Engine
  <2>3. tx'[o] = tx[o]
    BY <1>4 DEF Engine, Snapshot
  <2> QED BY <2>1, <2>2, <2>3
<1>5. CASE LockPayee(r) \/ Credit(r) \/ InsertPayout(r) \/ Close(r)
  BY <1>5 DEF LockPayee, Credit, InsertPayout, Close
<1>6. CASE Commit(r) \/ CommitAckLost(r) \/ Rollback(r) \/ Retry(r)
  BY <1>6 DEF Commit, CommitAckLost, Rollback, Retry
<1>7. CASE ReplayRead(r) \/ CreditBoard(r) \/ CreditBoardFails(r)
           \/ LockWaitTimeout(r) \/ PoolFails(r) \/ StatementFails(r)
  BY <1>7 DEF ReplayRead, CreditBoard, CreditBoardFails, LockWaitTimeout, PoolFails,
     StatementFails
<1> QED BY <1>1, <1>2, <1>3, <1>4, <1>5, <1>6, <1>7 DEF Handle, Fail

LEMMA NamesStand ==
  ASSUME TypeInv, LocksProtectReads, [Next]_vars, NEW o \in Reqs,
         req'[o] = req[o], resp'[o] = resp[o], Names(o)
  PROVE  Names(o)'
BY SessionsGrow DEF Names

LEMMA KeysStayTaken ==
  ASSUME TypeInv, LocksProtectReads, [Next]_vars, NEW q, KeyTaken(q)
  PROVE  KeyTaken(q)'
BY SessionsGrow DEF KeyTaken, SessionsOf

\* What a request was promised or told stays true while it does not move.
LEMMA AnswersStand ==
  ASSUME TypeInv, LocksProtectReads, [Next]_vars, NEW o \in Reqs, Answered(o),
         pc'[o] = pc[o], tx'[o] = tx[o], req'[o] = req[o], resp'[o] = resp[o]
  PROVE  Answered(o)'
<1>1. KeyTaken(req[o]) => KeyTaken(req[o])'
  BY KeysStayTaken
<1>2. Promises(o) => Promises(o)'
  BY NamesStand DEF Promises
<1>3. pc[o] \in {"board", "done"} /\ Told(o) => Told(o)'
  BY NamesStand, SessionsBegin DEF Told
<1> QED BY <1>1, <1>2, <1>3 DEF Answered

\* A throw answers an error, and only a duplicate key is called "Duplicate".
LEMMA ThrowAnswers ==
  ASSUME TypeInv, NEW r \in Reqs, NEW c \in Codes \ {"OK"}, Throw(r, c),
         c = "Duplicate" => KeyTaken(req[r])'
  PROVE  Answered(r)'
<1>1. pc'[r] = "rollback" /\ resp'[r].code = c
  BY DEF Throw, Goto, Answer, ErrorOf, TypeInv, TypeOK
<1> QED BY <1>1 DEF Answered

\* A statement after which r goes on, or answers nothing yet.
LEMMA GoesOn ==
  ASSUME TypeInv, NEW r \in Reqs,
         NEW l \in {"connect", "lookup", "lockUser", "debit", "insertSession", "insertBet",
                    "engine", "payout", "credit", "insertPayout", "close", "backoff"},
         Goto(r, l)
  PROVE  Answered(r)'
BY DEF Answered, Goto, TypeInv, TypeOK

LEMMA SubmitAnswers ==
  ASSUME TypeInv, NEW r \in Reqs,
         \/ SubmitInitiate(r) \/ SubmitOnSession(r) \/ Retry(r)
  PROVE  Answered(r)'
BY GoesOn DEF SubmitInitiate, SubmitOnSession, Submit, Retry

LEMMA ConnectAnswers ==
  ASSUME TypeInv, NEW r \in Reqs, Connect(r)
  PROVE  Answered(r)'
BY DEF Connect, Answered, Goto, TypeInv, TypeOK

LEMMA LookupAnswers ==
  ASSUME TypeInv, LocksProtectReads, NEW r \in Reqs, Lookup(r)
  PROVE  Answered(r)'
<1>1. CASE Throw(r, "Validation")
  BY <1>1, ThrowAnswers DEF Codes
<1>2. CASE Goto(r, "lockUser")
  BY <1>2, GoesOn
<1>3. ASSUME NEW s \in SessionsOf(req[r].user, req[r].key), Answer(r, ReplayOf(s)),
             Goto(r, "commit")
      PROVE  Answered(r)'
  <2>1. pc'[r] = "commit" /\ resp'[r] = ReplayOf(s)
    BY <1>3 DEF Goto, Answer, TypeInv, TypeOK
  <2>2. tx'[r].row = None /\ UNCHANGED <<sessions, req>>
    BY DEF Lookup, LocksProtectReads, Disciplined, WritesNothing, db
  <2>3. Names(r)'
    BY <1>3, <2>1, <2>2 DEF Names, ReplayOf, SessionsOf
  <2>4. resp'[r].code = "OK" /\ resp'[r].replay = TRUE
    BY <2>1 DEF ReplayOf
  <2> QED BY <2>1, <2>2, <2>3, <2>4 DEF Answered, Promises
<1> QED BY <1>1, <1>2, <1>3 DEF Lookup

LEMMA LockUserAnswers ==
  ASSUME TypeInv, NEW r \in Reqs, LockUser(r) \/ Debit(r)
  PROVE  Answered(r)'
BY ThrowAnswers, GoesOn DEF LockUser, Debit, Codes

LEMMA InsertAnswers ==
  ASSUME TypeInv, NEW r \in Reqs, InsertSession(r)
  PROVE  Answered(r)'
<1>1. UniqueViolation(req[r]) => KeyTaken(req[r])'
  BY DEF InsertSession, UniqueViolation, KeyTaken, SessionsOf, db
<1> QED BY <1>1, ThrowAnswers, GoesOn DEF InsertSession, Codes

LEMMA InsertBetAnswers ==
  ASSUME TypeInv, LocksProtectReads, NEW r \in Reqs, InsertBet(r)
  PROVE  Answered(r)'
<1>1. req[r].sess = r /\ tx[r].row \in Row /\ tx[r] \in Tx
  BY LockTypes DEF InsertBet, LocksProtectReads, Disciplined, FreshRow, StakeReserved, MayBet
<1>2. pc'[r] = "commit" /\ UNCHANGED req
  BY DEF InsertBet, Goto, TypeInv, TypeOK
<1>3. resp'[r].code = "OK" /\ resp'[r].sess = r /\ resp'[r].payout = None
  BY DEF InsertBet, Answer, TypeInv, TypeOK
<1>4. tx'[r].row = tx[r].row
  BY <1>1 DEF InsertBet, Tx, TypeInv, TypeOK
<1> QED BY <1>1, <1>2, <1>3, <1>4, NoneAssumption DEF Answered, Promises

LEMMA LockSessionAnswers ==
  ASSUME TypeInv, LocksProtectReads, AnswerInv, NEW r \in Reqs, LockSession(r)
  PROVE  Answered(r)'
<1> DEFINE q == req[r]
           row == sessions[q.sess]
<1>1. CASE Throw(r, "NotFound") \/ Throw(r, "Conflict")
  BY <1>1, ThrowAnswers DEF Codes
<1>2. CASE Goto(r, "engine")
  BY <1>2, GoesOn
<1>3. CASE /\ row # None /\ Owns(q, row) /\ ~IsActive(row) /\ UNCHANGED tx
           /\ Answer(r, [code |-> "OK", sess |-> q.sess, payout |-> row.payout,
                         replay |-> TRUE, balance |-> balance[q.user]])
           /\ Goto(r, "commit")
  <2>1. pc[r] = "lockSession" /\ UNCHANGED <<sessions, req>> /\ q.sess \in Reqs
        /\ row \in Row \cup {None}
    BY LockTypes DEF LockSession, db, TypeInv, TypeOK
  <2>2. tx'[r].row = None
    BY <1>3, <2>1 DEF LocksProtectReads, Disciplined, WritesNothing
  <2>3. /\ pc'[r] = "commit" /\ resp'[r].code = "OK" /\ resp'[r].sess = q.sess
        /\ resp'[r].payout = row.payout /\ resp'[r].replay = TRUE
    BY <1>3 DEF Goto, Answer, TypeInv, TypeOK
  <2>4. row.status = "SETTLED" /\ row.user = q.user
    BY <1>3, <2>1 DEF IsActive, Owns, Row
  <2>5. q.kind # "initiate"
    BY <2>1 DEF AnswerInv, Answered
  <2>6. Names(r)'
    BY <1>3, <2>1, <2>3, <2>4, <2>5 DEF Names
  <2> QED BY <2>2, <2>3, <2>6 DEF Answered, Promises
<1> QED BY <1>1, <1>2, <1>3 DEF LockSession

LEMMA EngineAnswers ==
  ASSUME TypeInv, NEW r \in Reqs, Engine(r)
  PROVE  Answered(r)'
<1>1. CASE Throw(r, "Validation")
  BY <1>1, ThrowAnswers DEF Codes
<1>2. CASE Goto(r, "payout")
  BY <1>2, GoesOn
<1>3. ASSUME NEW p \in Payouts, 
             tx' = [Snapshot(r) EXCEPT ![r].row.meta = [over |-> FALSE, pay |-> p]],
             Answer(r, [code |-> "OK", sess |-> req[r].sess, payout |-> None,
                        replay |-> FALSE, balance |-> None]),
             Goto(r, "commit")
      PROVE  Answered(r)'
  <2>1. pc[r] # "idle" /\ tx[r].row \in Row /\ UNCHANGED req
    BY DEF Engine, TypeInv, Shape, HasRow
  <2>2. PICK t \in Tx : tx' = [tx EXCEPT ![r] = t] /\ t.row \in Row
    <3>1. [over |-> FALSE, pay |-> p] \in Meta
      BY DEF Meta
    <3> QED BY <1>3, <2>1, <3>1, StepType
  <2>3. tx'[r].row # None
    BY <2>2, NoneAssumption DEF TypeInv, TypeOK
  <2>4. /\ pc'[r] = "commit" /\ resp'[r].code = "OK" /\ resp'[r].sess = req[r].sess
        /\ resp'[r].payout = None
    BY <1>3 DEF Goto, Answer, TypeInv, TypeOK
  <2> QED BY <2>1, <2>3, <2>4 DEF Answered, Promises
<1> QED BY <1>1, <1>2, <1>3 DEF Engine

LEMMA SettlementAnswers ==
  ASSUME TypeInv, NEW r \in Reqs, LockPayee(r) \/ Credit(r) \/ InsertPayout(r)
  PROVE  Answered(r)'
BY ThrowAnswers, GoesOn DEF LockPayee, Credit, InsertPayout, Codes

LEMMA CloseAnswers ==
  ASSUME TypeInv, NEW r \in Reqs, Close(r)
  PROVE  Answered(r)'
<1> DEFINE p == tx[r].row.meta.pay
<1>1. CASE Throw(r, "Conflict")
  BY <1>1, ThrowAnswers DEF Codes
<1>2. CASE /\ tx' = [tx EXCEPT ![r].row = Settled(tx[r].row, p)]
           /\ Answer(r, [code |-> "OK", sess |-> req[r].sess, payout |-> p,
                         replay |-> FALSE, balance |-> tx[r].seen])
           /\ Goto(r, "commit")
  <2>1. tx[r].row \in Row /\ tx[r] \in Tx /\ p \in Payouts /\ UNCHANGED req
    BY LockTypes DEF Close, TypeInv, Shape, HasRow, Row, Meta
  <2>2. /\ pc'[r] = "commit" /\ resp'[r].code = "OK" /\ resp'[r].sess = req[r].sess
        /\ resp'[r].payout = p
    BY <1>2 DEF Goto, Answer, TypeInv, TypeOK
  <2> DEFINE row == Settled(tx[r].row, p)
  <2>3. row \in Row /\ row.status = "SETTLED" /\ row.payout = p
    BY <2>1 DEF Settled, Row
  <2>4. tx'[r].row = row
    BY <1>2, <2>1 DEF Tx, TypeInv, TypeOK
  <2> HIDE DEF row, p
  <2> QED BY <2>1, <2>2, <2>3, <2>4, NoneAssumption DEF Answered, Promises
<1> QED BY <1>1, <1>2 DEF Close

\* When the commit is through, the promise is a fact of the tables.
LEMMA CommitAnswers ==
  ASSUME TypeInv, LocksProtectReads, AnswerInv, NEW r \in Reqs, Commit(r), [Next]_vars
  PROVE  Answered(r)'
<1>1. pc[r] = "commit" /\ pc'[r] \in {"board", "done"} /\ Apply(r) /\ Promises(r)
  BY DEF Commit, Goto, AnswerInv, Answered, TypeInv, TypeOK
<1>2. UNCHANGED <<req, resp>>
  BY DEF Commit
<1>3. CASE tx[r].row = None /\ Names(r)
  <2>1. Names(r)'
    BY <1>2, <1>3, NamesStand
  <2> QED BY <1>1, <1>2, <2>1 DEF Answered, Told, Promises
<1>4. CASE /\ tx[r].row # None /\ resp[r].sess = req[r].sess
           /\ resp[r].payout # None =>
                tx[r].row.status = "SETTLED" /\ tx[r].row.payout = resp[r].payout
  <2>1. sessions'[req[r].sess] = tx[r].row /\ req[r].sess \in Reqs
    BY <1>1, <1>4, Written, CommitRow DEF TypeInv, TypeOK
  <2>2. tx[r].row.user = req[r].user /\ (req[r].kind = "initiate" => tx[r].row.key = req[r].key)
    BY <1>1, <1>4, CommitRow
  <2>3. Names(r)'
    BY <1>2, <1>4, <2>1, <2>2 DEF Names
  <2> QED BY <1>1, <1>2, <2>3 DEF Answered, Told, Promises
<1> QED BY <1>1, <1>3, <1>4 DEF Promises

LEMMA RollbackAnswers ==
  ASSUME TypeInv, LocksProtectReads, AnswerInv, NEW r \in Reqs, Rollback(r), [Next]_vars
  PROVE  Answered(r)'
<1>1. pc[r] = "rollback" /\ UNCHANGED <<req, sessions>> /\ sessions[r] = None
  BY DEF Rollback, db, LocksProtectReads, Disciplined
<1>2. resp[r].code # "OK" /\ (resp[r].code = "Duplicate" => KeyTaken(req[r])')
  BY <1>1, KeysStayTaken DEF AnswerInv, Answered, KeyTaken, SessionsOf
<1>3. \/ pc'[r] = "backoff"
      \/ pc'[r] = "done" /\ resp'[r].code = "Internal"
      \/ pc'[r] = "done" /\ resp'[r].code = resp[r].code
      \/ pc'[r] = "replayRead" /\ resp[r].code = "Duplicate"
  BY DEF Rollback, Goto, Answer, ErrorOf, TypeInv, TypeOK
<1> QED BY <1>1, <1>2, <1>3 DEF Answered, Told

LEMMA ReplayReadAnswers ==
  ASSUME TypeInv, LocksProtectReads, NEW r \in Reqs, ReplayRead(r)
  PROVE  Answered(r)'
<1>1. pc[r] = "replayRead" /\ pc'[r] = "done" /\ UNCHANGED <<req, sessions>>
      /\ sessions[r] = None
  BY DEF ReplayRead, Goto, db, TypeInv, TypeOK, LocksProtectReads, Disciplined
<1>2. CASE Answer(r, ErrorOf("Conflict"))
  <2>1. resp'[r].code = "Conflict"
    BY <1>2 DEF Answer, ErrorOf, TypeInv, TypeOK
  <2> QED BY <1>1, <2>1 DEF Answered, Told
<1>3. ASSUME NEW s \in SessionsOf(req[r].user, req[r].key), Answer(r, ReplayOf(s))
      PROVE  Answered(r)'
  <2>1. resp'[r] = ReplayOf(s)
    BY <1>3 DEF Answer, TypeInv, TypeOK
  <2>2. Names(r)' /\ resp'[r].code = "OK"
    BY <1>1, <1>3, <2>1 DEF Names, ReplayOf, SessionsOf
  <2> QED BY <1>1, <2>2 DEF Answered, Told
<1> QED BY <1>2, <1>3 DEF ReplayRead

LEMMA EndAnswers ==
  ASSUME TypeInv, LocksProtectReads, AnswerInv, NEW r \in Reqs, [Next]_vars,
         \/ CommitAckLost(r) \/ PoolFails(r) \/ CreditBoard(r) \/ CreditBoardFails(r)
  PROVE  Answered(r)'
<1>1. CASE CommitAckLost(r) \/ PoolFails(r)
  <2>1. pc'[r] = "done" /\ resp'[r].code = "Internal"
    BY <1>1 DEF CommitAckLost, PoolFails, Goto, Answer, ErrorOf, TypeInv, TypeOK
  <2> QED BY <2>1 DEF Answered, Told
<1>2. CASE CreditBoard(r) \/ CreditBoardFails(r)
  <2>1. pc[r] = "board" /\ pc'[r] = "done" /\ UNCHANGED <<req, resp, sessions>>
    BY <1>2 DEF CreditBoard, CreditBoardFails, Goto, db, TypeInv, TypeOK
  <2>2. Told(r) => Told(r)'
    BY <2>1 DEF Told, Names
  <2> QED BY <2>1, <2>2 DEF AnswerInv, Answered
<1> QED BY <1>1, <1>2

LEMMA FailureAnswers ==
  ASSUME TypeInv, NEW r \in Reqs, LockWaitTimeout(r) \/ StatementFails(r)
  PROVE  Answered(r)'
BY ThrowAnswers DEF LockWaitTimeout, StatementFails, Codes

LEMMA CrashAnswers ==
  ASSUME TypeInv, AnswerInv, Crash
  PROVE  AnswerInv'
<1> SUFFICES ASSUME NEW r \in Reqs PROVE Answered(r)'
  BY DEF AnswerInv
<1>1. UNCHANGED <<sessions, req>>
  BY DEF Crash, db
<1>2. pc'[r] \in {"idle", "done"}
  BY DEF Crash, InFlight, TypeInv, TypeOK
<1>3. CASE InFlight(r)
  BY <1>2, <1>3 DEF Crash, Answered
<1>4. CASE ~InFlight(r)
  <2>1. pc'[r] = pc[r] /\ resp'[r] = resp[r]
    BY <1>4 DEF Crash, TypeInv, TypeOK
  <2>2. Told(r) => Told(r)'
    BY <1>1, <2>1 DEF Told, Names
  <2> QED BY <1>2, <2>1, <2>2 DEF AnswerInv, Answered
<1> QED BY <1>3, <1>4

LEMMA NextAnswers == TypeInv /\ LocksProtectReads /\ AnswerInv /\ [Next]_vars => AnswerInv'
<1> SUFFICES ASSUME TypeInv, LocksProtectReads, AnswerInv, [Next]_vars PROVE AnswerInv'
  OBVIOUS
<1>1. ASSUME NEW r \in Reqs, Handle(r) PROVE Answered(r)'
  BY <1>1, SubmitAnswers, ConnectAnswers, LookupAnswers, LockUserAnswers, InsertAnswers,
     InsertBetAnswers, LockSessionAnswers, EngineAnswers, SettlementAnswers, CloseAnswers,
     CommitAnswers, RollbackAnswers, ReplayReadAnswers, EndAnswers DEF Handle
<1>2. ASSUME NEW r \in Reqs, Fail(r) PROVE Answered(r)'
  BY <1>2, EndAnswers, FailureAnswers DEF Fail
<1>3. ASSUME NEW r \in Reqs,
             SubmitInitiate(r) \/ SubmitOnSession(r) \/ Handle(r) \/ Fail(r)
      PROVE  AnswerInv'
  <2> SUFFICES ASSUME NEW o \in Reqs PROVE Answered(o)'
    BY DEF AnswerInv
  <2>1. CASE o = r
    BY <1>1, <1>2, <1>3, <2>1, SubmitAnswers
  <2>2. CASE o # r
    BY <1>3, <2>2, OneMoves, AnswersStand DEF AnswerInv
  <2> QED BY <2>1, <2>2
<1>4. CASE UNCHANGED <<pc, tx, req, resp>>
  <2> SUFFICES ASSUME NEW o \in Reqs PROVE Answered(o)'
    BY DEF AnswerInv
  <2> QED BY <1>4, AnswersStand DEF AnswerInv
<1> QED BY <1>3, <1>4, CrashAnswers DEF Next, ChangeStatus, vars

LEMMA InitAnswers == Init => AnswerInv /\ KeysAreUnique
<1> SUFFICES ASSUME Init PROVE AnswerInv /\ KeysAreUnique
  OBVIOUS
<1>1. \A r \in Reqs : pc[r] = "idle" /\ sessions[r] = None
  BY DEF Init
<1> QED BY <1>1 DEF AnswerInv, Answered, KeysAreUnique, SessionsOf

\* What a client is told is what the tables say: a success names a session
\* of the caller, a payout is the one stored and stays so, and a refusal
\* (unlike a 500) charged nothing, now or later.
THEOREM AnswersHold == Spec => []AnswersAreTrue
<1>1. AnswerInv => AnswersAreTrue
  BY DEF AnswerInv, Answered, Told, Names, AnswersAreTrue
<1> QED BY <1>1, InitType, NextType, InitDiscipline, NextDiscipline, InitAnswers,
        NextAnswers, PTL DEF Spec

\* An idempotency key names one session of its user for every number of
\* requests, and each success of a request with the key is about it.
THEOREM KeysNameOneSession == Spec => []OneSessionPerKey
<1>1. AnswerInv /\ KeysAreUnique => OneSessionPerKey
  BY DEF AnswerInv, Answered, Told, Names, KeysAreUnique, OneSessionPerKey, SessionsOf
<1> QED BY <1>1, InitType, NextType, InitDiscipline, NextDiscipline, InitAnswers,
        NextAnswers, NextUnique, PTL DEF Spec

\* A duplicate key surfaces only once its winner has committed: the fresh
\* read of initiateGameSession always finds a session.
THEOREM DuplicatesAreFound == Spec => []DuplicateIsResolvable
<1>1. AnswerInv => DuplicateIsResolvable
  BY DEF AnswerInv, Answered, KeyTaken, DuplicateIsResolvable
<1> QED BY <1>1, InitType, NextType, InitDiscipline, NextDiscipline, InitAnswers,
        NextAnswers, PTL DEF Spec

---------------------------------------------------------------------------
(* The leaderboards are told of a win once.                                 *)

OnBoard(r, s) == pc[r] = "board" /\ resp[r].sess = s
Uncounted(r) ==
  resp[r].sess \in Reqs /\ IsWin(resp[r].sess) /\ credited[resp[r].sess] = 0
BoardInv ==
  /\ BoardNeverOvercounts
  /\ \A r \in Reqs : pc[r] = "board" => Uncounted(r)
  /\ \A r, o \in Reqs, s \in Reqs : OnBoard(r, s) /\ OnBoard(o, s) => r = o

LEMMA WinsStay ==
  ASSUME TypeInv, LocksProtectReads, [Next]_vars, NEW s \in Reqs, IsWin(s)
  PROVE  IsWin(s)'
<1>1. sessions'[s] = sessions[s]
  BY SessionsGrow DEF IsWin
<1> QED BY <1>1 DEF IsWin

\* A step after which nobody new is on the way to the leaderboards.
LEMMA BoardStands ==
  ASSUME TypeInv, LocksProtectReads, BoardInv, [Next]_vars, UNCHANGED credited,
         \A o \in Reqs : pc'[o] = "board" => pc[o] = "board" /\ resp'[o] = resp[o]
  PROVE  BoardInv'
BY WinsStay DEF BoardInv, BoardNeverOvercounts, OnBoard, Uncounted

\* Who enters the leaderboards' queue has just closed an active session.
LEMMA FreshWin ==
  ASSUME TypeInv, LocksProtectReads, AnswerInv, NEW r \in Reqs, Commit(r), Fresh(r)
  PROVE  /\ resp[r].sess \in Reqs /\ ~IsWin(resp[r].sess) /\ IsWin(resp[r].sess)'
         /\ resp' = resp /\ credited' = credited
<1>1. pc[r] = "commit" /\ Apply(r) /\ Promises(r) /\ UNCHANGED <<resp, credited>>
  BY DEF Commit, AnswerInv, Answered
<1>2. /\ tx[r].row # None /\ resp[r].sess = req[r].sess
      /\ tx[r].row.status = "SETTLED" /\ tx[r].row.payout # 0
  BY <1>1 DEF Promises, Fresh
<1>3. sessions'[req[r].sess] = tx[r].row /\ req[r].sess \in Reqs
  BY <1>1, <1>2, Written, CommitRow DEF TypeInv, TypeOK
<1>4. Plays(r)
  BY <1>1, <1>2, CommitRow
<1> QED BY <1>1, <1>2, <1>3, <1>4 DEF IsWin, Plays

LEMMA CommitBoard ==
  ASSUME TypeInv, LocksProtectReads, AnswerInv, BoardInv, [Next]_vars,
         NEW r \in Reqs, Commit(r)
  PROVE  BoardInv'
<1>1. \A o \in Reqs \ {r} : pc'[o] = pc[o]
  BY DEF Commit, Goto, TypeInv, TypeOK
<1>2. UNCHANGED <<resp, credited>>
  BY DEF Commit
<1>3. CASE ~Fresh(r)
  <2>1. pc'[r] = "done"
    BY <1>3 DEF Commit, Goto, TypeInv, TypeOK
  <2> QED BY <1>1, <1>2, <2>1, BoardStands
<1>4. CASE Fresh(r)
  <2> DEFINE s == resp[r].sess
  <2>1. s \in Reqs /\ ~IsWin(s) /\ IsWin(s)'
    BY <1>4, FreshWin
  <2>2. credited[s] = 0 /\ \A o \in Reqs : ~OnBoard(o, s)
    BY <2>1 DEF BoardInv, BoardNeverOvercounts, OnBoard, Uncounted
  <2>3. BoardNeverOvercounts'
    <3> SUFFICES ASSUME NEW x \in Reqs
                 PROVE  credited'[x] = 0 \/ (credited'[x] = 1 /\ IsWin(x)')
      BY DEF BoardNeverOvercounts
    <3> QED BY <1>2, WinsStay DEF BoardInv, BoardNeverOvercounts
  <2>4. \A o \in Reqs : pc'[o] = "board" => Uncounted(o)'
    <3> SUFFICES ASSUME NEW o \in Reqs, pc'[o] = "board" PROVE Uncounted(o)'
      OBVIOUS
    <3>1. CASE o = r
      BY <1>2, <2>1, <2>2, <3>1 DEF Uncounted
    <3>2. CASE o # r
      <4>1. Uncounted(o)
        BY <1>1, <3>2 DEF BoardInv
      <4> QED BY <1>2, <4>1, WinsStay DEF Uncounted
    <3> QED BY <3>1, <3>2
  <2>5. \A o, p \in Reqs, x \in Reqs : OnBoard(o, x)' /\ OnBoard(p, x)' => o = p
    <3>1. \A o \in Reqs \ {r}, x \in Reqs : OnBoard(o, x)' => OnBoard(o, x) /\ x # s
      BY <1>1, <1>2, <2>2 DEF OnBoard
    <3>2. \A x \in Reqs : OnBoard(r, x)' => x = s
      BY <1>2 DEF OnBoard
    <3> HIDE DEF s
    <3> QED BY <3>1, <3>2 DEF BoardInv
  <2> QED BY <2>3, <2>4, <2>5 DEF BoardInv
<1> QED BY <1>3, <1>4

LEMMA CreditKeepsBoard ==
  ASSUME TypeInv, LocksProtectReads, BoardInv, NEW r \in Reqs, CreditBoard(r)
  PROVE  BoardInv'
<1> DEFINE s == resp[r].sess
<1>1. /\ pc[r] = "board" /\ pc'[r] = "done" /\ UNCHANGED <<resp, sessions>>
      /\ \A o \in Reqs \ {r} : pc'[o] = pc[o]
  BY DEF CreditBoard, Goto, db, TypeInv, TypeOK
<1>2. s \in Reqs /\ IsWin(s) /\ credited[s] = 0 /\ OnBoard(r, s)
  BY <1>1 DEF BoardInv, OnBoard, Uncounted
<1>3. credited'[s] = 1 /\ \A x \in Reqs \ {s} : credited'[x] = credited[x]
  BY <1>2 DEF CreditBoard, TypeInv, TypeOK
<1>4. \A x \in Reqs : IsWin(x)' = IsWin(x)
  BY <1>1 DEF IsWin
<1>5. \A o \in Reqs, x \in Reqs : OnBoard(o, x)' => OnBoard(o, x) /\ x # s
  BY <1>1, <1>2 DEF OnBoard, BoardInv
<1>6. BoardNeverOvercounts'
  BY <1>2, <1>3, <1>4 DEF BoardInv, BoardNeverOvercounts
<1>7. \A o \in Reqs : pc'[o] = "board" => Uncounted(o)'
  <2> SUFFICES ASSUME NEW o \in Reqs, pc'[o] = "board" PROVE Uncounted(o)'
    OBVIOUS
  <2>1. pc[o] = "board" /\ Uncounted(o)
    BY <1>1 DEF BoardInv
  <2>2. OnBoard(o, resp[o].sess)'
    BY <1>1 DEF OnBoard
  <2>3. resp[o].sess # s
    BY <1>1, <1>5, <2>1, <2>2 DEF Uncounted
  <2> HIDE DEF s
  <2> QED BY <1>1, <1>3, <1>4, <2>1, <2>3 DEF Uncounted
<1> HIDE DEF s
<1> QED BY <1>5, <1>6, <1>7 DEF BoardInv

\* No other step touches the leaderboards or begins to.
LEMMA OthersKeepBoard ==
  ASSUME TypeInv, NEW r \in Reqs,
         SubmitInitiate(r) \/ SubmitOnSession(r) \/ Handle(r) \/ Fail(r),
         ~Commit(r), ~CreditBoard(r)
  PROVE  pc'[r] # "board" /\ UNCHANGED credited
<1> USE DEF TypeInv, TypeOK, Goto, Throw
<1>1. CASE SubmitInitiate(r) \/ SubmitOnSession(r) \/ Connect(r) \/ Lookup(r)
  BY <1>1 DEF SubmitInitiate, SubmitOnSession, Submit, Connect, Lookup
<1>2. CASE LockUser(r) \/ Debit(r) \/ InsertSession(r) \/ InsertBet(r) \/ LockSession(r)
  BY <1>2 DEF LockUser, Debit, InsertSession, InsertBet, LockSession
<1>3. CASE Engine(r) \/ LockPayee(r) \/ Credit(r) \/ InsertPayout(r) \/ Close(r)
  BY <1>3 DEF Engine, LockPayee, Credit, InsertPayout, Close
<1>4. CASE Rollback(r) \/ Retry(r) \/ ReplayRead(r) \/ CommitAckLost(r)
  BY <1>4 DEF Rollback, Retry, ReplayRead, CommitAckLost
<1>5. CASE CreditBoardFails(r) \/ LockWaitTimeout(r) \/ PoolFails(r) \/ StatementFails(r)
  BY <1>5 DEF CreditBoardFails, LockWaitTimeout, PoolFails, StatementFails
<1> QED BY <1>1, <1>2, <1>3, <1>4, <1>5 DEF Handle, Fail

LEMMA NextBoard ==
  TypeInv /\ LocksProtectReads /\ AnswerInv /\ BoardInv /\ [Next]_vars => BoardInv'
<1> SUFFICES ASSUME TypeInv, LocksProtectReads, AnswerInv, BoardInv, [Next]_vars
             PROVE  BoardInv'
  OBVIOUS
<1>1. ASSUME NEW r \in Reqs,
             SubmitInitiate(r) \/ SubmitOnSession(r) \/ Handle(r) \/ Fail(r)
      PROVE  BoardInv'
  <2>1. CASE Commit(r)
    BY <2>1, CommitBoard
  <2>2. CASE CreditBoard(r)
    BY <2>2, CreditKeepsBoard
  <2>3. CASE ~Commit(r) /\ ~CreditBoard(r)
    <3>1. pc'[r] # "board" /\ UNCHANGED credited
      BY <1>1, <2>3, OthersKeepBoard
    <3>2. \A o \in Reqs \ {r} : pc'[o] = pc[o] /\ resp'[o] = resp[o]
      BY <1>1, OneMoves
    <3> QED BY <3>1, <3>2, BoardStands
  <2> QED BY <2>1, <2>2, <2>3
<1>2. CASE Crash
  <2>1. UNCHANGED credited /\ \A o \in Reqs : pc'[o] # "board"
    BY <1>2 DEF Crash, InFlight
  <2> QED BY <2>1, BoardStands
<1>3. CASE UNCHANGED <<pc, resp, credited>>
  BY <1>3, BoardStands
<1> QED BY <1>1, <1>2, <1>3 DEF Next, ChangeStatus, vars

\* The leaderboards never receive more than the ledger paid: one increment
\* per settled win at most, however often and by whomever it is settled.
THEOREM BoardCountsOnce == Spec => []BoardNeverOvercounts
<1>1. Init => BoardInv
  BY DEF Init, BoardInv, BoardNeverOvercounts, OnBoard
<1>2. BoardInv => BoardNeverOvercounts
  BY DEF BoardInv
<1> QED BY <1>1, <1>2, InitType, NextType, InitDiscipline, NextDiscipline, InitAnswers,
        NextAnswers, NextBoard, PTL DEF Spec

---------------------------------------------------------------------------
(* The ledger has exactly the rows the sessions call for.                   *)

\* One row more at the end of an account's ledger.
LEMMA Appended ==
  ASSUME NEW v \in Users, NEW e \in Entry, ledger \in [Users -> Seq(Entry)],
         ledger' = [ledger EXCEPT ![v] = Append(ledger[v], e)]
  PROVE  /\ \A u \in Users \ {v} : ledger'[u] = ledger[u]
         /\ Len(ledger[v]) \in Nat /\ Len(ledger'[v]) = Len(ledger[v]) + 1
         /\ ledger'[v][Len(ledger[v]) + 1] = e
         /\ \A i \in 1 .. Len(ledger[v]) : ledger'[v][i] = ledger[v][i]
         /\ \A u \in Users : 1 .. Len(ledger[u]) \subseteq 1 .. Len(ledger'[u])
         /\ \A u \in Users : \A i \in 1 .. Len(ledger[u]) : ledger'[u][i] = ledger[u][i]
         /\ \A u \in Users : \A i \in 1 .. Len(ledger'[u]) :
              i \in 1 .. Len(ledger[u]) \/ (u = v /\ i = Len(ledger[v]) + 1)
<1>1. /\ \A u \in Users \ {v} : ledger'[u] = ledger[u]
      /\ ledger'[v] = Append(ledger[v], e) /\ ledger[v] \in Seq(Entry)
  OBVIOUS
<1>2. /\ Len(ledger[v]) \in Nat /\ Len(ledger'[v]) = Len(ledger[v]) + 1
      /\ ledger'[v][Len(ledger[v]) + 1] = e
      /\ \A i \in 1 .. Len(ledger[v]) : ledger'[v][i] = ledger[v][i]
  BY <1>1
<1>3. \A u \in Users : 1 .. Len(ledger[u]) \subseteq 1 .. Len(ledger'[u])
  BY <1>1, <1>2
<1>4. \A u \in Users : \A i \in 1 .. Len(ledger[u]) : ledger'[u][i] = ledger[u][i]
  BY <1>1, <1>2
<1>5. \A u \in Users : \A i \in 1 .. Len(ledger'[u]) :
        i \in 1 .. Len(ledger[u]) \/ (u = v /\ i = Len(ledger[v]) + 1)
  BY <1>1, <1>2
<1> QED BY <1>1, <1>2, <1>3, <1>4, <1>5

\* A row that is new is booked; what was booked stays, the rest stays away.
LEMMA BooksOneRow ==
  ASSUME NEW v \in Users, NEW e \in Entry, ledger \in [Users -> Seq(Entry)],
         ledger' = [ledger EXCEPT ![v] = Append(ledger[v], e)],
         NeverTwice, NotBooked(e.reason, e.sess)
  PROVE  /\ NeverTwice'
         /\ Booked(e.reason, e.sess, v, e.amount)'
         /\ \A reason, s, amount : \A u \in Users :
              Booked(reason, s, u, amount) => Booked(reason, s, u, amount)'
         /\ \A reason, s : /\ NotBooked(reason, s)
                           /\ reason # e.reason \/ s # e.sess
                           => NotBooked(reason, s)'
<1> DEFINE n == Len(ledger[v])
<1>1. /\ \A u \in Users \ {v} : ledger'[u] = ledger[u]
      /\ n \in Nat /\ Len(ledger'[v]) = n + 1 /\ ledger'[v][n + 1] = e
      /\ \A u \in Users : 1 .. Len(ledger[u]) \subseteq 1 .. Len(ledger'[u])
      /\ \A u \in Users : \A i \in 1 .. Len(ledger[u]) : ledger'[u][i] = ledger[u][i]
      /\ \A u \in Users : \A i \in 1 .. Len(ledger'[u]) :
           i \in 1 .. Len(ledger[u]) \/ (u = v /\ i = n + 1)
  BY Appended
<1>2. n + 1 \in 1 .. Len(ledger'[v])
  BY <1>1
<1> HIDE DEF n
<1>3. Booked(e.reason, e.sess, v, e.amount)'
  BY <1>1, <1>2 DEF Booked
<1>4. ASSUME NEW reason, NEW s, NEW amount, NEW u \in Users, Booked(reason, s, u, amount)
      PROVE  Booked(reason, s, u, amount)'
  <2>1. PICK i \in 1 .. Len(ledger[u]) :
          /\ ledger[u][i].reason = reason /\ ledger[u][i].sess = s
          /\ ledger[u][i].amount = amount
    BY <1>4 DEF Booked
  <2>2. i \in 1 .. Len(ledger'[u]) /\ ledger'[u][i] = ledger[u][i]
    BY <1>1
  <2> QED BY <2>1, <2>2 DEF Booked
<1>5. ASSUME NEW reason, NEW s, NotBooked(reason, s), reason # e.reason \/ s # e.sess
      PROVE  NotBooked(reason, s)'
  BY <1>1, <1>5 DEF NotBooked
<1>6. NeverTwice'
  <2> SUFFICES ASSUME NEW u \in Users,
                      NEW i \in 1 .. Len(ledger'[u]), NEW j \in 1 .. Len(ledger'[u]),
                      ledger'[u][i].reason = ledger'[u][j].reason,
                      ledger'[u][i].sess = ledger'[u][j].sess
               PROVE  i = j
    BY DEF NeverTwice
  <2>1. CASE i \in 1 .. Len(ledger[u]) /\ j \in 1 .. Len(ledger[u])
    BY <1>1, <2>1 DEF NeverTwice
  <2>2. CASE i \in 1 .. Len(ledger[u]) /\ u = v /\ j = n + 1
    BY <1>1, <2>2 DEF NotBooked
  <2>3. CASE j \in 1 .. Len(ledger[u]) /\ u = v /\ i = n + 1
    BY <1>1, <2>3 DEF NotBooked
  <2> QED BY <1>1, <2>1, <2>2, <2>3
<1> QED BY <1>3, <1>4, <1>5, <1>6

LEMMA BooksStand ==
  ASSUME UNCHANGED <<sessions, ledger>>, LedgerMatchesSessions
  PROVE  LedgerMatchesSessions'
BY DEF LedgerMatchesSessions, NeverTwice, NotBooked, Booked, IsWin

\* What a session's rows are, given its own state.
Accounted(s) ==
  /\ IF sessions[s] = None THEN NotBooked("GAME_BET", s)
     ELSE Booked("GAME_BET", s, sessions[s].user, -sessions[s].bet)
  /\ IF IsWin(s)
     THEN Booked("GAME_PAYOUT", s, sessions[s].user, sessions[s].payout)
     ELSE NotBooked("GAME_PAYOUT", s)

\* A commit that books e for the session x leaves the others accounted.
LEMMA OthersAccounted ==
  ASSUME TypeInv, NEW x \in Reqs, NEW s \in Reqs \ {x}, Accounted(s),
         sessions'[s] = sessions[s],
         \A reason, amount : \A u \in Users :
           Booked(reason, s, u, amount) => Booked(reason, s, u, amount)',
         \A reason : NotBooked(reason, s) => NotBooked(reason, s)'
  PROVE  Accounted(s)'
<1>1. sessions[s] # None => sessions[s].user \in Users
  BY DEF TypeInv, TypeOK, Row
<1>2. IsWin(s)' = IsWin(s)
  BY DEF IsWin
<1> QED BY <1>1, <1>2 DEF Accounted, IsWin

\* A bet with its new session, or a payout with the closing of its session.
LEMMA RowAndSession ==
  ASSUME TypeInv, LedgerMatchesSessions, NEW u \in Users, NEW x \in Reqs,
         NEW e \in Entry, NEW row \in Row, e.sess = x, row.user = u,
         ledger' = [ledger EXCEPT ![u] = Append(ledger[u], e)],
         sessions' = [sessions EXCEPT ![x] = row],
         \/ /\ sessions[x] = None /\ row.status = "ACTIVE"
            /\ e.reason = "GAME_BET" /\ e.amount = -row.bet
         \/ /\ sessions[x] # None /\ sessions[x].status = "ACTIVE"
            /\ sessions[x].user = u /\ sessions[x].bet = row.bet
            /\ row.status = "SETTLED" /\ row.payout # 0
            /\ e.reason = "GAME_PAYOUT" /\ e.amount = row.payout
  PROVE  LedgerMatchesSessions'
<1>1. /\ sessions'[x] = row /\ row # None
      /\ \A s \in Reqs \ {x} : sessions'[s] = sessions[s]
      /\ ledger \in [Users -> Seq(Entry)]
  BY NoneAssumption DEF TypeInv, TypeOK
<1>2. NeverTwice /\ \A s \in Reqs : Accounted(s)
  BY DEF LedgerMatchesSessions, Accounted
<1>3. NotBooked("GAME_PAYOUT", x) /\ NotBooked(e.reason, e.sess)
  BY <1>2 DEF Accounted, IsWin
<1>4. /\ NeverTwice' /\ Booked(e.reason, e.sess, u, e.amount)'
      /\ \A reason, s, amount : \A w \in Users :
           Booked(reason, s, w, amount) => Booked(reason, s, w, amount)'
      /\ \A reason, s : NotBooked(reason, s) /\ (reason # e.reason \/ s # e.sess)
           => NotBooked(reason, s)'
  BY <1>1, <1>2, <1>3, BooksOneRow
<1>5. Accounted(x)'
  <2>1. CASE sessions[x] = None
    <3>1. ~IsWin(x)' /\ NotBooked("GAME_PAYOUT", x)'
      BY <1>1, <1>3, <1>4, <2>1 DEF IsWin
    <3> QED BY <1>1, <1>4, <2>1, <3>1 DEF Accounted
  <2>2. CASE sessions[x] # None
    <3>1. Booked("GAME_BET", x, u, -row.bet)
      BY <1>2, <2>2 DEF Accounted
    <3> QED BY <1>1, <1>4, <2>2, <3>1 DEF Accounted, IsWin
  <2> QED BY <2>1, <2>2
<1>6. ASSUME NEW s \in Reqs \ {x} PROVE Accounted(s)'
  BY <1>1, <1>2, <1>4, OthersAccounted
<1> QED BY <1>4, <1>5, <1>6 DEF LedgerMatchesSessions, Accounted

\* A session that goes on, or closes without a payout, books nothing.
LEMMA SessionAlone ==
  ASSUME TypeInv, LedgerMatchesSessions, NEW x \in Reqs, NEW row \in Row,
         UNCHANGED ledger, sessions' = [sessions EXCEPT ![x] = row],
         sessions[x] # None, sessions[x].status = "ACTIVE",
         row.user = sessions[x].user, row.bet = sessions[x].bet,
         row.status = "ACTIVE" \/ row.payout = 0
  PROVE  LedgerMatchesSessions'
<1>1. /\ sessions'[x] = row /\ row # None
      /\ \A s \in Reqs \ {x} : sessions'[s] = sessions[s]
  BY NoneAssumption DEF TypeInv, TypeOK
<1>2. NeverTwice /\ \A s \in Reqs : Accounted(s)
  BY DEF LedgerMatchesSessions, Accounted
<1>3. /\ NeverTwice' = NeverTwice
      /\ \A reason, s, u, amount : Booked(reason, s, u, amount)' = Booked(reason, s, u, amount)
      /\ \A reason, s : NotBooked(reason, s)' = NotBooked(reason, s)
  BY DEF NeverTwice, Booked, NotBooked
<1>4. ~IsWin(x) /\ ~IsWin(x)'
  BY <1>1 DEF IsWin
<1>5. Accounted(x)'
  BY <1>1, <1>2, <1>3, <1>4 DEF Accounted
<1>6. ASSUME NEW s \in Reqs \ {x} PROVE Accounted(s)'
  BY <1>1, <1>2, <1>3, OthersAccounted
<1> QED BY <1>2, <1>3, <1>5, <1>6 DEF LedgerMatchesSessions, Accounted

LEMMA CommitBooks ==
  ASSUME TypeInv, LocksProtectReads, LedgerMatchesSessions,
         NEW r \in Reqs, pc[r] = "commit", Apply(r)
  PROVE  LedgerMatchesSessions'
<1>1. PICK u \in Users, x \in Reqs : u = req[r].user /\ x = req[r].sess
  BY CommitCases
<1>2. /\ tx[r].entry = None => UNCHANGED ledger
      /\ tx[r].entry # None => ledger' = [ledger EXCEPT ![u] = Append(ledger[u], tx[r].entry)]
      /\ tx[r].row = None => UNCHANGED sessions
      /\ tx[r].row # None => sessions' = [sessions EXCEPT ![x] = tx[r].row]
  BY <1>1, Written
<1>3. CASE WritesNothing(r)
  BY <1>2, <1>3, BooksStand DEF WritesNothing
<1>4. CASE CommitsBet(r) /\ x = r
  <2>1. PICK row \in Row : row = tx[r].row
    BY <1>4 DEF CommitsBet, FreshRow
  <2>2. row.user = u /\ row.bet = req[r].bet /\ row.status = "ACTIVE" /\ sessions[x] = None
    BY <1>1, <1>4, <2>1, CommitCases DEF CommitsBet, FreshRow
  <2>3. tx[r].entry = [reason |-> "GAME_BET", sess |-> r, amount |-> -req[r].bet,
                       after |-> tx[r].seen - req[r].bet]
    BY <1>4 DEF CommitsBet
  <2>4. PICK e \in Entry : e = tx[r].entry
    BY <2>3, LockTypes DEF Entry
  <2>5. e.reason = "GAME_BET" /\ e.sess = x /\ e.amount = -row.bet
    BY <1>4, <2>2, <2>3, <2>4
  <2> QED BY <1>2, <2>1, <2>2, <2>4, <2>5, RowAndSession, NoneAssumption
<1>5. CASE CommitsStep(r)
  <2>1. PICK row \in Row : row = tx[r].row
    BY <1>5 DEF CommitsStep, Plays
  <2>2. /\ sessions[x] # None /\ sessions[x].status = "ACTIVE" /\ row.status = "ACTIVE"
        /\ row.user = sessions[x].user /\ row.bet = sessions[x].bet /\ tx[r].entry = None
    BY <1>1, <1>5, <2>1 DEF CommitsStep, Plays, StillActive
  <2> QED BY <1>2, <2>1, <2>2, SessionAlone, NoneAssumption
<1>6. CASE CommitsSettlement(r)
  <2>1. PICK row \in Row : row = tx[r].row
    BY <1>6 DEF CommitsSettlement, Plays
  <2>2. /\ sessions[x] # None /\ sessions[x].status = "ACTIVE" /\ row.status = "SETTLED"
        /\ row.user = sessions[x].user /\ row.bet = sessions[x].bet /\ sessions[x].user = u
    BY <1>1, <1>6, <2>1 DEF CommitsSettlement, Plays
  <2>3. CASE row.payout = 0 /\ tx[r].entry = None
    BY <1>2, <2>1, <2>2, <2>3, SessionAlone, NoneAssumption
  <2>4. CASE Pays(r, row.payout) /\ tx[r].entry = PayoutRow(r, row.payout)
    <3>1. row.payout \in 1 .. MaxPayout
      BY <2>4 DEF Pays
    <3>2. PICK e \in Entry : e = tx[r].entry
      BY <1>1, <2>4, <3>1, LockTypes, ConstantsAssumption DEF PayoutRow, Entry
    <3>3. e.reason = "GAME_PAYOUT" /\ e.sess = x /\ e.amount = row.payout
      BY <1>1, <2>4, <3>2 DEF PayoutRow
    <3>4. row.payout # 0
      BY <3>1
    <3> QED BY <1>2, <2>1, <2>2, <3>2, <3>3, <3>4, RowAndSession, NoneAssumption
  <2> QED BY <1>6, <2>1, <2>3, <2>4 DEF CommitsSettlement
<1> QED BY <1>1, <1>3, <1>4, <1>5, <1>6, CommitCases

LEMMA NextBooks ==
  TypeInv /\ LocksProtectReads /\ LedgerMatchesSessions /\ [Next]_vars
    => LedgerMatchesSessions'
BY TableSteps, CommitBooks, BooksStand DEF db, ChangeStatus

\* Debit, session and ledger row exist together or not at all, once each,
\* whatever failed, was retried or crashed in between: every session has its
\* bet row, every settled win its payout row, and there is no other game row.
THEOREM LedgerAndSessionsAgree == Spec => []LedgerMatchesSessions
<1>1. Init => LedgerMatchesSessions
  BY DEF Init, LedgerMatchesSessions, NeverTwice, NotBooked, IsWin
<1> QED BY <1>1, InitType, NextType, InitDiscipline, NextDiscipline, NextBooks, PTL DEF Spec

---------------------------------------------------------------------------
(* A balance in an answer was once the balance of the account.              *)

Existed(u, x) == \E i \in 1 .. Len(ledger[u]) + 1 : x = BalanceBefore(u, i)

LEMMA NowExists ==
  ASSUME TypeInv, BalanceChain, NEW u \in Users
  PROVE  Existed(u, balance[u])
<1>1. Len(ledger[u]) \in Nat
  BY DEF TypeInv, TypeOK
<1> QED BY <1>1 DEF BalanceChain, Existed

LEMMA EntryExists ==
  ASSUME TypeInv, NEW u \in Users, NEW e \in Entry,
         ledger' = [ledger EXCEPT ![u] = Append(ledger[u], e)]
  PROVE  Existed(u, e.after)'
<1>1. PICK n \in Nat : n = Len(ledger[u])
  BY DEF TypeInv, TypeOK
<1>2. Len(ledger'[u]) = n + 1 /\ ledger'[u][n + 1] = e
  BY <1>1, Appended DEF TypeInv, TypeOK
<1>3. n + 2 \in 1 .. Len(ledger'[u]) + 1 /\ n + 2 # 1 /\ n + 2 - 1 = n + 1
  BY <1>2
<1>4. BalanceBefore(u, n + 2)' = e.after
  BY <1>2, <1>3 DEF BalanceBefore
<1> QED BY <1>3, <1>4 DEF Existed

\* The ledger only grows, so a balance that existed has existed ever since.
LEMMA ExistedForever ==
  ASSUME TypeInv, LocksProtectReads, [Next]_vars, NEW u \in Users, NEW x, Existed(u, x)
  PROVE  Existed(u, x)'
<1>1. CASE UNCHANGED ledger
  BY <1>1 DEF Existed, BalanceBefore
<1>2. ASSUME NEW v \in Users, NEW e \in Entry,
             ledger' = [ledger EXCEPT ![v] = Append(ledger[v], e)]
      PROVE  Existed(u, x)'
  <2>1. PICK i \in 1 .. Len(ledger[u]) + 1 : x = BalanceBefore(u, i)
    BY DEF Existed
  <2>2. /\ Len(ledger[u]) \in Nat /\ Len(ledger'[u]) \in Nat
        /\ \A j \in 1 .. Len(ledger[u]) : ledger'[u][j] = ledger[u][j]
        /\ Len(ledger[u]) <= Len(ledger'[u])
    <3>1. CASE u = v
      BY <1>2, <3>1, Appended DEF TypeInv, TypeOK
    <3>2. CASE u # v
      BY <1>2, <3>2, Appended DEF TypeInv, TypeOK
    <3> QED BY <3>1, <3>2
  <2>3. i \in 1 .. Len(ledger'[u]) + 1
    BY <2>2
  <2>4. BalanceBefore(u, i)' = BalanceBefore(u, i)
    <3>1. i # 1 => i - 1 \in 1 .. Len(ledger[u])
      BY <2>2
    <3> QED BY <2>2, <3>1 DEF BalanceBefore
  <2> QED BY <2>1, <2>3, <2>4 DEF Existed
<1>3. ASSUME NEW r \in Reqs, pc[r] = "commit", Apply(r) PROVE Existed(u, x)'
  <2>1. tx[r].entry \in Entry \cup {None} /\ req[r].user \in Users
    BY <1>3, LockTypes DEF Tx
  <2> QED BY <1>1, <1>2, <1>3, <2>1, Written
<1> QED BY <1>1, <1>3, TableSteps DEF db, ChangeStatus

\* What a request has read and will report, statement by statement.
ReadsExisted(r) ==
  /\ pc[r] = "payout" => Existed(req[r].user, tx[r].seen)
  /\ pc[r] = "close" /\ tx[r].entry = None => Existed(req[r].user, tx[r].seen)
  /\ pc[r] = "rollback" => resp[r].balance = None
  /\ pc[r] = "commit" /\ resp[r].balance # None =>
       \/ Existed(req[r].user, resp[r].balance)
       \/ tx[r].entry # None /\ tx[r].entry.after = resp[r].balance
  /\ pc[r] \in {"board", "done"} /\ resp[r] # None /\ resp[r].balance # None =>
       Existed(req[r].user, resp[r].balance)
ReadsInv == \A r \in Reqs : ReadsExisted(r)
Economics == TypeInv /\ LocksProtectReads /\ BalanceChain

LEMMA ReadsStand ==
  ASSUME Economics, [Next]_vars, NEW o \in Reqs, ReadsExisted(o),
         pc'[o] = pc[o], tx'[o] = tx[o], req'[o] = req[o], resp'[o] = resp[o]
  PROVE  ReadsExisted(o)'
<1>1. CASE pc[o] = "idle"
  BY <1>1 DEF ReadsExisted
<1>2. CASE pc[o] # "idle"
  <2>1. PICK u \in Users : u = req[o].user
    BY <1>2, LockTypes DEF Economics
  <2>2. \A x : Existed(u, x) => Existed(u, x)'
    BY ExistedForever DEF Economics
  <2> QED BY <2>1, <2>2 DEF ReadsExisted
<1> QED BY <1>1, <1>2

LEMMA QuietReads ==
  ASSUME TypeInv, NEW r \in Reqs,
         NEW l \in {"connect", "lookup", "lockUser", "lockSession", "debit", "insertSession",
                    "insertBet", "engine", "credit", "insertPayout", "backoff", "replayRead"},
         Goto(r, l)
  PROVE  ReadsExisted(r)'
BY DEF ReadsExisted, Goto, TypeInv, TypeOK

\* An answer without a balance.
LEMMA NoBalance ==
  ASSUME TypeInv, NEW r \in Reqs, NEW l \in {"rollback", "commit", "done"}, Goto(r, l),
         NEW a, Answer(r, a), a.balance = None
  PROVE  ReadsExisted(r)'
BY DEF ReadsExisted, Goto, Answer, TypeInv, TypeOK

LEMMA ThrowReads ==
  ASSUME TypeInv, NEW r \in Reqs, NEW c, Throw(r, c)
  PROVE  ReadsExisted(r)'
BY NoBalance DEF Throw, ErrorOf

LEMMA EarlyReads ==
  ASSUME TypeInv, NEW r \in Reqs,
         \/ SubmitInitiate(r) \/ SubmitOnSession(r) \/ Connect(r) \/ Lookup(r) \/ LockUser(r)
         \/ Debit(r) \/ InsertSession(r) \/ Credit(r) \/ Retry(r)
         \/ LockWaitTimeout(r) \/ StatementFails(r)
  PROVE  ReadsExisted(r)'
<1>1. CASE Lookup(r)
  BY <1>1, ThrowReads, QuietReads, NoBalance DEF Lookup, ReplayOf
<1>2. CASE SubmitInitiate(r) \/ SubmitOnSession(r) \/ Connect(r) \/ Credit(r) \/ Retry(r)
  BY <1>2, QuietReads DEF SubmitInitiate, SubmitOnSession, Submit, Connect, Credit, Retry
<1>3. CASE LockUser(r) \/ Debit(r) \/ InsertSession(r) \/ LockWaitTimeout(r) \/ StatementFails(r)
  BY <1>3, ThrowReads, QuietReads DEF LockUser, Debit, InsertSession, LockWaitTimeout,
     StatementFails
<1> QED BY <1>1, <1>2, <1>3

LEMMA InsertReads ==
  ASSUME TypeInv, NEW r \in Reqs, InsertBet(r) \/ InsertPayout(r)
  PROVE  ReadsExisted(r)'
<1>1. tx[r] \in Tx /\ tx[r].seen \in Int /\ pc[r] # "idle"
  BY LockTypes DEF InsertBet, InsertPayout
<1>2. CASE InsertBet(r)
  <2> DEFINE after == BalanceAfterBet(r)
             e == [reason |-> "GAME_BET", sess |-> r, amount |-> -req[r].bet, after |-> after]
  <2>1. after \in Int /\ req[r].bet \in Nat
    BY <1>1, LockTypes DEF BalanceAfterBet
  <2>2. e \in Entry /\ e.after = after
    BY <2>1 DEF Entry
  <2>3. /\ pc'[r] = "commit" /\ tx'[r] = [tx[r] EXCEPT !.entry = e]
        /\ resp'[r].balance = after
    BY <1>2 DEF InsertBet, Goto, Answer, TypeInv, TypeOK
  <2> HIDE DEF e, after
  <2>4. tx'[r].entry = e
    BY <1>1, <2>3 DEF Tx
  <2> QED BY <2>2, <2>3, <2>4, NoneAssumption DEF ReadsExisted
<1>3. CASE InsertPayout(r)
  <2> DEFINE e == [reason |-> "GAME_PAYOUT", sess |-> req[r].sess,
                   amount |-> tx[r].row.meta.pay, after |-> tx[r].seen]
  <2>1. tx[r].row.meta.pay \in Int /\ req[r].sess \in Reqs
    BY <1>1, <1>3, LockTypes, ConstantsAssumption
       DEF InsertPayout, TypeInv, Shape, HasRow, Row, Meta
  <2>2. e \in Entry
    BY <1>1, <2>1 DEF Entry
  <2>3. pc'[r] = "close" /\ tx'[r] = [tx[r] EXCEPT !.entry = e]
    BY <1>3 DEF InsertPayout, Goto, TypeInv, TypeOK
  <2> HIDE DEF e
  <2>4. tx'[r].entry = e
    BY <1>1, <2>3 DEF Tx
  <2> QED BY <2>2, <2>3, <2>4, NoneAssumption DEF ReadsExisted
<1> QED BY <1>2, <1>3

LEMMA LockSessionReads ==
  ASSUME Economics, NEW r \in Reqs, LockSession(r)
  PROVE  ReadsExisted(r)'
<1>1. CASE Throw(r, "NotFound") \/ Throw(r, "Conflict")
  BY <1>1, ThrowReads DEF Economics
<1>2. CASE Goto(r, "engine")
  BY <1>2, QuietReads DEF Economics
<1>3. ASSUME Goto(r, "commit"), NEW a, Answer(r, a), a.balance = balance[req[r].user]
      PROVE  ReadsExisted(r)'
  <2>1. pc[r] # "idle" /\ UNCHANGED <<req, balance, ledger>>
    BY DEF LockSession, db
  <2>2. PICK u \in Users : u = req[r].user
    BY <2>1, LockTypes DEF Economics
  <2>3. Existed(u, balance[u])'
    BY <2>1, NowExists DEF Economics, Existed, BalanceBefore
  <2>4. pc'[r] = "commit" /\ resp'[r].balance = balance[u]
    BY <1>3, <2>2 DEF Goto, Answer, Economics, TypeInv, TypeOK
  <2> QED BY <2>1, <2>2, <2>3, <2>4 DEF ReadsExisted
<1> QED BY <1>1, <1>2, <1>3 DEF LockSession

LEMMA EngineReads ==
  ASSUME Economics, NEW r \in Reqs, Engine(r)
  PROVE  ReadsExisted(r)'
<1>1. CASE Throw(r, "Validation")
  BY <1>1, ThrowReads DEF Economics
<1>2. CASE Goto(r, "commit")
  <2>1. pc'[r] = "commit"
    BY <1>2 DEF Goto, Economics, TypeInv, TypeOK
  <2>2. resp'[r].balance = None
    BY <2>1 DEF Engine, Throw, Goto, Answer, Economics, TypeInv, TypeOK
  <2> QED BY <2>1, <2>2 DEF ReadsExisted
<1>3. CASE Goto(r, "payout")
  <2>1. /\ pc[r] # "idle" /\ UNCHANGED <<req, balance, ledger>> /\ tx[r].row \in Row
        /\ pc'[r] = "payout"
    BY <1>3 DEF Engine, db, Goto, Economics, TypeInv, TypeOK, Shape, HasRow
  <2>2. PICK u \in Users : u = req[r].user
    BY <2>1, LockTypes DEF Economics
  <2>3. Existed(u, balance[u])'
    BY <2>1, NowExists DEF Economics, Existed, BalanceBefore
  <2>4. tx'[r].seen = balance[u]
    <3> DEFINE n == [tx[r] EXCEPT !.seen = balance[u]]
    <3>1. tx[r] \in Tx /\ balance[u] \in Int
      BY LockTypes DEF Economics, TypeInv, TypeOK
    <3>2. n \in Tx /\ n.seen = balance[u]
      BY <3>1 DEF Tx
    <3>3. Snapshot(r)[r] = n
      BY <2>2 DEF Snapshot, Economics, TypeInv, TypeOK
    <3>4. CASE tx' = Snapshot(r)
      BY <3>2, <3>3, <3>4
    <3>5. ASSUME NEW m, tx' = [Snapshot(r) EXCEPT ![r].row.meta = m]
          PROVE  tx'[r].seen = balance[u]
      <4>1. tx'[r] = [n EXCEPT !.row.meta = m]
        BY <2>2, <3>5 DEF Snapshot, Economics, TypeInv, TypeOK
      <4>2. [n EXCEPT !.row.meta = m].seen = n.seen
        BY <3>2 DEF Tx
      <4> QED BY <3>2, <4>1, <4>2
    <3>6. pc'[r] # "rollback" /\ pc'[r] # "commit"
      BY <2>1
    <3>7. ~Throw(r, "Validation")
      BY <3>6 DEF Throw, Goto, Economics, TypeInv, TypeOK
    <3> QED BY <3>4, <3>5, <3>7 DEF Engine
  <2> QED BY <2>1, <2>2, <2>3, <2>4 DEF ReadsExisted
<1> QED BY <1>1, <1>2, <1>3 DEF Engine

LEMMA PayeeReads ==
  ASSUME Economics, ReadsInv, NEW r \in Reqs, LockPayee(r)
  PROVE  ReadsExisted(r)'
<1>1. CASE Throw(r, "Internal") \/ Throw(r, "Forbidden")
  BY <1>1, ThrowReads DEF Economics
<1>2. CASE Goto(r, "credit")
  BY <1>2, QuietReads DEF Economics
<1>3. CASE Goto(r, "close") /\ UNCHANGED tx
  <2>1. pc[r] = "payout" /\ pc'[r] = "close" /\ UNCHANGED <<req, ledger>>
    BY <1>3 DEF LockPayee, db, Goto, Economics, TypeInv, TypeOK
  <2>2. Existed(req[r].user, tx[r].seen)'
    BY <1>3, <2>1 DEF ReadsInv, ReadsExisted, Existed, BalanceBefore
  <2> QED BY <2>1, <2>2 DEF ReadsExisted
<1> QED BY <1>1, <1>2, <1>3 DEF LockPayee

LEMMA CloseReads ==
  ASSUME Economics, ReadsInv, NEW r \in Reqs, Close(r)
  PROVE  ReadsExisted(r)'
<1>1. CASE Throw(r, "Conflict")
  BY <1>1, ThrowReads DEF Economics
<1>2. CASE /\ tx' = [tx EXCEPT ![r].row = Settled(tx[r].row, tx[r].row.meta.pay)]
           /\ Goto(r, "commit") /\ \E a : Answer(r, a) /\ a.balance = tx[r].seen
  <2>1. /\ pc[r] = "close" /\ UNCHANGED <<req, ledger>> /\ tx[r] \in Tx
        /\ pc'[r] = "commit" /\ resp'[r].balance = tx[r].seen
    BY <1>2, LockTypes DEF Close, db, Goto, Answer, Economics, TypeInv, TypeOK
  <2>2. tx'[r].entry = tx[r].entry
    BY <1>2, <2>1 DEF Economics, TypeInv, TypeOK, Tx
  <2>3. tx[r].entry # None => tx[r].entry.after = tx[r].seen
    <3>1. Disciplined(r)
      BY DEF Economics, LocksProtectReads
    <3>2. tx[r].entry \in {None, PayoutRow(r, tx[r].row.meta.pay)}
      BY <2>1, <3>1 DEF Disciplined
    <3> QED BY <3>2 DEF PayoutRow
  <2>4. tx[r].entry = None => Existed(req[r].user, tx[r].seen)
    BY <2>1 DEF ReadsInv, ReadsExisted
  <2>5. tx[r].entry = None => Existed(req[r].user, resp[r].balance)'
    BY <2>1, <2>4 DEF Existed, BalanceBefore
  <2> QED BY <2>1, <2>2, <2>3, <2>5 DEF ReadsExisted
<1> QED BY <1>1, <1>2 DEF Close

LEMMA CommitReads ==
  ASSUME Economics, ReadsInv, NEW r \in Reqs, Commit(r), [Next]_vars
  PROVE  ReadsExisted(r)'
<1>1. /\ pc[r] = "commit" /\ pc'[r] \in {"board", "done"} /\ Apply(r)
      /\ UNCHANGED <<req, resp>>
  BY DEF Commit, Goto, Economics, TypeInv, TypeOK
<1>2. PICK u \in Users : u = req[r].user
  BY <1>1, LockTypes DEF Economics
<1>3. CASE resp[r].balance = None
  BY <1>1, <1>3 DEF ReadsExisted
<1>4. CASE Existed(u, resp[r].balance)
  <2>1. PICK b : b = resp[r].balance
    OBVIOUS
  <2>2. Existed(u, b)'
    BY <1>4, <2>1, ExistedForever DEF Economics
  <2> QED BY <1>1, <1>2, <2>1, <2>2 DEF ReadsExisted
<1>5. CASE tx[r].entry # None /\ tx[r].entry.after = resp[r].balance
  <2>1. PICK e \in Entry : e = tx[r].entry
    BY <1>5, LockTypes DEF Economics, Tx
  <2>2. Existed(u, e.after)'
    BY <1>1, <1>2, <1>5, <2>1, Written, EntryExists DEF Economics
  <2>3. resp'[r].balance = e.after
    BY <1>1, <1>5, <2>1
  <2> QED BY <1>1, <1>2, <2>2, <2>3 DEF ReadsExisted
<1> QED BY <1>1, <1>2, <1>3, <1>4, <1>5 DEF ReadsInv, ReadsExisted

LEMMA EndReads ==
  ASSUME Economics, ReadsInv, NEW r \in Reqs, [Next]_vars,
         \/ CommitAckLost(r) \/ PoolFails(r) \/ ReplayRead(r) \/ Rollback(r)
         \/ CreditBoard(r) \/ CreditBoardFails(r)
  PROVE  ReadsExisted(r)'
<1>1. CASE CommitAckLost(r) \/ PoolFails(r) \/ ReplayRead(r)
  BY <1>1, NoBalance DEF CommitAckLost, PoolFails, ReplayRead, ErrorOf, ReplayOf, Economics
<1>2. CASE Rollback(r)
  <2>1. pc'[r] \in {"backoff", "replayRead", "done"} /\ resp[r].balance = None
    BY <1>2 DEF Rollback, Goto, Economics, TypeInv, TypeOK, ReadsInv, ReadsExisted
  <2>2. resp'[r] = resp[r] \/ resp'[r].balance = None
    BY <1>2 DEF Rollback, Answer, ErrorOf, Economics, TypeInv, TypeOK
  <2> QED BY <2>1, <2>2 DEF ReadsExisted
<1>3. CASE CreditBoard(r) \/ CreditBoardFails(r)
  <2>1. /\ pc[r] = "board" /\ pc'[r] = "done" /\ UNCHANGED <<req, resp, ledger>>
    BY <1>3 DEF CreditBoard, CreditBoardFails, db, Goto, Economics, TypeInv, TypeOK
  <2>2. Existed(req[r].user, resp[r].balance) => Existed(req[r].user, resp[r].balance)'
    BY <2>1 DEF Existed, BalanceBefore
  <2> QED BY <2>1, <2>2 DEF ReadsInv, ReadsExisted
<1> QED BY <1>1, <1>2, <1>3

LEMMA NextReads == Economics /\ ReadsInv /\ [Next]_vars => ReadsInv'
<1> SUFFICES ASSUME Economics, ReadsInv, [Next]_vars PROVE ReadsInv'
  OBVIOUS
<1>1. ASSUME NEW r \in Reqs,
             SubmitInitiate(r) \/ SubmitOnSession(r) \/ Handle(r) \/ Fail(r)
      PROVE  ReadsExisted(r)'
  BY <1>1, EarlyReads, InsertReads, LockSessionReads, EngineReads, PayeeReads, CloseReads,
     CommitReads, EndReads DEF Handle, Fail, Economics
<1>2. ASSUME NEW r \in Reqs,
             SubmitInitiate(r) \/ SubmitOnSession(r) \/ Handle(r) \/ Fail(r),
             NEW o \in Reqs \ {r}
      PROVE  ReadsExisted(o)'
  BY <1>2, OneMoves, ReadsStand DEF ReadsInv, Economics
<1>3. CASE Crash
  <2> SUFFICES ASSUME NEW o \in Reqs PROVE ReadsExisted(o)'
    BY DEF ReadsInv
  <2>1. UNCHANGED <<ledger, req>>
    BY <1>3 DEF Crash, db
  <2>2. pc'[o] \in {"idle", "done"}
    BY <1>3 DEF Crash, InFlight, Economics, TypeInv, TypeOK
  <2>3. InFlight(o) => resp'[o] = None
    BY <1>3 DEF Crash
  <2>4. ~InFlight(o) => pc'[o] = pc[o] /\ resp'[o] = resp[o]
    BY <1>3 DEF Crash, Economics, TypeInv, TypeOK
  <2>5. resp'[o] = resp[o] /\ Existed(req[o].user, resp[o].balance)
          => Existed(req[o].user, resp[o].balance)'
    BY <2>1 DEF Existed, BalanceBefore
  <2> QED BY <2>2, <2>3, <2>4, <2>5 DEF ReadsInv, ReadsExisted
<1>4. CASE UNCHANGED <<pc, tx, req, resp>>
  BY <1>4, ReadsStand DEF ReadsInv
<1>5. (\E r \in Reqs : SubmitInitiate(r) \/ SubmitOnSession(r) \/ Handle(r) \/ Fail(r))
        => ReadsInv'
  BY <1>1, <1>2 DEF ReadsInv
<1> QED BY <1>3, <1>4, <1>5 DEF Next, ChangeStatus, vars

\* Every balance a client is shown was at some time the committed balance of
\* the account, also where it was read without a lock.
THEOREM ReportedBalancesExisted == Spec => []BalancesReportedExisted
<1>1. Init => ReadsInv
  BY DEF Init, ReadsInv, ReadsExisted
<1>2. ReadsInv => BalancesReportedExisted
  BY DEF ReadsInv, ReadsExisted, Existed, BalancesReportedExisted
<1>3. Economics <=> TypeInv /\ LocksProtectReads /\ BalanceChain
  BY DEF Economics
<1> QED BY <1>1, <1>2, <1>3, InitType, NextType, InitDiscipline, NextDiscipline, InitChain,
        NextChain, NextReads, PTL DEF Spec
=============================================================================
