------------------------- MODULE GameEconomyProofs -------------------------
(* Types: every operation keeps the tables, the locks and the requests in   *)
(* their types. Then what the row locks buy: the facts a transaction has     *)
(* read hold until it commits, so the balance is always the one its ledger   *)
(* adds up to, and the endpoints implement PointsEconomy. And what they      *)
(* cost: what is held is given back on every path, and the order in which    *)
(* rows are locked leaves no circle of waiting requests.                     *)
EXTENDS GameEconomy, TLAPS, FiniteSetTheorems

HasResp == {"rollback", "commit", "board"}
Shape ==
  \A r \in Reqs :
    /\ pc[r] # "idle" => req[r] \in Request
    /\ pc[r] \in HasRow => tx[r].row \in Row
    /\ pc[r] \in HasResp => resp[r] \in Response

TypeInv == TypeOK /\ Shape

LEMMA InitType == Init => TypeInv
BY ConstantsAssumption, SMTT(30)
   DEF Init, TypeInv, TypeOK, Shape, HasRow, HasResp, Labels, HasConn, InTx, Tx, EmptyTx

LEMMA ErrorType == \A c \in Codes : ErrorOf(c) \in Response
BY DEF ErrorOf, Response

LEMMA EmptyTxType == EmptyTx \in Tx
BY DEF EmptyTx, Tx

\* A statement of one request: it moves its pc, its transaction and its
\* response, and may take a lock.
LEMMA LocalStep ==
  ASSUME TypeInv, NEW r \in Reqs,
         NEW l \in Labels \ {"idle"}, pc[r] # "idle", Goto(r, l),
         NEW t \in Tx, tx' = [tx EXCEPT ![r] = t], l \in HasRow => t.row \in Row,
         NEW a \in Response \cup {None}, resp' = [resp EXCEPT ![r] = a],
         l \in HasResp => a \in Response,
         userLock' \in [Users -> Reqs \cup {None}],
         sessLock' \in [Reqs -> Reqs \cup {None}],
         UNCHANGED <<db, credited, conns, req, attempt>>
  PROVE  TypeInv'
<1>1. TypeOK'
  BY DEF TypeInv, TypeOK, Goto, db
<1>2. Shape'
  BY DEF TypeInv, TypeOK, Shape, Goto, db
<1> QED BY <1>1, <1>2 DEF TypeInv

LEMMA ThrowType ==
  ASSUME TypeInv, NEW r \in Reqs, pc[r] # "idle",
         NEW c \in Codes, Throw(r, c),
         NEW t \in Tx, tx' = [tx EXCEPT ![r] = t],
         userLock' \in [Users -> Reqs \cup {None}],
         sessLock' \in [Reqs -> Reqs \cup {None}],
         UNCHANGED <<db, credited, conns, req, attempt>>
  PROVE  TypeInv'
<1>1. ErrorOf(c) \in Response
  BY ErrorType
<1>2. "rollback" \in Labels \ {"idle"} /\ "rollback" \notin HasRow
  BY DEF Labels, HasConn, InTx, HasRow
<1> QED BY <1>1, <1>2, LocalStep DEF Throw, Answer

LEMMA SubmitType ==
  ASSUME TypeInv, NEW r \in Reqs, SubmitInitiate(r) \/ SubmitOnSession(r)
  PROVE  TypeInv'
<1>1. ASSUME NEW body \in Request, Submit(r, body) PROVE TypeInv'
  BY <1>1, SMTT(30) DEF Submit, Goto, TypeInv, TypeOK, Shape, HasRow, HasResp, Labels, HasConn, InTx, db, locks
<1>2. CASE SubmitInitiate(r)
  BY <1>1, <1>2 DEF SubmitInitiate, Request
<1>3. CASE SubmitOnSession(r)
  <2>1. (CHOOSE b \in Bets : TRUE) \in Bets
    BY ConstantsAssumption
  <2> QED BY <1>1, <1>3, <2>1 DEF SubmitOnSession, Request
<1> QED BY <1>2, <1>3

LEMMA LookupType ==
  ASSUME TypeInv, NEW r \in Reqs, Lookup(r)
  PROVE  TypeInv'
<1>1. pc[r] = "lookup" /\ pc[r] # "idle" /\ tx[r] \in Tx /\ resp[r] \in Response \cup {None}
      /\ tx' = [tx EXCEPT ![r] = tx[r]]
  BY DEF Lookup, TypeInv, TypeOK
<1>0. UNCHANGED <<db, credited, conns, req, attempt>>
  /\ userLock' \in [Users -> Reqs \cup {None}] /\ sessLock' \in [Reqs -> Reqs \cup {None}]
  BY DEF Lookup, TypeInv, TypeOK, locks
<1>2. CASE \E s \in Reqs : Answer(r, ReplayOf(s)) /\ Goto(r, "commit")
  <2>1. \A s \in Reqs : ReplayOf(s) \in Response
    BY DEF ReplayOf, Response, Codes
  <2>2. "commit" \in Labels \ {"idle"} /\ "commit" \notin HasRow
    BY DEF Labels, HasConn, InTx, HasRow
  <2> QED BY <1>0, <1>1, <1>2, <2>1, <2>2, LocalStep DEF Answer
<1>3. CASE Throw(r, "Validation")
  BY <1>0, <1>1, <1>3, ThrowType DEF Codes
<1>4. CASE Goto(r, "lockUser") /\ UNCHANGED resp
  <2>1. resp' = [resp EXCEPT ![r] = resp[r]]
    BY <1>4 DEF TypeInv, TypeOK
  <2>2. "lockUser" \in Labels \ {"idle"} /\ "lockUser" \notin HasRow \cup HasResp
    BY DEF Labels, HasConn, InTx, HasRow, HasResp
  <2> QED BY <1>0, <1>1, <1>4, <2>1, <2>2, LocalStep
<1> QED BY <1>2, <1>3, <1>4 DEF Lookup, SessionsOf

LEMMA LockTypes ==
  ASSUME TypeInv, NEW r \in Reqs
  PROVE  /\ userLock \in [Users -> Reqs \cup {None}]
         /\ sessLock \in [Reqs -> Reqs \cup {None}]
         /\ tx[r] \in Tx /\ resp[r] \in Response \cup {None}
         /\ tx = [tx EXCEPT ![r] = tx[r]]
         /\ resp = [resp EXCEPT ![r] = resp[r]]
         /\ pc[r] # "idle" => /\ req[r].user \in Users /\ req[r].sess \in Reqs
                              /\ req[r].bet \in Nat /\ req[r].bet \in Bets
                              /\ req[r].key \in Keys \cup {NoKey}
                              /\ balance[req[r].user] \in Int
         /\ tx[r].seen \in Int /\ tx[r].delta \in Int
BY ConstantsAssumption DEF TypeInv, TypeOK, Shape, Request, Tx

LEMMA SnapshotType ==
  ASSUME TypeInv, NEW r \in Reqs, pc[r] # "idle"
  PROVE  \E t \in Tx : Snapshot(r) = [tx EXCEPT ![r] = t] /\ t.row = tx[r].row
<1> DEFINE t == [tx[r] EXCEPT !.seen = balance[req[r].user]]
<1>1. t \in Tx /\ t.row = tx[r].row
  BY LockTypes DEF Tx
<1>2. Snapshot(r) = [tx EXCEPT ![r] = t]
  BY DEF Snapshot, TypeInv, TypeOK
<1> QED BY <1>1, <1>2

LEMMA LockUserType ==
  ASSUME TypeInv, NEW r \in Reqs, LockUser(r)
  PROVE  TypeInv'
<1>1. pc[r] # "idle"
  BY DEF LockUser
<1>2. PICK t \in Tx : tx' = [tx EXCEPT ![r] = t]
  BY <1>1, SnapshotType DEF LockUser
<1>3. /\ userLock' \in [Users -> Reqs \cup {None}]
      /\ sessLock' \in [Reqs -> Reqs \cup {None}]
      /\ UNCHANGED <<db, credited, conns, req, attempt>>
  BY <1>1, LockTypes DEF LockUser, LockUsersRow
<1>4. CASE Throw(r, "Forbidden") \/ Throw(r, "InsufficientFunds")
  BY <1>1, <1>2, <1>3, <1>4, ThrowType DEF Codes
<1>5. CASE Goto(r, "debit") /\ UNCHANGED resp
  <2>1. "debit" \in Labels \ {"idle"} /\ "debit" \notin HasRow \cup HasResp
    BY DEF Labels, HasConn, InTx, HasRow, HasResp
  <2> QED BY <1>1, <1>2, <1>3, <1>5, <2>1, LockTypes, LocalStep
<1> QED BY <1>4, <1>5 DEF LockUser

LEMMA DebitType ==
  ASSUME TypeInv, NEW r \in Reqs, Debit(r)
  PROVE  TypeInv'
<1>1. pc[r] # "idle"
  BY DEF Debit
<1>3. /\ userLock' \in [Users -> Reqs \cup {None}]
      /\ sessLock' \in [Reqs -> Reqs \cup {None}]
      /\ UNCHANGED <<db, credited, conns, req, attempt>>
  BY <1>1, LockTypes DEF Debit, locks
<1>4. CASE Throw(r, "InsufficientFunds") /\ UNCHANGED tx
  BY <1>1, <1>3, <1>4, ThrowType, LockTypes DEF Codes
<1>5. CASE /\ Goto(r, "insertSession") /\ UNCHANGED resp
           /\ tx' = [tx EXCEPT ![r].delta = -req[r].bet]
  <2>1. "insertSession" \in Labels \ {"idle"} /\ "insertSession" \notin HasRow \cup HasResp
    BY DEF Labels, HasConn, InTx, HasRow, HasResp
  <2> DEFINE t == [tx[r] EXCEPT !.delta = -req[r].bet]
  <2>2. t \in Tx
    BY <1>1, LockTypes DEF Tx
  <2>3. tx' = [tx EXCEPT ![r] = t]
    BY <1>5 DEF TypeInv, TypeOK
  <2> HIDE DEF t
  <2>4. resp' = [resp EXCEPT ![r] = resp[r]] /\ resp[r] \in Response \cup {None}
    BY <1>5, LockTypes
  <2> QED BY <1>1, <1>3, <1>5, <2>1, <2>2, <2>3, <2>4, LocalStep
<1> QED BY <1>4, <1>5 DEF Debit

LEMMA InsertSessionType ==
  ASSUME TypeInv, NEW r \in Reqs, InsertSession(r)
  PROVE  TypeInv'
<1>1. pc[r] # "idle"
  BY DEF InsertSession
<1>3. /\ userLock' \in [Users -> Reqs \cup {None}]
      /\ sessLock' \in [Reqs -> Reqs \cup {None}]
      /\ UNCHANGED <<db, credited, conns, req, attempt>>
  BY <1>1, LockTypes DEF InsertSession, locks
<1>4. CASE Throw(r, "Duplicate") /\ UNCHANGED tx
  BY <1>1, <1>3, <1>4, ThrowType, LockTypes DEF Codes
<1>5. ASSUME NEW row \in Row, Goto(r, "insertBet"), UNCHANGED resp,
             tx' = [tx EXCEPT ![r].row = row]
      PROVE  TypeInv'
  <2>1. "insertBet" \in Labels \ {"idle"} /\ "insertBet" \notin HasRow \cup HasResp
    BY DEF Labels, HasConn, InTx, HasRow, HasResp
  <2> DEFINE t == [tx[r] EXCEPT !.row = row]
  <2>2. t \in Tx
    BY <1>1, LockTypes DEF Tx
  <2>3. tx' = [tx EXCEPT ![r] = t]
    BY <1>5 DEF TypeInv, TypeOK
  <2> HIDE DEF t
  <2>4. resp' = [resp EXCEPT ![r] = resp[r]] /\ resp[r] \in Response \cup {None}
    BY <1>5, LockTypes
  <2> QED BY <1>1, <1>3, <1>5, <2>1, <2>2, <2>3, <2>4, LocalStep
<1>6. \A p \in Payouts : [user |-> req[r].user, key |-> req[r].key, bet |-> req[r].bet,
                          status |-> "ACTIVE", payout |-> None,
                          meta |-> [over |-> FALSE, pay |-> p]] \in Row
  BY <1>1, LockTypes DEF Row, Meta
<1> QED BY <1>4, <1>5, <1>6 DEF InsertSession

LEMMA InsertBetType ==
  ASSUME TypeInv, NEW r \in Reqs, InsertBet(r)
  PROVE  TypeInv'
<1>1. pc[r] # "idle"
  BY DEF InsertBet
<1>3. /\ userLock' \in [Users -> Reqs \cup {None}]
      /\ sessLock' \in [Reqs -> Reqs \cup {None}]
      /\ UNCHANGED <<db, credited, conns, req, attempt>>
  BY <1>1, LockTypes DEF InsertBet, locks
<1> DEFINE after == BalanceAfterBet(r)
           e == [reason |-> "GAME_BET", sess |-> r, amount |-> -req[r].bet, after |-> after]
           t == [tx[r] EXCEPT !.entry = e]
           a == [code |-> "OK", sess |-> r, payout |-> None,
                 replay |-> FALSE, balance |-> after]
<1>4. after \in Int /\ -req[r].bet \in Int
  BY <1>1, LockTypes DEF BalanceAfterBet
<1>5. e \in Entry /\ a \in Response
  BY <1>4 DEF Entry, Response, Codes
<1>6. t \in Tx
  BY <1>5, LockTypes DEF Tx
<1>7. tx' = [tx EXCEPT ![r] = t] /\ resp' = [resp EXCEPT ![r] = a] /\ Goto(r, "commit")
  BY DEF InsertBet, Answer, TypeInv, TypeOK
<1>8. "commit" \in Labels \ {"idle"} /\ "commit" \notin HasRow
  BY DEF Labels, HasConn, InTx, HasRow
<1> HIDE DEF t, a
<1> QED BY <1>1, <1>3, <1>5, <1>6, <1>7, <1>8, LocalStep

LEMMA LockSessionType ==
  ASSUME TypeInv, NEW r \in Reqs, LockSession(r)
  PROVE  TypeInv'
<1> DEFINE q == req[r]
           row == sessions[q.sess]
<1>1. pc[r] # "idle" /\ q.sess \in Reqs /\ row \in Row \cup {None}
  BY DEF LockSession, TypeInv, TypeOK, Shape, Request
<1>2. /\ userLock' \in [Users -> Reqs \cup {None}]
      /\ sessLock' \in [Reqs -> Reqs \cup {None}]
      /\ UNCHANGED <<db, credited, conns, req, attempt>>
  BY <1>1, LockTypes DEF LockSession
<1>3. CASE (Throw(r, "NotFound") \/ Throw(r, "Conflict")) /\ UNCHANGED tx
  BY <1>1, <1>2, <1>3, ThrowType, LockTypes DEF Codes
<1>4. CASE /\ row # None /\ Goto(r, "engine") /\ UNCHANGED resp
           /\ tx' = [tx EXCEPT ![r].row = row]
  <2>1. "engine" \in Labels \ {"idle"} /\ "engine" \notin HasResp
    BY DEF Labels, HasConn, InTx, HasResp
  <2> DEFINE t == [tx[r] EXCEPT !.row = row]
  <2>2. t \in Tx /\ t.row \in Row
    BY <1>1, <1>4, LockTypes DEF Tx
  <2>3. tx' = [tx EXCEPT ![r] = t]
    BY <1>4 DEF TypeInv, TypeOK
  <2> HIDE DEF t, q, row
  <2> QED BY <1>1, <1>2, <1>4, <2>1, <2>2, <2>3, LockTypes, LocalStep
<1>5. CASE /\ row # None /\ Goto(r, "commit") /\ UNCHANGED tx
           /\ Answer(r, [code |-> "OK", sess |-> q.sess, payout |-> row.payout,
                         replay |-> TRUE, balance |-> balance[q.user]])
  <2>1. "commit" \in Labels \ {"idle"} /\ "commit" \notin HasRow
    BY DEF Labels, HasConn, InTx, HasRow
  <2>2. balance[q.user] \in Int /\ row.payout \in Payouts \cup {None}
    BY <1>1, <1>5, LockTypes DEF Row
  <2>3. [code |-> "OK", sess |-> q.sess, payout |-> row.payout,
         replay |-> TRUE, balance |-> balance[q.user]] \in Response
    BY <1>1, <2>2 DEF Response, Codes
  <2> HIDE DEF q, row
  <2>4. PICK a \in Response : resp' = [resp EXCEPT ![r] = a] /\ Goto(r, "commit")
    BY <1>5, <2>3 DEF Answer
  <2> QED BY <1>1, <1>2, <1>5, <2>1, <2>4, LockTypes, LocalStep
<1> QED BY <1>3, <1>4, <1>5 DEF LockSession

\* A row whose metadata the engine replaced.
LEMMA StepType ==
  ASSUME TypeInv, NEW r \in Reqs, pc[r] # "idle", tx[r].row \in Row,
         NEW m \in Meta
  PROVE  \E t \in Tx : /\ [Snapshot(r) EXCEPT ![r].row.meta = m] = [tx EXCEPT ![r] = t]
                       /\ t.row = [tx[r].row EXCEPT !.meta = m]
                       /\ t.row \in Row
<1> PICK n \in Tx : Snapshot(r) = [tx EXCEPT ![r] = n] /\ n.row = tx[r].row
  BY SnapshotType
<1> DEFINE t == [n EXCEPT !.row.meta = m]
<1>1. t.row = [tx[r].row EXCEPT !.meta = m] /\ t.row \in Row
  BY DEF Tx, Row
<1>2. t \in Tx
  BY <1>1 DEF Tx
<1>3. [Snapshot(r) EXCEPT ![r].row.meta = m] = [tx EXCEPT ![r] = t]
  BY DEF TypeInv, TypeOK
<1> QED BY <1>1, <1>2, <1>3

LEMMA EngineType ==
  ASSUME TypeInv, NEW r \in Reqs, Engine(r)
  PROVE  TypeInv'
<1>1. pc[r] # "idle" /\ tx[r].row \in Row
  BY DEF Engine, TypeInv, Shape, HasRow
<1>2. /\ userLock' \in [Users -> Reqs \cup {None}]
      /\ sessLock' \in [Reqs -> Reqs \cup {None}]
      /\ UNCHANGED <<db, credited, conns, req, attempt>>
  BY <1>1, LockTypes DEF Engine, locks
<1>3. CASE Throw(r, "Validation") /\ UNCHANGED tx
  BY <1>1, <1>2, <1>3, ThrowType, LockTypes DEF Codes
<1>4. ASSUME NEW m \in Meta, tx' = [Snapshot(r) EXCEPT ![r].row.meta = m],
             Goto(r, "commit"),
             Answer(r, [code |-> "OK", sess |-> req[r].sess, payout |-> None,
                        replay |-> FALSE, balance |-> None])
      PROVE  TypeInv'
  <2>1. "commit" \in Labels \ {"idle"} /\ "commit" \notin HasRow
    BY DEF Labels, HasConn, InTx, HasRow
  <2>2. [code |-> "OK", sess |-> req[r].sess, payout |-> None,
         replay |-> FALSE, balance |-> None] \in Response
    BY <1>1, LockTypes DEF Response, Codes
  <2>3. PICK t \in Tx : tx' = [tx EXCEPT ![r] = t] /\ t.row \in Row
    BY <1>1, <1>4, StepType
  <2> QED BY <1>1, <1>2, <1>4, <2>1, <2>2, <2>3, LocalStep DEF Answer
<1>5. ASSUME NEW t \in Tx, tx' = [tx EXCEPT ![r] = t], t.row \in Row,
             Goto(r, "payout"), UNCHANGED resp
      PROVE  TypeInv'
  <2>1. "payout" \in Labels \ {"idle"} /\ "payout" \notin HasResp
    BY DEF Labels, HasConn, InTx, HasResp
  <2> QED BY <1>1, <1>2, <1>5, <2>1, LockTypes, LocalStep
<1>6. \A p \in Payouts, o \in BOOLEAN : [over |-> o, pay |-> p] \in Meta
  BY DEF Meta
<1>7. ASSUME NEW m \in Meta, tx' = [Snapshot(r) EXCEPT ![r].row.meta = m],
             Goto(r, "payout"), UNCHANGED resp
      PROVE  TypeInv'
  BY <1>1, <1>5, <1>7, StepType
<1>8. CASE tx' = Snapshot(r) /\ Goto(r, "payout") /\ UNCHANGED resp
  BY <1>1, <1>5, <1>8, SnapshotType
<1> QED BY <1>3, <1>4, <1>6, <1>7, <1>8 DEF Engine

LEMMA LockPayeeType ==
  ASSUME TypeInv, NEW r \in Reqs, LockPayee(r)
  PROVE  TypeInv'
<1> DEFINE p == tx[r].row.meta.pay
<1>1. pc[r] # "idle" /\ tx[r].row \in Row /\ p \in Nat
  BY ConstantsAssumption DEF LockPayee, TypeInv, Shape, HasRow, Row, Meta
<1>2. /\ userLock' \in [Users -> Reqs \cup {None}]
      /\ sessLock' \in [Reqs -> Reqs \cup {None}]
      /\ UNCHANGED <<db, credited, conns, req, attempt>>
  BY <1>1, LockTypes DEF LockPayee, LockUsersRow
<1>3. CASE (Throw(r, "Internal") \/ Throw(r, "Forbidden")) /\ UNCHANGED tx
  BY <1>1, <1>2, <1>3, ThrowType, LockTypes DEF Codes
<1>4. CASE Goto(r, "close") /\ UNCHANGED <<tx, resp>>
  <2>1. "close" \in Labels \ {"idle"} /\ "close" \notin HasResp
    BY DEF Labels, HasConn, InTx, HasResp
  <2> HIDE DEF p
  <2> QED BY <1>1, <1>2, <1>4, <2>1, LockTypes, LocalStep
<1>5. CASE /\ Goto(r, "credit") /\ UNCHANGED resp
           /\ tx' = [tx EXCEPT ![r].seen = balance[req[r].user] + p]
  <2>1. "credit" \in Labels \ {"idle"} /\ "credit" \notin HasResp
    BY DEF Labels, HasConn, InTx, HasResp
  <2> DEFINE t == [tx[r] EXCEPT !.seen = balance[req[r].user] + p]
  <2>2. balance[req[r].user] + p \in Int
    BY <1>1, LockTypes
  <2>3. t \in Tx /\ t.row \in Row
    BY <1>1, <2>2, LockTypes DEF Tx
  <2>4. tx' = [tx EXCEPT ![r] = t]
    BY <1>5 DEF TypeInv, TypeOK
  <2> HIDE DEF t, p
  <2> QED BY <1>1, <1>2, <1>5, <2>1, <2>3, <2>4, LockTypes, LocalStep
<1> QED BY <1>3, <1>4, <1>5 DEF LockPayee

LEMMA CreditType ==
  ASSUME TypeInv, NEW r \in Reqs, Credit(r)
  PROVE  TypeInv'
<1> DEFINE p == tx[r].row.meta.pay
           t == [tx[r] EXCEPT !.delta = p]
<1>1. pc[r] # "idle" /\ tx[r].row \in Row /\ p \in Int
  BY ConstantsAssumption DEF Credit, TypeInv, Shape, HasRow, Row, Meta
<1>2. /\ userLock' \in [Users -> Reqs \cup {None}]
      /\ sessLock' \in [Reqs -> Reqs \cup {None}]
      /\ UNCHANGED <<db, credited, conns, req, attempt>>
  BY <1>1, LockTypes DEF Credit, locks
<1>3. "insertPayout" \in Labels \ {"idle"} /\ "insertPayout" \notin HasResp
  BY DEF Labels, HasConn, InTx, HasResp
<1>4. t \in Tx /\ t.row \in Row
  BY <1>1, LockTypes DEF Tx
<1>5. tx' = [tx EXCEPT ![r] = t] /\ Goto(r, "insertPayout") /\ UNCHANGED resp
  BY DEF Credit, TypeInv, TypeOK
<1> HIDE DEF t, p
<1> QED BY <1>1, <1>2, <1>3, <1>4, <1>5, LockTypes, LocalStep

LEMMA InsertPayoutType ==
  ASSUME TypeInv, NEW r \in Reqs, InsertPayout(r)
  PROVE  TypeInv'
<1> DEFINE e == [reason |-> "GAME_PAYOUT", sess |-> req[r].sess,
                 amount |-> tx[r].row.meta.pay, after |-> tx[r].seen]
           t == [tx[r] EXCEPT !.entry = e]
<1>1. pc[r] # "idle" /\ tx[r].row \in Row /\ tx[r].row.meta.pay \in Int
  BY ConstantsAssumption DEF InsertPayout, TypeInv, Shape, HasRow, Row, Meta
<1>2. /\ userLock' \in [Users -> Reqs \cup {None}]
      /\ sessLock' \in [Reqs -> Reqs \cup {None}]
      /\ UNCHANGED <<db, credited, conns, req, attempt>>
  BY <1>1, LockTypes DEF InsertPayout, locks
<1>3. "close" \in Labels \ {"idle"} /\ "close" \notin HasResp
  BY DEF Labels, HasConn, InTx, HasResp
<1>4. e \in Entry
  BY <1>1, LockTypes DEF Entry
<1>5. t \in Tx /\ t.row \in Row
  BY <1>1, <1>4, LockTypes DEF Tx
<1>6. tx' = [tx EXCEPT ![r] = t] /\ Goto(r, "close") /\ UNCHANGED resp
  BY DEF InsertPayout, TypeInv, TypeOK
<1> HIDE DEF t
<1> QED BY <1>1, <1>2, <1>3, <1>5, <1>6, LockTypes, LocalStep

LEMMA CloseType ==
  ASSUME TypeInv, NEW r \in Reqs, Close(r)
  PROVE  TypeInv'
<1> DEFINE p == tx[r].row.meta.pay
           row == Settled(tx[r].row, p)
           t == [tx[r] EXCEPT !.row = row]
           a == [code |-> "OK", sess |-> req[r].sess, payout |-> p,
                 replay |-> FALSE, balance |-> tx[r].seen]
<1>1. pc[r] # "idle" /\ tx[r].row \in Row /\ p \in Payouts
  BY DEF Close, TypeInv, Shape, HasRow, Row, Meta
<1>2. /\ userLock' \in [Users -> Reqs \cup {None}]
      /\ sessLock' \in [Reqs -> Reqs \cup {None}]
      /\ UNCHANGED <<db, credited, conns, req, attempt>>
  BY <1>1, LockTypes DEF Close, locks
<1>3. CASE Throw(r, "Conflict") /\ UNCHANGED tx
  BY <1>1, <1>2, <1>3, ThrowType, LockTypes DEF Codes
<1>4. CASE /\ tx' = [tx EXCEPT ![r].row = row] /\ Answer(r, a) /\ Goto(r, "commit")
  <2>1. "commit" \in Labels \ {"idle"} /\ "commit" \notin HasRow
    BY DEF Labels, HasConn, InTx, HasRow
  <2>2. row \in Row
    BY <1>1 DEF Settled, Row
  <2>3. a \in Response
    BY <1>1, LockTypes DEF Response, Codes
  <2>4. t \in Tx
    BY <2>2, LockTypes DEF Tx
  <2>5. tx' = [tx EXCEPT ![r] = t]
    BY <1>4 DEF TypeInv, TypeOK
  <2> HIDE DEF t, a, row, p
  <2> QED BY <1>1, <1>2, <1>4, <2>1, <2>3, <2>4, <2>5, LocalStep DEF Answer
<1> QED BY <1>3, <1>4 DEF Close

\* Locks after ReleaseLocks are free or held by someone else.
LEMMA ReleaseType ==
  ASSUME TypeInv, NEW r \in Reqs, ReleaseLocks(r)
  PROVE  /\ userLock' \in [Users -> Reqs \cup {None}]
         /\ sessLock' \in [Reqs -> Reqs \cup {None}]
BY DEF ReleaseLocks, TypeInv, TypeOK

\* The tables keep their types when a transaction's writes reach them.
LEMMA ApplyType ==
  ASSUME TypeInv, NEW r \in Reqs, pc[r] # "idle", Apply(r)
  PROVE  /\ balance' \in [Users -> Int]
         /\ status' \in [Users -> {"ACTIVE", "SUSPENDED"}]
         /\ sessions' \in [Reqs -> Row \cup {None}]
         /\ ledger' \in [Users -> Seq(Entry)]
<1>1. tx[r].row \in Row \cup {None} /\ tx[r].entry \in Entry \cup {None}
      /\ tx[r].delta \in Int
  BY LockTypes DEF Tx
<1>2. balance' \in [Users -> Int] /\ status' \in [Users -> {"ACTIVE", "SUSPENDED"}]
  <2>1. balance[req[r].user] + tx[r].delta \in Int
    BY <1>1, LockTypes
  <2> QED BY <2>1 DEF Apply, TypeInv, TypeOK
<1>3. sessions' \in [Reqs -> Row \cup {None}]
  BY <1>1 DEF Apply, TypeInv, TypeOK
<1>4. ledger' \in [Users -> Seq(Entry)]
  <2>1. ledger \in [Users -> Seq(Entry)] /\ req[r].user \in Users
    BY LockTypes DEF TypeInv, TypeOK
  <2>2. tx[r].entry # None => Append(ledger[req[r].user], tx[r].entry) \in Seq(Entry)
    BY <1>1, <2>1
  <2> QED BY <2>1, <2>2 DEF Apply
<1> QED BY <1>2, <1>3, <1>4

LEMMA CommitType ==
  ASSUME TypeInv, NEW r \in Reqs, Commit(r) \/ CommitAckLost(r)
  PROVE  TypeInv'
<1>1. pc[r] = "commit" /\ pc[r] # "idle" /\ resp[r] \in Response
  BY DEF Commit, CommitAckLost, TypeInv, Shape, HasResp
<1>2. PICK a \in Response, l \in {"board", "done"} :
         resp' = [resp EXCEPT ![r] = a] /\ Goto(r, l)
  <2>1. CASE Commit(r)
    BY <1>1, <2>1, LockTypes DEF Commit
  <2>2. CASE CommitAckLost(r)
    BY <1>1, <2>2, ErrorType DEF CommitAckLost, Answer, Codes
  <2> QED BY <2>1, <2>2
<1>3. Apply(r) /\ ReleaseLocks(r) /\ conns' = conns \ {r}
      /\ tx' = [tx EXCEPT ![r] = EmptyTx] /\ UNCHANGED <<credited, req, attempt>>
  BY DEF Commit, CommitAckLost, Disconnect
<1>4. l \in Labels \ {"idle"} /\ l \notin HasRow
  BY <1>2 DEF Labels, HasRow
<1>5. TypeOK'
  BY <1>1, <1>2, <1>3, <1>4, ApplyType, ReleaseType, EmptyTxType DEF TypeInv, TypeOK, Goto
<1>6. Shape'
  BY <1>1, <1>2, <1>3, <1>4 DEF TypeInv, TypeOK, Shape, Goto
<1> QED BY <1>5, <1>6 DEF TypeInv

LEMMA RollbackType ==
  ASSUME TypeInv, NEW r \in Reqs, Rollback(r)
  PROVE  TypeInv'
<1>1. pc[r] # "idle" /\ resp[r] \in Response
  BY DEF Rollback, TypeInv, Shape, HasResp
<1>2. PICK a \in Response, l \in {"backoff", "done", "replayRead"} :
         resp' = [resp EXCEPT ![r] = a] /\ Goto(r, l)
  BY <1>1, ErrorType, LockTypes DEF Rollback, Answer, Codes
<1>3. ReleaseLocks(r) /\ conns' \subseteq conns /\ tx' = [tx EXCEPT ![r] = EmptyTx]
      /\ UNCHANGED <<db, credited, req, attempt>>
  BY DEF Rollback, Disconnect
<1>4. l \in Labels \ {"idle"} /\ l \notin HasRow
  BY <1>2 DEF Labels, HasConn, HasRow
<1>5. TypeOK'
  BY <1>1, <1>2, <1>3, <1>4, ReleaseType, EmptyTxType DEF TypeInv, TypeOK, Goto, db
<1>6. Shape'
  BY <1>1, <1>2, <1>3, <1>4 DEF TypeInv, TypeOK, Shape, Goto
<1> QED BY <1>5, <1>6 DEF TypeInv

\* getConnection, and the release of a connection after the backoff
LEMMA ConnectionType ==
  ASSUME TypeInv, NEW r \in Reqs, Connect(r) \/ Retry(r)
  PROVE  TypeInv'
<1>1. CASE Connect(r)
  BY <1>1, SMTT(30) DEF Connect, Goto, EmptyTx, Tx, TypeInv, TypeOK, Shape,
       HasRow, HasResp, Labels, HasConn, InTx, db, locks
<1>2. CASE Retry(r)
  BY <1>2, SMTT(30) DEF Retry, Disconnect, Goto, TypeInv, TypeOK, Shape,
       HasRow, HasResp, Labels, HasConn, InTx, db, locks
<1> QED BY <1>1, <1>2

\* The steps outside a transaction that only answer.
LEMMA AnswerType ==
  ASSUME TypeInv, NEW r \in Reqs,
         ReplayRead(r) \/ CreditBoardFails(r) \/ PoolFails(r)
  PROVE  TypeInv'
<1>1. pc[r] # "idle" /\ Goto(r, "done") /\ UNCHANGED <<db, credited, conns, req, attempt>>
      /\ UNCHANGED <<userLock, sessLock, tx>>
  BY DEF ReplayRead, CreditBoardFails, PoolFails, locks
<1>2. "done" \in Labels \ {"idle"} /\ "done" \notin HasRow \cup HasResp
  BY DEF Labels, HasRow, HasResp
<1>3. \E a \in Response \cup {None} : resp' = [resp EXCEPT ![r] = a]
  <2>1. \A s \in Reqs : ReplayOf(s) \in Response
    BY DEF ReplayOf, Response, Codes
  <2>2. CASE ReplayRead(r)
    BY <2>1, <2>2, ErrorType DEF ReplayRead, SessionsOf, Answer, Codes
  <2>3. CASE CreditBoardFails(r)
    BY <2>3, LockTypes DEF CreditBoardFails
  <2>4. CASE PoolFails(r)
    BY <2>4, ErrorType DEF PoolFails, Answer, Codes
  <2> QED BY <2>2, <2>3, <2>4
<1> QED BY <1>1, <1>2, <1>3, LockTypes, LocalStep

LEMMA CreditBoardType ==
  ASSUME TypeInv, NEW r \in Reqs, CreditBoard(r)
  PROVE  TypeInv'
<1>1. credited' \in [Reqs -> Nat]
  <2> DEFINE s == resp[r].sess
  <2>1. credited' = [credited EXCEPT ![s] = credited[s] + 1] /\ credited \in [Reqs -> Nat]
    BY DEF CreditBoard, TypeInv, TypeOK
  <2> HIDE DEF s
  <2>2. CASE s \in Reqs
    BY <2>1, <2>2
  <2>3. CASE s \notin Reqs
    BY <2>1, <2>3
  <2> QED BY <2>2, <2>3
<1>2. "done" \in Labels /\ "done" \notin HasRow \cup HasResp
  BY DEF Labels, HasRow, HasResp
<1>3. TypeOK'
  BY <1>1, <1>2 DEF CreditBoard, Goto, TypeInv, TypeOK, db, locks
<1>4. Shape'
  BY <1>2 DEF CreditBoard, Goto, TypeInv, TypeOK, Shape
<1> QED BY <1>3, <1>4 DEF TypeInv

LEMMA FailureType ==
  ASSUME TypeInv, NEW r \in Reqs, LockWaitTimeout(r) \/ StatementFails(r)
  PROVE  TypeInv'
<1>1. pc[r] # "idle"
  BY DEF LockWaitTimeout, StatementFails, WaitsFor, InTx
<1>2. PICK c \in Codes : Throw(r, c)
  BY DEF LockWaitTimeout, StatementFails, Codes
<1>3. UNCHANGED <<db, credited, conns, req, attempt>> /\ UNCHANGED <<userLock, sessLock, tx>>
  BY DEF LockWaitTimeout, StatementFails, locks
<1> QED BY <1>1, <1>2, <1>3, LockTypes, ThrowType

LEMMA CrashType ==
  ASSUME TypeInv, Crash
  PROVE  TypeInv'
<1>1. TypeOK'
  BY EmptyTxType DEF Crash, InFlight, TypeInv, TypeOK, Labels, db
<1>2. Shape'
  BY DEF Crash, InFlight, TypeInv, TypeOK, Shape, HasRow, HasResp
<1> QED BY <1>1, <1>2 DEF TypeInv

LEMMA ChangeStatusType ==
  ASSUME TypeInv, NEW u \in Users, ChangeStatus(u)
  PROVE  TypeInv'
BY ConstantsAssumption DEF ChangeStatus, TypeInv, TypeOK, Shape, locks

LEMMA StutterType ==
  ASSUME TypeInv, UNCHANGED vars
  PROVE  TypeInv'
BY DEF TypeInv, TypeOK, Shape, vars, db, locks

LEMMA NextType == TypeInv /\ [Next]_vars => TypeInv'
<1> SUFFICES ASSUME TypeInv, [Next]_vars PROVE TypeInv'
  OBVIOUS
<1>1. ASSUME NEW r \in Reqs, Handle(r) PROVE TypeInv'
  BY <1>1, ConnectionType, LookupType, LockUserType, DebitType, InsertSessionType,
     InsertBetType, LockSessionType, EngineType, LockPayeeType, CreditType,
     InsertPayoutType, CloseType, CommitType, RollbackType, AnswerType,
     CreditBoardType DEF Handle
<1>2. ASSUME NEW r \in Reqs, Fail(r) PROVE TypeInv'
  BY <1>2, CommitType, AnswerType, FailureType DEF Fail
<1> QED BY <1>1, <1>2, SubmitType, CrashType, ChangeStatusType, StutterType DEF Next

\* Every table, lock and local variable keeps its type, and a request has a
\* body once it is received, a row once it has locked one and a response
\* once it commits or rolls back.
THEOREM TypeCorrect == Spec => []TypeInv
BY InitType, NextType, PTL DEF Spec

\* The type invariant the runs check, for every value of the constants.
THEOREM TypesHold == Spec => []TypeOK
<1>1. TypeInv => TypeOK
  BY DEF TypeInv
<1> QED BY <1>1, TypeCorrect, PTL

---------------------------------------------------------------------------
(* Locks, reads and the ledger.                                             *)

LEMMA InitDiscipline == Init => LocksProtectReads
BY DEF Init, LocksProtectReads, Disciplined, HasRow

\* A step of r leaves what another request o has read alone when it changes
\* neither o's local state nor a row o has locked.
LEMMA Undisturbed ==
  ASSUME TypeInv, NEW r \in Reqs, NEW o \in Reqs, Disciplined(o),
         pc'[o] = pc[o], tx'[o] = tx[o], req'[o] = req[o], resp'[o] = resp[o],
         sessions'[o] # None => sessions[o] # None,
         \A u \in Users : userLock[u] = o =>
            /\ userLock'[u] = o /\ balance'[u] = balance[u] /\ status'[u] = status[u]
            /\ \A k \in Keys : SessionsOf(u, k) = {} => SessionsOf(u, k)' = {},
         \A s \in Reqs : sessLock[s] = o /\ sessions[s] # None =>
            sessLock'[s] = o /\ sessions'[s] = sessions[s]
  PROVE  Disciplined(o)'
<1>1. pc[o] # "idle" => /\ req[o].user \in Users /\ req[o].sess \in Reqs
                        /\ req[o].key \in Keys \cup {NoKey}
  BY LockTypes
<1>2. WritesNothing(o)' = WritesNothing(o) /\ MayBet(o)' = MayBet(o)
  BY DEF WritesNothing, MayBet
<1>3. pc[o] # "idle" /\ HoldsAccount(o) =>
        /\ HoldsAccount(o)' /\ balance'[req[o].user] = balance[req[o].user]
        /\ ~KeyTaken(req[o]) => ~KeyTaken(req[o])'
  BY <1>1 DEF HoldsAccount, KeyTaken
<1>4. pc[o] # "idle" /\ Plays(o) => Plays(o)' /\ (StillActive(o) => StillActive(o)')
  BY <1>1 DEF Plays, StillActive
<1>5. pc[o] # "idle" /\ StakeReserved(o) => StakeReserved(o)'
  BY <1>2, <1>3 DEF StakeReserved
<1>6. pc[o] # "idle" /\ HoldsAccount(o) /\ FreshRow(o) => FreshRow(o)'
  BY <1>3 DEF FreshRow
<1>7. \A p : pc[o] # "idle" /\ Pays(o, p) => Pays(o, p)' 
  BY <1>3 DEF Pays
<1>8. \A p : PayoutRow(o, p)' = PayoutRow(o, p)
  BY DEF PayoutRow
<1>9. pc[o] = "commit" => (WritesNothing(o) \/ CommitsBet(o) \/ CommitsStep(o)
                           \/ CommitsSettlement(o))'
  <2>1. pc[o] = "commit" /\ CommitsBet(o) => CommitsBet(o)'
    BY <1>5, <1>6 DEF CommitsBet, StakeReserved
  <2>2. pc[o] = "commit" /\ CommitsStep(o) => CommitsStep(o)'
    BY <1>4 DEF CommitsStep
  <2>3. pc[o] = "commit" /\ CommitsSettlement(o) => CommitsSettlement(o)'
    BY <1>4, <1>7, <1>8 DEF CommitsSettlement
  <2> QED BY <1>2, <2>1, <2>2, <2>3 DEF Disciplined
<1> QED BY <1>2, <1>4, <1>5, <1>6, <1>7, <1>8, <1>9, SMTT(60) DEF Disciplined, HasRow, StakeReserved

\* A step of r that leaves the tables and the other requests alone.
LEMMA StatementKeeps ==
  ASSUME TypeInv, LocksProtectReads, NEW r \in Reqs, UNCHANGED db,
         \A o \in Reqs \ {r} : /\ pc'[o] = pc[o] /\ tx'[o] = tx[o]
                               /\ req'[o] = req[o] /\ resp'[o] = resp[o],
         \A o \in Reqs \ {r} :
            /\ \A u \in Users : userLock[u] = o => userLock'[u] = o
            /\ \A s \in Reqs : sessLock[s] = o => sessLock'[s] = o,
         Disciplined(r)'
  PROVE  LocksProtectReads'
<1> SUFFICES ASSUME NEW o \in Reqs \ {r} PROVE Disciplined(o)'
  BY DEF LocksProtectReads
<1>1. \A u \in Users, k \in Keys : SessionsOf(u, k)' = SessionsOf(u, k)
  BY DEF SessionsOf, db
<1> QED BY <1>1, Undisturbed DEF db, LocksProtectReads

\* Outside a transaction there is nothing to protect.
Outside == {"connect", "rollback", "backoff", "replayRead", "board", "done"}
LEMMA OutsideKeeps ==
  ASSUME TypeInv, LocksProtectReads, NEW r \in Reqs, pc[r] # "idle",
         pc'[r] \in Outside, UNCHANGED req,
         sessions'[r] # None => pc'[r] = "done"
  PROVE  Disciplined(r)'
BY DEF LocksProtectReads, Disciplined, Outside, HasRow

LEMMA ThrowKeeps ==
  ASSUME TypeInv, LocksProtectReads, NEW r \in Reqs, pc[r] \notin {"idle", "done"},
         NEW c, Throw(r, c), UNCHANGED <<db, req>>,
         \A o \in Reqs \ {r} :
            /\ tx'[o] = tx[o]
            /\ \A u \in Users : userLock[u] = o => userLock'[u] = o
            /\ \A s \in Reqs : sessLock[s] = o => sessLock'[s] = o
  PROVE  LocksProtectReads'
<1>1. pc'[r] = "rollback" /\ \A o \in Reqs \ {r} : pc'[o] = pc[o] /\ resp'[o] = resp[o]
  BY DEF Throw, Goto, Answer, TypeInv, TypeOK
<1>2. sessions'[r] = None
  BY DEF LocksProtectReads, Disciplined, db
<1> QED BY <1>1, <1>2, OutsideKeeps, StatementKeeps DEF Outside, db

LEMMA SubmitKeeps ==
  ASSUME TypeInv, LocksProtectReads, NEW r \in Reqs,
         SubmitInitiate(r) \/ SubmitOnSession(r)
  PROVE  LocksProtectReads'
<1>1. PICK body : Submit(r, body) /\ (body.kind = "initiate" => body.sess = r)
  <2>1. CASE SubmitInitiate(r)
    BY <2>1 DEF SubmitInitiate
  <2>2. CASE SubmitOnSession(r)
    <3> DEFINE body(u, s, kind) ==
          [kind |-> kind, user |-> u, sess |-> s, key |-> NoKey,
           bet |-> CHOOSE b \in Bets : TRUE]
    <3>1. PICK u \in Users, s \in Reqs, kind \in {"process", "settle"} :
             Submit(r, body(u, s, kind))
      BY <2>2, Zenon DEF SubmitOnSession
    <3>2. body(u, s, kind).kind = kind
      OBVIOUS
    <3> HIDE DEF body
    <3> QED BY <3>1, <3>2
  <2> QED BY <2>1, <2>2
<1>2. Disciplined(r)'
  BY <1>1 DEF Submit, Goto, db, LocksProtectReads, Disciplined, TypeInv, TypeOK, HasRow
<1> QED BY <1>1, <1>2, StatementKeeps DEF Submit, Goto, TypeInv, TypeOK, locks

LEMMA ConnectKeeps ==
  ASSUME TypeInv, LocksProtectReads, NEW r \in Reqs, Connect(r)
  PROVE  LocksProtectReads'
<1>1. Disciplined(r)'
  BY DEF Connect, Goto, db, LocksProtectReads, Disciplined, TypeInv, TypeOK, HasRow,
         EmptyTx, WritesNothing
<1> QED BY <1>1, StatementKeeps DEF Connect, Goto, TypeInv, TypeOK, locks

LEMMA LookupKeeps ==
  ASSUME TypeInv, LocksProtectReads, NEW r \in Reqs, Lookup(r)
  PROVE  LocksProtectReads'
<1>1. CASE Throw(r, "Validation")
  BY <1>1, ThrowKeeps DEF Lookup, locks
<1>2. CASE pc'[r] \in {"commit", "lockUser"}
  <2>1. Disciplined(r)'
    BY <1>2 DEF Lookup, Throw, Goto, db, LocksProtectReads, Disciplined, TypeInv, TypeOK,
         HasRow, WritesNothing, MayBet
  <2> QED BY <2>1, StatementKeeps DEF Lookup, Throw, Goto, Answer, TypeInv, TypeOK, locks
<1> QED BY <1>1, <1>2 DEF Lookup, Goto, TypeInv, TypeOK

LEMMA LockUserKeeps ==
  ASSUME TypeInv, LocksProtectReads, NEW r \in Reqs, LockUser(r)
  PROVE  LocksProtectReads'
<1>1. req[r].user \in Users /\ req[r].bet \in Nat /\ balance[req[r].user] \in Int
  BY LockTypes DEF LockUser
<1>2. userLock[req[r].user] = None /\ userLock' = [userLock EXCEPT ![req[r].user] = r]
      /\ UNCHANGED <<db, sessLock, req>>
  BY DEF LockUser, LockUsersRow
<1>3. \A o \in Reqs \ {r} :
        /\ tx'[o] = tx[o]
        /\ \A u \in Users : userLock[u] = o => userLock'[u] = o
        /\ \A s \in Reqs : sessLock[s] = o => sessLock'[s] = o
  BY <1>2, NoneAssumption DEF LockUser, Snapshot, TypeInv, TypeOK
<1>4. CASE Throw(r, "Forbidden") \/ Throw(r, "InsufficientFunds")
  BY <1>2, <1>3, <1>4, ThrowKeeps DEF LockUser
<1>5. CASE AccountActive(req[r].user) /\ balance[req[r].user] >= req[r].bet
           /\ Goto(r, "debit") /\ UNCHANGED resp
  <2>1. pc'[r] = "debit" /\ \A o \in Reqs \ {r} : pc'[o] = pc[o]
    BY <1>5 DEF Goto, TypeInv, TypeOK
  <2>2. tx'[r] = [tx[r] EXCEPT !.seen = balance[req[r].user]] /\ tx[r] \in Tx
    BY DEF LockUser, Snapshot, TypeInv, TypeOK
  <2>3. userLock'[req[r].user] = r
    BY <1>1, <1>2 DEF TypeInv, TypeOK
  <2>4. MayBet(r) /\ WritesNothing(r) /\ sessions[r] = None /\ req[r].sess = r
    BY DEF LocksProtectReads, Disciplined, LockUser, MayBet
  <2>5. StakeReserved(r)' /\ (tx[r].row = None /\ tx[r].entry = None)'
    BY <1>1, <1>2, <1>5, <2>2, <2>3, <2>4
       DEF StakeReserved, MayBet, HoldsAccount, AccountActive, WritesNothing, Tx, db
  <2>6. Disciplined(r)'
    BY <1>2, <2>1, <2>4, <2>5 DEF Disciplined, HasRow, db
  <2> QED BY <1>2, <1>3, <1>5, <2>1, <2>6, StatementKeeps
<1> QED BY <1>4, <1>5 DEF LockUser

LEMMA DebitKeeps ==
  ASSUME TypeInv, LocksProtectReads, NEW r \in Reqs, Debit(r)
  PROVE  LocksProtectReads'
<1>1. \A o \in Reqs \ {r} :
        /\ tx'[o] = tx[o]
        /\ \A u \in Users : userLock[u] = o => userLock'[u] = o
        /\ \A s \in Reqs : sessLock[s] = o => sessLock'[s] = o
  BY DEF Debit, TypeInv, TypeOK, locks
<1>2. CASE Throw(r, "InsufficientFunds")
  BY <1>1, <1>2, ThrowKeeps DEF Debit
<1>3. CASE /\ tx' = [tx EXCEPT ![r].delta = -req[r].bet]
           /\ Goto(r, "insertSession") /\ UNCHANGED resp
  <2>1. pc'[r] = "insertSession" /\ \A o \in Reqs \ {r} : pc'[o] = pc[o]
    BY <1>3 DEF Goto, TypeInv, TypeOK
  <2>2. tx'[r] = [tx[r] EXCEPT !.delta = -req[r].bet] /\ tx[r] \in Tx
    BY <1>3 DEF TypeInv, TypeOK
  <2>3. UNCHANGED <<balance, status, sessions, userLock, sessLock, req>>
    BY DEF Debit, db, locks
  <2>4. Disciplined(r) /\ pc[r] = "debit"
    BY DEF Debit, LocksProtectReads
  <2>5. StakeReserved(r)' /\ (tx[r].row = None /\ tx[r].entry = None)'
        /\ (tx[r].delta = -req[r].bet)'
    BY <2>2, <2>3, <2>4 DEF Disciplined, StakeReserved, MayBet, HoldsAccount, Tx
  <2>6. Disciplined(r)'
    BY <2>1, <2>3, <2>4, <2>5 DEF Disciplined, HasRow
  <2> QED BY <1>1, <1>3, <2>1, <2>6, StatementKeeps DEF Debit
<1> QED BY <1>2, <1>3 DEF Debit

LEMMA InsertSessionKeeps ==
  ASSUME TypeInv, LocksProtectReads, NEW r \in Reqs, InsertSession(r)
  PROVE  LocksProtectReads'
<1>1. UNCHANGED <<balance, status, sessions, userLock, sessLock, req>> /\ UNCHANGED db
  BY DEF InsertSession, db, locks
<1>2. CASE Throw(r, "Duplicate") /\ UNCHANGED tx
  BY <1>1, <1>2, ThrowKeeps DEF InsertSession
<1>3. ASSUME ~UniqueViolation(req[r]), NEW p \in Payouts,
             tx' = [tx EXCEPT ![r].row =
                      [user |-> req[r].user, key |-> req[r].key, bet |-> req[r].bet,
                       status |-> "ACTIVE", payout |-> None,
                       meta |-> [over |-> FALSE, pay |-> p]]],
             Goto(r, "insertBet"), UNCHANGED resp
      PROVE  LocksProtectReads'
  <2> DEFINE row == [user |-> req[r].user, key |-> req[r].key, bet |-> req[r].bet,
                     status |-> "ACTIVE", payout |-> None,
                     meta |-> [over |-> FALSE, pay |-> p]]
  <2>1. pc'[r] = "insertBet" /\ \A o \in Reqs \ {r} : pc'[o] = pc[o] /\ tx'[o] = tx[o]
    BY <1>3 DEF Goto, TypeInv, TypeOK
  <2>2. tx'[r] = [tx[r] EXCEPT !.row = row] /\ tx[r] \in Tx
    BY <1>3 DEF TypeInv, TypeOK
  <2>3. row \in Row
    BY LockTypes DEF InsertSession, Row, Meta
  <2>4. Disciplined(r) /\ pc[r] = "insertSession"
    BY DEF InsertSession, LocksProtectReads
  <2>5. StakeReserved(r)' /\ (tx[r].entry = None)' /\ (tx[r].delta = -req[r].bet)'
    BY <1>1, <2>2, <2>4 DEF Disciplined, StakeReserved, MayBet, HoldsAccount, Tx
  <2>6. (~KeyTaken(req[r]))'
    BY <1>1, <1>3 DEF UniqueViolation, KeyTaken, SessionsOf
  <2>7. FreshRow(r)'
    BY <1>1, <2>2, <2>3, <2>6 DEF FreshRow, Tx
  <2>8. Disciplined(r)'
    BY <1>1, <2>1, <2>4, <2>5, <2>7 DEF Disciplined, HasRow
  <2> QED BY <1>1, <1>3, <2>1, <2>8, StatementKeeps
<1> QED BY <1>2, <1>3 DEF InsertSession

LEMMA InsertBetKeeps ==
  ASSUME TypeInv, LocksProtectReads, NEW r \in Reqs, InsertBet(r)
  PROVE  LocksProtectReads'
<1>1. UNCHANGED <<balance, status, sessions, userLock, sessLock, req>> /\ UNCHANGED db
  BY DEF InsertBet, db, locks
<1>2. pc'[r] = "commit" /\ \A o \in Reqs \ {r} : pc'[o] = pc[o] /\ tx'[o] = tx[o]
                                               /\ resp'[o] = resp[o]
  BY DEF InsertBet, Goto, Answer, TypeInv, TypeOK
<1>3. resp'[r].payout = None
  BY DEF InsertBet, Answer, TypeInv, TypeOK
<1>4. tx'[r] = [tx[r] EXCEPT !.entry =
                  [reason |-> "GAME_BET", sess |-> r, amount |-> -req[r].bet,
                   after |-> tx[r].seen - req[r].bet]] /\ tx[r] \in Tx
  BY DEF InsertBet, BalanceAfterBet, TypeInv, TypeOK
<1>5. Disciplined(r) /\ pc[r] = "insertBet"
  BY DEF InsertBet, LocksProtectReads
<1>6. StakeReserved(r)' /\ FreshRow(r)' /\ (tx[r].delta = -req[r].bet)'
  BY <1>1, <1>4, <1>5 DEF Disciplined, StakeReserved, FreshRow, KeyTaken, SessionsOf,
       MayBet, HoldsAccount, Tx
<1>7. CommitsBet(r)'
  BY <1>1, <1>3, <1>4, <1>6 DEF CommitsBet, Tx
<1>8. Disciplined(r)'
  BY <1>1, <1>2, <1>5, <1>7 DEF Disciplined, HasRow
<1> QED BY <1>1, <1>2, <1>8, StatementKeeps

LEMMA LockSessionKeeps ==
  ASSUME TypeInv, LocksProtectReads, NEW r \in Reqs, LockSession(r)
  PROVE  LocksProtectReads'
<1> DEFINE s == req[r].sess
           row == sessions[s]
<1>1. s \in Reqs /\ row \in Row \cup {None}
  BY LockTypes DEF LockSession, TypeInv, TypeOK
<1>2. UNCHANGED <<balance, status, sessions, userLock, req>> /\ UNCHANGED db
  BY DEF LockSession, db
<1>3. \A o \in Reqs \ {r} :
        /\ tx'[o] = tx[o]
        /\ \A u \in Users : userLock[u] = o => userLock'[u] = o
        /\ \A x \in Reqs : sessLock[x] = o => sessLock'[x] = o
  BY <1>1, NoneAssumption DEF LockSession, TypeInv, TypeOK
<1>4. Disciplined(r) /\ pc[r] = "lockSession" /\ sessions[r] = None /\ WritesNothing(r)
  BY DEF LockSession, LocksProtectReads, Disciplined
<1>5. CASE Throw(r, "NotFound") \/ Throw(r, "Conflict")
  BY <1>2, <1>3, <1>4, <1>5, ThrowKeeps
<1>6. CASE /\ row # None /\ IsActive(row) /\ Owns(req[r], row)
           /\ sessLock' = [sessLock EXCEPT ![s] = r]
           /\ tx' = [tx EXCEPT ![r].row = row] /\ Goto(r, "engine") /\ UNCHANGED resp
  <2>1. pc'[r] = "engine" /\ \A o \in Reqs \ {r} : pc'[o] = pc[o]
    BY <1>6 DEF Goto, TypeInv, TypeOK
  <2>2. tx'[r] = [tx[r] EXCEPT !.row = row] /\ tx[r] \in Tx
    BY <1>6 DEF TypeInv, TypeOK
  <2>3. sessLock'[s] = r
    BY <1>1, <1>6 DEF TypeInv, TypeOK
  <2>4. Plays(r)' /\ StillActive(r)'
    BY <1>1, <1>2, <1>6, <2>2, <2>3 DEF Plays, StillActive, IsActive, Owns, Tx
  <2>5. (tx[r].delta = 0 /\ tx[r].entry = None)'
    BY <1>4, <2>2 DEF WritesNothing, Tx
  <2>6. Disciplined(r)'
    BY <1>2, <1>4, <2>1, <2>4, <2>5 DEF Disciplined, HasRow
  <2> QED BY <1>2, <1>3, <1>6, <2>1, <2>6, StatementKeeps
<1>7. CASE /\ Goto(r, "commit") /\ UNCHANGED tx
           /\ Answer(r, [code |-> "OK", sess |-> s, payout |-> row.payout,
                         replay |-> TRUE, balance |-> balance[req[r].user]])
  <2>1. pc'[r] = "commit" /\ \A o \in Reqs \ {r} : pc'[o] = pc[o] /\ resp'[o] = resp[o]
    BY <1>7 DEF Goto, Answer, TypeInv, TypeOK
  <2>2. WritesNothing(r)'
    BY <1>4, <1>7 DEF WritesNothing
  <2>3. Disciplined(r)'
    BY <1>2, <1>4, <2>1, <2>2 DEF Disciplined, HasRow
  <2> QED BY <1>2, <1>3, <2>1, <2>3, StatementKeeps
<1> QED BY <1>5, <1>6, <1>7 DEF LockSession

\* Reading the game and stepping the engine changes only the metadata.
LEMMA PlayOn ==
  ASSUME TypeInv, NEW r \in Reqs, pc[r] = "engine", Disciplined(r),
         NEW t, tx'[r] = t, t.row \in Row,
         t.delta = tx[r].delta, t.entry = tx[r].entry,
         t.row.user = tx[r].row.user, t.row.key = tx[r].row.key,
         t.row.bet = tx[r].row.bet, t.row.status = tx[r].row.status,
         t.row.payout = tx[r].row.payout,
         UNCHANGED <<sessions, sessLock, req>>,
         \/ pc'[r] = "payout"
         \/ pc'[r] = "commit" /\ ~t.row.meta.over
  PROVE  Disciplined(r)'
<1>1. Plays(r)' /\ StillActive(r)' /\ (tx[r].delta = 0 /\ tx[r].entry = None)'
  BY DEF Disciplined, HasRow, Plays, StillActive
<1>2. pc'[r] = "commit" => CommitsStep(r)'
  BY <1>1 DEF CommitsStep
<1> QED BY <1>1, <1>2 DEF Disciplined, HasRow

LEMMA EngineKeeps ==
  ASSUME TypeInv, LocksProtectReads, NEW r \in Reqs, Engine(r)
  PROVE  LocksProtectReads'
<1>1. UNCHANGED <<balance, status, sessions, userLock, sessLock, req>> /\ UNCHANGED db
  BY DEF Engine, db, locks
<1>2. pc[r] = "engine" /\ Disciplined(r) /\ tx[r] \in Tx /\ tx[r].row \in Row
      /\ balance[req[r].user] \in Int
  BY LockTypes DEF Engine, LocksProtectReads, TypeInv, Shape, HasRow
<1>3. CASE Throw(r, "Validation") /\ UNCHANGED tx
  BY <1>1, <1>2, <1>3, ThrowKeeps
<1>4. ASSUME NEW m \in Meta, tx' = [Snapshot(r) EXCEPT ![r].row.meta = m],
             \/ Goto(r, "payout") /\ UNCHANGED resp
             \/ Goto(r, "commit") /\ ~m.over /\ \E a : Answer(r, a)
      PROVE  LocksProtectReads'
  <2>0. PICK l : Goto(r, l) /\ (l = "payout" \/ (l = "commit" /\ ~m.over))
    BY <1>4, Zenon
  <2>1. \A o \in Reqs \ {r} : pc'[o] = pc[o] /\ tx'[o] = tx[o] /\ resp'[o] = resp[o]
    <3>1. \A o \in Reqs \ {r} : pc'[o] = pc[o]
      BY <2>0 DEF Goto, TypeInv, TypeOK
    <3>2. \A o \in Reqs \ {r} : resp'[o] = resp[o]
      BY <1>4 DEF Answer, TypeInv, TypeOK
    <3>3. \A o \in Reqs \ {r} : tx'[o] = tx[o]
      BY <1>4 DEF Snapshot, TypeInv, TypeOK
    <3> QED BY <3>1, <3>2, <3>3
  <2> DEFINE n == [tx[r] EXCEPT !.seen = balance[req[r].user]]
             t == [n EXCEPT !.row.meta = m]
  <2>2. tx'[r] = t
    BY <1>4 DEF Snapshot, TypeInv, TypeOK
  <2>3. n.row = tx[r].row /\ n.delta = tx[r].delta /\ n.entry = tx[r].entry /\ n \in Tx
    BY <1>2 DEF Tx
  <2>4. t.row = [tx[r].row EXCEPT !.meta = m] /\ t.delta = tx[r].delta
        /\ t.entry = tx[r].entry
    BY <2>3 DEF Tx
  <2>5. t.row \in Row /\ t.row.meta = m /\ t.row.user = tx[r].row.user
        /\ t.row.key = tx[r].row.key /\ t.row.bet = tx[r].row.bet
        /\ t.row.status = tx[r].row.status /\ t.row.payout = tx[r].row.payout
    BY <1>2, <2>4 DEF Row
  <2> HIDE DEF t, n
  <2>6. pc'[r] = "payout" \/ (pc'[r] = "commit" /\ ~t.row.meta.over)
    <3>1. pc'[r] = l
      BY <2>0 DEF Goto, TypeInv, TypeOK
    <3> QED BY <2>0, <2>5, <3>1, Zenon
  <2>7. Disciplined(r)'
    BY <1>1, <1>2, <2>2, <2>4, <2>5, <2>6, PlayOn
  <2> QED BY <1>1, <2>1, <2>7, StatementKeeps
<1>5. CASE tx' = Snapshot(r) /\ Goto(r, "payout") /\ UNCHANGED resp
  <2>1. /\ \A o \in Reqs \ {r} : pc'[o] = pc[o] /\ tx'[o] = tx[o]
        /\ pc'[r] = "payout"
    BY <1>5 DEF Goto, Snapshot, TypeInv, TypeOK
  <2> DEFINE t == [tx[r] EXCEPT !.seen = balance[req[r].user]]
  <2>2. tx'[r] = t
    BY <1>5 DEF Snapshot, TypeInv, TypeOK
  <2>3. t.row = tx[r].row /\ t.delta = tx[r].delta /\ t.entry = tx[r].entry
    BY <1>2 DEF Tx
  <2> HIDE DEF t
  <2>4. Disciplined(r)'
    BY <1>1, <1>2, <2>1, <2>2, <2>3, PlayOn
  <2> QED BY <1>1, <1>5, <2>1, <2>4, StatementKeeps
<1>6. \A p \in Payouts, o \in BOOLEAN : [over |-> o, pay |-> p] \in Meta
  BY DEF Meta
<1>7. CASE \E p \in Payouts :
             /\ tx' = [Snapshot(r) EXCEPT ![r].row.meta = [over |-> FALSE, pay |-> p]]
             /\ Goto(r, "commit") /\ \E a : Answer(r, a)
  <2>1. PICK p \in Payouts :
             /\ tx' = [Snapshot(r) EXCEPT ![r].row.meta = [over |-> FALSE, pay |-> p]]
             /\ Goto(r, "commit") /\ \E a : Answer(r, a)
    BY <1>7
  <2> DEFINE m == [over |-> FALSE, pay |-> p]
  <2>2. m \in Meta /\ ~m.over
    BY <1>6
  <2>3. tx' = [Snapshot(r) EXCEPT ![r].row.meta = m]
    BY <2>1
  <2> HIDE DEF m
  <2> QED BY <1>4, <2>1, <2>2, <2>3
<1>8. CASE \E p \in Payouts :
             /\ tx' = [Snapshot(r) EXCEPT ![r].row.meta = [over |-> TRUE, pay |-> p]]
             /\ Goto(r, "payout") /\ UNCHANGED resp
  BY <1>4, <1>6, <1>8
<1> QED BY <1>3, <1>5, <1>7, <1>8 DEF Engine

\* The statements of applySettlement keep the session and change the rest.
LEMMA SettlementKeeps ==
  ASSUME TypeInv, NEW r \in Reqs, Disciplined(r), pc[r] \in {"payout", "credit", "insertPayout"},
         NEW t \in Tx, tx'[r] = t, t.row = tx[r].row,
         UNCHANGED <<sessions, sessLock, req>>,
         pc'[r] \in {"credit", "insertPayout", "close"},
         pc'[r] = "credit" => t.delta = 0 /\ t.entry = None /\ Pays(r, t.row.meta.pay)',
         pc'[r] = "insertPayout" =>
           t.delta = t.row.meta.pay /\ t.entry = None /\ Pays(r, t.row.meta.pay)',
         pc'[r] = "close" =>
           \/ t.row.meta.pay = 0 /\ t.delta = 0 /\ t.entry = None
           \/ /\ Pays(r, t.row.meta.pay)' /\ t.delta = t.row.meta.pay
              /\ t.entry = [reason |-> "GAME_PAYOUT", sess |-> req[r].sess,
                            amount |-> t.row.meta.pay, after |-> t.seen]
  PROVE  Disciplined(r)'
<1>1. Plays(r)' /\ StillActive(r)'
  BY DEF Disciplined, HasRow, Plays, StillActive
<1>2. \A p : PayoutRow(r, p)' = [reason |-> "GAME_PAYOUT", sess |-> req[r].sess,
                                 amount |-> p, after |-> t.seen]
  BY DEF PayoutRow
<1> QED BY <1>1, <1>2 DEF Disciplined, HasRow

LEMMA LockPayeeKeeps ==
  ASSUME TypeInv, LocksProtectReads, NEW r \in Reqs, LockPayee(r)
  PROVE  LocksProtectReads'
<1> DEFINE u == req[r].user
           p == tx[r].row.meta.pay
<1>1. u \in Users /\ balance[u] \in Int /\ tx[r] \in Tx /\ p \in Nat
  BY ConstantsAssumption, LockTypes DEF LockPayee, TypeInv, Shape, HasRow, Row, Meta
<1>2. UNCHANGED <<balance, status, sessions, sessLock, req>> /\ UNCHANGED db
  BY DEF LockPayee, db
<1>3. \A o \in Reqs \ {r} :
        /\ tx'[o] = tx[o]
        /\ \A x \in Users : userLock[x] = o => userLock'[x] = o
        /\ \A x \in Reqs : sessLock[x] = o => sessLock'[x] = o
  BY <1>1, NoneAssumption DEF LockPayee, LockUsersRow, TypeInv, TypeOK
<1>4. Disciplined(r) /\ pc[r] = "payout" /\ tx[r].delta = 0 /\ tx[r].entry = None
  BY DEF LockPayee, LocksProtectReads, Disciplined
<1>5. CASE Throw(r, "Internal") \/ Throw(r, "Forbidden")
  BY <1>2, <1>3, <1>4, <1>5, ThrowKeeps
<1>6. CASE p = 0 /\ Goto(r, "close") /\ UNCHANGED <<tx, resp>>
  <2>1. pc'[r] = "close" /\ \A o \in Reqs \ {r} : pc'[o] = pc[o]
    BY <1>6 DEF Goto, TypeInv, TypeOK
  <2>2. Disciplined(r)'
    BY <1>1, <1>2, <1>4, <1>6, <2>1, SettlementKeeps
  <2> QED BY <1>2, <1>3, <1>6, <2>1, <2>2, StatementKeeps
<1>7. CASE /\ 0 < p /\ p <= MaxPayout /\ AccountActive(u) /\ LockUsersRow(r, u)
           /\ tx' = [tx EXCEPT ![r].seen = balance[u] + p]
           /\ Goto(r, "credit") /\ UNCHANGED resp
  <2>1. pc'[r] = "credit" /\ \A o \in Reqs \ {r} : pc'[o] = pc[o]
    BY <1>7 DEF Goto, TypeInv, TypeOK
  <2> DEFINE t == [tx[r] EXCEPT !.seen = balance[u] + p]
  <2>2. tx'[r] = t
    BY <1>7 DEF TypeInv, TypeOK
  <2>3. t \in Tx /\ t.row = tx[r].row /\ t.delta = 0 /\ t.entry = None
        /\ t.seen = balance[u] + p
    BY <1>1, <1>4 DEF Tx
  <2>4. userLock'[u] = r
    BY <1>1, <1>7 DEF LockUsersRow, TypeInv, TypeOK
  <2>5. Pays(r, p)'
    <3>1. HoldsAccount(r)'
      BY <1>2, <1>7, <2>4 DEF HoldsAccount, AccountActive
    <3>2. p' = p /\ tx'[r].seen = balance[u] + p
      BY <2>2, <2>3
    <3>3. p \in 1 .. MaxPayout
      BY <1>1, <1>7, ConstantsAssumption
    <3> HIDE DEF p, t
    <3> QED BY <1>2, <3>1, <3>2, <3>3 DEF Pays
  <2>6. Disciplined(r)'
    <3> HIDE DEF t
    <3> QED BY <1>2, <1>4, <2>1, <2>2, <2>3, <2>5, SettlementKeeps
  <2> QED BY <1>2, <1>3, <1>7, <2>1, <2>6, StatementKeeps
<1> QED BY <1>5, <1>6, <1>7 DEF LockPayee

LEMMA CreditKeeps ==
  ASSUME TypeInv, LocksProtectReads, NEW r \in Reqs, Credit(r)
  PROVE  LocksProtectReads'
<1> DEFINE p == tx[r].row.meta.pay
           t == [tx[r] EXCEPT !.delta = p]
<1>1. tx[r] \in Tx /\ p \in Nat
  BY ConstantsAssumption, LockTypes DEF Credit, TypeInv, Shape, HasRow, Row, Meta
<1>2. UNCHANGED <<balance, status, sessions, userLock, sessLock, req, resp>> /\ UNCHANGED db
  BY DEF Credit, db, locks
<1>3. pc'[r] = "insertPayout"
      /\ \A o \in Reqs \ {r} : pc'[o] = pc[o] /\ tx'[o] = tx[o]
  BY DEF Credit, Goto, TypeInv, TypeOK
<1>4. Disciplined(r) /\ pc[r] = "credit" /\ tx[r].entry = None /\ Pays(r, p)
  BY DEF Credit, LocksProtectReads, Disciplined
<1>5. tx'[r] = t
  BY DEF Credit, TypeInv, TypeOK
<1>6. t \in Tx /\ t.row = tx[r].row /\ t.delta = p /\ t.entry = None /\ t.seen = tx[r].seen
  BY <1>1, <1>4 DEF Tx
<1>7. Pays(r, p)'
  BY <1>2, <1>4, <1>5, <1>6 DEF Pays, HoldsAccount
<1>8. Disciplined(r)'
  <2> HIDE DEF t
  <2> QED BY <1>2, <1>3, <1>4, <1>5, <1>6, <1>7, SettlementKeeps
<1> QED BY <1>2, <1>3, <1>8, StatementKeeps

LEMMA InsertPayoutKeeps ==
  ASSUME TypeInv, LocksProtectReads, NEW r \in Reqs, InsertPayout(r)
  PROVE  LocksProtectReads'
<1> DEFINE p == tx[r].row.meta.pay
           e == [reason |-> "GAME_PAYOUT", sess |-> req[r].sess,
                 amount |-> p, after |-> tx[r].seen]
           t == [tx[r] EXCEPT !.entry = e]
<1>1. tx[r] \in Tx /\ p \in Nat /\ req[r].sess \in Reqs
  BY ConstantsAssumption, LockTypes DEF InsertPayout, TypeInv, Shape, HasRow, Row, Meta
<1>2. UNCHANGED <<balance, status, sessions, userLock, sessLock, req, resp>> /\ UNCHANGED db
  BY DEF InsertPayout, db, locks
<1>3. pc'[r] = "close"
      /\ \A o \in Reqs \ {r} : pc'[o] = pc[o] /\ tx'[o] = tx[o]
  BY DEF InsertPayout, Goto, TypeInv, TypeOK
<1>4. Disciplined(r) /\ pc[r] = "insertPayout" /\ tx[r].delta = p /\ Pays(r, p)
  BY DEF InsertPayout, LocksProtectReads, Disciplined
<1>5. tx'[r] = t
  BY DEF InsertPayout, TypeInv, TypeOK
<1>6. e \in Entry
  BY <1>1, LockTypes DEF Entry
<1>7. t \in Tx /\ t.row = tx[r].row /\ t.delta = p /\ t.entry = e /\ t.seen = tx[r].seen
  BY <1>1, <1>4, <1>6 DEF Tx
<1>8. Pays(r, p)'
  BY <1>2, <1>4, <1>5, <1>7 DEF Pays, HoldsAccount
<1>9. Disciplined(r)'
  <2> HIDE DEF t
  <2> QED BY <1>2, <1>3, <1>4, <1>5, <1>7, <1>8, SettlementKeeps
<1> QED BY <1>2, <1>3, <1>9, StatementKeeps

LEMMA CloseKeeps ==
  ASSUME TypeInv, LocksProtectReads, NEW r \in Reqs, Close(r)
  PROVE  LocksProtectReads'
<1>0. PICK p \in Payouts : p = tx[r].row.meta.pay
  BY DEF Close, TypeInv, Shape, HasRow, Row, Meta
<1> DEFINE row == Settled(tx[r].row, p)
           t == [tx[r] EXCEPT !.row = row]
<1>1. tx[r] \in Tx /\ tx[r].row \in Row
  BY LockTypes DEF Close, TypeInv, Shape, HasRow, Row, Meta
<1>2. UNCHANGED <<balance, status, sessions, userLock, sessLock, req>> /\ UNCHANGED db
  BY DEF Close, db, locks
<1>3. Disciplined(r) /\ pc[r] = "close"
  BY DEF Close, LocksProtectReads
<1>4. CASE Throw(r, "Conflict") /\ UNCHANGED tx
  BY <1>2, <1>3, <1>4, ThrowKeeps
<1>5. CASE tx' = [tx EXCEPT ![r].row = row] /\ Goto(r, "commit") /\ \E a : Answer(r, a)
  <2>1. pc'[r] = "commit"
        /\ \A o \in Reqs \ {r} : pc'[o] = pc[o] /\ tx'[o] = tx[o]
    BY <1>5 DEF Goto, TypeInv, TypeOK
  <2>2. \A o \in Reqs \ {r} : resp'[o] = resp[o]
    BY <1>5 DEF Answer, TypeInv, TypeOK
  <2>3. tx'[r] = t
    BY <1>5 DEF TypeInv, TypeOK
  <2>4. row \in Row /\ row.status = "SETTLED" /\ row.payout = p
        /\ row.user = tx[r].row.user /\ row.key = tx[r].row.key /\ row.bet = tx[r].row.bet
    BY <1>1 DEF Settled, Row
  <2>5. t.row = row /\ t.delta = tx[r].delta /\ t.entry = tx[r].entry /\ t.seen = tx[r].seen
    BY <1>1 DEF Tx
  <2>6. Plays(r) /\ \/ p = 0 /\ tx[r].delta = 0 /\ tx[r].entry = None
                    \/ Pays(r, p) /\ tx[r].delta = p /\ tx[r].entry = PayoutRow(r, p)
    BY <1>0, <1>3 DEF Disciplined, HasRow
  <2> HIDE DEF t, row
  <2>7. Plays(r)'
    BY <1>2, <2>3, <2>4, <2>5, <2>6 DEF Plays
  <2>8. Pays(r, p) => Pays(r, p)'
    BY <1>2, <2>3, <2>5 DEF Pays, HoldsAccount
  <2>9. PayoutRow(r, p)' = PayoutRow(r, p)
    BY <1>2, <2>3, <2>5 DEF PayoutRow
  <2>10. CommitsSettlement(r)'
    BY <2>3, <2>4, <2>5, <2>6, <2>7, <2>8, <2>9 DEF CommitsSettlement
  <2>11. Disciplined(r)'
    BY <1>2, <1>3, <2>1, <2>10 DEF Disciplined, HasRow
  <2> QED BY <1>2, <2>1, <2>2, <2>11, StatementKeeps
<1> QED BY <1>0, <1>4, <1>5 DEF Close

\* What a commit writes is a row nobody else has locked.
LEMMA CommitCases ==
  ASSUME TypeInv, LocksProtectReads, NEW r \in Reqs, pc[r] = "commit"
  PROVE  /\ sessions[r] = None /\ req[r].user \in Users /\ req[r].sess \in Reqs
         /\ \/ WritesNothing(r)
            \/ CommitsBet(r) /\ req[r].sess = r
            \/ CommitsStep(r) /\ req[r].sess # r
            \/ CommitsSettlement(r) /\ req[r].sess # r
<1>1. sessions[r] = None /\ req[r].user \in Users /\ req[r].sess \in Reqs
  BY LockTypes DEF LocksProtectReads, Disciplined
<1>2. Plays(r) => req[r].sess # r
  BY <1>1 DEF Plays
<1> QED BY <1>1, <1>2 DEF LocksProtectReads, Disciplined, CommitsBet, CommitsStep,
       CommitsSettlement, StakeReserved, MayBet

LEMMA ApplyKeeps ==
  ASSUME TypeInv, LocksProtectReads, NEW r \in Reqs, pc[r] = "commit", Apply(r)
  PROVE  /\ status' = status
         /\ \A o \in Reqs \ {r} : sessions'[o] # None => sessions[o] # None
         /\ \A u \in Users : userLock[u] # None /\ userLock[u] # r =>
              /\ balance'[u] = balance[u]
              /\ \A k \in Keys : SessionsOf(u, k) = {} => SessionsOf(u, k)' = {}
         /\ \A s \in Reqs : sessions[s] # None /\ sessLock[s] # r =>
              sessions'[s] = sessions[s]
         /\ sessions'[r] # None => resp[r].payout = None
<1> DEFINE v == req[r].user
           x == req[r].sess
<1>1. v \in Users /\ x \in Reqs /\ sessions[r] = None
  BY CommitCases
<1>2. /\ status' = status
      /\ balance' = [balance EXCEPT ![v] = balance[v] + tx[r].delta]
      /\ tx[r].row = None => sessions' = sessions
      /\ tx[r].row # None => sessions' = [sessions EXCEPT ![x] = tx[r].row]
  BY DEF Apply
<1>3. balance \in [Users -> Int] /\ sessions \in [Reqs -> Row \cup {None}]
  BY DEF TypeInv, TypeOK
<1>4. CASE WritesNothing(r)
  BY <1>1, <1>2, <1>3, <1>4 DEF WritesNothing, SessionsOf
<1>5. CASE CommitsBet(r) /\ x = r
  <2>1. userLock[v] = r /\ tx[r].row.user = v /\ tx[r].row \in Row /\ resp[r].payout = None
    BY <1>5 DEF CommitsBet, StakeReserved, HoldsAccount, FreshRow
  <2>2. \A u \in Users \ {v}, k \in Keys : SessionsOf(u, k)' \subseteq SessionsOf(u, k)
    BY <1>1, <1>2, <1>3, <1>5, <2>1 DEF SessionsOf
  <2> HIDE DEF v, x
  <2> QED BY <1>1, <1>2, <1>3, <1>5, <2>1, <2>2
<1>6. CASE Plays(r) /\ x # r /\ (tx[r].delta = 0 \/ userLock[v] = r)
  <2>1. sessLock[x] = r /\ sessions[x] # None /\ tx[r].row.user = sessions[x].user
        /\ tx[r].row.key = sessions[x].key /\ tx[r].row \in Row
    BY <1>6 DEF Plays
  <2>2. \A u \in Users, k \in Keys : SessionsOf(u, k)' \subseteq SessionsOf(u, k)
    BY <1>1, <1>2, <1>3, <1>6, <2>1 DEF SessionsOf
  <2> HIDE DEF v, x
  <2> QED BY <1>1, <1>2, <1>3, <1>6, <2>1, <2>2
<1> QED BY <1>4, <1>5, <1>6, CommitCases DEF CommitsStep, CommitsSettlement, Pays, HoldsAccount

LEMMA CommitKeeps ==
  ASSUME TypeInv, LocksProtectReads, NEW r \in Reqs, Commit(r) \/ CommitAckLost(r)
  PROVE  LocksProtectReads'
<1>1. pc[r] = "commit" /\ Apply(r) /\ ReleaseLocks(r) /\ UNCHANGED req
  BY DEF Commit, CommitAckLost
<1>2. /\ \A o \in Reqs \ {r} : pc'[o] = pc[o] /\ tx'[o] = tx[o] /\ resp'[o] = resp[o]
      /\ pc'[r] \in {"board", "done"}
      /\ pc'[r] = "board" => resp[r].payout # None
  BY DEF Commit, CommitAckLost, Fresh, Goto, Answer, TypeInv, TypeOK
<1>3. \A o \in Reqs \ {r} :
        /\ \A u \in Users : userLock[u] = o => userLock'[u] = o
        /\ \A s \in Reqs : sessLock[s] = o => sessLock'[s] = o
  BY <1>1 DEF ReleaseLocks, TypeInv, TypeOK
<1>4. ASSUME NEW o \in Reqs \ {r} PROVE Disciplined(o)'
  <2>1. o # None /\ Disciplined(o)
    BY NoneAssumption DEF LocksProtectReads
  <2>2. /\ sessions'[o] # None => sessions[o] # None
        /\ \A u \in Users : userLock[u] = o =>
             /\ userLock'[u] = o /\ balance'[u] = balance[u] /\ status'[u] = status[u]
             /\ \A k \in Keys : SessionsOf(u, k) = {} => SessionsOf(u, k)' = {}
    BY <1>1, <1>3, <2>1, ApplyKeeps
  <2>3. \A s \in Reqs : sessLock[s] = o /\ sessions[s] # None =>
          sessLock'[s] = o /\ sessions'[s] = sessions[s]
    BY <1>1, <1>3, ApplyKeeps
  <2>4. pc'[o] = pc[o] /\ tx'[o] = tx[o] /\ req'[o] = req[o] /\ resp'[o] = resp[o]
    BY <1>1, <1>2
  <2> QED BY <2>1, <2>2, <2>3, <2>4, Undisturbed
<1>5. Disciplined(r)'
  BY <1>1, <1>2, ApplyKeeps, OutsideKeeps DEF Outside
<1> QED BY <1>4, <1>5 DEF LocksProtectReads

LEMMA RollbackKeeps ==
  ASSUME TypeInv, LocksProtectReads, NEW r \in Reqs, Rollback(r)
  PROVE  LocksProtectReads'
<1>1. pc[r] = "rollback" /\ ReleaseLocks(r) /\ UNCHANGED <<db, req>>
  BY DEF Rollback
<1>2. /\ \A o \in Reqs \ {r} : pc'[o] = pc[o] /\ tx'[o] = tx[o] /\ resp'[o] = resp[o]
      /\ pc'[r] \in {"backoff", "replayRead", "done"}
  BY DEF Rollback, Goto, Answer, TypeInv, TypeOK
<1>3. \A o \in Reqs \ {r} :
        /\ \A u \in Users : userLock[u] = o => userLock'[u] = o
        /\ \A s \in Reqs : sessLock[s] = o => sessLock'[s] = o
  BY <1>1 DEF ReleaseLocks, TypeInv, TypeOK
<1>4. sessions'[r] = None
  BY <1>1 DEF LocksProtectReads, Disciplined, db
<1>5. Disciplined(r)'
  BY <1>1, <1>2, <1>4, OutsideKeeps DEF Outside
<1> QED BY <1>1, <1>2, <1>3, <1>5, StatementKeeps

LEMMA OutsideStepKeeps ==
  ASSUME TypeInv, LocksProtectReads, NEW r \in Reqs,
         \/ Retry(r) \/ ReplayRead(r) \/ CreditBoard(r)
         \/ CreditBoardFails(r) \/ PoolFails(r)
  PROVE  LocksProtectReads'
<1>1. pc[r] \notin {"idle", "done"} /\ UNCHANGED <<userLock, sessLock, tx, req>> /\ UNCHANGED db
  BY DEF Retry, ReplayRead, CreditBoard, CreditBoardFails, PoolFails, locks
<1>2. /\ \A o \in Reqs \ {r} : pc'[o] = pc[o] /\ resp'[o] = resp[o]
      /\ pc'[r] \in {"connect", "done"}
  BY DEF Retry, ReplayRead, CreditBoard, CreditBoardFails, PoolFails, Goto, Answer,
         TypeInv, TypeOK
<1>3. sessions'[r] = None
  BY <1>1 DEF LocksProtectReads, Disciplined, db
<1>4. Disciplined(r)'
  BY <1>1, <1>2, <1>3, OutsideKeeps DEF Outside
<1> QED BY <1>1, <1>2, <1>4, StatementKeeps

LEMMA FailureKeeps ==
  ASSUME TypeInv, LocksProtectReads, NEW r \in Reqs, LockWaitTimeout(r) \/ StatementFails(r)
  PROVE  LocksProtectReads'
<1>1. pc[r] \notin {"idle", "done"}
  BY DEF LockWaitTimeout, StatementFails, WaitsFor, InTx
<1>2. PICK c : Throw(r, c)
  BY DEF LockWaitTimeout, StatementFails
<1>3. UNCHANGED <<db, req>> /\ UNCHANGED <<userLock, sessLock, tx>>
  BY DEF LockWaitTimeout, StatementFails, locks
<1> QED BY <1>1, <1>2, <1>3, ThrowKeeps

LEMMA CrashKeeps ==
  ASSUME TypeInv, LocksProtectReads, Crash
  PROVE  LocksProtectReads'
<1> SUFFICES ASSUME NEW r \in Reqs PROVE Disciplined(r)'
  BY DEF LocksProtectReads
<1>1. pc'[r] \in {"idle", "done"} /\ UNCHANGED <<sessions, req>>
      /\ (pc'[r] = "idle" <=> pc[r] = "idle") /\ (pc[r] = "done" => pc'[r] = "done")
  BY DEF Crash, InFlight, TypeInv, TypeOK, db
<1> QED BY <1>1 DEF LocksProtectReads, Disciplined, HasRow

LEMMA ChangeStatusKeeps ==
  ASSUME TypeInv, LocksProtectReads, NEW u \in Users, ChangeStatus(u)
  PROVE  LocksProtectReads'
<1> SUFFICES ASSUME NEW o \in Reqs PROVE Disciplined(o)'
  BY DEF LocksProtectReads
<1>1. \A x \in Users, k \in Keys : SessionsOf(x, k)' = SessionsOf(x, k)
  BY DEF SessionsOf, ChangeStatus
<1>2. \A x \in Users : userLock[x] = o => status'[x] = status[x]
  BY NoneAssumption DEF ChangeStatus, TypeInv, TypeOK
<1> QED BY <1>1, <1>2, Undisturbed DEF ChangeStatus, locks, LocksProtectReads

LEMMA NextDiscipline ==
  TypeInv /\ LocksProtectReads /\ [Next]_vars => LocksProtectReads'
<1> SUFFICES ASSUME TypeInv, LocksProtectReads, [Next]_vars PROVE LocksProtectReads'
  OBVIOUS
<1>1. ASSUME NEW r \in Reqs, Handle(r) PROVE LocksProtectReads'
  BY <1>1, ConnectKeeps, LookupKeeps, LockUserKeeps, DebitKeeps, InsertSessionKeeps,
     InsertBetKeeps, LockSessionKeeps, EngineKeeps, LockPayeeKeeps, CreditKeeps,
     InsertPayoutKeeps, CloseKeeps, CommitKeeps, RollbackKeeps, OutsideStepKeeps DEF Handle
<1>2. ASSUME NEW r \in Reqs, Fail(r) PROVE LocksProtectReads'
  BY <1>2, CommitKeeps, OutsideStepKeeps, FailureKeeps DEF Fail
<1>3. CASE UNCHANGED vars
  <2>1. UNCHANGED <<balance, status, sessions, userLock, sessLock, req, pc, tx, resp>>
    BY <1>3 DEF vars, db, locks
  <2>2. \A u \in Users, k \in Keys : SessionsOf(u, k)' = SessionsOf(u, k)
    BY <2>1 DEF SessionsOf
  <2>3. ASSUME NEW o \in Reqs PROVE Disciplined(o)'
    <3>1. Disciplined(o)
      BY DEF LocksProtectReads
    <3> QED BY <2>1, <2>2, <3>1, Undisturbed
  <2> QED BY <2>3 DEF LocksProtectReads
<1> QED BY <1>1, <1>2, <1>3, SubmitKeeps, CrashKeeps, ChangeStatusKeeps DEF Next

\* What a transaction has read under its row locks still holds when it commits.
THEOREM LocksProtect == Spec => []LocksProtectReads
BY InitType, NextType, InitDiscipline, NextDiscipline, PTL DEF Spec

\* Only a commit and an administrator's update change the tables.
LEMMA TableSteps ==
  ASSUME TypeInv, [Next]_vars
  PROVE  \/ UNCHANGED db
         \/ \E r \in Reqs : pc[r] = "commit" /\ Apply(r)
         \/ \E u \in Users : ChangeStatus(u)
<1>1. ASSUME NEW r \in Reqs, Handle(r)
      PROVE  UNCHANGED db \/ (pc[r] = "commit" /\ Apply(r))
  BY <1>1 DEF Handle, Connect, Lookup, LockUser, Debit, InsertSession, InsertBet,
     LockSession, Engine, LockPayee, Credit, InsertPayout, Close, Commit, Rollback,
     Retry, ReplayRead, CreditBoard
<1>2. ASSUME NEW r \in Reqs, Fail(r)
      PROVE  UNCHANGED db \/ (pc[r] = "commit" /\ Apply(r))
  BY <1>2 DEF Fail, CommitAckLost, CreditBoardFails, LockWaitTimeout, PoolFails, StatementFails
<1>3. ASSUME NEW r \in Reqs, SubmitInitiate(r) \/ SubmitOnSession(r) PROVE UNCHANGED db
  BY <1>3 DEF SubmitInitiate, SubmitOnSession, Submit
<1>4. Crash => UNCHANGED db
  BY DEF Crash
<1>5. UNCHANGED vars => UNCHANGED db
  BY DEF vars
<1> QED BY <1>1, <1>2, <1>3, <1>4, <1>5 DEF Next

\* The ledger row a commit inserts continues the chain of its account.
LEMMA ApplyPosts ==
  ASSUME TypeInv, LocksProtectReads, NEW r \in Reqs, pc[r] = "commit"
  PROVE  LET v == req[r].user
             e == tx[r].entry
             d == tx[r].delta
         IN  \/ e = None /\ d = 0
             \/ /\ e # None /\ e.amount = d /\ e.after = balance[v] + d
                /\ balance[v] >= 0 => e.after >= 0
<1> DEFINE v == req[r].user
           e == tx[r].entry
           d == tx[r].delta
<1>1. v \in Users /\ balance[v] \in Int /\ req[r].bet \in Nat /\ d \in Int
      /\ tx[r].seen \in Int
  BY CommitCases, LockTypes
<1>2. e \in Entry => e # None
  BY NoneAssumption
<1>3. e \in Entry \cup {None}
  BY LockTypes DEF Tx
<1>4. CASE CommitsBet(r)
  <2>1. e = [reason |-> "GAME_BET", sess |-> r, amount |-> -req[r].bet,
             after |-> tx[r].seen - req[r].bet]
    BY <1>4 DEF CommitsBet
  <2>2. e # None
    <3>1. e \in Entry
      BY <1>1, <2>1 DEF Entry
    <3> QED BY <1>2, <3>1
  <2>3. d = -req[r].bet /\ tx[r].seen = balance[v] /\ req[r].bet <= tx[r].seen
    BY <1>4 DEF CommitsBet, StakeReserved
  <2> QED BY <1>1, <2>1, <2>2, <2>3
<1>5. CASE CommitsSettlement(r) /\ e # None
  <2>1. Pays(r, tx[r].row.payout) /\ d = tx[r].row.payout
        /\ e = PayoutRow(r, tx[r].row.payout)
    BY <1>5 DEF CommitsSettlement
  <2>2. e.amount = d /\ e.after = tx[r].seen /\ tx[r].seen = balance[v] + d /\ d \in 1 .. MaxPayout
    BY <2>1 DEF Pays, PayoutRow
  <2> QED BY <1>1, <1>5, <2>2, ConstantsAssumption
<1>6. CASE e = None /\ d = 0
  BY <1>6
<1>7. \/ CommitsBet(r)
      \/ CommitsSettlement(r) /\ e # None
      \/ e = None /\ d = 0
  <2>1. CASE CommitsSettlement(r)
    <3>1. Pays(r, tx[r].row.payout) => PayoutRow(r, tx[r].row.payout) \in Entry
      BY <1>1, CommitCases DEF Pays, PayoutRow, Entry
    <3> QED BY <1>2, <2>1, <3>1 DEF CommitsSettlement
  <2> QED BY <2>1, CommitCases DEF WritesNothing, CommitsStep
<1> QED BY <1>4, <1>5, <1>6, <1>7

LEMMA NextChain ==
  TypeInv /\ LocksProtectReads /\ BalanceChain /\ [Next]_vars => BalanceChain'
<1> SUFFICES ASSUME TypeInv, LocksProtectReads, BalanceChain, [Next]_vars
             PROVE  BalanceChain'
  OBVIOUS
<1>0. UNCHANGED <<balance, ledger>> => BalanceChain'
  <2> SUFFICES ASSUME balance' = balance, ledger' = ledger PROVE BalanceChain'
    OBVIOUS
  <2>1. \A u, i : BalanceBefore(u, i)' = BalanceBefore(u, i)
    BY DEF BalanceBefore
  <2> QED BY <2>1, Zenon DEF BalanceChain
<1>1. CASE UNCHANGED db
  BY <1>0, <1>1 DEF db
<1>2. CASE \E u \in Users : ChangeStatus(u)
  BY <1>0, <1>2 DEF ChangeStatus
<1>3. ASSUME NEW r \in Reqs, pc[r] = "commit", Apply(r) PROVE BalanceChain'
  <2> DEFINE v == req[r].user
             e == tx[r].entry
             d == tx[r].delta
  <2>1. v \in Users /\ balance \in [Users -> Int] /\ ledger \in [Users -> Seq(Entry)]
        /\ d \in Int /\ e \in Entry \cup {None}
    BY <1>3, CommitCases, LockTypes DEF TypeInv, TypeOK, Tx
  <2>2. balance' = [balance EXCEPT ![v] = balance[v] + d]
        /\ (e = None => ledger' = ledger)
        /\ (e # None => ledger' = [ledger EXCEPT ![v] = Append(ledger[v], e)])
    BY <1>3 DEF Apply
  <2>3. CASE e = None /\ d = 0
    <3>1. balance' = balance /\ ledger' = ledger
      BY <2>1, <2>2, <2>3
    <3> QED BY <3>1 DEF BalanceChain, BalanceBefore
  <2>4. CASE /\ e # None /\ e.amount = d /\ e.after = balance[v] + d
             /\ balance[v] >= 0 => e.after >= 0
    <3> SUFFICES ASSUME NEW u \in Users
                 PROVE  /\ balance'[u] = BalanceBefore(u, Len(ledger[u]) + 1)'
                        /\ balance'[u] >= 0
                        /\ \A i \in 1 .. Len(ledger'[u]) :
                             ledger'[u][i].after = BalanceBefore(u, i)' + ledger'[u][i].amount
      BY DEF BalanceChain
    <3>1. /\ balance[u] = BalanceBefore(u, Len(ledger[u]) + 1)
          /\ balance[u] >= 0
          /\ \A i \in 1 .. Len(ledger[u]) :
               ledger[u][i].after = BalanceBefore(u, i) + ledger[u][i].amount
      BY DEF BalanceChain
    <3>2. CASE u # v
      <4>1. balance'[u] = balance[u] /\ ledger'[u] = ledger[u]
        BY <2>1, <2>2, <2>4, <3>2
      <4> QED BY <3>1, <4>1 DEF BalanceBefore
    <3>3. CASE u = v
      <4>0. PICK n \in Nat : n = Len(ledger[u])
        BY <2>1
      <4>1. /\ balance'[u] = balance[u] + d /\ ledger'[u] = Append(ledger[u], e)
            /\ ledger[u] \in Seq(Entry)
        BY <2>1, <2>2, <2>4, <3>3
      <4>2. /\ Len(ledger'[u]) = n + 1 /\ ledger'[u][n + 1] = e
            /\ \A i \in 1 .. n : ledger'[u][i] = ledger[u][i]
        BY <2>1, <2>4, <4>0, <4>1
      <4>3. \A i \in 1 .. n + 1 : BalanceBefore(u, i)' = BalanceBefore(u, i)
        BY <4>1, <4>2 DEF BalanceBefore
      <4>4. BalanceBefore(u, n + 1 + 1)' = e.after
        BY <4>1, <4>2 DEF BalanceBefore
      <4>5. e.after = balance[u] + d /\ e.amount = d /\ e.after >= 0
        BY <2>4, <3>1, <3>3
      <4>6. balance'[u] = e.after
        BY <4>1, <4>5
      <4>7. \A i \in 1 .. n + 1 :
              ledger'[u][i].after = BalanceBefore(u, i)' + ledger'[u][i].amount
        BY <3>1, <4>0, <4>1, <4>2, <4>3, <4>5
      <4> QED BY <4>0, <4>2, <4>4, <4>5, <4>6, <4>7
    <3> QED BY <3>2, <3>3
  <2> QED BY <1>3, <2>3, <2>4, ApplyPosts
<1> QED BY <1>1, <1>2, <1>3, TableSteps

LEMMA InitChain == Init => BalanceChain
BY ConstantsAssumption DEF Init, BalanceChain, BalanceBefore

\* The balance of every account is what its ledger adds up to, row by row,
\* and never negative, for any number of concurrent requests and failures.
THEOREM BalanceIsLedger == Spec => []BalanceChain
BY InitType, NextType, InitDiscipline, NextDiscipline, InitChain, NextChain, PTL DEF Spec

---------------------------------------------------------------------------
(* The endpoints implement PointsEconomy: whatever statements, failures and  *)
(* crashes interleave, the tables change by one atomic bet or settlement.    *)


\* An active session has not ended in its engine.
ActiveGoesOn ==
  \A s \in Reqs :
    sessions[s] # None /\ sessions[s].status = "ACTIVE" => sessions[s].meta.over = FALSE

\* What the commit of r does to the rows of the sessions.
LEMMA CommitToSessions ==
  ASSUME TypeInv, LocksProtectReads, NEW r \in Reqs, pc[r] = "commit", Apply(r),
         NEW s \in Reqs
  PROVE  \/ sessions'[s] = sessions[s]
         \/ /\ sessions[s] = None \/ sessions[s].status = "ACTIVE"
            /\ sessions'[s] # None
            /\ sessions'[s].status = "ACTIVE" => sessions'[s].meta.over = FALSE
<1>1. req[r].sess \in Reqs /\ sessions[r] = None
  BY CommitCases
<1>2. /\ tx[r].row = None => sessions' = sessions
      /\ tx[r].row # None => sessions' = [sessions EXCEPT ![req[r].sess] = tx[r].row]
  BY DEF Apply
<1>3. sessions \in [Reqs -> Row \cup {None}]
  BY DEF TypeInv, TypeOK
<1>4. CASE WritesNothing(r)
  BY <1>2, <1>4 DEF WritesNothing
<1>5. CASE FreshRow(r) /\ req[r].sess = r
  <2>1. tx[r].row \in Row /\ tx[r].row # None /\ ~tx[r].row.meta.over
    BY <1>5, NoneAssumption DEF FreshRow
  <2>2. tx[r].row.meta.over \in BOOLEAN
    BY <2>1 DEF Row, Meta
  <2>3. tx[r].row.meta.over = FALSE
    BY <2>1, <2>2, Zenon
  <2> QED BY <1>1, <1>2, <1>3, <1>5, <2>1, <2>3
<1>6. CASE Plays(r) /\ tx[r].row.status = "SETTLED"
  <2>1. /\ tx[r].row # None /\ sessions[req[r].sess] # None
        /\ sessions[req[r].sess].status = "ACTIVE"
    BY <1>6, NoneAssumption DEF Plays
  <2> QED BY <1>1, <1>2, <1>3, <1>6, <2>1
<1>7. CASE Plays(r) /\ ~tx[r].row.meta.over
  <2>1. /\ tx[r].row # None /\ sessions[req[r].sess] # None
        /\ sessions[req[r].sess].status = "ACTIVE"
    BY <1>7, NoneAssumption DEF Plays
  <2>2. tx[r].row.meta.over \in BOOLEAN
    BY <1>7 DEF Plays, Row, Meta
  <2>3. tx[r].row.meta.over = FALSE
    BY <1>7, <2>2, Zenon
  <2> QED BY <1>1, <1>2, <1>3, <2>1, <2>3
<1> QED BY <1>4, <1>5, <1>6, <1>7, CommitCases DEF CommitsBet, CommitsStep, CommitsSettlement

LEMMA NextActive ==
  TypeInv /\ LocksProtectReads /\ ActiveGoesOn /\ [Next]_vars => ActiveGoesOn'
<1> SUFFICES ASSUME TypeInv, LocksProtectReads, ActiveGoesOn, [Next]_vars, NEW s \in Reqs
             PROVE  sessions'[s] # None /\ sessions'[s].status = "ACTIVE"
                      => sessions'[s].meta.over = FALSE
  BY DEF ActiveGoesOn
<1>1. CASE sessions'[s] = sessions[s]
  BY <1>1 DEF ActiveGoesOn
<1>2. ASSUME NEW r \in Reqs, pc[r] = "commit", Apply(r), sessions'[s] # sessions[s]
      PROVE  sessions'[s].status = "ACTIVE" => sessions'[s].meta.over = FALSE
  BY <1>2, CommitToSessions
<1> QED BY <1>1, <1>2, TableSteps DEF db, ChangeStatus

\* A settled session never changes again and no active session is over.
THEOREM SettledStays == Spec => SettledIsFinal
<1>1. Init => ActiveGoesOn
  BY DEF Init, ActiveGoesOn
<1>2. TypeInv /\ LocksProtectReads /\ ActiveGoesOn /\ [Next]_vars =>
        \A s \in Reqs :
          /\ sessions[s] # None /\ sessions[s].status = "SETTLED"
               => sessions'[s] = sessions[s]
          /\ sessions'[s] # None /\ sessions'[s].status = "ACTIVE"
               => ~sessions'[s].meta.over
  <2> SUFFICES ASSUME TypeInv, LocksProtectReads, ActiveGoesOn, [Next]_vars, NEW s \in Reqs
               PROVE  /\ sessions[s] # None /\ sessions[s].status = "SETTLED"
                           => sessions'[s] = sessions[s]
                      /\ sessions'[s] # None /\ sessions'[s].status = "ACTIVE"
                           => ~sessions'[s].meta.over
    OBVIOUS
  <2>1. ActiveGoesOn'
    BY NextActive
  <2>2. sessions'[s] # None /\ sessions'[s].status = "ACTIVE" => sessions'[s].meta.over = FALSE
    BY <2>1 DEF ActiveGoesOn
  <2>3. ASSUME NEW r \in Reqs, pc[r] = "commit", Apply(r),
               sessions[s] # None, sessions[s].status = "SETTLED"
        PROVE  sessions'[s] = sessions[s]
    BY <2>3, CommitToSessions
  <2>4. sessions[s] # None /\ sessions[s].status = "SETTLED" => sessions'[s] = sessions[s]
    BY <2>3, TableSteps DEF db, ChangeStatus
  <2>5. sessions'[s] # None /\ sessions'[s].status = "ACTIVE" => ~sessions'[s].meta.over
    BY <2>2, Zenon
  <2> QED BY <2>4, <2>5
<1> QED BY <1>1, <1>2, InitType, NextType, InitDiscipline, NextDiscipline, NextActive, PTL
        DEF Spec, SettledIsFinal

\* A suspended account neither pays nor is paid.
THEOREM FrozenWhenSuspended == Spec => SuspendedIsFrozen
<1>1. TypeInv /\ LocksProtectReads /\ [Next]_vars =>
        \A u \in Users : balance'[u] # balance[u] => status[u] = "ACTIVE"
  <2> SUFFICES ASSUME TypeInv, LocksProtectReads, [Next]_vars,
                      NEW u \in Users, balance'[u] # balance[u]
               PROVE  status[u] = "ACTIVE"
    OBVIOUS
  <2>1. PICK r \in Reqs : pc[r] = "commit" /\ Apply(r)
    BY TableSteps DEF db, ChangeStatus
  <2>2. balance' = [balance EXCEPT ![req[r].user] = balance[req[r].user] + tx[r].delta]
        /\ balance \in [Users -> Int] /\ req[r].user \in Users
    BY <2>1, CommitCases DEF Apply, TypeInv, TypeOK
  <2>3. u = req[r].user /\ tx[r].delta # 0
    BY <2>2
  <2>4. HoldsAccount(r)
    BY <2>1, <2>3, CommitCases DEF WritesNothing, CommitsBet, CommitsStep,
       CommitsSettlement, StakeReserved, Pays
  <2> QED BY <2>3, <2>4 DEF HoldsAccount
<1> QED BY <1>1, InitType, NextType, InitDiscipline, NextDiscipline, PTL
        DEF Spec, SuspendedIsFrozen

---------------------------------------------------------------------------
(* Each commit is one step of PointsEconomy.                                *)

Slips == [s \in Reqs |-> SlipOf(sessions[s])]

\* Writing one session row writes one slip.
LEMMA SlipWritten ==
  ASSUME TypeInv, NEW s \in Reqs, NEW row \in Row,
         sessions' = [sessions EXCEPT ![s] = row]
  PROVE  Slips' = [Slips EXCEPT ![s] = SlipOf(row)]
<1>1. \A t \in Reqs : sessions'[t] = IF t = s THEN row ELSE sessions[t]
  BY DEF TypeInv, TypeOK
<1>2. Slips' = [t \in Reqs |-> SlipOf(sessions'[t])]
  BY DEF Slips, SlipOf
<1>3. \A t \in Reqs : SlipOf(sessions'[t]) = IF t = s THEN SlipOf(row) ELSE SlipOf(sessions[t])
  BY <1>1
<1>4. Slips = [t \in Reqs |-> SlipOf(sessions[t])]
  BY DEF Slips
<1> QED BY <1>2, <1>3, <1>4

\* The rows of the balance and of the ledger a commit writes.
LEMMA Written ==
  ASSUME TypeInv, NEW r \in Reqs, pc[r] = "commit", Apply(r)
  PROVE  /\ status' = status
         /\ balance' = [balance EXCEPT ![req[r].user] = balance[req[r].user] + tx[r].delta]
         /\ tx[r].entry = None => ledger' = ledger
         /\ tx[r].entry # None =>
              ledger' = [ledger EXCEPT ![req[r].user] =
                           Append(ledger[req[r].user], tx[r].entry)]
         /\ tx[r].row = None => sessions' = sessions
         /\ tx[r].row # None => sessions' = [sessions EXCEPT ![req[r].sess] = tx[r].row]
         /\ tx[r].delta = 0 => balance' = balance
BY LockTypes DEF Apply, TypeInv, TypeOK

LEMMA BetIsPlaceBet ==
  ASSUME TypeInv, LocksProtectReads, NEW r \in Reqs, pc[r] = "commit", Apply(r),
         CommitsBet(r), req[r].sess = r
  PROVE  Economy!PlaceBet(r, req[r].user, req[r].key, req[r].bet)
<1> DEFINE u == req[r].user
           k == req[r].key
           b == req[r].bet
<1>1. /\ u \in Users /\ b \in Nat /\ sessions[r] = None /\ balance[u] \in Int
      /\ MinBet <= b /\ b <= MaxBet /\ b <= balance[u] /\ status[u] = "ACTIVE"
      /\ tx[r].seen = balance[u] /\ tx[r].delta = -b /\ ~KeyTaken(req[r])
  BY CommitCases, LockTypes, ConstantsAssumption
     DEF CommitsBet, StakeReserved, MayBet, HoldsAccount, FreshRow
<1>2. /\ tx[r].row \in Row /\ tx[r].row # None /\ tx[r].row.user = u /\ tx[r].row.key = k
      /\ tx[r].row.bet = b /\ tx[r].row.status = "ACTIVE" /\ tx[r].row.payout = None
  BY NoneAssumption DEF CommitsBet, FreshRow
<1>3. tx[r].entry = Economy!Entry("GAME_BET", r, -b, balance[u] - b) /\ tx[r].entry # None
  <2>1. tx[r].entry = [reason |-> "GAME_BET", sess |-> r, amount |-> -b,
                       after |-> balance[u] - b]
    BY <1>1 DEF CommitsBet
  <2>2. tx[r].entry \in Entry
    BY <1>1, <2>1 DEF Entry
  <2> QED BY <2>1, <2>2, NoneAssumption DEF Economy!Entry
<1>4. Slips[r] = None
  BY <1>1 DEF Slips, SlipOf
<1>5. Economy!KeyIsFree(u, k)
  <2>1. CASE k = NoKey
    BY <2>1 DEF Economy!KeyIsFree
  <2>2. CASE SessionsOf(u, k) = {}
    BY <2>2 DEF SessionsOf, Economy!KeyIsFree, SlipOf
  <2> QED BY <1>1, <2>1, <2>2 DEF KeyTaken
<1>6. Slips' = [Slips EXCEPT ![r] = [user |-> u, key |-> k, bet |-> b,
                                     status |-> "ACTIVE", payout |-> None]]
  BY <1>2, Written, SlipWritten DEF SlipOf
<1>7. balance' = [balance EXCEPT ![u] = balance[u] - b] /\ status' = status
      /\ ledger' = [ledger EXCEPT ![u] = Append(ledger[u], tx[r].entry)]
  BY <1>1, <1>3, Written
<1> QED BY <1>1, <1>3, <1>4, <1>5, <1>6, <1>7 DEF Economy!PlaceBet, Slips

LEMMA SettlementCloses ==
  ASSUME TypeInv, LocksProtectReads, NEW r \in Reqs, pc[r] = "commit", Apply(r),
         CommitsSettlement(r)
  PROVE  \/ Economy!SettleLoss(req[r].sess)
         \/ tx[r].row.payout \in 1 .. MaxPayout
              /\ Economy!SettleWin(req[r].sess, tx[r].row.payout)
<1> DEFINE s == req[r].sess
           p == tx[r].row.payout
           u == req[r].user
<1>1. /\ s \in Reqs /\ u \in Users /\ sessions[s] # None /\ sessions[s] \in Row
      /\ sessions[s].status = "ACTIVE" /\ sessions[s].user = u
      /\ tx[r].row \in Row /\ tx[r].row # None
      /\ tx[r].row.user = sessions[s].user /\ tx[r].row.key = sessions[s].key
      /\ tx[r].row.bet = sessions[s].bet /\ tx[r].row.status = "SETTLED"
  BY CommitCases, NoneAssumption DEF CommitsSettlement, Plays, TypeInv, TypeOK
<1>2. Slips[s] = SlipOf(sessions[s]) /\ Slips[s] # None /\ Slips \in [Reqs -> Slip \cup {None}]
  BY <1>1, NoneAssumption DEF Slips, SlipOf, Slip, Row, TypeInv, TypeOK
<1>3. Slips' = [Slips EXCEPT ![s].status = "SETTLED", ![s].payout = p]
  <2>1. Slips' = [Slips EXCEPT ![s] = SlipOf(tx[r].row)]
    BY <1>1, Written, SlipWritten
  <2>2. SlipOf(tx[r].row) = [user |-> u, key |-> sessions[s].key, bet |-> sessions[s].bet,
                             status |-> "SETTLED", payout |-> p]
    BY <1>1 DEF SlipOf
  <2>3. SlipOf(tx[r].row) = [Slips[s] EXCEPT !.status = "SETTLED", !.payout = p]
    <3>1. Slips[s] = [user |-> u, key |-> sessions[s].key, bet |-> sessions[s].bet,
                      status |-> "ACTIVE", payout |-> sessions[s].payout]
      BY <1>1, <1>2 DEF SlipOf
    <3>2. PICK x \in Slip : x = Slips[s]
      BY <1>1, <1>2
    <3>3. PICK y \in Slip : y = SlipOf(tx[r].row)
      BY <1>1, <2>2, NoneAssumption DEF Slip, Row
    <3>4. p \in Payouts \cup {None}
      BY <1>1 DEF Row
    <3>5. [x EXCEPT !.status = "SETTLED", !.payout = p] \in Slip
      BY <3>4 DEF Slip
    <3>6. /\ y.user = x.user /\ y.key = x.key /\ y.bet = x.bet
          /\ y.status = "SETTLED" /\ y.payout = p
      BY <2>2, <3>1, <3>2, <3>3
    <3> HIDE DEF u, p
    <3>7. y = [x EXCEPT !.status = "SETTLED", !.payout = p]
      BY <3>5, <3>6 DEF Slip
    <3> QED BY <3>2, <3>3, <3>7
  <2> QED BY <1>1, <1>2, <2>1, <2>3
<1>4. status' = status /\ Slips[s].status = "ACTIVE" /\ Slips[s].user = u
  BY <1>1, <1>2, Written DEF SlipOf
<1>5. CASE p = 0 /\ tx[r].delta = 0 /\ tx[r].entry = None
  <2>1. balance' = balance /\ ledger' = ledger
    BY <1>5, Written
  <2> QED BY <1>2, <1>3, <1>4, <1>5, <2>1 DEF Economy!SettleLoss, Economy!CloseSlip, Slips
<1>6. CASE Pays(r, p) /\ tx[r].delta = p /\ tx[r].entry = PayoutRow(r, p)
  <2>1. p \in 1 .. MaxPayout /\ status[u] = "ACTIVE" /\ tx[r].seen = balance[u] + p
        /\ balance[u] \in Int
    BY <1>6, CommitCases, LockTypes DEF Pays, HoldsAccount
  <2>2. tx[r].entry = Economy!Entry("GAME_PAYOUT", s, p, balance[u] + p)
        /\ tx[r].entry # None
    <3>1. PayoutRow(r, p) \in Entry
      BY <1>1, <2>1, ConstantsAssumption DEF PayoutRow, Entry
    <3> QED BY <1>6, <2>1, <3>1, NoneAssumption DEF PayoutRow, Economy!Entry
  <2>3. balance' = [balance EXCEPT ![u] = balance[u] + p]
        /\ ledger' = [ledger EXCEPT ![u] = Append(ledger[u], tx[r].entry)]
    BY <1>6, <2>2, Written
  <2> HIDE DEF s, p, u
  <2> QED BY <1>2, <1>3, <1>4, <2>1, <2>2, <2>3
          DEF Economy!SettleWin, Economy!CloseSlip, Slips, s, p
<1> QED BY <1>5, <1>6 DEF CommitsSettlement

\* A transaction that only advanced the game leaves every slip as it was.
LEMMA StepIsInvisible ==
  ASSUME TypeInv, LocksProtectReads, NEW r \in Reqs, pc[r] = "commit", Apply(r),
         CommitsStep(r)
  PROVE  UNCHANGED Economy!vars
<1> DEFINE s == req[r].sess
<1>1. /\ s \in Reqs /\ sessions[s] # None /\ tx[r].row # None
      /\ tx[r].row \in Row /\ sessions[s].status = "ACTIVE"
      /\ tx[r].row.user = sessions[s].user /\ tx[r].row.key = sessions[s].key
      /\ tx[r].row.bet = sessions[s].bet /\ tx[r].row.status = "ACTIVE"
      /\ tx[r].row.payout = sessions[s].payout /\ tx[r].delta = 0 /\ tx[r].entry = None
  BY CommitCases, NoneAssumption DEF CommitsStep, Plays, StillActive
<1>2. SlipOf(tx[r].row) = SlipOf(sessions[s])
  BY <1>1 DEF SlipOf
<1>3. Slips' = [Slips EXCEPT ![s] = SlipOf(tx[r].row)]
  BY <1>1, Written, SlipWritten
<1>4. Slips' = Slips
  BY <1>1, <1>2, <1>3 DEF Slips
<1> QED BY <1>1, <1>4, Written DEF Economy!vars, Slips

LEMMA CommitImplements ==
  ASSUME TypeInv, LocksProtectReads, NEW r \in Reqs, pc[r] = "commit", Apply(r)
  PROVE  [Economy!Next]_(Economy!vars)
<1>1. CASE WritesNothing(r)
  <2>1. UNCHANGED db
    BY <1>1, Written DEF WritesNothing, db
  <2> QED BY <2>1 DEF db, Economy!vars, SlipOf
<1>2. CASE CommitsBet(r) /\ req[r].sess = r
  <2>1. req[r].user \in Users /\ req[r].key \in Keys \cup {NoKey} /\ req[r].bet \in Bets
    BY LockTypes
  <2> QED BY <1>2, <2>1, BetIsPlaceBet DEF Economy!Next
<1>3. CASE CommitsStep(r)
  BY <1>3, StepIsInvisible
<1>4. CASE CommitsSettlement(r)
  BY <1>4, CommitCases, SettlementCloses DEF Economy!Next
<1> QED BY <1>1, <1>2, <1>3, <1>4, CommitCases

LEMMA NextImplements ==
  TypeInv /\ LocksProtectReads /\ [Next]_vars => [Economy!Next]_(Economy!vars)
<1> SUFFICES ASSUME TypeInv, LocksProtectReads, [Next]_vars
             PROVE  [Economy!Next]_(Economy!vars)
  OBVIOUS
<1>1. CASE UNCHANGED db
  BY <1>1 DEF db, Economy!vars, SlipOf
<1>2. ASSUME NEW u \in Users, ChangeStatus(u) PROVE [Economy!Next]_(Economy!vars)
  <2>1. PICK st \in {"ACTIVE", "SUSPENDED"} : status' = [status EXCEPT ![u] = st]
    BY <1>2, ConstantsAssumption DEF ChangeStatus
  <2>2. Economy!ChangeStatus(u, st)
    BY <1>2, <2>1 DEF ChangeStatus, Economy!ChangeStatus, SlipOf
  <2> QED BY <2>2 DEF Economy!Next
<1>3. ASSUME NEW r \in Reqs, pc[r] = "commit", Apply(r) PROVE [Economy!Next]_(Economy!vars)
  BY <1>3, CommitImplements
<1> QED BY <1>1, <1>2, <1>3, TableSteps

\* The statements, locks, retries and failures of the endpoints implement
\* bets and settlements that happen at once or not at all.
THEOREM EndpointsImplementEconomy == Spec => ImplementsEconomy
<1>1. Init => Economy!Init
  BY DEF Init, Economy!Init, SlipOf
<1> QED BY <1>1, NextImplements, InitType, NextType, InitDiscipline, NextDiscipline, PTL
        DEF Spec, ImplementsEconomy, Economy!Spec

---------------------------------------------------------------------------
(* Connections, and the order of the locks.                                 *)

\* Where a request may hold a users row, and where a game_sessions row: the
\* session row is locked first, and nothing is locked after the users row.
HoldsUser == {"debit", "insertSession", "insertBet", "credit", "insertPayout",
              "close", "commit", "rollback"}
HoldsSession == {"engine", "payout", "credit", "insertPayout", "close",
                 "commit", "rollback"}
LockOrder ==
  /\ \A u \in Users : userLock[u] # None => pc[userLock[u]] \in HoldsUser
  /\ \A s \in Reqs : sessLock[s] # None => pc[sessLock[s]] \in HoldsSession

PoolBound ==
  /\ IsFiniteSet(conns)
  /\ conns = {r \in Reqs : pc[r] \in HasConn}
  /\ Cardinality(conns) <= PoolSize

ResourceInv == PoolBound /\ LockOrder

LEMMA OneLess ==
  ASSUME NEW S, IsFiniteSet(S), NEW x
  PROVE  /\ IsFiniteSet(S \ {x}) /\ Cardinality(S \ {x}) \in Nat
         /\ Cardinality(S) \in Nat /\ Cardinality(S \ {x}) <= Cardinality(S)
<1>1. IsFiniteSet(S \ {x})
  BY FS_RemoveElement
<1>2. Cardinality(S) \in Nat /\ Cardinality(S \ {x}) \in Nat
  BY <1>1, FS_CardinalityType
<1>3. Cardinality(S \ {x}) = IF x \in S THEN Cardinality(S) - 1 ELSE Cardinality(S)
  BY FS_RemoveElement
<1> QED BY <1>1, <1>2, <1>3

LEMMA OneMore ==
  ASSUME NEW S, IsFiniteSet(S), NEW x
  PROVE  /\ IsFiniteSet(S \cup {x}) /\ Cardinality(S \cup {x}) \in Nat
         /\ Cardinality(S) \in Nat /\ Cardinality(S \cup {x}) <= Cardinality(S) + 1
<1>1. IsFiniteSet(S \cup {x})
  BY FS_AddElement
<1>2. Cardinality(S) \in Nat /\ Cardinality(S \cup {x}) \in Nat
  BY <1>1, FS_CardinalityType
<1>3. Cardinality(S \cup {x}) = IF x \in S THEN Cardinality(S) ELSE Cardinality(S) + 1
  BY FS_AddElement
<1> QED BY <1>1, <1>2, <1>3

LEMMA ResourceBounds == ResourceInv => NothingLeaks
BY DEF ResourceInv, PoolBound, LockOrder, NothingLeaks, HoldsUser, HoldsSession, InTx

LEMMA InitResources == Init => ResourceInv
<1> SUFFICES ASSUME Init PROVE ResourceInv
  OBVIOUS
<1>1. conns = {} /\ IsFiniteSet(conns) /\ Cardinality(conns) = 0
  BY FS_EmptySet DEF Init
<1>2. \A r \in Reqs : pc[r] \notin HasConn
  BY DEF Init, HasConn, InTx
<1> QED BY <1>1, <1>2, ConstantsAssumption DEF Init, ResourceInv, PoolBound, LockOrder

\* A step that moves r and gives it no lock its new place does not allow.
LEMMA MoveLocks ==
  ASSUME TypeInv, LockOrder, NEW r \in Reqs, NEW l \in Labels, Goto(r, l),
         \A u \in Users : userLock'[u] # r => userLock'[u] \in {userLock[u], None},
         \A s \in Reqs : sessLock'[s] # r => sessLock'[s] \in {sessLock[s], None},
         (\E u \in Users : userLock'[u] = r) => l \in HoldsUser,
         (\E s \in Reqs : sessLock'[s] = r) => l \in HoldsSession
  PROVE  LockOrder'
<1>1. pc'[r] = l /\ \A o \in Reqs \ {r} : pc'[o] = pc[o]
  BY DEF Goto, TypeInv, TypeOK
<1>2. \A u \in Users : userLock'[u] # None => pc'[userLock'[u]] \in HoldsUser
  BY <1>1 DEF LockOrder, TypeInv, TypeOK
<1>3. \A s \in Reqs : sessLock'[s] # None => pc'[sessLock'[s]] \in HoldsSession
  BY <1>1 DEF LockOrder, TypeInv, TypeOK
<1> QED BY <1>2, <1>3 DEF LockOrder

\* A step that keeps the connection r has, or has not.
LEMMA MoveKeeps ==
  ASSUME TypeInv, PoolBound, NEW r \in Reqs, NEW l \in Labels, Goto(r, l),
         pc[r] \in HasConn <=> l \in HasConn, UNCHANGED conns
  PROVE  PoolBound'
<1>1. \A o \in Reqs : pc'[o] = IF o = r THEN l ELSE pc[o]
  BY DEF Goto, TypeInv, TypeOK
<1> QED BY <1>1 DEF PoolBound

LEMMA MoveReleases ==
  ASSUME TypeInv, PoolBound, NEW r \in Reqs, NEW l \in Labels \ HasConn, Goto(r, l),
         Disconnect(r)
  PROVE  PoolBound'
<1>1. \A o \in Reqs : pc'[o] = IF o = r THEN l ELSE pc[o]
  BY DEF Goto, TypeInv, TypeOK
<1>2. conns' = {o \in Reqs : pc'[o] \in HasConn}
  BY <1>1 DEF PoolBound, Disconnect
<1>3. /\ IsFiniteSet(conns') /\ Cardinality(conns') <= Cardinality(conns)
      /\ Cardinality(conns) \in Nat /\ Cardinality(conns') \in Nat
  BY OneLess DEF PoolBound, Disconnect
<1> QED BY <1>2, <1>3, ConstantsAssumption DEF PoolBound

LEMMA ConnectResources ==
  ASSUME TypeInv, ResourceInv, NEW r \in Reqs, Connect(r)
  PROVE  ResourceInv'
<1>1. PICK l \in {"lookup", "lockSession"} : Goto(r, l)
  BY DEF Connect
<1>2. \A o \in Reqs : pc'[o] = IF o = r THEN l ELSE pc[o]
  BY <1>1 DEF Goto, TypeInv, TypeOK
<1>3. conns' = conns \cup {r} /\ Cardinality(conns) < PoolSize /\ pc[r] = "connect"
      /\ UNCHANGED <<userLock, sessLock>>
  BY DEF Connect, FreeConnection, locks
<1>4. conns' = {o \in Reqs : pc'[o] \in HasConn}
  BY <1>1, <1>2, <1>3 DEF ResourceInv, PoolBound, HasConn, InTx
<1>5. IsFiniteSet(conns') /\ Cardinality(conns') <= Cardinality(conns) + 1
      /\ Cardinality(conns) \in Nat /\ Cardinality(conns') \in Nat
  BY <1>3, OneMore DEF ResourceInv, PoolBound
<1>6. PoolBound'
  BY <1>3, <1>4, <1>5, ConstantsAssumption DEF PoolBound
<1>7. LockOrder'
  BY <1>2, <1>3 DEF LockOrder, ResourceInv, TypeInv, TypeOK, HoldsUser, HoldsSession
<1> QED BY <1>6, <1>7 DEF ResourceInv

\* A statement of the transaction that takes no lock.
LEMMA StatementResources ==
  ASSUME TypeInv, ResourceInv, NEW r \in Reqs, NEW l \in InTx \cup {"rollback"},
         pc[r] \in InTx, Goto(r, l), UNCHANGED <<conns, userLock, sessLock>>,
         pc[r] \in HoldsUser => l \in HoldsUser,
         pc[r] \in HoldsSession => l \in HoldsSession
  PROVE  ResourceInv'
<1>1. l \in Labels /\ l \in HasConn /\ pc[r] \in HasConn
  BY DEF Labels, HasConn
<1>2. PoolBound'
  BY <1>1, MoveKeeps DEF ResourceInv
<1>3. /\ (\E u \in Users : userLock'[u] = r) => l \in HoldsUser
      /\ (\E s \in Reqs : sessLock'[s] = r) => l \in HoldsSession
  BY NoneAssumption DEF ResourceInv, LockOrder
<1>4. LockOrder'
  BY <1>1, <1>3, MoveLocks DEF ResourceInv
<1> QED BY <1>2, <1>4 DEF ResourceInv

LEMMA ThrowResources ==
  ASSUME TypeInv, ResourceInv, NEW r \in Reqs, pc[r] \in InTx, NEW c, Throw(r, c),
         UNCHANGED conns,
         \A u \in Users : userLock'[u] # r => userLock'[u] = userLock[u],
         \A s \in Reqs : sessLock'[s] # r => sessLock'[s] = sessLock[s]
  PROVE  ResourceInv'
<1>1. Goto(r, "rollback")
  BY DEF Throw
<1>2. PoolBound'
  BY <1>1, MoveKeeps DEF ResourceInv, Labels, HasConn
<1>3. LockOrder'
  BY <1>1, MoveLocks DEF ResourceInv, Labels, HasConn, HoldsUser, HoldsSession
<1> QED BY <1>2, <1>3 DEF ResourceInv
LEMMA LockUserResources ==
  ASSUME TypeInv, ResourceInv, NEW r \in Reqs, LockUser(r)
  PROVE  ResourceInv'
<1>1. pc[r] = "lockUser" /\ UNCHANGED <<conns, sessLock>>
      /\ userLock' = [userLock EXCEPT ![req[r].user] = r]
  BY DEF LockUser, LockUsersRow
<1>2. \A u \in Users : userLock'[u] # r => userLock'[u] = userLock[u]
  BY <1>1 DEF TypeInv, TypeOK
<1>3. CASE Throw(r, "Forbidden") \/ Throw(r, "InsufficientFunds")
  BY <1>1, <1>2, <1>3, ThrowResources DEF InTx
<1>4. CASE Goto(r, "debit")
  <2>1. PoolBound'
    BY <1>1, <1>4, MoveKeeps DEF ResourceInv, Labels, HasConn, InTx
  <2>2. \A s \in Reqs : sessLock[s] # r
    BY <1>1, NoneAssumption DEF ResourceInv, LockOrder, HoldsSession
  <2>3. LockOrder'
    BY <1>1, <1>2, <1>4, <2>2, MoveLocks
       DEF ResourceInv, Labels, HasConn, InTx, HoldsUser, TypeInv, TypeOK
  <2> QED BY <2>1, <2>3 DEF ResourceInv
<1> QED BY <1>3, <1>4 DEF LockUser

LEMMA LockSessionResources ==
  ASSUME TypeInv, ResourceInv, NEW r \in Reqs, LockSession(r)
  PROVE  ResourceInv'
<1>1. pc[r] = "lockSession" /\ UNCHANGED <<conns, userLock>>
      /\ (sessLock' = sessLock \/ sessLock' = [sessLock EXCEPT ![req[r].sess] = r])
  BY DEF LockSession
<1>2. \A s \in Reqs : sessLock'[s] # r => sessLock'[s] = sessLock[s]
  BY <1>1 DEF TypeInv, TypeOK
<1>3. CASE Throw(r, "NotFound") \/ Throw(r, "Conflict")
  BY <1>1, <1>2, <1>3, ThrowResources DEF InTx
<1>4. ASSUME NEW l \in {"engine", "commit"}, Goto(r, l) PROVE ResourceInv'
  <2>1. PoolBound'
    BY <1>1, <1>4, MoveKeeps DEF ResourceInv, Labels, HasConn, InTx
  <2>2. \A u \in Users : userLock[u] # r
    BY <1>1, NoneAssumption DEF ResourceInv, LockOrder, HoldsUser
  <2>3. LockOrder'
    BY <1>1, <1>2, <1>4, <2>2, MoveLocks
       DEF ResourceInv, Labels, HasConn, InTx, HoldsSession, TypeInv, TypeOK
  <2> QED BY <2>1, <2>3 DEF ResourceInv
<1> QED BY <1>3, <1>4 DEF LockSession

LEMMA LockPayeeResources ==
  ASSUME TypeInv, ResourceInv, NEW r \in Reqs, LockPayee(r)
  PROVE  ResourceInv'
<1>1. pc[r] = "payout" /\ UNCHANGED <<conns, sessLock>>
      /\ (userLock' = userLock \/ userLock' = [userLock EXCEPT ![req[r].user] = r])
  BY DEF LockPayee, LockUsersRow
<1>2. \A u \in Users : userLock'[u] # r => userLock'[u] = userLock[u]
  BY <1>1 DEF TypeInv, TypeOK
<1>3. CASE Throw(r, "Internal") \/ Throw(r, "Forbidden")
  BY <1>1, <1>2, <1>3, ThrowResources DEF InTx
<1>4. ASSUME NEW l \in {"close", "credit"}, Goto(r, l) PROVE ResourceInv'
  <2>1. PoolBound'
    BY <1>1, <1>4, MoveKeeps DEF ResourceInv, Labels, HasConn, InTx
  <2>2. LockOrder'
    BY <1>1, <1>2, <1>4, MoveLocks
       DEF ResourceInv, Labels, HasConn, InTx, HoldsUser, HoldsSession, TypeInv, TypeOK
  <2> QED BY <2>1, <2>2 DEF ResourceInv
<1> QED BY <1>3, <1>4 DEF LockPayee

\* The statements that take no lock, and the errors of any statement.
LEMMA PlainResources ==
  ASSUME TypeInv, ResourceInv, NEW r \in Reqs,
         \/ Lookup(r) \/ Debit(r) \/ InsertSession(r) \/ InsertBet(r) \/ Engine(r)
         \/ Credit(r) \/ InsertPayout(r) \/ Close(r)
         \/ LockWaitTimeout(r) \/ StatementFails(r)
  PROVE  ResourceInv'
<1>1. UNCHANGED <<conns, userLock, sessLock>>
  BY DEF Lookup, Debit, InsertSession, InsertBet, Engine, Credit, InsertPayout, Close,
         LockWaitTimeout, StatementFails, locks
<1>2. pc[r] \in InTx
  BY DEF Lookup, Debit, InsertSession, InsertBet, Engine, Credit, InsertPayout, Close,
         LockWaitTimeout, StatementFails, WaitsFor, InTx
<1>3. \/ \E c : Throw(r, c)
      \/ pc[r] = "lookup" /\ (Goto(r, "commit") \/ Goto(r, "lockUser"))
      \/ pc[r] = "debit" /\ Goto(r, "insertSession")
      \/ pc[r] = "insertSession" /\ Goto(r, "insertBet")
      \/ pc[r] = "insertBet" /\ Goto(r, "commit")
      \/ pc[r] = "engine" /\ (Goto(r, "commit") \/ Goto(r, "payout"))
      \/ pc[r] = "credit" /\ Goto(r, "insertPayout")
      \/ pc[r] = "insertPayout" /\ Goto(r, "close")
      \/ pc[r] = "close" /\ Goto(r, "commit")
  BY DEF Lookup, Debit, InsertSession, InsertBet, Engine, Credit, InsertPayout, Close,
         LockWaitTimeout, StatementFails
<1>4. CASE \E c : Throw(r, c)
  BY <1>1, <1>2, <1>4, ThrowResources
<1> QED BY <1>1, <1>2, <1>3, <1>4, StatementResources DEF InTx, HoldsUser, HoldsSession

LEMMA EndResources ==
  ASSUME TypeInv, ResourceInv, NEW r \in Reqs,
         Commit(r) \/ CommitAckLost(r) \/ Rollback(r)
  PROVE  ResourceInv'
<1>1. ReleaseLocks(r) /\ pc[r] \in HasConn
  BY DEF Commit, CommitAckLost, Rollback, HasConn, InTx
<1>2. PICK l : /\ Goto(r, l)
               /\ \/ l \in {"board", "done", "replayRead"} /\ Disconnect(r)
                  \/ l = "backoff" /\ UNCHANGED conns
  BY DEF Commit, CommitAckLost, Rollback
<1>3. l \in Labels
  BY <1>2 DEF Labels, HasConn
<1>4. \A u \in Users : userLock'[u] # r /\ userLock'[u] \in {userLock[u], None}
  BY <1>1, NoneAssumption DEF ReleaseLocks
<1>5. \A s \in Reqs : sessLock'[s] # r /\ sessLock'[s] \in {sessLock[s], None}
  BY <1>1, NoneAssumption DEF ReleaseLocks
<1>6. LockOrder'
  BY <1>2, <1>3, <1>4, <1>5, MoveLocks DEF ResourceInv
<1>7. PoolBound'
  BY <1>1, <1>2, <1>3, MoveKeeps, MoveReleases DEF ResourceInv, HasConn, InTx
<1> QED BY <1>6, <1>7 DEF ResourceInv

\* The steps before and after a transaction.
LEMMA OutsideResources ==
  ASSUME TypeInv, ResourceInv, NEW r \in Reqs,
         \/ SubmitInitiate(r) \/ SubmitOnSession(r) \/ Retry(r) \/ ReplayRead(r)
         \/ CreditBoard(r) \/ CreditBoardFails(r) \/ PoolFails(r)
  PROVE  ResourceInv'
<1>1. UNCHANGED <<userLock, sessLock>>
      /\ pc[r] \in {"idle", "backoff", "replayRead", "board", "connect"}
  BY DEF SubmitInitiate, SubmitOnSession, Submit, Retry, ReplayRead, CreditBoard,
         CreditBoardFails, PoolFails, locks
<1>2. PICK l \in {"connect", "done"} :
         /\ Goto(r, l)
         /\ IF pc[r] = "backoff" THEN Disconnect(r) ELSE UNCHANGED conns
  BY DEF SubmitInitiate, SubmitOnSession, Submit, Retry, ReplayRead, CreditBoard,
         CreditBoardFails, PoolFails
<1>3. l \in Labels \ HasConn
  BY <1>2 DEF Labels, HasConn, InTx
<1>4. (\A u \in Users : userLock[u] # r) /\ (\A s \in Reqs : sessLock[s] # r)
  BY <1>1, NoneAssumption DEF ResourceInv, LockOrder, HoldsUser, HoldsSession
<1>5. LockOrder'
  BY <1>1, <1>2, <1>3, <1>4, MoveLocks DEF ResourceInv
<1>6. PoolBound'
  <2>1. CASE pc[r] = "backoff"
    BY <1>2, <1>3, <2>1, MoveReleases DEF ResourceInv
  <2>2. CASE pc[r] # "backoff"
    BY <1>1, <1>2, <1>3, <2>2, MoveKeeps DEF ResourceInv, HasConn, InTx
  <2> QED BY <2>1, <2>2
<1> QED BY <1>5, <1>6 DEF ResourceInv

LEMMA CrashResources ==
  ASSUME TypeInv, ResourceInv, Crash
  PROVE  ResourceInv'
<1>1. conns' = {} /\ \A r \in Reqs : pc'[r] \notin HasConn
  BY DEF Crash, InFlight, HasConn, InTx
<1>2. IsFiniteSet(conns') /\ Cardinality(conns') = 0
  BY <1>1, FS_EmptySet
<1>3. LockOrder'
  BY DEF Crash, LockOrder
<1> QED BY <1>1, <1>2, <1>3, ConstantsAssumption DEF ResourceInv, PoolBound

LEMMA NextResources == TypeInv /\ ResourceInv /\ [Next]_vars => ResourceInv'
<1> SUFFICES ASSUME TypeInv, ResourceInv, [Next]_vars PROVE ResourceInv'
  OBVIOUS
<1>1. ASSUME NEW r \in Reqs, Handle(r) PROVE ResourceInv'
  BY <1>1, ConnectResources, LockUserResources, LockSessionResources, LockPayeeResources,
     PlainResources, EndResources, OutsideResources DEF Handle
<1>2. ASSUME NEW r \in Reqs, Fail(r) PROVE ResourceInv'
  BY <1>2, PlainResources, EndResources, OutsideResources DEF Fail
<1>3. CASE UNCHANGED <<conns, pc, userLock, sessLock>>
  BY <1>3 DEF ResourceInv, PoolBound, LockOrder
<1> QED BY <1>1, <1>2, <1>3, OutsideResources, CrashResources
        DEF Next, ChangeStatus, vars, locks

\* A connection is held exactly between getConnection and release on every
\* path out of the retry loop, the pool's limit is never exceeded, and no row
\* lock outlives its transaction, for any number of requests and retries.
THEOREM ConnectionsAreReturned == Spec => []NothingLeaks
BY InitType, NextType, InitResources, NextResources, ResourceBounds, PTL DEF Spec

---------------------------------------------------------------------------
(* The wait-for graph has paths of length two at most.                      *)

LEMMA HoldersOfUsersRun ==
  ASSUME LockOrder, NEW r \in Reqs, pc[r] \in HoldsUser
  PROVE  WaitsFor(r) = {}
BY DEF WaitsFor, HoldsUser

LEMMA WaitersWaitForHolders ==
  ASSUME TypeInv, LockOrder, NEW r \in Reqs, NEW o \in WaitsFor(r)
  PROVE  /\ pc[o] \in HoldsUser \cup HoldsSession
         /\ pc[r] # "lockSession" => pc[o] \in HoldsUser
<1>1. pc[r] # "idle"
  BY DEF WaitsFor
<1>2. req[r].user \in Users /\ req[r].sess \in Reqs
  BY <1>1, LockTypes
<1> QED BY <1>2 DEF WaitsFor, LockOrder

LEMMA OrderForbidsCircles == TypeInv /\ LockOrder => NoWaitCycle
<1> SUFFICES ASSUME TypeInv, LockOrder, NEW S \in SUBSET Reqs, S # {},
                    \A r \in S : WaitsFor(r) \cap S # {}
             PROVE  FALSE
  BY DEF NoWaitCycle
<1>1. PICK r \in S : TRUE
  OBVIOUS
<1>2. PICK o \in S : o \in WaitsFor(r)
  BY <1>1
<1>3. PICK p \in S : p \in WaitsFor(o)
  BY <1>2
<1>4. pc[o] # "lockSession"
  BY <1>2, WaitersWaitForHolders DEF HoldsUser, HoldsSession
<1>5. pc[p] \in HoldsUser
  BY <1>3, <1>4, WaitersWaitForHolders
<1>6. WaitsFor(p) = {}
  BY <1>5, HoldersOfUsersRun
<1> QED BY <1>6

\* Requests never wait for each other in a circle: whoever waits for a users
\* row waits for a request that waits for nobody, and whoever waits for a
\* session row waits for one that waits for a users row at most.
THEOREM NoRequestsDeadlock == Spec => []NoWaitCycle
<1>1. ResourceInv => LockOrder
  BY DEF ResourceInv
<1> QED BY <1>1, InitType, NextType, InitResources, NextResources, OrderForbidsCircles, PTL
        DEF Spec
=============================================================================
