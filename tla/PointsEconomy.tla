--------------------------- MODULE PointsEconomy ---------------------------
(* What the money endpoints promise, each as one indivisible step: a bet    *)
(* takes the stake, opens the session and writes its ledger row; a          *)
(* settlement closes the session and, when it pays, credits the balance and *)
(* writes its ledger row; an administrator may change an account's status.  *)
(* GameEconomy implements this with many statements, locks and retries.     *)
EXTENDS Integers, Sequences

CONSTANTS Users,      \* accounts
          Sessions,   \* identifiers a session may get
          Keys,       \* idempotency keys a client may choose
          NoKey,      \* a request without an idempotency key
          None,       \* an absent row
          Opening,    \* [Users -> Nat]: balances before the first bet
          Bets,       \* stakes a client may ask for
          MinBet, MaxBet, \* range of the game's directory row
          MaxPayout   \* MAX_PAYOUT

VARIABLES balance,    \* users.points_balance
          status,     \* users.status
          ledger,     \* points_ledger, the rows of each user in order
          slips       \* game_sessions without the engine's metadata

vars == <<balance, status, ledger, slips>>

Entry(reason, s, amount, after) ==
  [reason |-> reason, sess |-> s, amount |-> amount, after |-> after]

Init ==
  /\ balance = Opening
  /\ status = [u \in Users |-> "ACTIVE"]
  /\ ledger = [u \in Users |-> <<>>]
  /\ slips = [s \in Sessions |-> None]

KeyIsFree(u, k) ==
  k = NoKey \/ \A s \in Sessions :
                  slips[s] # None => ~(slips[s].user = u /\ slips[s].key = k)

PlaceBet(s, u, k, b) ==
  /\ slips[s] = None
  /\ status[u] = "ACTIVE"
  /\ MinBet <= b /\ b <= MaxBet /\ b <= balance[u]
  /\ KeyIsFree(u, k)
  /\ balance' = [balance EXCEPT ![u] = @ - b]
  /\ ledger' = [ledger EXCEPT
                  ![u] = Append(@, Entry("GAME_BET", s, -b, balance[u] - b))]
  /\ slips' = [slips EXCEPT
                 ![s] = [user |-> u, key |-> k, bet |-> b,
                         status |-> "ACTIVE", payout |-> None]]
  /\ UNCHANGED status

CloseSlip(s, p) ==
  /\ slips[s] # None
  /\ slips[s].status = "ACTIVE"
  /\ slips' = [slips EXCEPT ![s].status = "SETTLED", ![s].payout = p]
  /\ UNCHANGED status

SettleLoss(s) ==
  /\ CloseSlip(s, 0)
  /\ UNCHANGED <<balance, ledger>>

SettleWin(s, p) ==
  /\ CloseSlip(s, p)
  /\ LET u == slips[s].user IN
       /\ status[u] = "ACTIVE"
       /\ balance' = [balance EXCEPT ![u] = @ + p]
       /\ ledger' = [ledger EXCEPT
            ![u] = Append(@, Entry("GAME_PAYOUT", s, p, balance[u] + p))]

ChangeStatus(u, st) ==
  /\ status' = [status EXCEPT ![u] = st]
  /\ UNCHANGED <<balance, ledger, slips>>

Next ==
  \/ \E s \in Sessions, u \in Users, k \in Keys \cup {NoKey}, b \in Bets :
        PlaceBet(s, u, k, b)
  \/ \E s \in Sessions : SettleLoss(s)
  \/ \E s \in Sessions, p \in 1 .. MaxPayout : SettleWin(s, p)
  \/ \E u \in Users, st \in {"ACTIVE", "SUSPENDED"} : ChangeStatus(u, st)

Spec == Init /\ [][Next]_vars
=============================================================================
