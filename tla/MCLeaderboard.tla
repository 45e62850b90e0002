--------------------------- MODULE MCLeaderboard ---------------------------
(* Small instances of Leaderboard for TLC: two players, the second of whom   *)
(* wins w2; one instance serves all wins. A run may begin in the state that  *)
(* is reached when the wins of Past are paid and counted on day 0.           *)
EXTENDS Leaderboard, TLC

CONSTANTS w1, w2, i1, Past
MCWinner == [w \in Wins |-> IF w = w2 THEN 2 ELSE 1]
MCAmount == [w \in Wins |-> 2]
MCProcessId == [i \in Instances |-> IF i = i1 THEN 1 ELSE 2]
MCHome == [w \in Wins |-> i1]

PastWins(k, u) == {w \in Past : Winner[w] = u /\ Key(k[1], 0) = k}
Counted == [k \in Keys |-> [u \in Users |->
              IF PastWins(k, u) = {} THEN None ELSE SumOfAmounts(PastWins(k, u))]]
MCInit ==
  /\ day = 0
  /\ paidOn = [w \in Wins |-> IF w \in Past THEN 0 ELSE None]
  /\ phase = [w \in Wins |-> IF w \in Past THEN "done" ELSE "idle"]
  /\ asked = paidOn
  /\ pending = [w \in Wins |-> {}]
  /\ scores = Counted
  /\ rowLock = [k \in Keys |-> [u \in Users |-> None]]
  /\ ready = Instances
  /\ cache = Counted
  /\ tmp = [x \in TmpKeys |-> EmptyBoard]
  /\ job = [j \in Jobs |-> NoJob]
  /\ faults = 0
MCSpec == MCInit /\ [][Next]_vars
MCFairSpec == MCSpec /\ Fairness
=============================================================================
