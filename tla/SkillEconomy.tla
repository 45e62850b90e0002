---------------------------- MODULE SkillEconomy ----------------------------
(* What the skill endpoints promise beside the money endpoints: a session is *)
(* started, and submitted at most once; that one step stores its score,      *)
(* credits what the score earns with a ledger row, and keeps the best score. *)
EXTENDS Integers, Sequences

CONSTANTS Users, Sessions, Keys, NoKey, None, Opening, Bets, MinBet, MaxBet,
          MaxPayout,      \* as in PointsEconomy
          SkillSessions,  \* identifiers a skill session may get
          SkillGameKeys,  \* games
          MaxScore,       \* the highest score of any game
          MaxReward       \* config.skill.maxReward

VARIABLES balance, status, ledger, slips, \* as in PointsEconomy
          runs,   \* skill_sessions
          best    \* skill_high_scores

Money == INSTANCE PointsEconomy
vars == <<balance, status, ledger, slips, runs, best>>

Started(u, g) == [user |-> u, game |-> g, status |-> "STARTED",
                  score |-> None, reward |-> None]

Init ==
  /\ Money!Init
  /\ runs = [s \in SkillSessions |-> None]
  /\ best = [g \in SkillGameKeys |-> [u \in Users |-> None]]

Start(s, u, g) ==
  /\ runs[s] = None
  /\ runs' = [runs EXCEPT ![s] = Started(u, g)]
  /\ UNCHANGED <<balance, status, ledger, slips, best>>

Finish(s, score, reward) ==
  LET u == runs[s].user
      g == runs[s].game
  IN
  /\ runs[s] # None
  /\ runs[s] = Started(u, g)
  /\ runs' = [runs EXCEPT ![s].status = "SUBMITTED", ![s].score = score,
                          ![s].reward = reward]
  /\ best' = IF score > 0 /\ (best[g][u] = None \/ best[g][u] < score)
             THEN [best EXCEPT ![g][u] = score] ELSE best
  /\ UNCHANGED <<status, slips>>

FinishUnpaid(s, score) ==
  /\ Finish(s, score, 0)
  /\ UNCHANGED <<balance, ledger>>

FinishPaid(s, score, reward) ==
  LET u == runs[s].user IN
  /\ Finish(s, score, reward)
  /\ status[u] = "ACTIVE"
  /\ balance' = [balance EXCEPT ![u] = @ + reward]
  /\ ledger' = [ledger EXCEPT
       ![u] = Append(@, Money!Entry("SKILL_REWARD", s, reward, balance[u] + reward))]

Next ==
  \/ Money!Next /\ UNCHANGED <<runs, best>>
  \/ \E s \in SkillSessions, u \in Users, g \in SkillGameKeys : Start(s, u, g)
  \/ \E s \in SkillSessions, score \in 0 .. MaxScore : FinishUnpaid(s, score)
  \/ \E s \in SkillSessions, score \in 0 .. MaxScore, reward \in 1 .. MaxReward :
        FinishPaid(s, score, reward)

Spec == Init /\ [][Next]_vars
=============================================================================
