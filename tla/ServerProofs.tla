---------------------------- MODULE ServerProofs ----------------------------
(* What the process around the endpoints leaves intact: it serves, breaks    *)
(* and shuts down only by steps the economy already allows, so everything    *)
(* proved of Spec holds of ServerSpec; and it drains before it closes.       *)
EXTENDS Server, GameEconomyAnswers

LEMMA ServerSteps == [ServerNext]_allVars => [Next]_vars
<1> SUFFICES ASSUME ServerNext PROVE [Next]_vars
  BY DEF allVars
<1>1. ASSUME NEW r \in Reqs,
             Accept(r) \/ Receive(r) \/ HangUp(r) \/ CloseIdle(r) \/ Serve(r) \/ Break(r)
      PROVE  [Next]_vars
  BY <1>1 DEF Accept, Receive, HangUp, CloseIdle, Serve, Break, Next, Handle
<1>2. CASE JobConnects \/ JobReleases \/ Signal \/ Shutdown \/ ForceExit
  BY <1>2 DEF JobConnects, JobReleases, Signal, Shutdown, CloseLeaderboard, EndPool, Exit, ForceExit, Leave, Next
<1>3. CASE \E u \in Users : ChangeStatus(u)
  BY <1>3 DEF Next
<1> QED BY <1>1, <1>2, <1>3 DEF ServerNext

\* A server that accepts, hangs up, drains, ends its pool and is forced to
\* exit does to the tables what the endpoints alone may do, an exit with
\* requests in flight what a crash does.
THEOREM ServerRunsTheEconomy == ServerSpec => Spec
<1>1. ServerInit => Init
  BY DEF ServerInit
<1> QED BY <1>1, ServerSteps, PTL DEF ServerSpec, Spec

\* The books stay right through every shutdown, graceful or forced: balances
\* add up row by row, sessions and ledger rows match, the boards count no win
\* twice and what clients were told is true.
THEOREM BooksSurviveShutdown ==
  ServerSpec => [](BalanceChain /\ LedgerMatchesSessions /\ OneSessionPerKey
                   /\ BoardNeverOvercounts /\ AnswersAreTrue)
BY ServerRunsTheEconomy, BalanceIsLedger, LedgerAndSessionsAgree, KeysNameOneSession,
   BoardCountsOnce, AnswersHold, PTL

---------------------------------------------------------------------------
(* Draining. server.close() returns no earlier than the last socket closes,  *)
(* and none is accepted after it was called.                                 *)

Drained ==
  /\ phase \in Phases
  /\ phase \in {"redis", "ended", "exited"} => sockets = {}

LEMMA ServerInitDrained == ServerInit => Drained
BY DEF ServerInit, Drained, Phases

LEMMA ServerNextDrained ==
  Drained /\ [ServerNext]_allVars => Drained'
<1> SUFFICES ASSUME Drained, [ServerNext]_allVars PROVE Drained'
  OBVIOUS
<1>1. ASSUME phase # "exited", NEW r \in Reqs,
             Receive(r) \/ Serve(r) \/ Break(r)
      PROVE  Drained'
  BY <1>1 DEF Receive, Serve, Break, life, Drained
<1>2. ASSUME phase # "exited", NEW r \in Reqs, Accept(r) \/ HangUp(r) \/ CloseIdle(r)
      PROVE  Drained'
  BY <1>2 DEF Accept, HangUp, CloseIdle, Drained
<1>3. CASE JobConnects \/ JobReleases \/ Signal \/ CloseLeaderboard \/ EndPool
  BY <1>3 DEF JobConnects, JobReleases, Signal, CloseLeaderboard, AllClosed, EndPool, Drained, Phases
<1>4. CASE Leave
  BY <1>4 DEF Leave, Drained, Phases
<1>5. ASSUME phase # "exited", NEW u \in Users, ChangeStatus(u), UNCHANGED life
      PROVE  Drained'
  BY <1>5 DEF life, Drained
<1>6. CASE UNCHANGED allVars
  BY <1>6 DEF allVars, life, Drained
<1> QED BY <1>1, <1>2, <1>3, <1>4, <1>5, <1>6
        DEF ServerNext, Shutdown, Exit, ForceExit

LEMMA ServerDrains == ServerSpec => []Drained
BY ServerInitDrained, ServerNextDrained, PTL DEF ServerSpec

\* server.js:18 "stop accepting new connections, then drain": Redis and the
\* pool are closed only when no client that is still connected waits for an
\* answer, for any number of sockets and requests.
THEOREM DrainsBeforeClosing == ServerSpec => []ClientsAreServedFirst
<1>1. Drained => ClientsAreServedFirst
  BY DEF Drained, ClientsAreServedFirst
<1> QED BY <1>1, ServerDrains, PTL
=============================================================================
