------------------------------- MODULE Server -------------------------------
(* The life of the process around the money endpoints: sockets are accepted, *)
(* requests are served, and SIGTERM or SIGINT starts a graceful shutdown. It *)
(* stops listening, waits until every socket is closed (not until every      *)
(* handler has returned: a client may hang up while its request goes on),    *)
(* closes Redis, ends the pool and exits; a timer forces the exit.           *)
EXTENDS GameEconomy

VARIABLES phase,   \* how far the process has come
          sockets, \* requests whose client is connected
          job      \* a leaderboard job's use of the pool

life == <<phase, sockets, job>>
allVars == <<vars, life>>

Phases == {"up", "closing", "redis", "ended", "exited"}
ServerInit == Init /\ phase = "up" /\ sockets = {} /\ job = "due"

---------------------------------------------------------------------------
(* The HTTP side.                                                          *)

\* the server listens until server.close()
Accept(r) ==
  /\ phase = "up"
  /\ pc[r] = "idle" /\ r \notin sockets
  /\ sockets' = sockets \cup {r}
  /\ UNCHANGED <<vars, phase, job>>

\* a request may still arrive on a socket that was open before
Receive(r) ==
  /\ r \in sockets
  /\ SubmitInitiate(r) \/ SubmitOnSession(r)
  /\ UNCHANGED life

\* the client hangs up; what its handler awaits goes on
HangUp(r) ==
  /\ r \in sockets
  /\ sockets' = sockets \ {r}
  /\ UNCHANGED <<vars, phase, job>>

\* an idle socket is closed: by Node's timeouts, or by server.close() itself
CloseIdle(r) ==
  /\ r \in sockets /\ pc[r] \in {"idle", "done"}
  /\ sockets' = sockets \ {r}
  /\ UNCHANGED <<vars, phase, job>>

\* a connection of the pool that neither a request nor the job holds
Unused == Cardinality(conns) + (IF job = "connected" THEN 1 ELSE 0) < PoolSize
\* the pool can be used until pool.end() has closed its connections
Serve(r) ==
  /\ phase # "ended"
  /\ pc[r] \in {"connect", "replayRead", "board"} => Unused
  /\ Handle(r)
  /\ UNCHANGED life
\* afterwards every statement is refused, and what was open is rolled back
Break(r) ==
  /\ Fail(r) \/ (phase = "ended" /\ Rollback(r))
  /\ phase = "ended" => pc[r] # "commit" \/ pc'[r] = "rollback"
  /\ UNCHANGED life

\* a leaderboard job (one in the life of the model) takes a connection of the
\* same pool for its transaction and releases it in `finally`, done or not
JobConnects ==
  /\ phase \in {"up", "closing"}
  /\ job = "due" /\ Unused
  /\ job' = "connected"
  /\ UNCHANGED <<vars, phase, sockets>>
JobReleases ==
  /\ job = "connected"
  /\ job' = "over"
  /\ UNCHANGED <<vars, phase, sockets>>

---------------------------------------------------------------------------
(* shutdown.                                                               *)

Signal ==
  /\ phase = "up"
  /\ phase' = "closing"
  /\ UNCHANGED <<vars, sockets, job>>

\* slip: the callback does not wait for the sockets
Anyway == TRUE
AllClosed == sockets = {}
\* the callback of server.close(): cron stopped, Redis quit
CloseLeaderboard ==
  /\ phase = "closing" /\ AllClosed
  /\ phase' = "redis"
  /\ UNCHANGED <<vars, sockets, job>>

EndPool ==
  /\ phase = "redis"
  /\ phase' = "ended"
  /\ UNCHANGED <<vars, sockets, job>>

\* process.exit: what is still in flight is lost, as in a crash
Leave ==
  /\ IF \E r \in Reqs : InFlight(r) THEN Crash ELSE UNCHANGED vars
  /\ phase' = "exited"
  /\ sockets' = {} /\ job' = "over"
Exit == phase = "ended" /\ Leave
\* ten seconds after the signal
ForceExit == phase \in {"closing", "redis", "ended"} /\ Leave

Shutdown == CloseLeaderboard \/ EndPool \/ Exit

ServerNext ==
  \/ /\ phase # "exited"
     /\ \E r \in Reqs :
          Accept(r) \/ Receive(r) \/ HangUp(r) \/ CloseIdle(r) \/ Serve(r) \/ Break(r)
  \/ JobConnects \/ JobReleases \/ Signal \/ Shutdown \/ ForceExit
  \/ phase # "exited" /\ (\E u \in Users : ChangeStatus(u)) /\ UNCHANGED life

ServerSpec == ServerInit /\ [][ServerNext]_allVars
FairServerSpec ==
  /\ ServerSpec
  /\ \A r \in Reqs : WF_allVars(phase # "exited" /\ Serve(r))
                     /\ WF_allVars(phase # "exited" /\ CloseIdle(r))
  /\ WF_allVars(JobReleases) /\ WF_allVars(Shutdown)

---------------------------------------------------------------------------
(* Properties.                                                             *)

\* A shutdown always comes to an exit by itself: every handler returns its
\* connection and answers, so every socket closes and the callback runs. The
\* forced exit is not part of the fairness.
ShutdownEnds == phase = "closing" ~> phase = "exited"

\* server.js:18 "stop accepting new connections, then drain": Redis and the
\* pool are closed only when no client that is still there waits for an answer,
\* also one whose request arrived after the signal on an open socket.
ClientsAreServedFirst ==
  phase \in {"redis", "ended"} => \A r \in Reqs : InFlight(r) => r \notin sockets
=============================================================================
