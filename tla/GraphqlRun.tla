----------------------------- MODULE GraphqlRun -----------------------------
(***************************************************************************)
(* A run of constant load of graphql-ws subscriptions: modules Worker,     *)
(* GraphqlLoop and Ramp.                                                   *)
(***************************************************************************)
EXTENDS GraphqlLoop, Ramp

vars == driveVars

WorkerStep(w) == (Lifecycle(w) \/ GraphqlSession(w)) /\ UNCHANGED drv

Init == DriveInit

Next == RampDrive \/ (\E w \in Workers : WorkerStep(w)) \/ Terminated

Spec == Init /\ [][Next]_vars

\* Every await of a worker races the token or a timer, except its reads of
\* the subscription, which race the token: nothing is assumed of the server.
FairSpec ==
  /\ Spec
  /\ DriveFairness
  /\ \A w \in Workers : WF_vars((Lifecycle(w) \/ GraphqlOwn(w)) /\ UNCHANGED drv)

\* "`connection_init` and `subscribe` (2 per session)" (METHODOLOGY.md,
\* section 3): whatever fails or is cancelled in between, a session sends at
\* most two messages, the second only after the first was acknowledged, and
\* data comes only after the second.
TwoMessagesPerSession ==
  \A w \in Workers :
    LET m == stats.of[w]
        open == CASE pc[w] \in {"ack", "subscribe"} -> 1
                  [] pc[w] = "top" -> 2
                  [] OTHER -> 0
    IN /\ m.sent <= 2 * m.handshakes - open
       /\ m.recv > 0 => m.sent >= 2

\* "A server Close frame is not an error in any mode." (METHODOLOGY.md,
\* section 6.1.)
CloseIsNoError ==
  [][\A w \in Workers :
       pc[w] = "peerClosed" => stats'.of[w].errors = stats.of[w].errors]_vars

\* The books of graphql-ws sessions: the gauge is the number of open sessions,
\* no message fails twice, and a session sends at most its two messages,
\* whatever fails, is cancelled or closed in between (run_graphql_ws_loop).
SessionBooks == GaugeIsOpenSessions /\ ErrorsWithinAttempts /\ TwoMessagesPerSession
============================================================================
