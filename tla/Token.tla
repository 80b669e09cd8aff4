-------------------------------- MODULE Token --------------------------------
(***************************************************************************)
(* The authentication header of a run (src/auth.rs, src/auth/jwt.rs,       *)
(* src/auth/oauth2.rs) and its way to the agents (src/distributed).  A     *)
(* refresh thread replaces the value the handshakes share; with agents the *)
(* coordinator puts the current value into the shares of every phase,      *)
(* watches it on its ticks and sends each new value over the ordered       *)
(* control channel.  A credential is the number of the refresh that made   *)
(* it, so a larger one is newer.  How long a wait takes is left open.      *)
(***************************************************************************)
EXTENDS Naturals, Sequences, FiniteSets

CONSTANTS
  TokenAgents,   \* the agents of the run
  TokenBound,    \* bound: successful refreshes
  PhaseBound,    \* phases of the run
  FailBound,     \* bound: failed refreshes
  Unsendable     \* refreshes whose value is not visible ASCII

ASSUME TokenAssumption ==
  /\ {TokenBound, PhaseBound, FailBound} \subseteq Nat
  /\ Unsendable \subseteq 1 .. TokenBound

VARIABLES
  tokSource,     \* "value", "command", "shared" or "attempt": how it is made
  tokRun,        \* [at, phase, planned]: the run; planned: value of its share
  tokThread,     \* [at, fails, suppressed, recent]: refresh thread, warnings
  tokShared,     \* the LiveAuthHeader of the process that refreshes
  tokWatch,      \* [value, open]: the watch channel of the phase
  tokFollow,     \* [a |-> [at, seen]]: follow_agent of an agent
  tokLink,       \* [a |-> the messages on the way to an agent]
  tokAgent,      \* [a |-> [at, value]]
  tokPresented   \* [a |-> the newest credential its handshakes presented]

tokenVars == <<tokSource, tokRun, tokThread, tokShared, tokWatch, tokFollow,
               tokLink, tokAgent, tokPresented>>

Refreshing == tokSource \in {"command", "shared"}
NoCredential == 0

TokenInit ==
  /\ tokSource \in {"value", "command", "shared", "attempt"}
  /\ tokRun = [at |-> "auth", phase |-> 0, planned |-> NoCredential]
  /\ tokThread = [at |-> "new", fails |-> 0, suppressed |-> 0, recent |-> FALSE]
  /\ tokShared = NoCredential
  /\ tokWatch = [value |-> NoCredential, open |-> FALSE]
  /\ tokFollow = [a \in TokenAgents |-> [at |-> "idle", seen |-> NoCredential]]
  /\ tokLink = [a \in TokenAgents |-> <<>>]
  /\ tokAgent = [a \in TokenAgents |-> [at |-> "between", value |-> NoCredential]]
  /\ tokPresented = [a \in TokenAgents |-> NoCredential]

----------------------------------------------------------------------------
(* Making the credential.                                                  *)

\* prepare_auth: the first credential is made before the run, or the run ends
\* with a configuration error.  Per attempt needs a single machine: with
\* agents the coordinator rejects it.
PrepareAuth ==
  /\ tokRun.at = "auth"
  /\ \/ /\ tokSource # "attempt" \/ TokenAgents = {}
        /\ TokenBound > 0
        /\ tokRun' = [tokRun EXCEPT !.at = "planning", !.phase = 1]
        /\ tokShared' = 1
        /\ tokThread' = [tokThread EXCEPT !.at = IF Refreshing THEN "waiting" ELSE "ended"]
     \/ tokRun' = [tokRun EXCEPT !.at = "failed"] /\ UNCHANGED <<tokShared, tokThread>>
  /\ UNCHANGED <<tokSource, tokWatch, tokFollow, tokLink, tokAgent, tokPresented>>

\* refresh_loop: the wait ends and the refresh begins.
RefreshDue ==
  /\ tokThread.at = "waiting"
  /\ tokThread' = [tokThread EXCEPT !.at = "refreshing"]
  /\ UNCHANGED <<tokSource, tokRun, tokShared, tokWatch, tokFollow, tokLink, tokAgent,
                 tokPresented>>

\* A refresh succeeds: the value is replaced and the failures held back are
\* dropped.  A value without an expiry is the last one.
RefreshSucceeds ==
  /\ tokThread.at = "refreshing" /\ tokShared < TokenBound
  /\ tokShared' = tokShared + 1
  /\ \E at \in {"waiting"} \cup (IF tokSource = "shared" THEN {"ended"} ELSE {}) :
       tokThread' = [tokThread EXCEPT !.at = at, !.suppressed = 0]
  /\ UNCHANGED <<tokSource, tokRun, tokWatch, tokFollow, tokLink, tokAgent, tokPresented>>

\* A refresh fails: the previous value stays, and the warning is shown unless
\* one was shown within the gap.
RefreshFails ==
  /\ tokThread.at = "refreshing" /\ tokThread.fails < FailBound
  /\ \E held \in {FALSE, tokThread.recent} :
       tokThread' = [at |-> "waiting", fails |-> tokThread.fails + 1, recent |-> TRUE,
                     suppressed |-> IF held THEN tokThread.suppressed + 1 ELSE 0]
  /\ UNCHANGED <<tokSource, tokRun, tokShared, tokWatch, tokFollow, tokLink, tokAgent,
                 tokPresented>>

\* The guard is dropped at the end of the run: the thread's wait ends.
ThreadStops ==
  /\ tokThread.at = "waiting" /\ tokRun.at = "over"
  /\ tokThread' = [tokThread EXCEPT !.at = "ended"]
  /\ UNCHANGED <<tokSource, tokRun, tokShared, tokWatch, tokFollow, tokLink, tokAgent,
                 tokPresented>>

----------------------------------------------------------------------------
(* The coordinator.                                                        *)

Sendable(v) == v \notin Unsendable
Carried == tokSource # "value"      \* a plain header is part of the share

\* Mutant: the shares of a later phase repeat the first phase's value.
PlanPhaseOnce ==
  /\ tokRun.at = "planning"
  /\ LET v == IF tokRun.planned = NoCredential THEN tokShared ELSE tokRun.planned
     IN IF Sendable(v)
        THEN /\ tokRun' = [tokRun EXCEPT !.at = "barrier", !.planned = v]
             /\ tokLink' = [a \in TokenAgents |-> Append(tokLink[a], <<"prepare", v>>)]
        ELSE tokRun' = [tokRun EXCEPT !.at = "failed"] /\ UNCHANGED tokLink
  /\ UNCHANGED <<tokSource, tokThread, tokShared, tokWatch, tokFollow, tokAgent, tokPresented>>

\* plan and prepare: every agent's share of a phase carries the value the
\* header has now; one that cannot be sent fails the run.
PlanPhase ==
  /\ tokRun.at = "planning"
  /\ IF Sendable(tokShared)
     THEN /\ tokRun' = [tokRun EXCEPT !.at = "barrier", !.planned = tokShared]
          /\ tokLink' = [a \in TokenAgents |-> Append(tokLink[a], <<"prepare", tokShared>>)]
     ELSE tokRun' = [tokRun EXCEPT !.at = "failed"] /\ UNCHANGED tokLink
  /\ UNCHANGED <<tokSource, tokThread, tokShared, tokWatch, tokFollow, tokAgent, tokPresented>>

\* Every agent is ready: the starts go out, and the phase's watch channel
\* begins with the value of the shares.
StartPhase ==
  /\ tokRun.at = "barrier"
  /\ \A a \in TokenAgents : tokAgent[a].at = "ready"
  /\ tokRun' = [tokRun EXCEPT !.at = "running"]
  /\ tokLink' = [a \in TokenAgents |-> Append(tokLink[a], <<"start", NoCredential>>)]
  /\ tokWatch' = [value |-> tokRun.planned, open |-> TRUE]
  /\ tokFollow' = [a \in TokenAgents |-> [at |-> "follow", seen |-> tokRun.planned]]
  /\ UNCHANGED <<tokSource, tokThread, tokShared, tokAgent, tokPresented>>

\* The live tick compares the header with the channel's value.
TokenTick ==
  /\ tokRun.at = "running" /\ Carried
  /\ tokShared # tokWatch.value /\ Sendable(tokShared)
  /\ tokWatch' = [tokWatch EXCEPT !.value = tokShared]
  /\ UNCHANGED <<tokSource, tokRun, tokThread, tokShared, tokFollow, tokLink, tokAgent,
                 tokPresented>>

\* Mutant: the value of the phase's share is sent instead of the new one.
FollowSendsPlanned(a) ==
  /\ tokFollow[a].at = "follow" /\ tokFollow[a].seen # tokWatch.value
  /\ tokFollow' = [tokFollow EXCEPT ![a].seen = tokWatch.value]
  /\ tokLink' = [tokLink EXCEPT ![a] = Append(@, <<"token", tokRun.planned>>)]
  /\ UNCHANGED <<tokSource, tokRun, tokThread, tokShared, tokWatch, tokAgent, tokPresented>>

\* follow_agent: the channel changed, and its latest value is sent.
FollowSends(a) ==
  /\ tokFollow[a].at = "follow" /\ tokFollow[a].seen # tokWatch.value
  /\ tokFollow' = [tokFollow EXCEPT ![a].seen = tokWatch.value]
  /\ tokLink' = [tokLink EXCEPT ![a] = Append(@, <<"token", tokWatch.value>>)]
  /\ UNCHANGED <<tokSource, tokRun, tokThread, tokShared, tokWatch, tokAgent, tokPresented>>

\* The agent's result arrives; a value not sent yet is left to the next phase.
FollowEnds(a) ==
  /\ tokFollow[a].at = "follow" /\ tokAgent[a].at = "reported"
  /\ tokFollow' = [tokFollow EXCEPT ![a].at = "done"]
  /\ tokAgent' = [tokAgent EXCEPT ![a].at = "between"]
  /\ UNCHANGED <<tokSource, tokRun, tokThread, tokShared, tokWatch, tokLink, tokPresented>>

\* Every result is in: the next phase, or the end of the run.
PhaseEnds ==
  /\ tokRun.at = "running"
  /\ \A a \in TokenAgents : tokFollow[a].at = "done"
  /\ tokRun' = IF tokRun.phase = PhaseBound THEN [tokRun EXCEPT !.at = "over"]
               ELSE [tokRun EXCEPT !.at = "planning", !.phase = @ + 1]
  /\ tokWatch' = [tokWatch EXCEPT !.open = FALSE]
  /\ UNCHANGED <<tokSource, tokThread, tokShared, tokFollow, tokLink, tokAgent, tokPresented>>

----------------------------------------------------------------------------
(* An agent.                                                               *)

\* A message by state: between phases a token is skipped (the next prepare
\* carries the current value); a prepare makes a header of its own; while
\* waiting for the start, and while running, a token replaces the value.
\* "reported" is between too: the agent waits for the next prepare while its
\* result is still on the way.
AgentReceives(a) ==
  /\ tokLink[a] # <<>>
  /\ LET m == Head(tokLink[a])  agent == tokAgent[a]
     IN tokAgent' = [tokAgent EXCEPT ![a] =
          CASE m[1] = "prepare" -> [at |-> "ready", value |-> m[2]]
            [] m[1] = "start" -> [agent EXCEPT !.at = "running"]
            [] m[1] = "token" /\ agent.at \in {"ready", "running"} /\ Carried ->
                 [agent EXCEPT !.value = m[2]]
            [] OTHER -> agent]
  /\ tokLink' = [tokLink EXCEPT ![a] = Tail(@)]
  /\ UNCHANGED <<tokSource, tokRun, tokThread, tokShared, tokWatch, tokFollow, tokPresented>>

\* A handshake of the agent's workers reads the value per attempt.
AgentShakes(a) ==
  /\ tokAgent[a].at = "running" /\ tokPresented[a] # tokAgent[a].value
  /\ tokPresented' = [tokPresented EXCEPT ![a] = tokAgent[a].value]
  /\ UNCHANGED <<tokSource, tokRun, tokThread, tokShared, tokWatch, tokFollow, tokLink,
                 tokAgent>>

\* The agent's run ends and its result is on the way.
AgentReports(a) ==
  /\ tokAgent[a].at = "running"
  /\ tokAgent' = [tokAgent EXCEPT ![a].at = "reported"]
  /\ UNCHANGED <<tokSource, tokRun, tokThread, tokShared, tokWatch, tokFollow, tokLink,
                 tokPresented>>

TokenTerminated ==
  /\ tokRun.at \in {"over", "failed"}
  /\ UNCHANGED tokenVars

TokenNext ==
  \/ PrepareAuth \/ RefreshDue \/ RefreshSucceeds \/ RefreshFails \/ ThreadStops
  \/ PlanPhase \/ StartPhase \/ TokenTick \/ PhaseEnds
  \/ \E a \in TokenAgents :
       FollowSends(a) \/ FollowEnds(a) \/ AgentReceives(a) \/ AgentShakes(a) \/ AgentReports(a)
  \/ TokenTerminated

----------------------------------------------------------------------------
\* While an agent runs a phase its handshakes never present a credential
\* older than the one that phase was planned with, nor older than one they
\* presented before, in this phase or an earlier one; nor one that was never
\* made (src/worker.rs:171, src/distributed/agent.rs:521).
TokenNeverOlder ==
  \A a \in TokenAgents :
    tokAgent[a].at = "running" =>
      /\ tokRun.planned <= tokAgent[a].value
      /\ tokPresented[a] <= tokAgent[a].value
      /\ tokAgent[a].value <= tokShared

\* A refreshed credential that can be sent reaches every agent that is still
\* running the phase, unless another refresh replaces it first
\* (src/distributed/coordinator.rs:1042).
TokenReachesAgents ==
  \A v \in 1 .. TokenBound :
    (tokRun.at = "running" /\ Carried /\ tokShared = v /\ Sendable(v))
      ~> \/ tokRun.at # "running" \/ tokShared # v
         \/ \A a \in TokenAgents : tokAgent[a].at = "running" => tokAgent[a].value = v
============================================================================
