----------------------------- MODULE AgentLease ------------------------------
(***************************************************************************)
(* The agent's server (AgentServer::run, serve and control of              *)
(* src/distributed/agent.rs): control connections arrive at any time, and  *)
(* the busy flag gives the agent to one of them at a time.  The flag is    *)
(* claimed inside the handshake's callback, before the response is         *)
(* written, and released when the connection ends in any of the ways it    *)
(* can.  The test itself is ControlPlane's; here it has its waits only.    *)
(***************************************************************************)
EXTENDS Naturals, FiniteSets

CONSTANTS
  Coordinators,   \* control connections, each accepted once
  Trusted         \* the ones that present the agent's token

ASSUME LeaseAssumption == Trusted \subseteq Coordinators

VARIABLES
  leaseTls,       \* the agent serves wss://
  leaseStop,      \* the agent's token is cancelled
  leaseLoop,      \* "accepting", "draining" or "ended": AgentServer::run
  leaseBusy,      \* Shared::busy
  leaseConn       \* [c |-> [at, claimed]]

leaseVars == <<leaseTls, leaseStop, leaseLoop, leaseBusy, leaseConn>>

Waits == {"hello", "prepare", "start", "run", "result"}
Testing == Waits \cup {"error", "close"}
Gone == {"away", "ended", "refused", "aborted"}

LeaseInit ==
  /\ leaseTls \in BOOLEAN /\ leaseStop = FALSE
  /\ leaseLoop = "accepting"
  /\ leaseBusy = FALSE
  /\ leaseConn = [c \in Coordinators |-> [at |-> "away", claimed |-> FALSE]]

To(c, at) == leaseConn' = [leaseConn EXCEPT ![c].at = at]

----------------------------------------------------------------------------
\* A connection is accepted and served by a task of its own.
Accept(c) ==
  /\ leaseLoop = "accepting" /\ leaseConn[c].at = "away"
  /\ To(c, IF leaseTls THEN "tls" ELSE "shake")
  /\ UNCHANGED <<leaseTls, leaseStop, leaseLoop, leaseBusy>>

\* serve: the TLS handshake succeeds; or it fails, times out or is cancelled.
TlsAccepted(c) ==
  /\ leaseConn[c].at = "tls"
  /\ To(c, "shake")
  /\ UNCHANGED <<leaseTls, leaseStop, leaseLoop, leaseBusy>>

TlsEnds(c) ==
  /\ leaseConn[c].at = "tls"
  /\ To(c, "ended")
  /\ UNCHANGED <<leaseTls, leaseStop, leaseLoop, leaseBusy>>

\* The callback checks the token, then claims the agent.
Claim(c) ==
  /\ leaseConn[c].at = "shake"
  /\ IF c \in Trusted /\ ~leaseBusy
     THEN leaseBusy' = TRUE /\ leaseConn' = [leaseConn EXCEPT ![c] = [at |-> "answer", claimed |-> TRUE]]
     ELSE To(c, "refused") /\ UNCHANGED leaseBusy
  /\ UNCHANGED <<leaseTls, leaseStop, leaseLoop>>

\* Mutant: a handshake that fails after the claim keeps the agent.
HandshakeEndsClaimed(c) ==
  /\ leaseConn[c].at \in {"shake", "answer"}
  /\ To(c, "ended")
  /\ UNCHANGED <<leaseTls, leaseStop, leaseLoop, leaseBusy>>

\* The request never comes, or the response is not written in time: the
\* handshake fails, times out or is cancelled, and a claim is given back.
HandshakeEnds(c) ==
  /\ leaseConn[c].at \in {"shake", "answer"}
  /\ To(c, "ended")
  /\ leaseBusy' = IF leaseConn[c].claimed THEN FALSE ELSE leaseBusy
  /\ UNCHANGED <<leaseTls, leaseStop, leaseLoop>>

\* The response is written; the guard now holds the claim.
HandshakeDone(c) ==
  /\ leaseConn[c].at = "answer"
  /\ To(c, "hello")
  /\ UNCHANGED <<leaseTls, leaseStop, leaseLoop, leaseBusy>>

\* The test goes on; a phase may follow a phase.
Advance(at) ==
  CASE at = "hello" -> {"prepare"} [] at = "prepare" -> {"start"} [] at = "start" -> {"run"}
    [] at = "run" -> {"result"} [] at = "result" -> {"prepare"}

TestGoesOn(c) ==
  /\ leaseConn[c].at \in Waits
  /\ \E at \in Advance(leaseConn[c].at) : To(c, at)
  /\ UNCHANGED <<leaseTls, leaseStop, leaseLoop, leaseBusy>>

\* run_test returns: the wait timed out, the connection closed, the agent is
\* stopping, or an unexpected message is answered with an error.
TestEnds(c) ==
  /\ leaseConn[c].at \in Waits
  /\ \E at \in {"error", "close"} : To(c, at)
  /\ UNCHANGED <<leaseTls, leaseStop, leaseLoop, leaseBusy>>

ErrorSent(c) ==
  /\ leaseConn[c].at = "error"
  /\ To(c, "close")
  /\ UNCHANGED <<leaseTls, leaseStop, leaseLoop, leaseBusy>>

\* The close is sent or times out, and the guard is dropped.
Closed(c) ==
  /\ leaseConn[c].at = "close"
  /\ To(c, "ended")
  /\ leaseBusy' = FALSE
  /\ UNCHANGED <<leaseTls, leaseStop, leaseLoop>>

----------------------------------------------------------------------------
\* The agent is stopped: it accepts no more and waits for its connections.
StopAgent ==
  /\ leaseStop = FALSE
  /\ leaseStop' = TRUE
  /\ UNCHANGED <<leaseTls, leaseLoop, leaseBusy, leaseConn>>

StopAccepting ==
  /\ leaseStop /\ leaseLoop = "accepting"
  /\ leaseLoop' = "draining"
  /\ UNCHANGED <<leaseTls, leaseStop, leaseBusy, leaseConn>>

\* The grace period ends, or every task is done: the others are aborted,
\* which drops a guard.
DrainEnds ==
  /\ leaseLoop = "draining"
  /\ leaseLoop' = "ended"
  /\ leaseConn' = [c \in Coordinators |->
       IF leaseConn[c].at \in Gone THEN leaseConn[c] ELSE [leaseConn[c] EXCEPT !.at = "aborted"]]
  /\ leaseBusy' = (leaseBusy /\ \A c \in Coordinators : leaseConn[c].at \notin Testing)
  /\ UNCHANGED <<leaseTls, leaseStop>>

LeaseTerminated ==
  /\ leaseLoop = "ended" \/ \A c \in Coordinators : leaseConn[c].at \in Gone \ {"away"}
  /\ UNCHANGED leaseVars

LeaseNext ==
  \/ \E c \in Coordinators :
       Accept(c) \/ TlsAccepted(c) \/ TlsEnds(c) \/ Claim(c) \/ HandshakeEnds(c)
       \/ HandshakeDone(c) \/ TestGoesOn(c) \/ TestEnds(c) \/ ErrorSent(c) \/ Closed(c)
  \/ StopAgent \/ StopAccepting \/ DrainEnds
  \/ LeaseTerminated

----------------------------------------------------------------------------
Holders == {c \in Coordinators : leaseConn[c].claimed /\ leaseConn[c].at \in Testing \cup {"answer"}}

\* While the agent runs, its busy flag is set exactly while one connection
\* holds it, however handshakes, refusals, timeouts and shutdown interleave:
\* no second test runs beside the first, and no claim outlives its connection
\* and locks every later coordinator out (src/distributed/agent.rs:353).
LeaseHeldByOne ==
  /\ Cardinality(Holders) <= 1
  /\ leaseLoop # "ended" => (leaseBusy <=> Holders # {})
============================================================================
