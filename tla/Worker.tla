------------------------------- MODULE Worker -------------------------------
(***************************************************************************)
(* The lifecycle of one connection slot: WorkerSession::run and handshake  *)
(* in src/worker.rs.  A worker shakes hands, drives a session until it     *)
(* ends, and shakes hands again after a backoff, until its cancellation    *)
(* token fires.  The session loops are modules of their own (EchoLoop,     *)
(* StreamLoop, ...): they take a worker from "top" to "ended" or           *)
(* "finished".                                                             *)
(*                                                                         *)
(* A step is the work of one poll of the worker's task between two awaits. *)
(***************************************************************************)
EXTENDS Metrics

CONSTANTS
  NoReconnect,      \* --no-reconnect
  OwnToken,         \* whether each worker has a child of the run's token
  HandshakeBound,   \* bound: handshakes completed per worker
  ErrorBound        \* bound: handshakes failed while errors are below it

ASSUME WorkerAssumption ==
  /\ NoReconnect \in BOOLEAN
  /\ OwnToken \in BOOLEAN
  /\ HandshakeBound \in Nat
  /\ ErrorBound \in Nat

VARIABLES
  runTok,      \* the run's CancellationToken is cancelled
  childTok,    \* [w |-> w's own child token is cancelled]
  pc,          \* [w |-> where w's task is]
  connected    \* [w |-> connected_before]

workerVars == <<claimed, stats, runTok, childTok, pc, connected>>

\* Control points outside the session loops.
LifecyclePC == {"idle", "build", "handshake", "top", "ended", "finished",
                "backoff", "done"}

WorkerInit ==
  /\ MetricsInit
  /\ runTok = FALSE
  /\ childTok = [w \in Workers |-> FALSE]
  /\ pc = [w \in Workers |-> "idle"]
  /\ connected = [w \in Workers |-> FALSE]

Goto(w, label) == pc' = [pc EXCEPT ![w] = label]

\* A child token is cancelled with its parent.
Cancelled(w) == runTok \/ childTok[w]

\* self.cancel_token.cancel(): the run's token in a run of constant load,
\* the worker's child token in a staged or arrival run.
CancelSelf(w) ==
  IF OwnToken
  THEN childTok' = [childTok EXCEPT ![w] = TRUE] /\ UNCHANGED runTok
  ELSE runTok' = TRUE /\ UNCHANGED childTok

\* The workers with an open connection: record_handshake has run and
\* record_connection_closed has not.
Outside == {"idle", "build", "handshake", "backoff", "done"}
OpenSessions == {w \in Workers : pc[w] \notin Outside}

----------------------------------------------------------------------------
\* build_handshake_request fails: retrying cannot help, the worker is over.
BuildFails(w) ==
  /\ pc[w] = "build"
  /\ stats' = RecordConnectionFailed(stats, w)
  /\ Goto(w, "done")
  /\ UNCHANGED <<claimed, runTok, childTok, connected>>

BuildRequest(w) ==
  /\ pc[w] = "build"
  /\ Goto(w, "handshake")
  /\ UNCHANGED <<claimed, stats, runTok, childTok, connected>>

\* Mutants: a cancelled slot is interrupted even after a failed attempt,
\* or is only cancelled at its first handshake or by the run.
HandshakeCancelledAlways(w) ==
  /\ pc[w] = "handshake"
  /\ Cancelled(w)
  /\ stats' = IF ~connected[w] THEN RecordInterrupted(stats, w) ELSE stats
  /\ Goto(w, "done")
  /\ UNCHANGED <<claimed, runTok, childTok, connected>>
HandshakeCancelledFirst(w) ==
  /\ pc[w] = "handshake"
  /\ Cancelled(w) /\ ~connected[w]
  /\ stats' = IF stats.of[w].errors = 0 THEN RecordInterrupted(stats, w) ELSE stats
  /\ Goto(w, "done")
  /\ UNCHANGED <<claimed, runTok, childTok, connected>>
HandshakeCancelledByRun(w) ==
  /\ pc[w] = "handshake"
  /\ runTok
  /\ stats' = IF ~connected[w] /\ stats.of[w].errors = 0
              THEN RecordInterrupted(stats, w) ELSE stats
  /\ Goto(w, "done")
  /\ UNCHANGED <<claimed, runTok, childTok, connected>>

\* The select of handshake() is biased: a cancelled token wins over a
\* handshake that is ready at the same time.
HandshakeCancelled(w) ==
  /\ pc[w] = "handshake"
  /\ Cancelled(w)
  /\ stats' = IF ~connected[w] /\ stats.of[w].errors = 0
              THEN RecordInterrupted(stats, w)
              ELSE stats
  /\ Goto(w, "done")
  /\ UNCHANGED <<claimed, runTok, childTok, connected>>

HandshakeOpen(w) ==
  /\ pc[w] = "handshake"
  /\ ~Cancelled(w)
  /\ stats.of[w].handshakes < HandshakeBound
  /\ stats' = IF connected[w] THEN RecordReconnect(stats, w)
                              ELSE RecordHandshake(stats, w)
  /\ connected' = [connected EXCEPT ![w] = TRUE]
  /\ Goto(w, "top")
  /\ UNCHANGED <<claimed, runTok, childTok>>

\* ConnectError::Static: no retry.
HandshakeStaticError(w) ==
  /\ pc[w] = "handshake"
  /\ ~Cancelled(w)
  /\ stats.of[w].errors < ErrorBound
  /\ stats' = RecordConnectionFailed(stats, w)
  /\ Goto(w, "done")
  /\ UNCHANGED <<claimed, runTok, childTok, connected>>

\* Mutant: a handshake that failed is also recorded as a closed connection.
HandshakeFailsClosing(w) ==
  /\ pc[w] = "handshake"
  /\ ~Cancelled(w)
  /\ stats.of[w].errors < ErrorBound
  /\ stats' = RecordClosed(RecordConnectionFailed(stats, w))
  /\ Goto(w, IF NoReconnect THEN "done" ELSE "backoff")
  /\ UNCHANGED <<claimed, runTok, childTok, connected>>

\* Refused, rejected or timed out.  A token cancelled meanwhile is seen by
\* the backoff's select.
HandshakeFails(w) ==
  /\ pc[w] = "handshake"
  /\ ~Cancelled(w)
  /\ stats.of[w].errors < ErrorBound
  /\ stats' = RecordConnectionFailed(stats, w)
  /\ Goto(w, IF NoReconnect THEN "done" ELSE "backoff")
  /\ UNCHANGED <<claimed, runTok, childTok, connected>>

\* A session loop has broken off: session_end() classifies the end, the
\* gauge goes down, and run() stops or backs off.  The pending Close frame
\* has been written, or its write has failed, when this step is taken.
SessionEnded(w) ==
  /\ pc[w] = "ended"
  /\ stats' = RecordClosed(stats)
  /\ Goto(w, IF Cancelled(w) \/ NoReconnect THEN "done" ELSE "backoff")
  /\ UNCHANGED <<claimed, runTok, childTok, connected>>

\* The loop returned SessionEnd::Finished itself: a Close action ran, or a
\* subscription completed.
SessionFinished(w) ==
  /\ pc[w] = "finished"
  /\ stats' = RecordClosed(stats)
  /\ Goto(w, "done")
  /\ UNCHANGED <<claimed, runTok, childTok, connected>>

\* The backoff sleep races cancellation, unbiased.
BackoffOver(w) ==
  /\ pc[w] = "backoff"
  /\ Goto(w, "handshake")
  /\ UNCHANGED <<claimed, stats, runTok, childTok, connected>>

BackoffCancelled(w) ==
  /\ pc[w] = "backoff"
  /\ Cancelled(w)
  /\ Goto(w, "done")
  /\ UNCHANGED <<claimed, stats, runTok, childTok, connected>>

Lifecycle(w) ==
  \/ BuildFails(w) \/ BuildRequest(w)
  \/ HandshakeCancelled(w) \/ HandshakeOpen(w)
  \/ HandshakeStaticError(w) \/ HandshakeFails(w)
  \/ SessionEnded(w) \/ SessionFinished(w)
  \/ BackoffOver(w) \/ BackoffCancelled(w)

----------------------------------------------------------------------------
(* What every mode of load promises.                                       *)

\* live.active_connections, which the progress bar, the TUI and the
\* exporters show, is the number of open connections at every moment, so it
\* never wraps below zero and returns to zero.
GaugeIsOpenSessions == stats.live.active = Cardinality(OpenSessions)

\* --requests is a hard limit: whatever the interleaving of the claims, of
\* reconnects and of cancellation, "the run never sends more than `max`
\* messages in total" (LiveMetrics::claim_request).
SendsWithinLimit == Capped => stats.live.sent <= MaxRequests

\* The claim counter runs past the limit by at most one failed claim per
\* worker: a worker whose claim fails never claims again.
ClaimOvershoot == claimed <= MaxRequests + Cardinality(Workers)

\* No sent message fails twice, so the error rate's numerator never exceeds
\* its denominator, the attempted operations of MetricsTotals::finish.
ErrorsWithinAttempts ==
  \A w \in Workers : stats.of[w].sentErrors <= stats.of[w].sent

\* The live counters and the sum of the worker metrics are two records of
\* the same run and agree at every moment.
LiveAgreesWithTotals ==
  LET t == Totals(Workers)
  IN /\ stats.live.sent = t.sent
     /\ stats.live.recv = t.recv
     /\ stats.live.errors = t.errors
     /\ stats.live.reconnects = t.reconnects
     /\ stats.live.established = t.handshakes - t.reconnects
============================================================================
