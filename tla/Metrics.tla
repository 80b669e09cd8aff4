------------------------------ MODULE Metrics ------------------------------
(***************************************************************************)
(* What the workers of a run count (src/metrics.rs).  Two sets of counters *)
(* record the same events: every worker's own WorkerMetrics, added up into *)
(* the final report, and the shared LiveMetrics registry, read while the   *)
(* run is in progress.  Both are kept in one variable, stats, so that each *)
(* record_* function of the code is one operator that returns the counters *)
(* after it.  Byte counts, latency samples and error categories are left   *)
(* out: no property tells them apart.                                      *)
(***************************************************************************)
EXTENDS Naturals, FiniteSets, FiniteSetsExt

CONSTANTS
  Workers,      \* the connection slots of the run
  Capped,       \* whether --requests sets a limit
  MaxRequests   \* that limit

ASSUME WorkersAssumption == IsFiniteSet(Workers)
ASSUME LimitAssumption == Capped \in BOOLEAN /\ MaxRequests \in Nat \ {0}

VARIABLES
  claimed,      \* LiveMetrics::requests_claimed
  stats         \* [live |-> the LiveMetrics counters, of |-> the worker metrics]

LiveCounters == {"active", "established", "failed", "reconnects", "sent",
                 "recv", "errors"}

\* interrupted is a flag in the code, added up as 0 or 1.
WorkerCounters == {"handshakes", "reconnects", "sent", "recv", "errors",
                   "sentErrors", "dropped", "interrupted"}

Stats == [live: [LiveCounters -> Nat], of: [Workers -> [WorkerCounters -> Nat]]]

NoStats == [live |-> [c \in LiveCounters |-> 0],
            of |-> [w \in Workers |-> [c \in WorkerCounters |-> 0]]]

MetricsInit == claimed = 0 /\ stats = NoStats

----------------------------------------------------------------------------
(* The request limit.                                                      *)

\* Mutant: the limit is compared as if the counter held the claim itself.
ClaimSucceedsAtLimit == Capped => claimed <= MaxRequests

\* LiveMetrics::claim_request, reached through WorkerSession::claim_send:
\* fetch_add, then compare the value it had.  Without a limit nothing is
\* counted and every send is allowed.
ClaimSucceeds == Capped => claimed < MaxRequests
ClaimSend == claimed' = IF Capped THEN claimed + 1 ELSE claimed

\* LiveMetrics::requests_exhausted, for a run that has a limit.
MaxRequestsReached == Capped /\ claimed >= MaxRequests

----------------------------------------------------------------------------
(* The record_* functions.                                                 *)

PlusOne(counts, C) ==
  [c \in DOMAIN counts |-> IF c \in C THEN counts[c] + 1 ELSE counts[c]]

\* One more on the shared counters in L and on worker w's own counters in C.
\* A shared counter's value is the sum over the shards of LiveMetrics, as
\* LiveMetrics::snapshot reads it.
Record(s, w, L, C) ==
  [live |-> PlusOne(s.live, L), of |-> [s.of EXCEPT ![w] = PlusOne(@, C)]]

\* The first completed handshake of a slot.
RecordHandshake(s, w) == Record(s, w, {"active", "established"}, {"handshakes"})

\* Mutant: a reconnect that forgets the gauge.
RecordReconnectUngauged(s, w) ==
  Record(s, w, {"reconnects"}, {"handshakes", "reconnects"})

\* A handshake that replaces a connection the slot had lost: it adds a
\* handshake sample and a reconnect, and does not count as established again.
RecordReconnect(s, w) ==
  Record(s, w, {"active", "reconnects"}, {"handshakes", "reconnects"})

RecordClosed(s) == [live |-> [s.live EXCEPT !["active"] = @ - 1], of |-> s.of]

\* ErrorScope::Attempt: a failure before a message could be sent.
RecordAttemptError(s, w) == Record(s, w, {"errors"}, {"errors"})

\* ErrorScope::SentMessage: the failure of a message already counted as sent.
RecordSentError(s, w) == Record(s, w, {"errors"}, {"errors", "sentErrors"})

RecordConnectionFailed(s, w) == Record(s, w, {"errors", "failed"}, {"errors"})

RecordSent(s, w) == Record(s, w, {"sent"}, {"sent"})

RecordRecv(s, w) == Record(s, w, {"recv"}, {"recv"})

\* Not a sent message; chaos has no live counters.
RecordChaosDropped(s, w) == Record(s, w, {}, {"dropped"})

\* The run ended during the slot's first handshake; set at most once.
RecordInterrupted(s, w) == Record(s, w, {}, {"interrupted"})

----------------------------------------------------------------------------
(* The report: MetricsTotals::add_worker over the workers that ran, then   *)
(* MetricsTotals::finish and AggregatedMetrics::with_not_started.          *)

Minus(a, b) == IF a >= b THEN a - b ELSE 0     \* u64::saturating_sub
Least(a, b) == IF a <= b THEN a ELSE b         \* u64::min

\* MetricsTotals after the workers of set W have been added.
Totals(W) ==
  [c \in WorkerCounters \ {"dropped"} |->
     SumFunctionOnSet([w \in W |-> stats.of[w][c]], W)]

\* The part of AggregatedMetrics about slots and attempts.
Finish(t, attempted) ==
  LET established == Least(Minus(t.handshakes, t.reconnects), attempted)
      interrupted == Least(t.interrupted, Minus(attempted, established))
  IN [attempted    |-> attempted,
      established  |-> established,
      interrupted  |-> interrupted,
      failed       |-> Minus(Minus(attempted, established), interrupted),
      notStarted   |-> 0,
      errors       |-> t.errors,
      attemptedOps |-> t.sent + Minus(t.errors, t.sentErrors)]

\* Slots the ramp never reached have no worker, so Finish counts them as
\* failed; they are moved out of that count here.
WithNotStarted(r, notStarted) ==
  LET n == Least(notStarted, r.failed)
  IN [r EXCEPT !.failed = @ - n, !.notStarted = n]
============================================================================
