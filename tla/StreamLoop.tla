----------------------------- MODULE StreamLoop -----------------------------
(***************************************************************************)
(* The stream and listen session loops, run_stream_loop and                *)
(* run_listen_loop in src/worker.rs: sends on a ticker and reads in        *)
(* between, without pairing them.  A listening worker is one that never    *)
(* sends.  Their select is unbiased, so any ready branch may win, and a    *)
(* slow consumer's read pause only keeps the read branch from being taken. *)
(***************************************************************************)
EXTENDS Worker

CONSTANTS
  Sends,        \* stream mode; listen mode otherwise
  StreamChaos,  \* --chaos-*
  SendBound,    \* bound: messages sent or dropped per worker
  RecvBound     \* bound: frames received in the run

ASSUME StreamAssumption ==
  /\ Sends \in BOOLEAN /\ StreamChaos \in BOOLEAN
  /\ SendBound \in Nat /\ RecvBound \in Nat

StreamPC == {"delay", "send", "think"}

Tick(w) ==
  /\ pc[w] = "top"
  /\ Sends
  /\ stats.of[w].sent + stats.of[w].dropped < SendBound

\* A tick after the limit is used up: this worker stops.
StreamLimitReached(w) ==
  /\ Tick(w)
  /\ ~ClaimSucceeds
  /\ ClaimSend
  /\ CancelSelf(w)
  /\ Goto(w, "ended")
  /\ UNCHANGED <<stats, connected>>

StreamClaim(w) ==
  /\ Tick(w)
  /\ ClaimSucceeds
  /\ ClaimSend
  /\ \/ Goto(w, "send") /\ UNCHANGED stats
     \/ StreamChaos /\ Goto(w, "delay") /\ UNCHANGED stats
     \/ StreamChaos /\ UNCHANGED pc /\ stats' = RecordChaosDropped(stats, w)
  /\ UNCHANGED <<runTok, childTok, connected>>

\* The chaos delay and the think time race cancellation.
StreamSleep(w) ==
  /\ \/ pc[w] = "delay" /\ Goto(w, "send")
     \/ pc[w] = "think" /\ Goto(w, "top")
     \/ pc[w] \in {"delay", "think"} /\ Cancelled(w) /\ Goto(w, "ended")
  /\ UNCHANGED <<claimed, stats, runTok, childTok, connected>>

\* The write does not race cancellation: a cancelled worker still finishes
\* the send it has begun.  Chaos may close the connection after it.
StreamSend(w) ==
  /\ pc[w] = "send"
  /\ \/ Goto(w, "think") /\ stats' = RecordSent(stats, w)
     \/ StreamChaos /\ Goto(w, "ended") /\ stats' = RecordSent(stats, w)
     \/ Goto(w, "ended") /\ stats' = RecordAttemptError(stats, w)
  /\ UNCHANGED <<claimed, runTok, childTok, connected>>

StreamRecv(w) ==
  /\ pc[w] = "top"
  /\ stats.live.recv < RecvBound
  /\ stats' = RecordRecv(stats, w)
  /\ UNCHANGED <<claimed, runTok, childTok, pc, connected>>

\* The server closes, which is no error, or the read fails.
StreamLost(w) ==
  /\ pc[w] = "top"
  /\ Goto(w, "ended")
  /\ UNCHANGED stats \/ stats' = RecordAttemptError(stats, w)
  /\ UNCHANGED <<claimed, runTok, childTok, connected>>

\* Mutant: the session listens to the run's token, not to its own.
StreamCancelledByRun(w) ==
  /\ pc[w] = "top"
  /\ runTok
  /\ Goto(w, "ended")
  /\ UNCHANGED <<claimed, stats, runTok, childTok, connected>>

StreamCancelled(w) ==
  /\ pc[w] = "top"
  /\ Cancelled(w)
  /\ Goto(w, "ended")
  /\ UNCHANGED <<claimed, stats, runTok, childTok, connected>>

\* What the worker does by itself.
StreamOwn(w) ==
  \/ StreamLimitReached(w) \/ StreamClaim(w) \/ StreamSleep(w) \/ StreamSend(w)
  \/ StreamCancelled(w)

StreamSession(w) == StreamOwn(w) \/ StreamRecv(w) \/ StreamLost(w)
============================================================================
