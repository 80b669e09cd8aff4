------------------------------ MODULE EchoLoop ------------------------------
(***************************************************************************)
(* The echo session loop, run_echo_loop in src/worker.rs: one request in   *)
(* flight per connection, sent when its slot of the pacing schedule is     *)
(* due, and its reply awaited before the next one.  Requests, replies and  *)
(* chaos decisions are nondeterministic, and so is the moment at which a   *)
(* slot is due.                                                            *)
(***************************************************************************)
EXTENDS Worker

CONSTANTS
  Paced,       \* --rate: sends follow a schedule
  Chaos,       \* --chaos-*: sends may be dropped, delayed or followed by a close
  Checks,      \* --expect: replies are checked
  SendBound    \* bound: messages per worker, for runs without a limit

ASSUME EchoAssumption ==
  /\ Paced \in BOOLEAN /\ Chaos \in BOOLEAN /\ Checks \in BOOLEAN
  /\ SendBound \in Nat

EchoPC == {"slot", "delay", "send", "reply", "pause"}

\* The head of the loop.
EchoTop(w) ==
  /\ pc[w] = "top"
  /\ Goto(w, IF Cancelled(w) THEN "ended" ELSE "slot")
  /\ UNCHANGED <<claimed, stats, runTok, childTok, connected>>

\* While a paced worker waits for its slot, cancellation ends the session.
EchoSlotCancelled(w) ==
  /\ pc[w] = "slot"
  /\ Paced
  /\ Cancelled(w)
  /\ Goto(w, "ended")
  /\ UNCHANGED <<claimed, stats, runTok, childTok, connected>>

\* Mutant: the worker leaves the session without stopping the run.
EchoLimitIgnored(w) ==
  /\ pc[w] = "slot"
  /\ ~ClaimSucceeds
  /\ ClaimSend
  /\ Goto(w, "ended")
  /\ UNCHANGED <<stats, runTok, childTok, connected>>

\* The slot is due and the limit is used up: this worker stops the run.
EchoLimitReached(w) ==
  /\ pc[w] = "slot"
  /\ ~ClaimSucceeds
  /\ ClaimSend
  /\ CancelSelf(w)
  /\ Goto(w, "ended")
  /\ UNCHANGED <<stats, connected>>

\* The slot is due and the send is claimed; chaos may drop or delay it.
EchoClaim(w) ==
  /\ pc[w] = "slot"
  /\ ClaimSucceeds
  /\ stats.of[w].sent + stats.of[w].dropped < SendBound
  /\ ClaimSend
  /\ \/ Goto(w, "send") /\ UNCHANGED stats
     \/ Chaos /\ Goto(w, "delay") /\ UNCHANGED stats
     \/ Chaos /\ Goto(w, "top") /\ stats' = RecordChaosDropped(stats, w)
  /\ UNCHANGED <<runTok, childTok, connected>>

\* chaos_delay: the sleep races cancellation.
EchoDelay(w) ==
  /\ pc[w] = "delay"
  /\ \/ Goto(w, "send")
     \/ Cancelled(w) /\ Goto(w, "ended")
  /\ UNCHANGED <<claimed, stats, runTok, childTok, connected>>

\* Mutant: a failed write is recorded as the failure of a sent message.
EchoSendMisscoped(w) ==
  /\ pc[w] = "send"
  /\ \/ Goto(w, "reply") /\ stats' = RecordSent(stats, w)
     \/ Goto(w, "ended") /\ stats' = RecordSentError(stats, w)
     \/ Cancelled(w) /\ Goto(w, "ended") /\ UNCHANGED stats
  /\ UNCHANGED <<claimed, runTok, childTok, connected>>

\* The write races cancellation, unbiased.
EchoSend(w) ==
  /\ pc[w] = "send"
  /\ \/ Goto(w, "reply") /\ stats' = RecordSent(stats, w)
     \/ Goto(w, "ended") /\ stats' = RecordAttemptError(stats, w)
     \/ Cancelled(w) /\ Goto(w, "ended") /\ UNCHANGED stats
  /\ UNCHANGED <<claimed, runTok, childTok, connected>>

\* Cancellation wins over a reply that is ready at the same time, so the
\* request in flight is neither a reply nor an error.
EchoReplyCancelled(w) ==
  /\ pc[w] = "reply"
  /\ Cancelled(w)
  /\ Goto(w, "ended")
  /\ UNCHANGED <<claimed, stats, runTok, childTok, connected>>

\* A matching reply: it is recorded, checked, and may be followed by a chaos
\* close or by a read pause or think time.
EchoReply(w) ==
  /\ pc[w] = "reply"
  /\ ~Cancelled(w)
  /\ \/ stats' = RecordRecv(stats, w)
     \/ Checks /\ stats' = RecordSentError(RecordRecv(stats, w), w)
  /\ \/ Goto(w, "pause")
     \/ Chaos /\ Goto(w, "ended")
  /\ UNCHANGED <<claimed, runTok, childTok, connected>>

\* The server closes: the end of the session, not an error.
EchoServerClose(w) ==
  /\ pc[w] = "reply"
  /\ ~Cancelled(w)
  /\ Goto(w, "ended")
  /\ UNCHANGED <<claimed, stats, runTok, childTok, connected>>

\* A read error, or no reply within message_timeout.
EchoReplyFails(w) ==
  /\ pc[w] = "reply"
  /\ ~Cancelled(w)
  /\ stats' = RecordSentError(stats, w)
  /\ Goto(w, "ended")
  /\ UNCHANGED <<claimed, runTok, childTok, connected>>

\* chaos_pause and apply_think_time race cancellation; with neither set the
\* loop goes on at once.
EchoPause(w) ==
  /\ pc[w] = "pause"
  /\ \/ Goto(w, "top")
     \/ Cancelled(w) /\ Goto(w, "ended")
  /\ UNCHANGED <<claimed, stats, runTok, childTok, connected>>

EchoSession(w) ==
  \/ EchoTop(w) \/ EchoSlotCancelled(w) \/ EchoLimitReached(w) \/ EchoClaim(w)
  \/ EchoDelay(w) \/ EchoSend(w)
  \/ EchoReplyCancelled(w) \/ EchoReply(w) \/ EchoServerClose(w)
  \/ EchoReplyFails(w) \/ EchoPause(w)
============================================================================
