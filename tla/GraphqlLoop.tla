----------------------------- MODULE GraphqlLoop -----------------------------
(***************************************************************************)
(* The graphql-ws session loop, run_graphql_ws_loop in src/worker.rs: one  *)
(* connection_init, its connection_ack, one subscribe, then the data of    *)
(* the subscription until it completes, the connection is lost or the run  *)
(* ends.  The two frames it sends are counted as messages.                 *)
(***************************************************************************)
EXTENDS Worker

CONSTANTS DataBound,      \* bound: data frames received per worker
          GraphErrorBound \* bound: error frames counted per worker

ASSUME GraphqlAssumption == DataBound \in Nat /\ GraphErrorBound \in Nat

GraphqlPC == {"ack", "subscribe", "data", "peerClosed", "readFailed"}

\* connection_init is written; there is no claim.
GraphqlInit(w) ==
  /\ pc[w] = "top"
  /\ \/ Goto(w, "ack") /\ stats' = RecordSent(stats, w)
     \/ Goto(w, "ended") /\ stats' = RecordAttemptError(stats, w)
  /\ UNCHANGED <<claimed, runTok, childTok, connected>>

\* Mutant: a timeout that starts the exchange again.
GraphqlAckRetries(w) ==
  /\ pc[w] = "ack"
  /\ \/ Goto(w, "subscribe") /\ UNCHANGED stats
     \/ Cancelled(w) /\ Goto(w, "ended") /\ UNCHANGED stats
     \/ stats.of[w].errors < GraphErrorBound /\ Goto(w, "top")
        /\ stats' = RecordSentError(stats, w)
  /\ UNCHANGED <<claimed, runTok, childTok, connected>>

\* The wait for connection_ack: an unbiased select of the token, the
\* message timeout and the socket.
GraphqlAck(w) ==
  /\ pc[w] = "ack"
  /\ \/ Goto(w, "subscribe") /\ UNCHANGED stats
     \/ Cancelled(w) /\ Goto(w, "ended") /\ UNCHANGED stats
     \/ Goto(w, "ended") /\ stats' = RecordSentError(stats, w)
  /\ UNCHANGED <<claimed, runTok, childTok, connected>>

GraphqlSubscribe(w) ==
  /\ pc[w] = "subscribe"
  /\ \/ Goto(w, "data") /\ stats' = RecordSent(stats, w)
     \/ Goto(w, "ended") /\ stats' = RecordAttemptError(stats, w)
  /\ UNCHANGED <<claimed, runTok, childTok, connected>>

GraphqlData(w) ==
  /\ pc[w] = "data"
  /\ stats.of[w].recv < DataBound
  /\ stats' = RecordRecv(stats, w)
  /\ UNCHANGED <<claimed, runTok, childTok, pc, connected>>

\* An error frame for the subscription is counted and reading goes on.
GraphqlErrorFrame(w) ==
  /\ pc[w] = "data"
  /\ stats.of[w].errors < GraphErrorBound
  /\ stats' = RecordAttemptError(stats, w)
  /\ UNCHANGED <<claimed, runTok, childTok, pc, connected>>

\* The run ends the subscription: a stop (or complete) frame and a Close are
\* written and the worker is finished.
GraphqlCancelled(w) ==
  /\ pc[w] = "data"
  /\ Cancelled(w)
  /\ Goto(w, "finished")
  /\ UNCHANGED <<claimed, stats, runTok, childTok, connected>>

\* The server completes the subscription, which also finishes the worker.
GraphqlComplete(w) ==
  /\ pc[w] = "data"
  /\ Goto(w, "finished")
  /\ UNCHANGED <<claimed, stats, runTok, childTok, connected>>

\* The server closes the connection, or the read fails: the loop is left and
\* a stop frame is tried.  A read error is counted here.
GraphqlLost(w) ==
  /\ pc[w] = "data"
  /\ \/ Goto(w, "peerClosed") /\ UNCHANGED stats
     \/ Goto(w, "readFailed") /\ stats' = RecordAttemptError(stats, w)
  /\ UNCHANGED <<claimed, runTok, childTok, connected>>

\* After the stop frame: neither cancelled nor complete, so the close was
\* unexpected, whichever way the loop was left.
GraphqlUnexpected(w) ==
  /\ pc[w] \in {"peerClosed", "readFailed"}
  /\ Goto(w, "ended")
  /\ stats' = RecordAttemptError(stats, w)
  /\ UNCHANGED <<claimed, runTok, childTok, connected>>

\* What the worker does by itself, timeouts included.
GraphqlOwn(w) ==
  \/ GraphqlInit(w) \/ GraphqlAck(w) \/ GraphqlSubscribe(w)
  \/ GraphqlCancelled(w) \/ GraphqlUnexpected(w)

GraphqlSession(w) ==
  \/ GraphqlOwn(w)
  \/ GraphqlData(w) \/ GraphqlErrorFrame(w) \/ GraphqlComplete(w) \/ GraphqlLost(w)
============================================================================
