-------------------------- MODULE GraphqlRunProofs --------------------------
(***************************************************************************)
(* Proofs about GraphqlRun, for every set of workers and every option: the *)
(* books of graphql-ws sessions.                                           *)
(***************************************************************************)
EXTENDS GraphqlRun, WorkerProofs

GraphqlAllPC == LifecyclePC \cup GraphqlPC

\* The messages a session may still send where it is: its session has not
\* used up the two that its handshake allows.
ToSend(k) == CASE k = "top" -> 2
               [] k \in {"ack", "subscribe"} -> 1
               [] OTHER -> 0

\* One worker's counters against where it is.  While it waits for the
\* connection_ack its connection_init has not failed; data is read only
\* after both messages of a session were sent.
SessionCount(w) ==
  LET m == stats.of[w]
  IN /\ m["sentErrors"] + Weight(pc[w], {"ack"}) <= m["sent"]
     /\ m["sent"] + ToSend(pc[w]) <= 2 * m["handshakes"]
     /\ pc[w] \in {"ack", "subscribe"} => m["sent"] >= 1
     /\ pc[w] = "data" => m["sent"] >= 2
     /\ m["recv"] > 0 => m["sent"] >= 2

BooksInv ==
  /\ stats \in Stats
  /\ pc \in [Workers -> GraphqlAllPC]
  /\ GaugeIsOpenSessions
  /\ \A w \in Workers : SessionCount(w)

----------------------------------------------------------------------------
\* A move from k to l with h handshakes, n sends, r frames received and f
\* failed sends: what the books ask of it.
Allowed(k, l, h, n, r, f) ==
  /\ l \in GraphqlAllPC /\ {h, n, r, f} \subseteq {0, 1}
  /\ f + Weight(l, {"ack"}) <= n + Weight(k, {"ack"})
  /\ n + ToSend(l) <= 2 * h + ToSend(k)
  /\ l \in {"ack", "subscribe"} => n = 1 \/ k \in {"ack", "subscribe"}
  /\ l = "data" => k = "data" \/ (n = 1 /\ k \in {"ack", "subscribe"})
  /\ r = 1 => k = "data"

\* A move that the books allow keeps them.
LEMMA AllowedMove ==
  ASSUME BooksInv, NEW w \in Workers, NEW k, NEW l, NEW h, NEW n, NEW r, NEW f,
         pc[w] = k, pc' = [pc EXCEPT ![w] = l], Allowed(k, l, h, n, r, f),
         Change(stats, stats', w, Weight(k, Outside) - Weight(l, Outside), h, n, r, f)
  PROVE  BooksInv'
<1>1. /\ stats' \in Stats /\ pc' \in [Workers -> GraphqlAllPC]
      /\ pc'[w] = l /\ \A v \in Workers \ {w} : pc'[v] = pc[v] /\ stats'.of[v] = stats.of[v]
  BY DEF BooksInv, Change, Allowed
<1>2. GaugeIsOpenSessions'
  <2>1. Weight(k, Outside) \in {0, 1} /\ Weight(l, Outside) \in {0, 1}
    BY DEF Weight
  <2> DEFINE a == Weight(k, Outside) - Weight(l, Outside)
  <2>2. a \in {-1, 0, 1} /\ a + Weight(l, Outside) = Weight(pc[w], Outside)
    BY <2>1
  <2>3. stats'.live["active"] = stats.live["active"] + a
    BY DEF Change
  <2>4. l \in GraphqlAllPC /\ pc \in [Workers -> GraphqlAllPC] /\ GaugeIsOpenSessions
    BY DEF BooksInv, Allowed
  <2> HIDE DEF a
  <2> QED BY <2>2, <2>3, <2>4, GaugeMove
<1>3. SessionCount(w)'
  <2> DEFINE m == stats.of[w]
             t == stats'.of[w]
  <2>1. /\ m \in [WorkerCounters -> Nat] /\ t \in [WorkerCounters -> Nat]
        /\ {"handshakes", "sent", "recv", "sentErrors"} \subseteq WorkerCounters
    BY <1>1 DEF BooksInv, Stats, WorkerCounters
  <2>2. /\ m["sentErrors"] + Weight(k, {"ack"}) <= m["sent"]
        /\ m["sent"] + ToSend(k) <= 2 * m["handshakes"]
        /\ k \in {"ack", "subscribe"} => m["sent"] >= 1
        /\ k = "data" => m["sent"] >= 2
        /\ m["recv"] > 0 => m["sent"] >= 2
    BY DEF BooksInv, SessionCount
  <2>3. /\ t["handshakes"] = m["handshakes"] + h /\ t["sent"] = m["sent"] + n
        /\ t["recv"] = m["recv"] + r /\ t["sentErrors"] = m["sentErrors"] + f
    BY DEF Change
  <2>4. /\ \A j, P : Weight(j, P) \in {0, 1}
        /\ \A j : ToSend(j) \in {0, 1, 2}
    BY DEF Weight, ToSend
  <2>5. {h, n, r, f} \subseteq {0, 1}
    BY DEF Allowed
  <2> HIDE DEF m, t
  <2>6. /\ m["sentErrors"] \in Nat /\ m["sent"] \in Nat /\ m["handshakes"] \in Nat
        /\ m["recv"] \in Nat
    BY <2>1
  <2>7. /\ t["sentErrors"] + Weight(l, {"ack"}) <= t["sent"]
        /\ t["sent"] + ToSend(l) <= 2 * t["handshakes"]
    BY <2>2, <2>3, <2>4, <2>5, <2>6 DEF Allowed
  <2>8. /\ l \in {"ack", "subscribe"} => t["sent"] >= 1
        /\ l = "data" => t["sent"] >= 2
        /\ t["recv"] > 0 => t["sent"] >= 2
    BY <2>2, <2>3, <2>5, <2>6 DEF Allowed
  <2> QED BY <1>1, <2>7, <2>8 DEF SessionCount, t
<1>4. \A v \in Workers \ {w} : SessionCount(v)'
  BY <1>1 DEF BooksInv, SessionCount
<1> QED BY <1>1, <1>2, <1>3, <1>4 DEF BooksInv

\* The moves of the session loop.
LEMMA GraphqlMoves ==
  /\ Allowed("top", "ack", 0, 1, 0, 0)
  /\ Allowed("top", "ended", 0, 0, 0, 0)
  /\ Allowed("ack", "subscribe", 0, 0, 0, 0)
  /\ Allowed("ack", "ended", 0, 0, 0, 0)
  /\ Allowed("ack", "ended", 0, 0, 0, 1)
  /\ Allowed("subscribe", "data", 0, 1, 0, 0)
  /\ Allowed("subscribe", "ended", 0, 0, 0, 0)
  /\ Allowed("data", "data", 0, 0, 1, 0)
  /\ Allowed("data", "data", 0, 0, 0, 0)
  /\ Allowed("data", "finished", 0, 0, 0, 0)
  /\ Allowed("data", "peerClosed", 0, 0, 0, 0)
  /\ Allowed("data", "readFailed", 0, 0, 0, 0)
  /\ Allowed("peerClosed", "ended", 0, 0, 0, 0)
  /\ Allowed("readFailed", "ended", 0, 0, 0, 0)
BY DEF Allowed, Weight, ToSend, GraphqlAllPC, LifecyclePC, GraphqlPC

\* A step inside a session: the connection stays open.
LEMMA SessionMove ==
  ASSUME BooksInv, NEW w \in Workers, NEW k, NEW l, NEW n, NEW r, NEW f,
         pc[w] = k, pc' = [pc EXCEPT ![w] = l], Allowed(k, l, 0, n, r, f),
         k \notin Outside, l \notin Outside,
         Change(stats, stats', w, 0, 0, n, r, f)
  PROVE  BooksInv'
<1>1. Weight(k, Outside) - Weight(l, Outside) = 0
  BY DEF Weight
<1> QED BY <1>1, AllowedMove

\* Every step of run_graphql_ws_loop keeps the books.
LEMMA GraphqlStep ==
  ASSUME BooksInv, NEW w \in Workers, GraphqlSession(w)
  PROVE  BooksInv'
<1>1. /\ stats \in Stats /\ pc = [pc EXCEPT ![w] = pc[w]]
      /\ \A l \in {"top", "ended", "finished", "ack", "subscribe", "data", "peerClosed",
                   "readFailed"} : l \notin Outside
  BY DEF BooksInv, Outside
<1>2. CASE GraphqlInit(w)
  BY <1>1, <1>2, Changes, GraphqlMoves, SessionMove DEF GraphqlInit, Goto
<1>3. CASE GraphqlAck(w)
  <2>1. CASE Goto(w, "subscribe") /\ UNCHANGED stats
    BY <1>1, <1>3, <2>1, Changes, GraphqlMoves, SessionMove DEF GraphqlAck, Goto
  <2>2. CASE Goto(w, "ended") /\ UNCHANGED stats
    BY <1>1, <1>3, <2>2, Changes, GraphqlMoves, SessionMove DEF GraphqlAck, Goto
  <2>3. CASE Goto(w, "ended") /\ stats' = RecordSentError(stats, w)
    BY <1>1, <1>3, <2>3, Changes, GraphqlMoves, SessionMove DEF GraphqlAck, Goto
  <2> QED BY <1>3, <2>1, <2>2, <2>3 DEF GraphqlAck
<1>4. CASE GraphqlSubscribe(w)
  BY <1>1, <1>4, Changes, GraphqlMoves, SessionMove DEF GraphqlSubscribe, Goto
<1>5. CASE GraphqlData(w)
  BY <1>1, <1>5, Changes, GraphqlMoves, SessionMove DEF GraphqlData
<1>6. CASE GraphqlErrorFrame(w)
  BY <1>1, <1>6, Changes, GraphqlMoves, SessionMove DEF GraphqlErrorFrame
<1>7. CASE GraphqlCancelled(w)
  BY <1>1, <1>7, Changes, GraphqlMoves, SessionMove DEF GraphqlCancelled, Goto
<1>8. CASE GraphqlComplete(w)
  BY <1>1, <1>8, Changes, GraphqlMoves, SessionMove DEF GraphqlComplete, Goto
<1>9. CASE GraphqlLost(w)
  BY <1>1, <1>9, Changes, GraphqlMoves, SessionMove DEF GraphqlLost, Goto
<1>10. CASE GraphqlUnexpected(w)
  BY <1>1, <1>10, Changes, GraphqlMoves, SessionMove DEF GraphqlUnexpected, Goto
<1> QED BY <1>2, <1>3, <1>4, <1>5, <1>6, <1>7, <1>8, <1>9, <1>10
    DEF GraphqlSession, GraphqlOwn

\* Every step of the lifecycle keeps the books.
LEMMA GraphqlLifecycleStep ==
  ASSUME BooksInv, NEW w \in Workers, Lifecycle(w)
  PROVE  BooksInv'
<1>1. PICK l : LifecycleEffect(w, l)
  BY LifecycleHasEffect DEF BooksInv
<1> DEFINE h == Weight(l, {"top"})
<1>2. /\ pc' = [pc EXCEPT ![w] = l]
      /\ l \in LifecyclePC \ {"idle", "ended", "finished"}
      /\ pc[w] \in LifecyclePC \ {"idle", "done", "top"}
      /\ Change(stats, stats', w, Weight(pc[w], Outside) - Weight(l, Outside), h, 0, 0, 0)
  BY <1>1 DEF LifecycleEffect
<1>3. Allowed(pc[w], l, h, 0, 0, 0)
  BY <1>2 DEF Allowed, Weight, ToSend, GraphqlAllPC, LifecyclePC, GraphqlPC
<1> HIDE DEF h
<1> QED BY <1>2, <1>3, AllowedMove

\* The books are kept by every graphql-ws run: the gauge is the number of
\* open sessions, no message fails twice, and a session sends its two
\* messages at most and reads data only after both, whatever is lost, refused
\* or cancelled in between, for any number of workers.
THEOREM GraphqlBooksKept == Spec => []SessionBooks
<1>1. Init => BooksInv
  <2> SUFFICES ASSUME Init PROVE BooksInv
    OBVIOUS
  <2>1. /\ stats = NoStats /\ pc = [w \in Workers |-> "idle"]
    BY DEF Init, DriveInit, WorkerInit, MetricsInit
  <2>2. /\ stats \in Stats /\ stats.live["active"] = 0
        /\ \A w \in Workers : \A c \in WorkerCounters : stats.of[w][c] = 0
    BY <2>1 DEF NoStats, Stats, LiveCounters, WorkerCounters
  <2>3. pc \in [Workers -> GraphqlAllPC]
    BY <2>1 DEF GraphqlAllPC, LifecyclePC
  <2>4. OpenSessions = {} /\ Cardinality({}) = 0
    BY <2>1, FS_EmptySet DEF OpenSessions, Outside
  <2>5. GaugeIsOpenSessions
    BY <2>2, <2>4 DEF GaugeIsOpenSessions
  <2>6. \A w \in Workers : SessionCount(w)
    BY <2>1, <2>2 DEF SessionCount, WorkerCounters, Weight, ToSend
  <2> QED BY <2>2, <2>3, <2>5, <2>6 DEF BooksInv
<1>2. BooksInv /\ [Next]_vars => BooksInv'
  <2> SUFFICES ASSUME BooksInv, [Next]_vars PROVE BooksInv'
    OBVIOUS
  <2>1. CASE UNCHANGED <<stats, pc>>
    BY <2>1 DEF BooksInv, GaugeIsOpenSessions, OpenSessions, SessionCount
  <2>2. ASSUME NEW w \in Workers, WorkerStep(w) PROVE BooksInv'
    BY <2>2, GraphqlStep, GraphqlLifecycleStep DEF WorkerStep
  <2>3. ASSUME NEW w \in Workers, Spawn(w) PROVE BooksInv'
    <3>1. /\ pc[w] = "idle" /\ pc' = [pc EXCEPT ![w] = "build"]
          /\ Change(stats, stats', w, 0, 0, 0, 0, 0)
      BY <2>3, Changes DEF Spawn, Goto, BooksInv
    <3>2. Allowed("idle", "build", 0, 0, 0, 0)
      BY DEF Allowed, Weight, ToSend, GraphqlAllPC, LifecyclePC, GraphqlPC
    <3>3. Weight("idle", Outside) - Weight("build", Outside) = 0
      BY DEF Weight, Outside
    <3> QED BY <3>1, <3>2, <3>3, AllowedMove
  <2>4. CASE DriveStep \/ DurationOrSignal \/ RequestWatcher \/ Terminated \/ UNCHANGED vars
    BY <2>1, <2>4 DEF DriveStep, RampOver, WaitUntilDone, JoinWorkers, DurationOrSignal,
       RequestWatcher, CancelRun, Terminated, vars, driveVars, workerVars
  <2> QED BY <2>2, <2>3, <2>4 DEF Next, RampDrive
<1>3. BooksInv => SessionBooks
  <2> SUFFICES ASSUME BooksInv, NEW w \in Workers
               PROVE  /\ stats.of[w].sentErrors <= stats.of[w].sent
                      /\ LET open == CASE pc[w] \in {"ack", "subscribe"} -> 1
                                       [] pc[w] = "top" -> 2
                                       [] OTHER -> 0
                         IN stats.of[w].sent <= 2 * stats.of[w].handshakes - open
                      /\ stats.of[w].recv > 0 => stats.of[w].sent >= 2
    BY DEF SessionBooks, ErrorsWithinAttempts, TwoMessagesPerSession, BooksInv
  <2>1. stats.of[w] \in [WorkerCounters -> Nat]
    BY DEF BooksInv, Stats
  <2>2. /\ stats.of[w].sentErrors \in Nat /\ stats.of[w].sent \in Nat
        /\ stats.of[w].handshakes \in Nat
    BY <2>1 DEF WorkerCounters
  <2>3. /\ stats.of[w].sentErrors + Weight(pc[w], {"ack"}) <= stats.of[w].sent
        /\ stats.of[w].sent + ToSend(pc[w]) <= 2 * stats.of[w].handshakes
        /\ stats.of[w].recv > 0 => stats.of[w].sent >= 2
    BY DEF BooksInv, SessionCount
  <2>4. stats.of[w].sentErrors <= stats.of[w].sent
    BY <2>2, <2>3 DEF Weight
  <2> QED BY <2>2, <2>3, <2>4 DEF ToSend
<1> QED BY <1>1, <1>2, <1>3, PTL DEF Spec
============================================================================
