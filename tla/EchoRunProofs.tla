--------------------------- MODULE EchoRunProofs ---------------------------
(***************************************************************************)
(* Proofs about EchoRun, for every set of workers, limit and option.       *)
(***************************************************************************)
EXTENDS EchoRun, WorkerProofs

----------------------------------------------------------------------------
(* The inductive invariant.                                                *)

AllPC == LifecyclePC \cup EchoPC

\* The control points with an open connection, and those between a claim
\* and its send.
OpenPC == AllPC \ Outside
HoldingPC == {"delay", "send"}

At(P) == {w \in Workers : pc[w] \in P}

\* Workers that can never claim again.
Stopped == {w \in Workers : \/ pc[w] = "done"
                            \/ pc[w] = "ended" /\ Cancelled(w)}

\* Every send, and every claim not yet turned into a send, has a claim of
\* its own below the limit.
ClaimsCoverSends ==
  Capped => /\ stats.live["sent"] + Cardinality(At(HoldingPC)) <= claimed
            /\ stats.live["sent"] + Cardinality(At(HoldingPC)) <= MaxRequests

\* Each claim above the limit belongs to a worker that has stopped for good.
OvershootIsStopped == claimed <= MaxRequests + Cardinality(Stopped)

\* A worker that awaits a reply has a sent message that has not failed yet.
PendingNotFailed ==
  \A w \in Workers :
    stats.of[w]["sentErrors"] + (IF pc[w] = "reply" THEN 1 ELSE 0)
      <= stats.of[w]["sent"]

SafetyInv ==
  /\ TypeOK
  /\ GaugeIsOpenSessions
  /\ ClaimsCoverSends
  /\ OvershootIsStopped
  /\ PendingNotFailed

\* Tokens are never reset, so a stopped worker stays stopped.
TokensGrow ==
  /\ runTok => runTok'
  /\ \A v \in Workers : childTok[v] => childTok'[v]

\* How a step treats the claim counter and the sends: a worker spends the
\* claim it holds, takes one below the limit, or fails to take one and stops.
ClaimUse(w, l) ==
  \/ /\ claimed' = claimed
     /\ stats'.live["sent"] + Weight(l, HoldingPC)
          <= stats.live["sent"] + Weight(pc[w], HoldingPC)
  \/ /\ ClaimSucceeds /\ ClaimSend
     /\ stats'.live["sent"] = stats.live["sent"]
     /\ Weight(pc[w], HoldingPC) = 0
  \/ /\ ~ClaimSucceeds /\ ClaimSend
     /\ stats'.live["sent"] = stats.live["sent"]
     /\ Weight(l, HoldingPC) = 0 /\ Weight(pc[w], HoldingPC) = 0
     /\ pc[w] \notin {"done", "ended"}
     /\ l = "ended" /\ Cancelled(w)'

\* One worker moves from pc[w] to l: what a step has to show to keep the
\* invariant.
LEMMA MoveStep ==
  ASSUME SafetyInv, TypeOK', NEW w \in Workers, NEW l \in AllPC,
         pc' = [pc EXCEPT ![w] = l],
         TokensGrow,
         stats'.live["active"] + Weight(pc[w], OpenPC)
           = stats.live["active"] + Weight(l, OpenPC),
         ClaimUse(w, l),
         pc[w] # "done",
         pc[w] = "ended" /\ Cancelled(w) => l = "done",
         \A v \in Workers \ {w} : stats'.of[v] = stats.of[v],
         stats'.of[w]["sentErrors"] + (IF l = "reply" THEN 1 ELSE 0)
           <= stats'.of[w]["sent"]
  PROVE  SafetyInv'
<1>1. pc \in [Workers -> AllPC] /\ pc' \in [Workers -> AllPC]
  BY DEF SafetyInv, TypeOK, AllPC
<1>2. /\ OpenSessions = {v \in Workers : pc[v] \in OpenPC}
      /\ OpenSessions' = {v \in Workers : pc'[v] \in OpenPC}
  BY <1>1 DEF OpenSessions, OpenPC
<1>3. /\ claimed \in Nat /\ claimed' \in Nat
      /\ stats.live["active"] \in Nat /\ stats'.live["active"] \in Nat
      /\ stats.live["sent"] \in Nat /\ stats'.live["sent"] \in Nat
      /\ MaxRequests \in Nat /\ Capped \in BOOLEAN
  BY LimitAssumption DEF SafetyInv, TypeOK, Stats, LiveCounters
<1>4. \A P : Weight(pc[w], P) \in {0, 1} /\ Weight(l, P) \in {0, 1}
  BY DEF Weight
<1>5. GaugeIsOpenSessions'
  <2> DEFINE A == OpenSessions
             B == OpenSessions'
  <2>0. /\ A \in SUBSET Workers /\ B \in SUBSET Workers /\ A \ {w} = B \ {w}
        /\ Weight(w, A) = Weight(pc[w], OpenPC) /\ Weight(w, B) = Weight(l, OpenPC)
    BY <1>1, <1>2 DEF Weight
  <2> HIDE DEF A, B
  <2>1. /\ Cardinality(A) \in Nat /\ Cardinality(B) \in Nat
        /\ Cardinality(B) + Weight(pc[w], OpenPC) = Cardinality(A) + Weight(l, OpenPC)
    BY <2>0, MoveCardinality
  <2>2. stats.live["active"] = Cardinality(OpenSessions)
    BY DEF SafetyInv, GaugeIsOpenSessions
  <2>3. stats'.live["active"] = Cardinality(OpenSessions')
    BY <1>3, <1>4, <2>1, <2>2 DEF A, B
  <2> QED BY <2>3 DEF GaugeIsOpenSessions
<1>6. ClaimsCoverSends'
  <2> DEFINE A == At(HoldingPC)
             B == At(HoldingPC)'
  <2>2. /\ A = {v \in Workers : pc[v] \in HoldingPC}
        /\ B = {v \in Workers : pc'[v] \in HoldingPC}
    BY DEF At
  <2> HIDE DEF A, B
  <2>0. /\ A \in SUBSET Workers /\ B \in SUBSET Workers /\ A \ {w} = B \ {w}
        /\ Weight(w, A) = Weight(pc[w], HoldingPC) /\ Weight(w, B) = Weight(l, HoldingPC)
    BY <1>1, <2>2 DEF Weight
  <2>1. /\ Cardinality(A) \in Nat
        /\ Cardinality(B) \in Nat
        /\ Cardinality(B) + Weight(pc[w], HoldingPC)
             = Cardinality(A) + Weight(l, HoldingPC)
    BY <2>0, MoveCardinality
  <2>3. SUFFICES ASSUME Capped
                 PROVE  /\ stats'.live["sent"] + Cardinality(B) <= claimed'
                        /\ stats'.live["sent"] + Cardinality(B) <= MaxRequests
    BY DEF ClaimsCoverSends, A, B
  <2>4. /\ stats.live["sent"] + Cardinality(A) <= claimed
        /\ stats.live["sent"] + Cardinality(A) <= MaxRequests
    BY <2>3 DEF SafetyInv, ClaimsCoverSends, A
  <2>5. CASE /\ claimed' = claimed
             /\ stats'.live["sent"] + Weight(l, HoldingPC)
                  <= stats.live["sent"] + Weight(pc[w], HoldingPC)
    BY <1>3, <1>4, <2>1, <2>4, <2>5
  <2>6. CASE /\ ClaimSucceeds /\ ClaimSend
             /\ stats'.live["sent"] = stats.live["sent"]
             /\ Weight(pc[w], HoldingPC) = 0
    BY <1>3, <1>4, <2>1, <2>3, <2>4, <2>6 DEF ClaimSucceeds, ClaimSend
  <2>7. CASE /\ ~ClaimSucceeds /\ ClaimSend
             /\ stats'.live["sent"] = stats.live["sent"]
             /\ Weight(l, HoldingPC) = 0 /\ Weight(pc[w], HoldingPC) = 0
    BY <1>3, <1>4, <2>1, <2>3, <2>4, <2>7 DEF ClaimSend
  <2> QED BY <2>5, <2>6, <2>7 DEF ClaimUse
<1>7. OvershootIsStopped'
  <2>1. Stopped \subseteq Stopped'
    BY <1>1 DEF Stopped, Cancelled, TokensGrow
  <2>2. IsFiniteSet(Stopped) /\ IsFiniteSet(Stopped')
    <3>1. Stopped \in SUBSET Workers /\ Stopped' \in SUBSET Workers
      BY DEF Stopped
    <3> QED BY <3>1, FS_Subset, WorkersAssumption
  <2>3. /\ Cardinality(Stopped) \in Nat /\ Cardinality(Stopped') \in Nat
        /\ Cardinality(Stopped) <= Cardinality(Stopped')
    BY <2>1, <2>2, FS_CardinalityType, FS_Subset
  <2>4. claimed <= MaxRequests + Cardinality(Stopped)
    BY DEF SafetyInv, OvershootIsStopped
  <2>5. CASE claimed' = claimed
    BY <1>3, <2>3, <2>4, <2>5 DEF OvershootIsStopped
  <2>6. CASE ClaimSucceeds /\ ClaimSend
    BY <1>3, <2>3, <2>4, <2>6 DEF OvershootIsStopped, ClaimSucceeds, ClaimSend
  <2>7. CASE /\ ClaimSend
             /\ pc[w] \notin {"done", "ended"}
             /\ l = "ended" /\ Cancelled(w)'
    <3>1. w \notin Stopped /\ w \in Stopped'
      BY <1>1, <2>7 DEF Stopped
    <3>2. /\ IsFiniteSet(Stopped \cup {w})
          /\ Cardinality(Stopped \cup {w}) = Cardinality(Stopped) + 1
      BY <2>2, <3>1, FS_AddElement
    <3>3. Stopped \cup {w} \subseteq Stopped'
      BY <2>1, <3>1
    <3>4. Cardinality(Stopped \cup {w}) <= Cardinality(Stopped')
      BY <2>2, <3>3, FS_Subset
    <3>5. Cardinality(Stopped) + 1 <= Cardinality(Stopped')
      BY <3>2, <3>4
    <3>6. claimed' <= claimed + 1
      BY <1>3, <2>7 DEF ClaimSend
    <3> QED BY <1>3, <2>3, <2>4, <3>5, <3>6 DEF OvershootIsStopped
  <2> QED BY <2>5, <2>6, <2>7 DEF ClaimUse
<1>8. PendingNotFailed'
  BY <1>1 DEF SafetyInv, PendingNotFailed
<1> QED BY <1>5, <1>6, <1>7, <1>8 DEF SafetyInv

----------------------------------------------------------------------------
(* Replies that fail their check.                                          *)

\* A reply that fails its check is received and is one failed message.
LEMMA CheckedReplyEffect ==
  ASSUME NEW s \in Stats, NEW w \in Workers
  PROVE  Effect(s, RecordSentError(RecordRecv(s, w), w), w, 0, 0, 1)
<1> DEFINE r == RecordRecv(s, w)
<1>1. Effect(s, r, w, 0, 0, 0)
  BY Effects
<1> HIDE DEF r
<1>2. r \in Stats
  BY <1>1 DEF Effect
<1>3. Effect(r, RecordSentError(r, w), w, 0, 0, 1)
  BY <1>2, Effects
<1>4. Effect(s, RecordSentError(r, w), w, 0, 0, 1)
  BY <1>1, <1>2, <1>3, StatsNumbers DEF Effect
<1> QED BY <1>4 DEF r

----------------------------------------------------------------------------
(* One worker's step, from its effect on the counters.                     *)

\* A worker's step with a known effect on the counters keeps the invariant.
LEMMA EffectStep ==
  ASSUME SafetyInv, NEW w \in Workers, NEW l \in AllPC,
         NEW a \in Int, NEW n \in {0, 1}, NEW f \in {0, 1},
         pc' = [pc EXCEPT ![w] = l],
         Effect(stats, stats', w, a, n, f),
         a + Weight(pc[w], OpenPC) = Weight(l, OpenPC),
         \/ /\ claimed' = claimed
            /\ n + Weight(l, HoldingPC) <= Weight(pc[w], HoldingPC)
         \/ /\ ClaimSucceeds /\ ClaimSend
            /\ n = 0 /\ Weight(pc[w], HoldingPC) = 0
         \/ /\ ~ClaimSucceeds /\ ClaimSend
            /\ n = 0 /\ pc[w] = "slot" /\ l = "ended" /\ Cancelled(w)',
         runTok' \in BOOLEAN, childTok' \in [Workers -> BOOLEAN], TokensGrow,
         connected' \in [Workers -> BOOLEAN],
         drv' = drv,
         pc[w] # "done",
         pc[w] = "ended" /\ Cancelled(w) => l = "done",
         f + Weight(l, {"reply"}) <= n + Weight(pc[w], {"reply"})
  PROVE  SafetyInv'
<1>1. /\ stats \in Stats /\ stats' \in Stats
      /\ claimed \in Nat /\ claimed' \in Nat
  BY LimitAssumption DEF SafetyInv, TypeOK, Effect, ClaimSend
<1>2. TypeOK'
  BY <1>1 DEF SafetyInv, TypeOK, AllPC
<1>3. \A P : Weight(pc[w], P) \in {0, 1} /\ Weight(l, P) \in {0, 1}
  BY DEF Weight
<1>4. stats'.live["active"] + Weight(pc[w], OpenPC)
        = stats.live["active"] + Weight(l, OpenPC)
  BY <1>1, <1>3, StatsNumbers DEF Effect
<1>5. ClaimUse(w, l)
  <2>1. stats'.live["sent"] = stats.live["sent"] + n
    BY DEF Effect
  <2>2. stats.live["sent"] \in Nat
    BY <1>1, StatsNumbers
  <2>3. Weight("slot", HoldingPC) = 0 /\ Weight("ended", HoldingPC) = 0
    BY DEF Weight, HoldingPC
  <2> QED BY <1>3, <2>1, <2>2, <2>3 DEF ClaimUse
<1>6. stats'.of[w]["sentErrors"] + (IF l = "reply" THEN 1 ELSE 0)
        <= stats'.of[w]["sent"]
  <2>1. stats.of[w]["sentErrors"] + Weight(pc[w], {"reply"}) <= stats.of[w]["sent"]
    BY DEF SafetyInv, PendingNotFailed, Weight
  <2>2. stats'.of[w]["sentErrors"] + Weight(l, {"reply"}) <= stats'.of[w]["sent"]
    BY <1>1, <1>3, <2>1, StatsNumbers DEF Effect
  <2> QED BY <2>2 DEF Weight
<1> QED BY <1>2, <1>4, <1>5, <1>6, MoveStep DEF Effect

\* A move from control point k to l that counts n sends and f failed sends
\* and changes the gauge by a: what the invariant asks of it.
Move(k, l, a, n, f) ==
  /\ l \in AllPC /\ a \in {-1, 0, 1} /\ n \in {0, 1} /\ f \in {0, 1}
  /\ a + Weight(k, OpenPC) = Weight(l, OpenPC)
  /\ n + Weight(l, HoldingPC) <= Weight(k, HoldingPC)
  /\ f + Weight(l, {"reply"}) <= n + Weight(k, {"reply"})
  /\ k # "done"

\* The moves of the lifecycle.
LEMMA LifecycleMoves ==
  /\ Move("build", "done", 0, 0, 0)
  /\ Move("build", "handshake", 0, 0, 0)
  /\ Move("handshake", "done", 0, 0, 0)
  /\ Move("handshake", "backoff", 0, 0, 0)
  /\ Move("handshake", "top", 1, 0, 0)
  /\ Move("ended", "done", -1, 0, 0)
  /\ Move("ended", "backoff", -1, 0, 0)
  /\ Move("finished", "done", -1, 0, 0)
  /\ Move("backoff", "handshake", 0, 0, 0)
  /\ Move("backoff", "done", 0, 0, 0)
  /\ Move("idle", "build", 0, 0, 0)
BY DEF Move, Weight, AllPC, OpenPC, HoldingPC, Outside, LifecyclePC, EchoPC

\* The moves of the echo loop.
LEMMA EchoMoves ==
  /\ Move("top", "ended", 0, 0, 0)
  /\ Move("top", "slot", 0, 0, 0)
  /\ Move("slot", "ended", 0, 0, 0)
  /\ Move("delay", "send", 0, 0, 0)
  /\ Move("delay", "ended", 0, 0, 0)
  /\ Move("send", "reply", 0, 1, 0)
  /\ Move("send", "ended", 0, 0, 0)
  /\ Move("reply", "ended", 0, 0, 0)
  /\ Move("reply", "pause", 0, 0, 0)
  /\ Move("reply", "ended", 0, 0, 1)
  /\ Move("reply", "pause", 0, 0, 1)
  /\ Move("pause", "top", 0, 0, 0)
  /\ Move("pause", "ended", 0, 0, 0)
BY DEF Move, Weight, AllPC, OpenPC, HoldingPC, Outside, LifecyclePC, EchoPC

\* A step that leaves claims, tokens and drive() alone.
LEMMA QuietStep ==
  ASSUME SafetyInv, NEW w \in Workers, NEW k, NEW l, NEW a, NEW n, NEW f,
         pc[w] = k, pc' = [pc EXCEPT ![w] = l],
         Effect(stats, stats', w, a, n, f), Move(k, l, a, n, f),
         k = "ended" /\ Cancelled(w) => l = "done",
         UNCHANGED <<claimed, runTok, childTok, drv>>,
         connected' \in [Workers -> BOOLEAN]
  PROVE  SafetyInv'
<1>1. runTok \in BOOLEAN /\ childTok \in [Workers -> BOOLEAN]
  BY DEF SafetyInv, TypeOK
<1>2. TokensGrow
  BY DEF TokensGrow
<1>3. /\ l \in AllPC /\ a \in Int /\ n \in {0, 1} /\ f \in {0, 1}
      /\ a + Weight(pc[w], OpenPC) = Weight(l, OpenPC)
      /\ n + Weight(l, HoldingPC) <= Weight(pc[w], HoldingPC)
      /\ f + Weight(l, {"reply"}) <= n + Weight(pc[w], {"reply"})
      /\ pc[w] # "done"
  BY DEF Move
<1> QED BY <1>1, <1>2, <1>3, EffectStep

\* Every step of WorkerSession::run and handshake keeps the invariant.
LEMMA LifecycleSafe ==
  ASSUME SafetyInv, NEW w \in Workers, Lifecycle(w), UNCHANGED drv
  PROVE  SafetyInv'
<1>1. stats \in Stats /\ connected \in [Workers -> BOOLEAN]
  BY DEF SafetyInv, TypeOK
<1>3. pc[w] \in {"ended", "finished"} => stats.live["active"] > 0
  <2>1. SUFFICES ASSUME pc[w] \in {"ended", "finished"}
                 PROVE  stats.live["active"] > 0
    OBVIOUS
  <2>2. w \in OpenSessions
    BY <2>1 DEF OpenSessions, Outside
  <2>3. IsFiniteSet(OpenSessions)
    <3>1. OpenSessions \in SUBSET Workers
      BY DEF OpenSessions
    <3> QED BY <3>1, FS_Subset, WorkersAssumption
  <2>4. Cardinality(OpenSessions) \in Nat \ {0}
    BY <2>2, <2>3, FS_CardinalityType, FS_EmptySet
  <2> QED BY <2>4 DEF SafetyInv, GaugeIsOpenSessions
<1>4. CASE BuildFails(w)
  BY <1>1, <1>4, Effects, LifecycleMoves, QuietStep DEF BuildFails, Goto
<1>5. CASE BuildRequest(w)
  BY <1>1, <1>5, Effects, LifecycleMoves, QuietStep DEF BuildRequest, Goto
<1>6. CASE HandshakeCancelled(w)
  <2>1. Effect(stats, stats', w, 0, 0, 0)
    BY <1>1, <1>6, Effects DEF HandshakeCancelled
  <2> QED BY <1>1, <1>6, <2>1, LifecycleMoves, QuietStep DEF HandshakeCancelled, Goto
<1>7. CASE HandshakeOpen(w)
  <2>1. Effect(stats, stats', w, 1, 0, 0)
    BY <1>1, <1>7, Effects DEF HandshakeOpen
  <2>2. connected' \in [Workers -> BOOLEAN]
    BY <1>1, <1>7 DEF HandshakeOpen
  <2> QED BY <1>1, <1>7, <2>1, <2>2, LifecycleMoves, QuietStep DEF HandshakeOpen, Goto
<1>8. CASE HandshakeStaticError(w)
  BY <1>1, <1>8, Effects, LifecycleMoves, QuietStep DEF HandshakeStaticError, Goto
<1>9. CASE HandshakeFails(w)
  <2>1. Effect(stats, stats', w, 0, 0, 0)
    BY <1>1, <1>9, Effects DEF HandshakeFails
  <2> QED BY <1>1, <1>9, <2>1, LifecycleMoves, QuietStep DEF HandshakeFails, Goto
<1>10. CASE SessionEnded(w)
  <2>1. Effect(stats, stats', w, -1, 0, 0)
    BY <1>1, <1>3, <1>10, ClosedEffect DEF SessionEnded
  <2> QED BY <1>1, <1>10, <2>1, LifecycleMoves, QuietStep DEF SessionEnded, Goto
<1>11. CASE SessionFinished(w)
  <2>1. Effect(stats, stats', w, -1, 0, 0)
    BY <1>1, <1>3, <1>11, ClosedEffect DEF SessionFinished
  <2> QED BY <1>1, <1>11, <2>1, LifecycleMoves, QuietStep DEF SessionFinished, Goto
<1>12. CASE BackoffOver(w)
  BY <1>1, <1>12, Effects, LifecycleMoves, QuietStep DEF BackoffOver, Goto
<1>13. CASE BackoffCancelled(w)
  BY <1>1, <1>13, Effects, LifecycleMoves, QuietStep DEF BackoffCancelled, Goto
<1> QED BY <1>4, <1>5, <1>6, <1>7, <1>8, <1>9, <1>10, <1>11, <1>12, <1>13 DEF Lifecycle

\* A step at "slot" that claims a send, or fails to and stops.
LEMMA ClaimStep ==
  ASSUME SafetyInv, NEW w \in Workers, NEW l \in {"send", "delay", "top", "ended"},
         pc[w] = "slot", pc' = [pc EXCEPT ![w] = l],
         Effect(stats, stats', w, 0, 0, 0),
         ClaimSend, ClaimSucceeds \/ (l = "ended" /\ Cancelled(w)'),
         runTok' \in BOOLEAN, childTok' \in [Workers -> BOOLEAN], TokensGrow,
         UNCHANGED <<connected, drv>>
  PROVE  SafetyInv'
<1>1. /\ claimed \in Nat /\ stats \in Stats /\ stats' \in Stats
      /\ pc \in [Workers -> AllPC] /\ connected \in [Workers -> BOOLEAN]
      /\ l \in AllPC
  BY DEF SafetyInv, TypeOK, Effect, AllPC, LifecyclePC, EchoPC
<1>2. claimed' \in Nat
  BY <1>1, LimitAssumption DEF ClaimSend
<1>3. TypeOK'
  BY <1>1, <1>2 DEF SafetyInv, TypeOK, AllPC
<1>4. /\ Weight("slot", OpenPC) = 1 /\ Weight(l, OpenPC) = 1
      /\ Weight("slot", HoldingPC) = 0
      /\ Weight("ended", HoldingPC) = 0
  BY DEF Weight, AllPC, OpenPC, HoldingPC, Outside, LifecyclePC, EchoPC
<1>5. /\ stats'.live["active"] = stats.live["active"]
      /\ stats'.live["sent"] = stats.live["sent"]
      /\ stats'.of[w]["sent"] = stats.of[w]["sent"]
      /\ stats'.of[w]["sentErrors"] = stats.of[w]["sentErrors"]
      /\ \A v \in Workers \ {w} : stats'.of[v] = stats.of[v]
  BY <1>1, StatsNumbers DEF Effect
<1>6. ClaimUse(w, l)
  BY <1>4, <1>5 DEF ClaimUse
<1>7. stats.of[w]["sentErrors"] + (IF pc[w] = "reply" THEN 1 ELSE 0)
        <= stats.of[w]["sent"]
  BY DEF SafetyInv, PendingNotFailed
<1>8. stats'.of[w]["sentErrors"] + (IF l = "reply" THEN 1 ELSE 0)
        <= stats'.of[w]["sent"]
  BY <1>5, <1>7
<1> QED BY <1>1, <1>3, <1>4, <1>5, <1>6, <1>8, MoveStep

\* Every step of run_echo_loop keeps the invariant.
LEMMA EchoSafe ==
  ASSUME SafetyInv, NEW w \in Workers, EchoSession(w), UNCHANGED drv
  PROVE  SafetyInv'
<1>1. /\ stats \in Stats /\ connected \in [Workers -> BOOLEAN]
      /\ runTok \in BOOLEAN /\ childTok \in [Workers -> BOOLEAN]
  BY DEF SafetyInv, TypeOK
<1>2. CASE EchoTop(w)
  BY <1>1, <1>2, Effects, EchoMoves, QuietStep DEF EchoTop, Goto
<1>3. CASE EchoSlotCancelled(w)
  BY <1>1, <1>3, Effects, EchoMoves, QuietStep DEF EchoSlotCancelled, Goto
<1>4. CASE EchoLimitReached(w)
  <2>1. Effect(stats, stats', w, 0, 0, 0)
    BY <1>1, <1>4, Effects DEF EchoLimitReached
  <2>2. /\ runTok' \in BOOLEAN /\ childTok' \in [Workers -> BOOLEAN]
        /\ TokensGrow /\ Cancelled(w)'
    BY <1>1, <1>4 DEF EchoLimitReached, CancelSelf, TokensGrow, Cancelled
  <2> QED BY <1>4, <2>1, <2>2, ClaimStep DEF EchoLimitReached, Goto
<1>5. CASE EchoClaim(w)
  <2>1. Effect(stats, stats', w, 0, 0, 0)
    BY <1>1, <1>5, Effects DEF EchoClaim
  <2>2. /\ runTok' \in BOOLEAN /\ childTok' \in [Workers -> BOOLEAN]
        /\ TokensGrow
    BY <1>1, <1>5 DEF EchoClaim, TokensGrow
  <2>3. PICK l \in {"send", "delay", "top"} : pc' = [pc EXCEPT ![w] = l]
    BY <1>5 DEF EchoClaim, Goto
  <2>4. l \in {"send", "delay", "top", "ended"}
    BY <2>3
  <2>5. /\ pc[w] = "slot" /\ ClaimSucceeds /\ ClaimSend
        /\ UNCHANGED <<connected, drv>>
    BY <1>5 DEF EchoClaim
  <2> QED BY <2>1, <2>2, <2>3, <2>4, <2>5, ClaimStep
<1>6. CASE EchoDelay(w)
  BY <1>1, <1>6, Effects, EchoMoves, QuietStep DEF EchoDelay, Goto
<1>7. CASE EchoSend(w)
  <2>1. CASE Goto(w, "reply") /\ stats' = RecordSent(stats, w)
    BY <1>1, <1>7, <2>1, Effects, EchoMoves, QuietStep DEF EchoSend, Goto
  <2>2. CASE Goto(w, "ended") /\ stats' = RecordAttemptError(stats, w)
    BY <1>1, <1>7, <2>2, Effects, EchoMoves, QuietStep DEF EchoSend, Goto
  <2>3. CASE Goto(w, "ended") /\ UNCHANGED stats
    BY <1>1, <1>7, <2>3, Effects, EchoMoves, QuietStep DEF EchoSend, Goto
  <2> QED BY <1>7, <2>1, <2>2, <2>3 DEF EchoSend
<1>8. CASE EchoReplyCancelled(w)
  BY <1>1, <1>8, Effects, EchoMoves, QuietStep DEF EchoReplyCancelled, Goto
<1>9. CASE EchoReply(w)
  <2>1. PICK f \in {0, 1} : Effect(stats, stats', w, 0, 0, f)
    BY <1>1, <1>9, Effects, CheckedReplyEffect DEF EchoReply
  <2>2. PICK l \in {"pause", "ended"} : pc' = [pc EXCEPT ![w] = l]
    BY <1>9 DEF EchoReply, Goto
  <2>3. Move("reply", l, 0, 0, f)
    BY <2>1, <2>2, EchoMoves
  <2> QED BY <1>1, <1>9, <2>1, <2>2, <2>3, QuietStep DEF EchoReply
<1>10. CASE EchoServerClose(w)
  BY <1>1, <1>10, Effects, EchoMoves, QuietStep DEF EchoServerClose, Goto
<1>11. CASE EchoReplyFails(w)
  BY <1>1, <1>11, Effects, EchoMoves, QuietStep DEF EchoReplyFails, Goto
<1>12. CASE EchoPause(w)
  BY <1>1, <1>12, Effects, EchoMoves, QuietStep DEF EchoPause, Goto
<1> QED BY <1>2, <1>3, <1>4, <1>5, <1>6, <1>7, <1>8, <1>9, <1>10, <1>11, <1>12
    DEF EchoSession

\* Steps of drive() and of the tasks that cancel the run's token.
LEMMA DriveSafe ==
  ASSUME SafetyInv, RampDrive
  PROVE  SafetyInv'
<1>1. /\ stats \in Stats /\ connected \in [Workers -> BOOLEAN]
      /\ runTok \in BOOLEAN /\ childTok \in [Workers -> BOOLEAN]
  BY DEF SafetyInv, TypeOK
<1>2. ASSUME NEW w \in Workers, Spawn(w) PROVE SafetyInv'
  BY <1>1, <1>2, Effects, LifecycleMoves, QuietStep DEF Spawn, Goto
<1>3. CASE DriveStep
  <2>1. UNCHANGED workerVars /\ drv' \in {"wait", "join", "done"}
    BY <1>3 DEF DriveStep, RampOver, WaitUntilDone, JoinWorkers
  <2> QED BY <2>1 DEF SafetyInv, TypeOK, workerVars, GaugeIsOpenSessions, OpenSessions,
      ClaimsCoverSends, At, OvershootIsStopped, Stopped, Cancelled, PendingNotFailed
<1>4. CASE CancelRun
  <2>1. TypeOK'
    BY <1>4 DEF CancelRun, SafetyInv, TypeOK
  <2>2. GaugeIsOpenSessions' /\ ClaimsCoverSends' /\ PendingNotFailed'
    BY <1>4 DEF CancelRun, SafetyInv, GaugeIsOpenSessions, OpenSessions,
       ClaimsCoverSends, At, PendingNotFailed
  <2>3. OvershootIsStopped'
    <3>1. Stopped \subseteq Stopped'
      BY <1>4 DEF CancelRun, Stopped, Cancelled
    <3>2. Stopped' \in SUBSET Workers
      BY DEF Stopped
    <3>3. IsFiniteSet(Stopped) /\ IsFiniteSet(Stopped')
      BY <3>1, <3>2, FS_Subset, WorkersAssumption
    <3>4. /\ Cardinality(Stopped) \in Nat /\ Cardinality(Stopped') \in Nat
          /\ Cardinality(Stopped) <= Cardinality(Stopped')
      BY <3>1, <3>3, FS_Subset, FS_CardinalityType
    <3>5. claimed \in Nat /\ MaxRequests \in Nat /\ claimed' = claimed
      BY <1>4, LimitAssumption DEF CancelRun, SafetyInv, TypeOK
    <3> QED BY <3>4, <3>5 DEF SafetyInv, OvershootIsStopped
  <2> QED BY <2>1, <2>2, <2>3 DEF SafetyInv
<1> QED BY <1>2, <1>3, <1>4 DEF RampDrive, DurationOrSignal, RequestWatcher

\* The invariant holds before the first worker is spawned.
LEMMA InitSafe == Init => SafetyInv
<1> SUFFICES ASSUME Init PROVE SafetyInv
  OBVIOUS
<1> USE DEF Init, DriveInit, WorkerInit, MetricsInit
<1>1. stats \in Stats /\ stats.live["active"] = 0 /\ stats.live["sent"] = 0
      /\ \A w \in Workers : stats.of[w]["sent"] = 0 /\ stats.of[w]["sentErrors"] = 0
  BY DEF NoStats, Stats, LiveCounters, WorkerCounters
<1>2. TypeOK
  BY <1>1 DEF TypeOK, LifecyclePC
<1>3. OpenSessions = {} /\ At(HoldingPC) = {} /\ Stopped = {}
  BY DEF OpenSessions, Outside, At, HoldingPC, Stopped
<1>4. Cardinality({}) = 0
  BY FS_EmptySet
<1>5. GaugeIsOpenSessions
  BY <1>1, <1>3, <1>4 DEF GaugeIsOpenSessions
<1>6. ClaimsCoverSends /\ OvershootIsStopped
  BY <1>1, <1>3, <1>4, LimitAssumption DEF ClaimsCoverSends, OvershootIsStopped
<1>7. PendingNotFailed
  BY <1>1 DEF PendingNotFailed
<1> QED BY <1>2, <1>5, <1>6, <1>7 DEF SafetyInv

\* Every step of the run keeps the invariant.
LEMMA NextSafe == SafetyInv /\ [Next]_vars => SafetyInv'
<1> SUFFICES ASSUME SafetyInv, [Next]_vars PROVE SafetyInv'
  OBVIOUS
<1>1. CASE RampDrive
  BY <1>1, DriveSafe
<1>2. ASSUME NEW w \in Workers, WorkerStep(w) PROVE SafetyInv'
  BY <1>2, LifecycleSafe, EchoSafe DEF WorkerStep
<1>3. CASE UNCHANGED vars
  BY <1>3 DEF SafetyInv, TypeOK, vars, driveVars, workerVars, GaugeIsOpenSessions,
     OpenSessions, ClaimsCoverSends, At, OvershootIsStopped, Stopped, Cancelled,
     PendingNotFailed
<1> QED BY <1>1, <1>2, <1>3 DEF Next, Terminated, vars

----------------------------------------------------------------------------
\* The strengthened invariant holds in every reachable state.
THEOREM EchoRunInvariant == Spec => []SafetyInv
BY InitSafe, NextSafe, PTL DEF Spec

\* Type correctness: no live counter of the run goes below zero.
THEOREM EchoRunTypes == Spec => []TypeOK
<1>1. SafetyInv => TypeOK
  BY DEF SafetyInv
<1> QED BY <1>1, EchoRunInvariant, PTL

\* live.active_connections counts the open connections, for any number of
\* workers, with reconnects, failures and cancellation in any order.
THEOREM EchoGaugeExact == Spec => []GaugeIsOpenSessions
<1>1. SafetyInv => GaugeIsOpenSessions
  BY DEF SafetyInv
<1> QED BY <1>1, EchoRunInvariant, PTL

\* --requests N: no run of echo load sends more than N messages, for any N
\* and any number of workers racing for the last claims.
THEOREM EchoSendsWithinLimit == Spec => []SendsWithinLimit
<1>1. SafetyInv => SendsWithinLimit
  <2> SUFFICES ASSUME SafetyInv, Capped PROVE stats.live["sent"] <= MaxRequests
    BY DEF SendsWithinLimit
  <2>1. At(HoldingPC) \in SUBSET Workers
    BY DEF At
  <2>2. Cardinality(At(HoldingPC)) \in Nat
    BY <2>1, FS_Subset, FS_CardinalityType, WorkersAssumption
  <2>3. stats.live["sent"] \in Nat /\ MaxRequests \in Nat
    BY LimitAssumption DEF SafetyInv, TypeOK, Stats, LiveCounters
  <2> QED BY <2>2, <2>3 DEF SafetyInv, ClaimsCoverSends
<1> QED BY <1>1, EchoRunInvariant, PTL

\* The claim counter passes the limit by at most one claim per worker.
THEOREM EchoClaimOvershoot == Spec => []ClaimOvershoot
<1>1. SafetyInv => ClaimOvershoot
  <2> SUFFICES ASSUME SafetyInv PROVE ClaimOvershoot
    OBVIOUS
  <2>1. Stopped \in SUBSET Workers
    BY DEF Stopped
  <2>2. /\ Cardinality(Stopped) \in Nat /\ Cardinality(Workers) \in Nat
        /\ Cardinality(Stopped) <= Cardinality(Workers)
    BY <2>1, FS_Subset, FS_CardinalityType, WorkersAssumption
  <2>3. claimed \in Nat /\ MaxRequests \in Nat
    BY LimitAssumption DEF SafetyInv, TypeOK
  <2> QED BY <2>2, <2>3 DEF SafetyInv, OvershootIsStopped, ClaimOvershoot
<1> QED BY <1>1, EchoRunInvariant, PTL

\* No message fails twice: the error rate of the report is at most 1 before
\* it is clamped.
THEOREM EchoErrorsWithinAttempts == Spec => []ErrorsWithinAttempts
<1>1. SafetyInv => ErrorsWithinAttempts
  <2> SUFFICES ASSUME SafetyInv, NEW w \in Workers
               PROVE  stats.of[w]["sentErrors"] <= stats.of[w]["sent"]
    BY DEF ErrorsWithinAttempts
  <2>1. stats.of[w]["sentErrors"] \in Nat /\ stats.of[w]["sent"] \in Nat
    BY StatsNumbers DEF SafetyInv, TypeOK
  <2> QED BY <2>1 DEF SafetyInv, PendingNotFailed
<1> QED BY <1>1, EchoRunInvariant, PTL

----------------------------------------------------------------------------
(* The report.                                                             *)

\* A step of run_echo_loop stays inside its session and records what the
\* books expect.
LEMMA EchoRecords ==
  ASSUME NEW w \in Workers, EchoSession(w)
  PROVE  /\ pc[w] \notin Outside /\ UNCHANGED connected
         /\ stats' \in SessionRecords(stats, w)
         /\ \E l : l \notin Outside /\ pc' = [pc EXCEPT ![w] = l]
<1>1. \A l \in EchoPC \cup {"top", "ended"} : l \notin Outside
  BY DEF EchoPC, Outside
<1>2. \A l \in {"top", "slot", "delay", "send", "reply", "pause", "ended"} :
        l \in EchoPC \cup {"top", "ended"}
  BY DEF EchoPC
<1>3. CASE EchoTop(w)
  BY <1>1, <1>2, <1>3 DEF EchoTop, Goto, SessionRecords
<1>4. CASE EchoSlotCancelled(w)
  BY <1>1, <1>2, <1>4 DEF EchoSlotCancelled, Goto, SessionRecords
<1>5. CASE EchoLimitReached(w)
  BY <1>1, <1>2, <1>5 DEF EchoLimitReached, Goto, SessionRecords
<1>6. CASE EchoClaim(w)
  BY <1>1, <1>2, <1>6 DEF EchoClaim, Goto, SessionRecords
<1>7. CASE EchoDelay(w)
  BY <1>1, <1>2, <1>7 DEF EchoDelay, Goto, SessionRecords
<1>8. CASE EchoSend(w)
  BY <1>1, <1>2, <1>8 DEF EchoSend, Goto, SessionRecords
<1>9. CASE EchoReplyCancelled(w)
  BY <1>1, <1>2, <1>9 DEF EchoReplyCancelled, Goto, SessionRecords
<1>10. CASE EchoReply(w)
  BY <1>1, <1>2, <1>10 DEF EchoReply, Goto, SessionRecords
<1>11. CASE EchoServerClose(w)
  BY <1>1, <1>2, <1>11 DEF EchoServerClose, Goto, SessionRecords
<1>12. CASE EchoReplyFails(w)
  BY <1>1, <1>2, <1>12 DEF EchoReplyFails, Goto, SessionRecords
<1>13. CASE EchoPause(w)
  BY <1>1, <1>2, <1>13 DEF EchoPause, Goto, SessionRecords
<1> QED BY <1>3, <1>4, <1>5, <1>6, <1>7, <1>8, <1>9, <1>10, <1>11, <1>12, <1>13
    DEF EchoSession

\* Every step keeps the books and reports no worker that still runs.
LEMMA NextReported ==
  ASSUME SafetyInv, Books, Joined, [Next]_vars
  PROVE  Books' /\ Joined'
<1>1. /\ stats \in Stats /\ pc \in [Workers -> AllPC] /\ connected \in [Workers -> BOOLEAN]
      /\ GaugeIsOpenSessions /\ Agree(stats) /\ Slots
  BY DEF SafetyInv, TypeOK, AllPC, Books
<1>2. ASSUME NEW w \in Workers, WorkerStep(w) PROVE Books' /\ Joined'
  <2>1. CASE Lifecycle(w)
    <3>1. Slots' /\ Agree(stats')
      BY <1>1, <2>1, LifecycleBooks
    <3>2. PICK l : LifecycleEffect(w, l)
      BY <1>1, <2>1, LifecycleHasEffect
    <3>3. pc[w] \notin {"idle", "done"} /\ UNCHANGED drv
      BY <1>2, <3>2 DEF LifecycleEffect, WorkerStep
    <3> QED BY <3>1, <3>3, JoinedKept DEF Books
  <2>2. CASE EchoSession(w)
    <3>1. /\ pc[w] \notin Outside /\ UNCHANGED connected
          /\ stats' \in SessionRecords(stats, w)
      BY <2>2, EchoRecords
    <3>2. PICK l : l \notin Outside /\ pc' = [pc EXCEPT ![w] = l]
      BY <2>2, EchoRecords
    <3>3. Slots' /\ Agree(stats')
      BY <1>1, <3>1, <3>2, SessionBooksKept
    <3>4. pc[w] \notin {"idle", "done"} /\ UNCHANGED drv
      BY <1>2, <3>1 DEF Outside, WorkerStep
    <3> QED BY <3>3, <3>4, JoinedKept DEF Books
  <2> QED BY <1>2, <2>1, <2>2 DEF WorkerStep
<1>3. ASSUME NEW w \in Workers, Spawn(w) PROVE Books' /\ Joined'
  <2> DEFINE W == {w}
  <2>1. /\ pc' = [v \in Workers |-> IF v \in W THEN "build" ELSE pc[v]]
        /\ UNCHANGED <<stats, connected>> /\ drv' # "done"
        /\ \A v \in W : pc[v] = "idle"
    BY <1>1, <1>3 DEF Spawn, Goto
  <2> HIDE DEF W
  <2>2. Slots'
    BY <1>1, <2>1, SpawnBooks
  <2> QED BY <1>1, <2>1, <2>2 DEF Books, Joined
<1>4. ASSUME UNCHANGED <<stats, pc, connected>>, drv' # "done" \/ Joined' PROVE Books' /\ Joined'
  BY <1>1, <1>4 DEF Books, Slots, Joined
<1>5. CASE RampOver \/ WaitUntilDone
  BY <1>4, <1>5 DEF RampOver, WaitUntilDone, workerVars
<1>6. CASE JoinWorkers
  BY <1>4, <1>6 DEF JoinWorkers, workerVars, Joined, Started
<1>7. CASE CancelRun \/ UNCHANGED vars
  BY <1>4, <1>7 DEF CancelRun, vars, driveVars, workerVars, Joined, Started
<1> QED BY <1>2, <1>3, <1>5, <1>6, <1>7
    DEF Next, RampDrive, DriveStep, DurationOrSignal, RequestWatcher, Terminated, vars

\* The report of an echo run is exact, for any number of workers and any
\* order of failures, reconnects and cancellation: the live counters are the
\* sums of the workers' metrics, and every slot of the ramp is reported once
\* and in its class.
THEOREM EchoReportExact == Spec => []ReportExact
<1>1. Init => Books /\ Joined
  BY BooksInit DEF Init, DriveInit, Joined
<1>2. SafetyInv /\ Books /\ Joined /\ [Next]_vars => (Books /\ Joined)'
  BY NextReported
<1>3. SafetyInv /\ Books /\ Joined => ReportExact
  <2> SUFFICES ASSUME SafetyInv, Books, Joined PROVE ReportExact
    OBVIOUS
  <2>1. LiveAgreesWithTotals
    BY AgreeIsLive DEF Books
  <2>2. ASSUME drv = "done" PROVE ClassifiesSlots(Report, Cardinality(Workers \ Started))
    <3> DEFINE n == Cardinality(Workers \ Started)
               r == Finish(Totals(Started), Cardinality(Workers))
    <3>1. /\ stats \in Stats /\ connected \in [Workers -> BOOLEAN] /\ Slots
          /\ \A w \in Started : pc[w] = "done"
      BY <2>2 DEF SafetyInv, TypeOK, Books, Joined
    <3>2. Started \in SUBSET Workers
      BY DEF Started
    <3>3. /\ Cardinality(Started) \in Nat /\ n \in Nat
          /\ Cardinality(Workers) = Cardinality(Started) + n
      <4>1. /\ IsFiniteSet(Started) /\ IsFiniteSet(Workers \ Started)
            /\ Cardinality(Started) \in Nat /\ n \in Nat
        BY <3>2, FS_Subset, FS_CardinalityType, WorkersAssumption
      <4>2. Cardinality(Workers \ Started) = Cardinality(Workers) - Cardinality(Workers \cap Started)
        BY FS_Difference, WorkersAssumption
      <4>3. Cardinality(Workers \cap Started) = Cardinality(Started)
        <5>1. Workers \cap Started = Started
          BY <3>2
        <5> QED BY <5>1, Zenon
      <4>4. Cardinality(Workers) \in Nat
        BY FS_CardinalityType, WorkersAssumption
      <4> QED BY <4>1, <4>2, <4>3, <4>4
    <3> HIDE DEF n
    <3>4. /\ r.established = Cardinality(Reached) /\ r.interrupted = Cardinality(Cut)
          /\ r.failed = Cardinality(Refused) + n
      BY <3>1, <3>3, FinishExact
    <3>5. Cardinality(Refused) \in Nat
      BY <3>1, ClassesAddUp
    <3>6. LET s == WithNotStarted(r, n)
          IN /\ s.established = r.established /\ s.interrupted = r.interrupted
             /\ s.failed = Cardinality(Refused) /\ s.notStarted = n
      BY <3>3, <3>4, <3>5, NotStartedExact
    <3>7. Report = WithNotStarted(r, n)
      BY DEF Report, n
    <3> HIDE DEF r
    <3>8. ClassifiesSlots(Report, n)
      BY <3>1, <3>4, <3>6, <3>7, ClassesReported
    <3> QED BY <3>8 DEF n
  <2> QED BY <2>1, <2>2 DEF ReportExact, SlotsReportedExactly
<1> QED BY <1>1, <1>2, <1>3, EchoRunInvariant, PTL DEF Spec
============================================================================
