--------------------------- MODULE ScenarioRunProofs -------------------------
(***************************************************************************)
(* Proofs about ScenarioRun, for every set of workers, every number of     *)
(* phases and every script: the limit covers all phases together, the      *)
(* counters of a named action count its own bursts, and the merged report  *)
(* is the sum of the phases'.                                              *)
(***************************************************************************)
EXTENDS ScenarioRun, WorkerProofs, SequenceTheorems

ScenarioPC == LifecyclePC \cup ActionPC

\* The live counters and the claims.
BooksOK ==
  /\ claimed \in Nat /\ stats \in Stats /\ pc \in [Workers -> ScenarioPC]
  /\ GaugeIsOpenSessions
  /\ ClaimsCover

\* While the scenario is not over there is a script, and every worker is at
\* one of its actions.
ScriptKnown ==
  /\ \E S : outcomes \in Seq(S)
  /\ at \in [Workers -> Nat]
  /\ at_phase # "over" =>
       /\ Len(outcomes) + 1 \in 1..Len(Scripts)
       /\ \A w \in Workers : at[w] \in 1..Len(Script)

\* When the runner of a phase is done its workers are.
PhaseEnds == drv = "done" => \A w \in Workers : pc[w] \in {"idle", "done"}

\* The current action is that of the burst the worker is in; it outlives the
\* burst only after a session that broke off, until the next handshake.
BurstPC == EchoPC \cup {"burst"}
BrokenOff == {"ended", "backoff", "done"}

OwnBurst ==
  \A w \in Workers : current[w] # NoAction =>
    \/ /\ pc[w] \in BurstPC
       /\ Script[at[w]].type = "Send" /\ Script[at[w]].name = current[w]
    \/ pc[w] \in BrokenOff

ActionTypes ==
  /\ current \in [Workers -> ActionNames \cup {NoAction}]
  /\ act \in [Workers -> [ActionNames -> [ActionCounters -> Int]]]

ScenarioInv ==
  /\ BooksOK
  /\ ScriptKnown
  /\ PhaseEnds
  /\ ActionTypes
  /\ OwnBurst

----------------------------------------------------------------------------
(* The books.                                                              *)

\* A step of worker w to l that sends n messages and changes the gauge with
\* the connection keeps the books.
LEMMA BooksMove ==
  ASSUME BooksOK, NEW w \in Workers, NEW l \in ScenarioPC, NEW n \in {0, 1},
         pc' = [pc EXCEPT ![w] = l], stats' \in Stats,
         stats'.live["active"]
           = stats.live["active"] + (Weight(pc[w], Outside) - Weight(l, Outside)),
         stats'.live["sent"] = stats.live["sent"] + n,
         UsesClaim(w, l, n)
  PROVE  BooksOK'
<1>1. claimed \in Nat /\ stats \in Stats /\ pc \in [Workers -> ScenarioPC] /\ ClaimsCover
      /\ GaugeIsOpenSessions
  BY DEF BooksOK
<1>2. claimed' \in Nat /\ ClaimsCover'
  BY <1>1, ClaimsMove
<1>3. GaugeIsOpenSessions'
  <2> DEFINE a == Weight(pc[w], Outside) - Weight(l, Outside)
  <2>1. a \in {-1, 0, 1} /\ a + Weight(l, Outside) = Weight(pc[w], Outside)
    BY DEF Weight
  <2>2. stats'.live["active"] = stats.live["active"] + a
    OBVIOUS
  <2> HIDE DEF a
  <2> QED BY <1>1, <2>1, <2>2, GaugeMove
<1> QED BY <1>1, <1>2, <1>3 DEF BooksOK

\* A step inside a session.
LEMMA SessionMove ==
  ASSUME BooksOK, NEW w \in Workers, pc[w] \in ActionPC \cup {"top"},
         NEW l \in ActionPC \cup {"top", "ended", "finished"}, NEW n \in {0, 1},
         pc' = [pc EXCEPT ![w] = l], UsesClaim(w, l, n),
         \E r \in {0, 1}, f \in {0, 1} : Change(stats, stats', w, 0, 0, n, r, f)
  PROVE  BooksOK' /\ stats' \in Stats
<1>1. Weight(pc[w], Outside) - Weight(l, Outside) = 0 /\ l \in ScenarioPC
  BY DEF ActionPC, EchoPC, ScenarioPC, LifecyclePC, Weight, Outside
<1>2. /\ stats' \in Stats /\ stats'.live["active"] = stats.live["active"] + 0
      /\ stats'.live["sent"] = stats.live["sent"] + n
  BY DEF Change
<1> QED BY <1>1, <1>2, BooksMove

\* A checked reply that fails its check: received, and failed.
LEMMA FailedCheck ==
  ASSUME NEW s \in Stats, NEW w \in Workers
  PROVE  Change(s, RecordSentError(RecordRecv(s, w), w), w, 0, 0, 0, 1, 1)
<1> DEFINE t == RecordRecv(s, w)
           u == RecordSentError(t, w)
<1>1. Change(s, t, w, 0, 0, 0, 1, 0)
  BY Changes
<1>2. Change(t, u, w, 0, 0, 0, 0, 1)
  <2>1. t \in Stats
    BY <1>1 DEF Change
  <2> HIDE DEF t
  <2> QED BY <2>1, Changes
<1>3. /\ s.live["active"] \in Nat /\ s.live["sent"] \in Nat
      /\ s.of[w]["handshakes"] \in Nat /\ s.of[w]["sent"] \in Nat
      /\ s.of[w]["recv"] \in Nat /\ s.of[w]["sentErrors"] \in Nat
  BY DEF Stats, LiveCounters, WorkerCounters
<1> HIDE DEF t, u
<1>4. Change(s, u, w, 0, 0, 0, 1, 1)
  BY <1>1, <1>2, <1>3 DEF Change
<1> QED BY <1>4 DEF t, u

\* Every step of the lifecycle keeps the books.
LEMMA LifecycleKeepsBooks ==
  ASSUME BooksOK, NEW w \in Workers, Lifecycle(w)
  PROVE  BooksOK' /\ stats' \in Stats
<1>1. PICK l : LifecycleEffect(w, l)
  BY LifecycleHasEffect DEF BooksOK
<1>2. stats \in Stats /\ stats.live["sent"] \in Nat
  BY DEF BooksOK, Stats, LiveCounters
<1>3. /\ l \in ScenarioPC /\ pc' = [pc EXCEPT ![w] = l] /\ stats' \in Stats
      /\ stats'.live["active"]
           = stats.live["active"] + (Weight(pc[w], Outside) - Weight(l, Outside))
      /\ stats'.live["sent"] = stats.live["sent"] + 0
  BY <1>1, <1>2 DEF LifecycleEffect, Change, ScenarioPC
<1>4. UsesClaim(w, l, 0)
  BY <1>1 DEF LifecycleEffect, UsesClaim, Weight, ClaimedPC, LifecyclePC
<1> QED BY <1>3, <1>4, BooksMove

\* The script of the phase, and the action a worker is at.
LEMMA ScriptFacts ==
  ASSUME ScriptKnown, at_phase # "over", NEW w \in Workers
  PROVE  /\ Script[at[w]] \in Action /\ Len(Script) \in Nat
         /\ 1 \in 1..Len(Script) /\ at[w] \in 1..Len(Script)
<1>1. Scripts \in Seq(Seq(Action) \ {<<>>}) /\ Len(outcomes) + 1 \in 1..Len(Scripts)
  BY ScriptsAssumption DEF ScriptKnown
<1>2. Script \in Seq(Action) /\ Script # <<>>
  BY <1>1, ElementOfSeq DEF Script
<1>3. Len(Script) \in Nat /\ Len(Script) # 0
  BY <1>2, EmptySeq, LenProperties
<1>4. at[w] \in 1..Len(Script)
  BY DEF ScriptKnown
<1>5. Script[at[w]] \in Action
  BY <1>2, <1>4, ElementOfSeq
<1> QED BY <1>3, <1>4, <1>5

\* Every step of a session keeps the books.
LEMMA ScriptBooks ==
  ASSUME BooksOK, ScriptKnown, at_phase # "over", NEW w \in Workers, ActionSession(w, Script)
  PROVE  BooksOK' /\ stats' \in Stats
<1>1. stats \in Stats /\ pc = [pc EXCEPT ![w] = pc[w]]
  BY DEF BooksOK
<1>2. /\ \A l \in (ActionPC \cup {"top", "ended", "finished"}) \ {"delay", "send"} :
           Weight(l, ClaimedPC) = 0
      /\ \A l \in {"delay", "send"} : Weight(l, ClaimedPC) = 1
      /\ {"slot", "delay", "send", "reply", "pause", "action", "burst", "think", "wait", "ping"}
           \subseteq ActionPC
  BY DEF Weight, ClaimedPC, ActionPC, EchoPC
\* A step that records nothing and takes no claim.
<1>3. ASSUME NEW k \in (ActionPC \cup {"top"}) \ {"delay", "send"}, pc[w] = k,
             NEW l \in (ActionPC \cup {"top", "ended", "finished"}) \ {"delay", "send"},
             pc' = [pc EXCEPT ![w] = l], UNCHANGED claimed,
             \E r \in {0, 1}, f \in {0, 1} : Change(stats, stats', w, 0, 0, 0, r, f)
      PROVE  BooksOK' /\ stats' \in Stats
  <2>1. UsesClaim(w, l, 0)
    BY <1>2, <1>3 DEF UsesClaim
  <2> QED BY <1>3, <2>1, SessionMove
<1>4. /\ UNCHANGED stats => Change(stats, stats', w, 0, 0, 0, 0, 0)
      /\ stats' = RecordAttemptError(stats, w) => Change(stats, stats', w, 0, 0, 0, 0, 0)
      /\ stats' = RecordRecv(stats, w) => Change(stats, stats', w, 0, 0, 0, 1, 0)
      /\ stats' = RecordSentError(stats, w) => Change(stats, stats', w, 0, 0, 0, 0, 1)
      /\ stats' = RecordSentError(RecordRecv(stats, w), w) =>
           Change(stats, stats', w, 0, 0, 0, 1, 1)
      /\ stats' = RecordSent(stats, w) => Change(stats, stats', w, 0, 0, 1, 0, 0)
      /\ stats' = RecordChaosDropped(stats, w) => Change(stats, stats', w, 0, 0, 0, 0, 0)
  BY <1>1, Changes, FailedCheck
<1>5. CASE ScriptTop(w)
  <2>1. PICK l \in {"ended", "action"} : pc' = [pc EXCEPT ![w] = l]
    BY <1>5 DEF ScriptTop, Goto
  <2>2. pc[w] = "top" /\ UNCHANGED <<claimed, stats>>
    BY <1>5 DEF ScriptTop
  <2> QED BY <1>2, <1>3, <1>4, <2>1, <2>2
<1>6. CASE ScriptStops(w)
  <2>1. pc[w] = "action" /\ UNCHANGED <<claimed, stats>> /\ pc' = [pc EXCEPT ![w] = "ended"]
    BY <1>6 DEF ScriptStops, Goto
  <2> QED BY <1>2, <1>3, <1>4, <2>1
<1>7. CASE ActionBegins(w, Script[at[w]])
  <2>1. Script[at[w]].type \in {"Send", "Wait", "Ping", "Close"}
    BY ScriptFacts DEF Action
  <2>2. PICK l \in {"burst", "wait", "ping", "finished"} : pc' = [pc EXCEPT ![w] = l]
    BY <1>7, <2>1 DEF ActionBegins, Goto
  <2>3. pc[w] = "action" /\ UNCHANGED <<claimed, stats>>
    BY <1>7 DEF ActionBegins
  <2> QED BY <1>2, <1>3, <1>4, <2>2, <2>3
<1>8. CASE BurstGoesOn(w) \/ BurstOver(w)
  <2>1. PICK l \in {"ended", "slot", "think"} : pc' = [pc EXCEPT ![w] = l]
    BY <1>8 DEF BurstGoesOn, BurstOver, Goto
  <2>2. pc[w] = "burst" /\ UNCHANGED <<claimed, stats>>
    BY <1>8 DEF BurstGoesOn, BurstOver
  <2> QED BY <1>2, <1>3, <1>4, <2>1, <2>2
<1>9. CASE PingWrite(w)
  <2>1. PICK l \in {"wait", "ended"} : pc' = [pc EXCEPT ![w] = l]
    BY <1>9 DEF PingWrite, Goto
  <2>2. pc[w] = "ping" /\ UNCHANGED claimed /\ Change(stats, stats', w, 0, 0, 0, 0, 0)
    BY <1>4, <1>9 DEF PingWrite
  <2> QED BY <1>2, <1>3, <2>1, <2>2
<1>10. CASE ActionPauseOver(w, Len(Script))
  <2>1. PICK l \in {"action", "top", "ended"} : pc' = [pc EXCEPT ![w] = l]
    BY <1>10 DEF ActionPauseOver, Goto
  <2>2. pc[w] \in {"think", "wait"} /\ UNCHANGED <<claimed, stats>>
    BY <1>10 DEF ActionPauseOver
  <2> QED BY <1>2, <1>3, <1>4, <2>1, <2>2
<1>11. CASE BurstMessage(w)
  <2>1. CASE EchoSlotCancelled(w) \/ EchoReplyCancelled(w) \/ EchoServerClose(w) \/ EchoReplyFails(w)
    <3>1. /\ pc[w] \in {"slot", "reply"} /\ UNCHANGED claimed /\ pc' = [pc EXCEPT ![w] = "ended"]
          /\ UNCHANGED stats \/ stats' = RecordSentError(stats, w)
      BY <2>1 DEF EchoSlotCancelled, EchoReplyCancelled, EchoServerClose, EchoReplyFails, Goto
    <3> QED BY <1>2, <1>3, <1>4, <3>1
  <2>2. CASE EchoLimitReached(w)
    <3>1. /\ pc[w] = "slot" /\ ClaimSend /\ pc' = [pc EXCEPT ![w] = "ended"] /\ UNCHANGED stats
      BY <2>2 DEF EchoLimitReached, Goto
    <3>2. UsesClaim(w, "ended", 0)
      BY <1>2, <3>1 DEF UsesClaim
    <3> QED BY <1>2, <1>4, <3>1, <3>2, SessionMove
  <2>3. CASE BurstClaim(w)
    <3>1. PICK l \in {"send", "delay", "burst"} : pc' = [pc EXCEPT ![w] = l]
      BY <2>3 DEF BurstClaim, Goto
    <3>2. /\ pc[w] = "slot" /\ ClaimSucceeds /\ ClaimSend
          /\ Change(stats, stats', w, 0, 0, 0, 0, 0)
      BY <1>4, <2>3 DEF BurstClaim
    <3>3. UsesClaim(w, l, 0)
      BY <1>2, <3>2 DEF UsesClaim
    <3> QED BY <1>2, <3>1, <3>2, <3>3, SessionMove
  <2>4. CASE EchoDelay(w)
    <3>1. PICK l \in {"send", "ended"} : pc' = [pc EXCEPT ![w] = l]
      BY <2>4 DEF EchoDelay, Goto
    <3>2. pc[w] = "delay" /\ UNCHANGED <<claimed, stats>>
      BY <2>4 DEF EchoDelay
    <3>3. UsesClaim(w, l, 0)
      BY <1>2, <3>2 DEF UsesClaim
    <3> QED BY <1>2, <1>4, <3>1, <3>2, <3>3, SessionMove
  <2>5. CASE BurstSend(w)
    <3>1. PICK l \in {"reply", "pause", "ended"}, n \in {0, 1} :
            pc' = [pc EXCEPT ![w] = l] /\ Change(stats, stats', w, 0, 0, n, 0, 0)
      BY <1>4, <2>5 DEF BurstSend, Goto
    <3>2. pc[w] = "send" /\ UNCHANGED claimed
      BY <2>5 DEF BurstSend
    <3>3. UsesClaim(w, l, n)
      BY <1>2, <3>1, <3>2 DEF UsesClaim
    <3> QED BY <1>2, <3>1, <3>2, <3>3, SessionMove
  <2>6. CASE BurstReply(w)
    <3>1. /\ pc[w] = "reply" /\ UNCHANGED claimed /\ pc' = [pc EXCEPT ![w] = "pause"]
          /\ \/ Change(stats, stats', w, 0, 0, 0, 1, 0)
             \/ Change(stats, stats', w, 0, 0, 0, 1, 1)
      BY <1>4, <2>6 DEF BurstReply, Goto
    <3> QED BY <1>2, <1>3, <3>1
  <2>7. CASE BurstPause(w)
    <3>1. PICK l \in {"burst", "ended"} : pc' = [pc EXCEPT ![w] = l]
      BY <2>7 DEF BurstPause, Goto
    <3>2. pc[w] = "pause" /\ UNCHANGED <<claimed, stats>>
      BY <2>7 DEF BurstPause
    <3> QED BY <1>2, <1>3, <1>4, <3>1, <3>2
  <2> QED BY <1>11, <2>1, <2>2, <2>3, <2>4, <2>5, <2>6, <2>7 DEF BurstMessage
<1> QED BY <1>5, <1>6, <1>7, <1>8, <1>9, <1>10, <1>11 DEF ActionSession

----------------------------------------------------------------------------
(* The counters of the actions.                                            *)

\* action_counts changes the counters of the current action of one worker, and
\* by what that worker's own counters gain.
LEMMA CountFacts ==
  ASSUME stats \in Stats, stats' \in Stats, ActionTypes, NEW w \in Workers, CountForAction(w)
  PROVE  /\ act' \in [Workers -> [ActionNames -> [ActionCounters -> Int]]]
         /\ \A v \in Workers \ {w} : act'[v] = act[v]
         /\ \A n \in ActionNames \ {current[w]} : act'[w][n] = act[w][n]
         /\ current[w] = NoAction \/ stats'.of[w] = stats.of[w] => act' = act
<1> DEFINE A == [ActionCounters -> Int]
           n == current[w]
           gain == [c \in ActionCounters |-> act[w][n][c] + stats'.of[w][c] - stats.of[w][c]]
<1>1. act \in [Workers -> [ActionNames -> A]] /\ n \in ActionNames \cup {NoAction}
  BY DEF ActionTypes
<1>2. CASE n = NoAction
  <2>1. act' = act
    BY <1>2 DEF CountForAction
  <2> QED BY <1>1, <2>1
<1>3. CASE n # NoAction
  <2>1. n \in ActionNames /\ act[w][n] \in A
    BY <1>1, <1>3
  <2>2. act' = [act EXCEPT ![w][n] = gain]
    BY <1>3 DEF CountForAction
  <2>3. \A c \in ActionCounters : stats.of[w][c] \in Nat /\ stats'.of[w][c] \in Nat
    BY DEF Stats, ActionCounters, WorkerCounters
  <2>4. gain \in A
    BY <2>1, <2>3
  <2>5. stats'.of[w] = stats.of[w] => gain = act[w][n]
    BY <2>1, <2>3
  <2> HIDE DEF A, gain
  <2>6. act' = [act EXCEPT ![w] = [act[w] EXCEPT ![n] = gain]]
    BY <2>2
  <2>7. act[w] \in [ActionNames -> A] /\ [act[w] EXCEPT ![n] = gain] \in [ActionNames -> A]
    BY <1>1, <2>4
  <2>8. stats'.of[w] = stats.of[w] => act' = act
    BY <1>1, <2>1, <2>5, <2>6, <2>7
  <2>9. act' \in [Workers -> [ActionNames -> A]]
    BY <1>1, <2>6, <2>7
  <2>10. /\ \A v \in Workers \ {w} : act'[v] = act[v]
         /\ \A m \in ActionNames \ {n} : act'[w][m] = act[w][m]
    BY <1>1, <2>6, <2>7
  <2> QED BY <1>3, <2>8, <2>9, <2>10 DEF A
<1> QED BY <1>2, <1>3

\* Between sessions a worker has no current action, or its session broke off
\* in a burst: what happens then until the next handshake is not counted.
LEMMA LifecycleBurst ==
  ASSUME ScenarioInv, NEW w \in Workers, LifecycleStep(w), stats' \in Stats, UNCHANGED outcomes
  PROVE  ActionTypes' /\ OwnBurst' /\ act' = act
<1>1. /\ current \in [Workers -> ActionNames \cup {NoAction}] /\ pc \in [Workers -> ScenarioPC]
      /\ Lifecycle(w) /\ ActionOfHandshake(w) /\ CountForAction(w) /\ UNCHANGED at
      /\ stats \in Stats
  BY DEF ScenarioInv, BooksOK, ActionTypes, LifecycleStep
<1>2. pc[w] \in LifecyclePC \ {"idle", "done", "top"}
  BY <1>1 DEF LifecyclePC, Lifecycle, BuildFails, BuildRequest, HandshakeCancelled, HandshakeOpen,
     HandshakeStaticError, HandshakeFails, SessionEnded, SessionFinished, BackoffOver,
     BackoffCancelled
<1>3. current[w] # NoAction => pc[w] \in {"ended", "backoff"}
  BY <1>2 DEF ScenarioInv, OwnBurst, BurstPC, EchoPC, BrokenOff, LifecyclePC
<1>4. pc[w] \in {"ended", "backoff"} =>
        /\ stats'.of[w] = stats.of[w]
        /\ \E l \in {"backoff", "done", "handshake"} : pc' = [pc EXCEPT ![w] = l]
  BY <1>1 DEF Lifecycle, BuildFails, BuildRequest, HandshakeCancelled, HandshakeOpen,
     HandshakeStaticError, HandshakeFails, SessionEnded, SessionFinished, BackoffOver,
     BackoffCancelled, RecordClosed, Goto
<1>5. act' = act
  BY <1>1, <1>3, <1>4, CountFacts DEF ScenarioInv
<1>6. /\ current' \in [Workers -> ActionNames \cup {NoAction}]
      /\ \A v \in Workers \ {w} : current'[v] = current[v]
      /\ current'[w] = NoAction \/ current'[w] = current[w]
      /\ pc'[w] = "handshake" => current'[w] = NoAction
  BY <1>1 DEF ActionOfHandshake
<1>7. \A v \in Workers \ {w} : pc'[v] = pc[v]
  <2>1. \E l : pc' = [pc EXCEPT ![w] = l]
    BY <1>1, LifecycleHasEffect DEF LifecycleEffect, ScenarioInv, BooksOK
  <2> QED BY <1>1, <2>1
<1>8. Script' = Script
  BY DEF Script
<1>9. OwnBurst'
  <2> SUFFICES ASSUME NEW v \in Workers, current'[v] # NoAction
               PROVE  \/ /\ pc'[v] \in BurstPC
                         /\ Script[at[v]].type = "Send" /\ Script[at[v]].name = current'[v]
                      \/ pc'[v] \in BrokenOff
    BY <1>1, <1>8 DEF OwnBurst
  <2>1. CASE v # w
    BY <1>6, <1>7, <2>1 DEF ScenarioInv, OwnBurst
  <2>2. CASE v = w
    BY <1>1, <1>3, <1>4, <1>6, <2>2 DEF BrokenOff
  <2> QED BY <2>1, <2>2
<1> QED BY <1>5, <1>6, <1>9 DEF ActionTypes, ScenarioInv

\* A step of a session from k to l: where the current action may be set, and
\* what keeps it that of the burst.
LEMMA SessionBurst ==
  ASSUME ScenarioInv, NEW w \in Workers, NEW l, pc' = [pc EXCEPT ![w] = l],
         NEW name \in ActionNames \cup {NoAction}, current' = [current EXCEPT ![w] = name],
         \A v \in Workers \ {w} : at'[v] = at[v], UNCHANGED outcomes,
         \/ name = NoAction
         \/ name = current[w] /\ pc[w] \in BurstPC /\ at'[w] = at[w]
              /\ l \in BurstPC \cup {"ended"}
         \/ l = "burst" /\ Script[at'[w]].type = "Send" /\ Script[at'[w]].name = name
  PROVE  OwnBurst' /\ current' \in [Workers -> ActionNames \cup {NoAction}]
<1>1. /\ current \in [Workers -> ActionNames \cup {NoAction}] /\ pc \in [Workers -> ScenarioPC]
      /\ OwnBurst
  BY DEF ScenarioInv, BooksOK, ActionTypes
<1>2. Script' = Script
  BY DEF Script
<1>3. "burst" \in BurstPC /\ "ended" \in BrokenOff /\ \A k \in BurstPC : k \notin BrokenOff
  BY DEF BurstPC, BrokenOff, EchoPC
<1>4. OwnBurst'
  <2> SUFFICES ASSUME NEW v \in Workers, current'[v] # NoAction
               PROVE  \/ /\ pc'[v] \in BurstPC
                         /\ Script[at'[v]].type = "Send" /\ Script[at'[v]].name = current'[v]
                      \/ pc'[v] \in BrokenOff
    BY <1>2 DEF OwnBurst
  <2>1. CASE v # w
    <3>1. pc'[v] = pc[v] /\ current'[v] = current[v] /\ at'[v] = at[v]
      BY <1>1, <2>1
    <3> QED BY <1>1, <3>1 DEF OwnBurst
  <2>2. CASE v = w
    <3>1. pc'[v] = l /\ current'[v] = name /\ name # NoAction
      BY <1>1, <2>2
    <3>2. CASE name = current[w] /\ pc[w] \in BurstPC /\ at'[w] = at[w] /\ l \in BurstPC \cup {"ended"}
      BY <1>1, <1>3, <2>2, <3>1, <3>2 DEF OwnBurst
    <3>3. CASE l = "burst" /\ Script[at'[w]].type = "Send" /\ Script[at'[w]].name = name
      BY <1>3, <2>2, <3>1, <3>3
    <3> QED BY <3>1, <3>2, <3>3
  <2> QED BY <2>1, <2>2
<1> QED BY <1>1, <1>4

\* Every step of a session keeps the current action with its burst, the
\* position in the script, and counts for the current action only.
LEMMA ScriptBurst ==
  ASSUME ScenarioInv, at_phase # "over", NEW w \in Workers, ActionSession(w, Script),
         stats' \in Stats, UNCHANGED <<at_phase, outcomes>>
  PROVE  /\ ActionTypes' /\ OwnBurst' /\ ScriptKnown'
         /\ \A v \in Workers : act'[v] # act[v] =>
              /\ v = w /\ pc[w] \in EchoPC /\ current[w] # NoAction
              /\ \A n \in ActionNames \ {current[w]} : act'[w][n] = act[w][n]
<1>1. /\ current \in [Workers -> ActionNames \cup {NoAction}] /\ pc \in [Workers -> ScenarioPC]
      /\ at \in [Workers -> Nat] /\ stats \in Stats /\ OwnBurst
      /\ current = [current EXCEPT ![w] = current[w]]
      /\ act \in [Workers -> [ActionNames -> [ActionCounters -> Int]]]
  BY DEF ScenarioInv, BooksOK, ActionTypes, ScriptKnown
<1>2. Script' = Script
  BY DEF Script
<1>3. /\ Script[at[w]] \in Action /\ Len(Script) \in Nat
      /\ 1 \in 1..Len(Script) /\ at[w] \in 1..Len(Script)
  BY ScriptFacts DEF ScenarioInv
<1>4. ASSUME NEW p \in 1..Len(Script), at' = [at EXCEPT ![w] = p] PROVE ScriptKnown'
  <2>1. at' \in [Workers -> Nat]
    BY <1>1, <1>4
  <2>2. \A v \in Workers : at'[v] \in 1..Len(Script)
    BY <1>1, <1>4 DEF ScenarioInv, ScriptKnown
  <2> QED BY <1>2, <2>1, <2>2 DEF ScenarioInv, ScriptKnown
<1>5. UNCHANGED at => ScriptKnown'
  BY <1>2 DEF ScenarioInv, ScriptKnown
<1>6. pc[w] \notin BurstPC \cup BrokenOff => current[w] = NoAction
  BY <1>1 DEF OwnBurst
<1>7. \A k \in {"top", "action", "think", "wait", "ping"} : k \notin BurstPC \cup BrokenOff
  BY DEF BurstPC, BrokenOff, EchoPC
<1>8. {"slot", "delay", "send", "reply", "pause", "burst"} \subseteq BurstPC
      /\ {"slot", "delay", "send", "reply", "pause"} \subseteq EchoPC
  BY DEF BurstPC, EchoPC
\* A step that keeps the current action and the position.
<1>9. ASSUME NEW l, pc' = [pc EXCEPT ![w] = l], UNCHANGED <<at, current>>,
             current[w] = NoAction \/ (pc[w] \in BurstPC /\ l \in BurstPC \cup {"ended"})
      PROVE  OwnBurst' /\ current' \in [Workers -> ActionNames \cup {NoAction}] /\ ScriptKnown'
  <2>1. current[w] \in ActionNames \cup {NoAction} /\ current' = [current EXCEPT ![w] = current[w]]
    BY <1>1, <1>9
  <2> QED BY <1>1, <1>5, <1>9, <2>1, SessionBurst
<1>10. CASE ScriptTop(w)
  <2>1. PICK l : pc' = [pc EXCEPT ![w] = l]
    BY <1>10 DEF ScriptTop, Goto
  <2>2. current[w] = NoAction /\ UNCHANGED <<current, act>>
    BY <1>6, <1>7, <1>10 DEF ScriptTop
  <2>3. UNCHANGED at \/ at' = [at EXCEPT ![w] = 1]
    BY <1>10 DEF ScriptTop
  <2>4. ScriptKnown' /\ \A v \in Workers \ {w} : at'[v] = at[v]
    BY <1>1, <1>3, <1>4, <1>5, <2>3
  <2>5. OwnBurst' /\ current' \in [Workers -> ActionNames \cup {NoAction}]
    BY <1>1, <2>1, <2>2, <2>4, SessionBurst
  <2> QED BY <1>1, <2>2, <2>4, <2>5 DEF ActionTypes
<1>11. CASE ScriptStops(w)
  <2>1. /\ pc' = [pc EXCEPT ![w] = "ended"] /\ UNCHANGED <<at, current, act>>
        /\ current[w] = NoAction
    BY <1>6, <1>7, <1>11 DEF ScriptStops, Goto, actionVars
  <2> QED BY <1>1, <1>9, <2>1 DEF ActionTypes
<1>12. CASE ActionBegins(w, Script[at[w]])
  <2> DEFINE a == Script[at[w]]
  <2>1. /\ a.type \in {"Send", "Wait", "Ping", "Close"} /\ a.name \in ActionNames \cup {NoAction}
        /\ pc[w] = "action" /\ current[w] = NoAction /\ UNCHANGED <<at, act>>
    BY <1>3, <1>6, <1>7, <1>12 DEF Action, ActionBegins
  <2>2. CASE a.type = "Send"
    <3>1. pc' = [pc EXCEPT ![w] = "burst"] /\ current' = [current EXCEPT ![w] = a.name]
      BY <1>12, <2>2 DEF ActionBegins, Goto
    <3>2. a.type = "Send" /\ Script[at'[w]] = a
      BY <2>1, <2>2
    <3>3. OwnBurst' /\ current' \in [Workers -> ActionNames \cup {NoAction}]
      BY <1>1, <2>1, <3>1, <3>2, SessionBurst
    <3> QED BY <1>1, <1>5, <2>1, <3>3 DEF ActionTypes
  <2>3. CASE a.type # "Send"
    <3>1. PICK l : pc' = [pc EXCEPT ![w] = l]
      BY <1>12 DEF ActionBegins, Goto
    <3>2. UNCHANGED current
      BY <1>12, <2>3 DEF ActionBegins
    <3> QED BY <1>1, <1>9, <2>1, <3>1, <3>2 DEF ActionTypes
  <2> QED BY <2>2, <2>3
<1>13. CASE BurstGoesOn(w)
  <2>1. PICK l \in {"ended", "slot"} : pc' = [pc EXCEPT ![w] = l]
    BY <1>13 DEF BurstGoesOn, Goto
  <2>2. pc[w] = "burst" /\ UNCHANGED <<at, current, act>>
    BY <1>13 DEF BurstGoesOn
  <2> QED BY <1>1, <1>8, <1>9, <2>1, <2>2 DEF ActionTypes
<1>14. CASE BurstOver(w)
  <2>1. /\ pc' = [pc EXCEPT ![w] = "think"] /\ current' = [current EXCEPT ![w] = NoAction]
        /\ UNCHANGED <<at, act>>
    BY <1>14 DEF BurstOver, Goto
  <2>2. OwnBurst' /\ current' \in [Workers -> ActionNames \cup {NoAction}]
    BY <1>1, <2>1, SessionBurst
  <2> QED BY <1>1, <1>5, <2>1, <2>2 DEF ActionTypes
<1>15. CASE BurstMessage(w)
  <2>1. /\ pc[w] \in EchoPC /\ pc[w] \in BurstPC
        /\ \E l \in BurstPC \cup {"ended"} : pc' = [pc EXCEPT ![w] = l]
    <3>1. /\ pc[w] \in {"slot", "delay", "send", "reply", "pause"}
          /\ \E l \in {"slot", "delay", "send", "reply", "pause", "burst", "ended"} :
               pc' = [pc EXCEPT ![w] = l]
      BY <1>15 DEF BurstMessage, EchoSlotCancelled, EchoLimitReached, BurstClaim, EchoDelay,
         BurstSend, EchoReplyCancelled, BurstReply, EchoServerClose, EchoReplyFails, BurstPause,
         Goto
    <3> QED BY <1>8, <3>1
  <2>2. UNCHANGED <<at, current>> /\ CountForAction(w)
    BY <1>15 DEF BurstMessage
  <2>3. OwnBurst' /\ current' \in [Workers -> ActionNames \cup {NoAction}] /\ ScriptKnown'
    BY <1>9, <2>1, <2>2
  <2>4. /\ act' \in [Workers -> [ActionNames -> [ActionCounters -> Int]]]
        /\ \A v \in Workers \ {w} : act'[v] = act[v]
        /\ \A n \in ActionNames \ {current[w]} : act'[w][n] = act[w][n]
        /\ current[w] = NoAction => act' = act
    BY <1>1, <2>2, CountFacts DEF ScenarioInv
  <2> QED BY <2>1, <2>3, <2>4 DEF ActionTypes
<1>16. CASE PingWrite(w)
  <2>1. PICK l : pc' = [pc EXCEPT ![w] = l]
    BY <1>16 DEF PingWrite, Goto
  <2>2. current[w] = NoAction /\ UNCHANGED <<at, current>> /\ CountForAction(w)
    BY <1>6, <1>7, <1>16 DEF PingWrite
  <2>3. act' = act
    BY <2>2 DEF CountForAction
  <2> QED BY <1>1, <1>9, <2>1, <2>2, <2>3 DEF ActionTypes
<1>17. CASE ActionPauseOver(w, Len(Script))
  <2>1. PICK l : pc' = [pc EXCEPT ![w] = l]
    BY <1>17 DEF ActionPauseOver, Goto
  <2>2. current[w] = NoAction /\ UNCHANGED <<current, act>>
    BY <1>6, <1>7, <1>17 DEF ActionPauseOver
  <2>3. UNCHANGED at \/ (at[w] < Len(Script) /\ at' = [at EXCEPT ![w] = at[w] + 1])
    BY <1>17 DEF ActionPauseOver
  <2>4. at[w] < Len(Script) => at[w] + 1 \in 1..Len(Script)
    BY <1>3
  <2>5. ScriptKnown' /\ \A v \in Workers \ {w} : at'[v] = at[v]
    BY <1>1, <1>4, <1>5, <2>3, <2>4
  <2>6. OwnBurst' /\ current' \in [Workers -> ActionNames \cup {NoAction}]
    BY <1>1, <2>1, <2>2, <2>5, SessionBurst
  <2> QED BY <1>1, <2>2, <2>5, <2>6 DEF ActionTypes
<1> QED BY <1>10, <1>11, <1>12, <1>13, <1>14, <1>15, <1>16, <1>17 DEF ActionSession

----------------------------------------------------------------------------
(* The steps of the scenario.                                              *)

\* A step of a worker keeps the invariant.
LEMMA WorkerKeeps ==
  ASSUME ScenarioInv, NEW w \in Workers, WorkerStep(w)
  PROVE  ScenarioInv'
<1>1. /\ at_phase = "running" /\ UNCHANGED <<drv, at_phase, outcomes>>
      /\ LifecycleStep(w) \/ ActionSession(w, Script)
  BY DEF WorkerStep, scenarioVars
<1>2. at_phase # "over" /\ BooksOK /\ ScriptKnown /\ PhaseEnds
  BY <1>1 DEF ScenarioInv
<1>3. BooksOK' /\ stats' \in Stats
  BY <1>1, <1>2, LifecycleKeepsBooks, ScriptBooks DEF LifecycleStep
<1>4. ActionTypes' /\ OwnBurst' /\ ScriptKnown'
  <2>1. CASE LifecycleStep(w)
    <3>1. UNCHANGED at /\ Script' = Script
      BY <1>1, <2>1 DEF LifecycleStep, Script
    <3>2. ScriptKnown'
      BY <1>1, <1>2, <3>1 DEF ScriptKnown
    <3> QED BY <1>1, <1>3, <2>1, <3>2, LifecycleBurst
  <2>2. CASE ActionSession(w, Script)
    BY <1>1, <1>2, <1>3, <2>2, ScriptBurst
  <2> QED BY <1>1, <2>1, <2>2
<1>5. PhaseEnds'
  <2>1. pc[w] \notin {"idle", "done"}
    BY <1>1 DEF LifecycleStep, Lifecycle, BuildFails, BuildRequest, HandshakeCancelled,
       HandshakeOpen, HandshakeStaticError, HandshakeFails, SessionEnded, SessionFinished,
       BackoffOver, BackoffCancelled, ActionSession, ScriptTop, ScriptStops, ActionBegins,
       BurstGoesOn, BurstOver, BurstMessage, PingWrite, ActionPauseOver, EchoSlotCancelled,
       EchoLimitReached, BurstClaim, EchoDelay, BurstSend, EchoReplyCancelled, BurstReply,
       EchoServerClose, EchoReplyFails, BurstPause
  <2> QED BY <1>1, <1>2, <2>1 DEF PhaseEnds
<1> QED BY <1>3, <1>4, <1>5 DEF ScenarioInv

\* A step that leaves the counters, the workers and their scripts alone.
LEMMA ScenarioIdle ==
  ASSUME ScenarioInv, UNCHANGED <<claimed, stats, pc, at, current, act, outcomes>>,
         at_phase' = "over" \/ at_phase # "over", PhaseEnds'
  PROVE  ScenarioInv'
<1>1. BooksOK'
  BY DEF ScenarioInv, BooksOK, GaugeIsOpenSessions, OpenSessions, ClaimsCover, Claimers
<1>2. Script' = Script
  BY DEF Script
<1> QED BY <1>1, <1>2 DEF ScenarioInv, ScriptKnown, ActionTypes, OwnBurst

\* Starting a worker opens no connection and claims nothing.
LEMMA SpawnKeeps ==
  ASSUME ScenarioInv, NEW w \in Workers, Spawn(w), UNCHANGED <<actionVars, scenarioVars>>
  PROVE  ScenarioInv'
<1>1. /\ pc[w] = "idle" /\ pc' = [pc EXCEPT ![w] = "build"] /\ drv' = "ramp"
      /\ UNCHANGED <<claimed, stats, at, current, act, at_phase, outcomes>>
  BY DEF Spawn, Goto, actionVars, scenarioVars
<1>2. /\ pc \in [Workers -> ScenarioPC] /\ "build" \in ScenarioPC /\ stats \in Stats
      /\ stats.live["active"] \in Nat /\ stats.live["sent"] \in Nat
  BY DEF ScenarioInv, BooksOK, ScenarioPC, LifecyclePC, Stats, LiveCounters
<1>3. /\ Weight("idle", Outside) - Weight("build", Outside) = 0
      /\ Weight("idle", ClaimedPC) = 0 /\ Weight("build", ClaimedPC) = 0
  BY DEF Weight, Outside, ClaimedPC
<1>4. BooksOK'
  <2>1. UsesClaim(w, "build", 0)
    BY <1>1, <1>3 DEF UsesClaim
  <2>2. /\ stats' \in Stats /\ stats'.live["sent"] = stats.live["sent"] + 0
        /\ stats'.live["active"]
             = stats.live["active"] + (Weight(pc[w], Outside) - Weight("build", Outside))
    BY <1>1, <1>2, <1>3
  <2> QED BY <1>1, <1>2, <2>1, <2>2, BooksMove DEF ScenarioInv
<1>5. Script' = Script
  BY <1>1 DEF Script
<1>6. OwnBurst'
  <2>1. current[w] = NoAction
    BY <1>1 DEF ScenarioInv, OwnBurst, BurstPC, EchoPC, BrokenOff
  <2>2. \A v \in Workers \ {w} : pc'[v] = pc[v]
    BY <1>1, <1>2
  <2> QED BY <1>1, <1>5, <2>1, <2>2 DEF ScenarioInv, OwnBurst
<1> QED BY <1>1, <1>4, <1>5, <1>6 DEF ScenarioInv, ScriptKnown, PhaseEnds, ActionTypes

\* The rest of the phase's runner.
LEMMA DriveKeeps ==
  ASSUME ScenarioInv, PhaseDrive
  PROVE  ScenarioInv'
<1>1. at_phase = "running" /\ UNCHANGED <<actionVars, scenarioVars>>
  BY DEF PhaseDrive
<1>2. ASSUME NEW w \in Workers, Spawn(w) PROVE ScenarioInv'
  BY <1>1, <1>2, SpawnKeeps
<1>3. ASSUME UNCHANGED <<claimed, stats, pc>>, PhaseEnds' PROVE ScenarioInv'
  BY <1>1, <1>3, ScenarioIdle DEF actionVars, scenarioVars
<1>4. CASE RampOver \/ WaitUntilDone
  BY <1>3, <1>4 DEF RampOver, WaitUntilDone, workerVars, PhaseEnds
<1>5. CASE JoinWorkers
  BY <1>3, <1>5 DEF JoinWorkers, workerVars, PhaseEnds, Started
<1>6. CASE DurationOrSignal \/ RequestWatcher
  BY <1>3, <1>6 DEF DurationOrSignal, RequestWatcher, CancelRun, PhaseEnds, ScenarioInv
<1> QED BY <1>2, <1>4, <1>5, <1>6 DEF PhaseDrive, RampDrive, DriveStep

\* Workers that are all started and done, or not started, hold no connection
\* and no claim.
LEMMA NobodyRuns ==
  ASSUME \A w \in Workers : pc[w] \in {"idle", "done"}
  PROVE  OpenSessions = {} /\ Claimers = {} /\ Cardinality({}) = 0
BY FS_EmptySet DEF OpenSessions, Outside, Claimers, ClaimedPC

\* Between two phases: the live counters and the claims stay while the
\* workers and their metrics are new.
LEMMA PhaseOverKeeps ==
  ASSUME ScenarioInv, PhaseOver
  PROVE  ScenarioInv'
<1>1. /\ at_phase = "running" /\ drv = "done" /\ drv' = "ramp"
      /\ outcomes' = Append(outcomes, Outcome)
      /\ at_phase' = IF Len(outcomes) + 1 < Len(Scripts) THEN "between" ELSE "over"
      /\ stats' = [stats EXCEPT !.of = NoStats.of] /\ UNCHANGED claimed
      /\ pc' = [w \in Workers |-> "idle"] /\ at' = [w \in Workers |-> 1]
      /\ current' = [w \in Workers |-> NoAction] /\ act' = [w \in Workers |-> NoCounts]
  BY DEF PhaseOver, FreshRunner
<1>2. /\ \A w \in Workers : pc[w] \in {"idle", "done"}
      /\ stats \in Stats /\ claimed \in Nat /\ GaugeIsOpenSessions /\ ClaimsCover
  BY <1>1 DEF ScenarioInv, BooksOK, PhaseEnds
<1>3. stats' \in Stats /\ stats'.live = stats.live
  BY <1>1, <1>2 DEF Stats, NoStats
<1>4. /\ OpenSessions = {} /\ Claimers = {} /\ OpenSessions' = {} /\ Claimers' = {}
  <2>1. OpenSessions = {} /\ Claimers = {}
    BY <1>2, NobodyRuns
  <2>2. OpenSessions' = {} /\ Claimers' = {}
    BY <1>1 DEF OpenSessions, Outside, Claimers, ClaimedPC
  <2> QED BY <2>1, <2>2
<1>5. BooksOK'
  <2>1. pc' \in [Workers -> ScenarioPC]
    BY <1>1 DEF ScenarioPC, LifecyclePC
  <2> QED BY <1>1, <1>2, <1>3, <1>4, <2>1 DEF BooksOK, GaugeIsOpenSessions, ClaimsCover
<1>6. ScriptKnown'
  <2>1. PICK S : outcomes \in Seq(S)
    BY DEF ScenarioInv, ScriptKnown
  <2> DEFINE o == Outcome
             T == S \cup {o}
  <2> HIDE DEF o
  <2>2. outcomes \in Seq(T)
    <3>1. Len(outcomes) \in Nat /\ outcomes \in [1..Len(outcomes) -> S]
      BY <2>1, LenProperties
    <3>2. outcomes \in [1..Len(outcomes) -> T]
      BY <3>1
    <3> QED BY <3>1, <3>2, IsASeq
  <2>3. outcomes' = Append(outcomes, o)
    BY <1>1 DEF o
  <2>4. outcomes' \in Seq(T) /\ Len(outcomes') = Len(outcomes) + 1 /\ Len(outcomes) \in Nat
    BY <2>2, <2>3, AppendProperties, LenProperties
  <2>5. at' \in [Workers -> Nat]
    BY <1>1
  <2>6. ASSUME at_phase' # "over"
        PROVE  /\ Len(outcomes') + 1 \in 1..Len(Scripts)
               /\ \A w \in Workers : at'[w] \in 1..Len(Script')
    <3>1. Scripts \in Seq(Seq(Action) \ {<<>>}) /\ Len(Scripts) \in Nat
      BY ScriptsAssumption, LenProperties
    <3>2. Len(outcomes') + 1 \in 1..Len(Scripts)
      BY <1>1, <2>4, <2>6, <3>1
    <3>3. Script' \in Seq(Action) /\ Script' # <<>>
      BY <3>1, <3>2, ElementOfSeq DEF Script
    <3>4. Len(Script') \in Nat /\ Len(Script') # 0
      BY <3>3, EmptySeq, LenProperties
    <3> QED BY <1>1, <3>2, <3>4
  <2>7. \E U : outcomes' \in Seq(U)
    BY <2>4
  <2> QED BY <2>5, <2>6, <2>7 DEF ScriptKnown
<1>7. PhaseEnds' /\ OwnBurst'
  BY <1>1 DEF PhaseEnds, OwnBurst
<1>8. ActionTypes'
  <2>1. NoCounts \in [ActionNames -> [ActionCounters -> Int]]
    BY DEF NoCounts
  <2> QED BY <1>1, <2>1 DEF ActionTypes
<1> QED BY <1>5, <1>6, <1>7, <1>8 DEF ScenarioInv

----------------------------------------------------------------------------
(* The theorems.                                                           *)

\* The books, the scripts and the current actions of a scenario hold at every
\* moment: ScenarioExecutor::run with its phases and their workers.
THEOREM ScenarioInvariant == Spec => []ScenarioInv
<1>1. Init => ScenarioInv
  <2> SUFFICES ASSUME Init PROVE ScenarioInv
    OBVIOUS
  <2>1. /\ claimed = 0 /\ stats = NoStats /\ pc = [w \in Workers |-> "idle"] /\ drv = "ramp"
        /\ at = [w \in Workers |-> 1] /\ current = [w \in Workers |-> NoAction]
        /\ act = [w \in Workers |-> NoCounts] /\ outcomes = <<>>
    BY DEF Init, DriveInit, WorkerInit, MetricsInit, ActionInit
  <2>2. /\ stats \in Stats /\ stats.live["active"] = 0 /\ stats.live["sent"] = 0
    BY <2>1 DEF NoStats, Stats, LiveCounters, WorkerCounters
  <2>3. OpenSessions = {} /\ Claimers = {} /\ Cardinality({}) = 0
    BY <2>1, NobodyRuns
  <2>4. BooksOK
    BY <2>1, <2>2, <2>3, LimitAssumption
       DEF BooksOK, ScenarioPC, LifecyclePC, GaugeIsOpenSessions, ClaimsCover
  <2>5. ScriptKnown
    <3>1. outcomes \in Seq({}) /\ Len(outcomes) = 0
      BY <2>1, EmptySeq
    <3>2. /\ Scripts \in Seq(Seq(Action) \ {<<>>}) /\ Len(Scripts) \in Nat
          /\ Len(Scripts) # 0
      BY ScriptsAssumption, LenProperties, EmptySeq
    <3>3. Len(outcomes) + 1 \in 1..Len(Scripts)
      BY <3>1, <3>2
    <3>4. Script \in Seq(Action) /\ Script # <<>>
      BY <3>2, <3>3, ElementOfSeq DEF Script
    <3>5. Len(Script) \in Nat /\ Len(Script) # 0
      BY <3>4, EmptySeq, LenProperties
    <3>6. \E S : outcomes \in Seq(S)
      BY <3>1
    <3> QED BY <2>1, <3>3, <3>5, <3>6 DEF ScriptKnown
  <2>6. ActionTypes
    <3>1. NoCounts \in [ActionNames -> [ActionCounters -> Int]]
      BY DEF NoCounts
    <3> QED BY <2>1, <3>1 DEF ActionTypes
  <2>7. PhaseEnds /\ OwnBurst
    BY <2>1 DEF PhaseEnds, OwnBurst
  <2> QED BY <2>4, <2>5, <2>6, <2>7 DEF ScenarioInv
<1>2. ScenarioInv /\ [Next]_vars => ScenarioInv'
  <2> SUFFICES ASSUME ScenarioInv, [Next]_vars PROVE ScenarioInv'
    OBVIOUS
  <2>1. ASSUME NEW w \in Workers, WorkerStep(w) PROVE ScenarioInv'
    BY <2>1, WorkerKeeps
  <2>2. CASE PhaseDrive
    BY <2>2, DriveKeeps
  <2>3. CASE PhaseOver
    BY <2>3, PhaseOverKeeps
  <2>4. ASSUME UNCHANGED <<claimed, stats, pc, at, current, act, outcomes, drv>>,
               at_phase' = "over" \/ at_phase # "over"
        PROVE  ScenarioInv'
    <3>1. PhaseEnds'
      BY <2>4 DEF ScenarioInv, PhaseEnds
    <3> QED BY <2>4, <3>1, ScenarioIdle
  <2>5. CASE NextPhase \/ PhasesSkipped
    BY <2>4, <2>5 DEF NextPhase, PhasesSkipped, driveVars, workerVars, actionVars
  <2>6. CASE Signal
    BY <2>4, <2>6 DEF Signal, actionVars
  <2>7. CASE UNCHANGED vars
    BY <2>4, <2>7 DEF vars, driveVars, workerVars, actionVars, scenarioVars
  <2> QED BY <2>1, <2>2, <2>3, <2>5, <2>6, <2>7 DEF Next, Executor, ScenarioTerminated
<1> QED BY <1>1, <1>2, PTL DEF Spec

\* --requests is one limit for all phases: whatever the claims, reconnects and
\* cancellations of each phase, the scenario never sends more; and the gauge
\* counts the open sessions across the change of workers between two phases.
THEOREM ScenarioGaugeAndLimit == Spec => [](GaugeIsOpenSessions /\ SendsWithinLimit)
<1>1. ScenarioInv => GaugeIsOpenSessions /\ SendsWithinLimit
  BY CoverKeepsLimit DEF ScenarioInv, BooksOK
<1> QED BY <1>1, ScenarioInvariant, PTL

\* METHODOLOGY.md, section 9.1: the counters of a named action change only in
\* a burst of that action, whatever broke off before (action_counts).
THEOREM ActionsCountOwnBursts == Spec => ActionCountsOwnBurst
<1> DEFINE Own ==
      \A w \in Workers :
        act'[w] # act[w] /\ at_phase' = at_phase
          => /\ pc[w] \in EchoPC
             /\ Script[at[w]].type = "Send"
             /\ \A n \in ActionNames \ {Script[at[w]].name} : act'[w][n] = act[w][n]
<1>1. ScenarioInv /\ ScenarioInv' /\ [Next]_vars => [Own]_vars
  <2> SUFFICES ASSUME ScenarioInv, ScenarioInv', Next PROVE Own
    OBVIOUS
  <2>1. UNCHANGED act \/ at_phase' # at_phase => Own
    OBVIOUS
  <2>2. ASSUME NEW w \in Workers, WorkerStep(w) PROVE Own
    <3>1. /\ at_phase = "running" /\ at_phase # "over" /\ UNCHANGED <<drv, at_phase, outcomes>>
          /\ LifecycleStep(w) \/ ActionSession(w, Script)
      BY <2>2 DEF WorkerStep, scenarioVars
    <3>2. stats' \in Stats
      BY DEF ScenarioInv, BooksOK
    <3>3. CASE LifecycleStep(w)
      BY <2>1, <3>1, <3>2, <3>3, LifecycleBurst
    <3>4. CASE ActionSession(w, Script)
      <4>1. \A v \in Workers : act'[v] # act[v] =>
              /\ v = w /\ pc[w] \in EchoPC /\ current[w] # NoAction
              /\ \A n \in ActionNames \ {current[w]} : act'[w][n] = act[w][n]
        BY <3>1, <3>2, <3>4, ScriptBurst
      <4>2. pc[w] \in EchoPC /\ current[w] # NoAction =>
              Script[at[w]].type = "Send" /\ Script[at[w]].name = current[w]
        BY DEF ScenarioInv, OwnBurst, BrokenOff, EchoPC
      <4> QED BY <4>1, <4>2
    <3> QED BY <3>1, <3>3, <3>4
  <2>3. CASE PhaseDrive \/ NextPhase \/ PhasesSkipped \/ Signal
    BY <2>1, <2>3 DEF PhaseDrive, NextPhase, PhasesSkipped, Signal, actionVars
  <2>4. CASE PhaseOver
    BY <2>1, <2>4 DEF PhaseOver
  <2>5. CASE ScenarioTerminated
    BY <2>1, <2>5 DEF ScenarioTerminated, vars, actionVars
  <2> QED BY <2>2, <2>3, <2>4, <2>5 DEF Next, Executor
<1>2. Spec => []ScenarioInv
  BY ScenarioInvariant
<1>3. Spec => [][Own]_vars
  BY <1>1, <1>2, PTL DEF Spec
<1> QED BY <1>3 DEF ActionCountsOwnBurst
----------------------------------------------------------------------------
(* The merged report.  No clamp of MetricsTotals::finish takes effect in a *)
(* phase or in the sum of the phases, so the merged report is linear.      *)

\* What SumOver adds up.
LEMMA SumOverIs ==
  ASSUME NEW f
  PROVE  SumOver(f) = SumFunctionOnSet(f, DOMAIN f)
BY DEF SumOver, FoldSeq, FoldFunction, SumFunctionOnSet, FoldFunctionOnSet, MapThenFoldSet

\* One phase more adds its value.
LEMMA SumOverAppend ==
  ASSUME NEW n \in Nat, NEW f \in [1..n -> Int], NEW g \in [1..(n + 1) -> Int],
         \A i \in 1..n : g[i] = f[i]
  PROVE  SumOver(f) \in Int /\ SumOver(g) = SumOver(f) + g[n + 1]
<1> DEFINE S == 1..(n + 1)
           x == n + 1
<1>1. S \ {x} = 1..n /\ x \in S
  OBVIOUS
<1>2. IsFiniteSet(S)
  BY FS_Interval
<1>3. /\ g \in [S -> Int] /\ f \in [S \ {x} -> Int]
      /\ \A i \in S \ {x} : f[i] = g[i]
      /\ DOMAIN f = S \ {x} /\ DOMAIN g = S
  BY <1>1
<1> HIDE DEF S, x
<1>4. /\ SumFunctionOnSet(f, S \ {x}) \in Int
      /\ SumFunctionOnSet(g, S) = SumFunctionOnSet(f, S \ {x}) + g[x]
  BY <1>1, <1>2, <1>3, SumOneMore
<1> QED BY <1>3, <1>4, SumOverIs DEF x

\* No phase adds nothing.
LEMMA SumOverNone ==
  ASSUME NEW f \in [{} -> Int]
  PROVE  SumOver(f) = 0
<1>1. IsFiniteSet({}) /\ Cardinality({}) = 0 /\ DOMAIN f = {}
  BY FS_EmptySet
<1>2. SumFunctionOnSet(f, {}) = Cardinality({})
  BY <1>1, SumCounts
<1> QED BY <1>1, <1>2, SumOverIs

Counted == WorkerCounters \ {"dropped"}

\* The totals of one phase, or of several, in which every slot is in one class
\* at most and no message failed without an error.
OutcomeOK(o) ==
  /\ \A c \in Counted : o.totals[c] \in Nat
  /\ o.connections \in Nat /\ o.notStarted \in Nat
  /\ o.totals["reconnects"] <= o.totals["handshakes"]
  /\ o.totals["sentErrors"] <= o.totals["errors"]
  /\ (o.totals["handshakes"] - o.totals["reconnects"]) + o.totals["interrupted"] + o.notStarted
       <= o.connections

\* The report of such totals.
Exactly(o) ==
  [attempted    |-> o.connections,
   established  |-> o.totals["handshakes"] - o.totals["reconnects"],
   interrupted  |-> o.totals["interrupted"],
   failed       |-> o.connections - (o.totals["handshakes"] - o.totals["reconnects"])
                      - o.totals["interrupted"] - o.notStarted,
   notStarted   |-> o.notStarted,
   errors       |-> o.totals["errors"],
   attemptedOps |-> o.totals["sent"] + (o.totals["errors"] - o.totals["sentErrors"])]

ReportFields == {"attempted", "established", "interrupted", "failed", "notStarted", "errors",
                 "attemptedOps"}

\* finish() and with_not_started, without a clamp.
LEMMA PhaseReportIs ==
  ASSUME NEW o, OutcomeOK(o)
  PROVE  PhaseReport(o) = Exactly(o)
<1> DEFINE t == o.totals
           k == o.connections
           n == o.notStarted
           e == t["handshakes"] - t["reconnects"]
           i == t["interrupted"]
<1>1. /\ t["handshakes"] \in Nat /\ t["reconnects"] \in Nat /\ t["interrupted"] \in Nat
      /\ t["errors"] \in Nat /\ t["sentErrors"] \in Nat /\ t["sent"] \in Nat
      /\ k \in Nat /\ n \in Nat
      /\ t["reconnects"] <= t["handshakes"] /\ t["sentErrors"] <= t["errors"]
      /\ e + i + n <= k
  BY DEF OutcomeOK, Counted, WorkerCounters
<1> HIDE DEF t, k, n
<1>2. Minus(t["handshakes"], t["reconnects"]) = e /\ e \in Nat
  BY <1>1 DEF Minus
<1> HIDE DEF e, i
<1>3. i \in Nat
  BY <1>1 DEF i
<1>4. Least(e, k) = e
  BY <1>1, <1>2, <1>3 DEF Least
<1>5. Minus(k, e) = k - e
  BY <1>1, <1>2, <1>3 DEF Minus
<1>6. Least(i, k - e) = i
  BY <1>1, <1>2, <1>3 DEF Least
<1>7. Minus(k - e, i) = k - e - i
  BY <1>1, <1>2, <1>3 DEF Minus
<1>8. Minus(t["errors"], t["sentErrors"]) = t["errors"] - t["sentErrors"]
  BY <1>1 DEF Minus
<1>9. Least(n, k - e - i) = n
  BY <1>1, <1>2, <1>3 DEF Least
<1> DEFINE r == [attempted |-> k, established |-> e, interrupted |-> i, failed |-> k - e - i,
                 notStarted |-> 0, errors |-> t["errors"],
                 attemptedOps |-> t["sent"] + (t["errors"] - t["sentErrors"])]
<1>10. Finish(t, k) = r
  BY <1>2, <1>4, <1>5, <1>6, <1>7, <1>8 DEF Finish, i
<1>11. WithNotStarted(r, n) = [r EXCEPT !.failed = k - e - i - n, !.notStarted = n]
  BY <1>9 DEF WithNotStarted
<1>12. PhaseReport(o) = WithNotStarted(Finish(t, k), n)
  BY DEF PhaseReport, t, k, n
<1> QED BY <1>10, <1>11, <1>12 DEF Exactly, t, k, n, e, i

\* The numbers of a report.
LEMMA ExactlyNumbers ==
  ASSUME NEW o, OutcomeOK(o)
  PROVE  \A c \in ReportFields : Exactly(o)[c] \in Int
<1>1. \A c \in {"handshakes", "reconnects", "interrupted", "errors", "sentErrors", "sent"} :
        o.totals[c] \in Nat
  BY DEF OutcomeOK, Counted, WorkerCounters
<1>2. o.connections \in Nat /\ o.notStarted \in Nat
  BY DEF OutcomeOK
<1> QED BY <1>1, <1>2 DEF Exactly, ReportFields

\* Totals that add up have reports that add up.
LEMMA ReportsAddUp ==
  ASSUME NEW o, NEW p, NEW q, OutcomeOK(o), OutcomeOK(p),
         \A c \in Counted : q.totals[c] = o.totals[c] + p.totals[c],
         q.connections = o.connections + p.connections,
         q.notStarted = o.notStarted + p.notStarted
  PROVE  /\ OutcomeOK(q)
         /\ \A c \in ReportFields : /\ Exactly(o)[c] \in Int /\ Exactly(p)[c] \in Int
                                    /\ Exactly(q)[c] = Exactly(o)[c] + Exactly(p)[c]
<1>1. \A c \in {"handshakes", "reconnects", "interrupted", "errors", "sentErrors", "sent"} :
        c \in Counted
  BY DEF Counted, WorkerCounters
<1>2. \A c \in {"handshakes", "reconnects", "interrupted", "errors", "sentErrors", "sent"} :
        /\ o.totals[c] \in Nat /\ p.totals[c] \in Nat
        /\ q.totals[c] = o.totals[c] + p.totals[c]
  BY <1>1 DEF OutcomeOK
<1>3. /\ o.connections \in Nat /\ o.notStarted \in Nat
      /\ p.connections \in Nat /\ p.notStarted \in Nat
  BY DEF OutcomeOK
<1>4. OutcomeOK(q)
  <2>1. \A c \in Counted : q.totals[c] \in Nat
    BY DEF OutcomeOK
  <2> QED BY <1>2, <1>3, <2>1 DEF OutcomeOK
<1>5. \A c \in ReportFields : /\ Exactly(o)[c] \in Int /\ Exactly(p)[c] \in Int
                              /\ Exactly(q)[c] = Exactly(o)[c] + Exactly(p)[c]
  BY <1>2, <1>3 DEF Exactly, ReportFields
<1> QED BY <1>4, <1>5

\* A slot that was not started has sent nothing.
IdleSentNothing == \A w \in Workers : pc[w] = "idle" => stats.of[w]["sent"] = 0

\* The outcome of a phase that is over.
LEMMA OutcomeFacts ==
  ASSUME stats \in Stats, connected \in [Workers -> BOOLEAN], Slots, IdleSentNothing,
         \A w \in Started : pc[w] = "done"
  PROVE  OutcomeOK(Outcome) /\ Outcome.totals["sent"] = SumOf(stats, "sent")
<1> DEFINE t == Totals(Started)
           W == Started
<1>1. /\ Outcome.totals = t /\ Outcome.connections = Cardinality(Workers)
      /\ Outcome.notStarted = Cardinality(Workers \ Started)
  BY DEF Outcome
<1>2. W \in SUBSET Workers /\ IsFiniteSet(W)
  <2>1. W \in SUBSET Workers
    BY DEF Started
  <2> QED BY <2>1, FS_Subset, WorkersAssumption
<1>3. \A c \in Counted : t[c] = SumFunctionOnSet([w \in W |-> stats.of[w][c]], W)
  BY DEF Totals, Counted
<1>4. \A c \in Counted : [w \in W |-> stats.of[w][c]] \in [W -> Int]
  BY <1>2 DEF Stats, Counted
<1>5. ASSUME NEW c \in Counted PROVE t[c] \in Nat
  <2> DEFINE f == [w \in W |-> stats.of[w][c]]
  <2>1. f \in [W -> Int] /\ \A w \in W : f[w] \in Nat
    BY <1>2 DEF Stats, Counted
  <2>2. t[c] = SumFunctionOnSet(f, W)
    BY <1>3
  <2> HIDE DEF f, W, t
  <2> QED BY <1>2, <2>1, <2>2, SumNatural
<1>6. t["sentErrors"] <= t["errors"]
  <2> DEFINE f == [w \in W |-> stats.of[w]["sentErrors"]]
             g == [w \in W |-> stats.of[w]["errors"]]
  <2>1. \A w \in W : /\ stats.of[w]["sentErrors"] \in Nat /\ stats.of[w]["errors"] \in Nat
                     /\ stats.of[w]["sentErrors"] <= stats.of[w]["errors"]
    BY <1>2, SlotNumbers DEF Slots, SlotBooks
  <2>2. f \in [W -> Int] /\ g \in [W -> Int] /\ \A w \in W : f[w] <= g[w]
    BY <2>1
  <2>3. t["sentErrors"] = SumFunctionOnSet(f, W) /\ t["errors"] = SumFunctionOnSet(g, W)
    BY <1>3 DEF Counted, WorkerCounters
  <2> HIDE DEF f, g, W, t
  <2> QED BY <1>2, <2>2, <2>3, SumBounded
<1>7. /\ t["handshakes"] \in Nat /\ t["reconnects"] \in Nat
      /\ t["handshakes"] = t["reconnects"] + Cardinality(Reached)
      /\ t["interrupted"] = Cardinality(Cut)
  BY TotalsClassify
<1>8. /\ Cardinality(Reached) \in Nat /\ Cardinality(Refused) \in Nat
      /\ Cardinality(Cut) \in Nat /\ Cardinality(Started) \in Nat
      /\ Cardinality(Started) = Cardinality(Reached) + Cardinality(Refused) + Cardinality(Cut)
  BY ClassesAddUp
<1>9. /\ Cardinality(Workers) \in Nat /\ Cardinality(Workers \ Started) \in Nat
      /\ Cardinality(Workers) = Cardinality(Started) + Cardinality(Workers \ Started)
  <2> DEFINE R == Workers \ W
  <2>1. IsFiniteSet(R) /\ W \cup R = Workers /\ W \cap R = {}
    BY <1>2, FS_Subset, WorkersAssumption
  <2> HIDE DEF R, W
  <2>2. Cardinality(W \cup R) = Cardinality(W) + Cardinality(R) - Cardinality(W \cap R)
    BY <1>2, <2>1, FS_Union
  <2>3. Cardinality(W \cap R) = 0
    BY <2>1, FS_EmptySet, Zenon
  <2>4. Cardinality(W \cup R) = Cardinality(Workers)
    BY <2>1, Zenon
  <2>5. Cardinality(W) \in Nat /\ Cardinality(R) \in Nat
    BY <1>2, <2>1, FS_CardinalityType
  <2>6. Cardinality(Workers) = Cardinality(W) + Cardinality(R)
    BY <2>2, <2>3, <2>4, <2>5
  <2> QED BY <2>5, <2>6 DEF R, W
<1>10. t["sent"] = SumOf(stats, "sent")
  <2> DEFINE f == [w \in Workers |-> stats.of[w]["sent"]]
             g == [w \in W |-> stats.of[w]["sent"]]
  <2>1. \A w \in Workers : stats.of[w]["sent"] \in Nat
    BY DEF Stats, WorkerCounters
  <2>2. /\ f \in [Workers -> Int] /\ g \in [W -> Int] /\ \A w \in W : g[w] = f[w]
    BY <1>2, <2>1
  <2>3. \A w \in Workers \ W : f[w] = 0
    BY DEF IdleSentNothing, Started
  <2>4. t["sent"] = SumFunctionOnSet(g, W) /\ SumOf(stats, "sent") = SumFunctionOnSet(f, Workers)
    BY <1>3 DEF Counted, WorkerCounters, SumOf
  <2> HIDE DEF f, g, W, t
  <2> QED BY <1>2, <2>2, <2>3, <2>4, SumOfPart, WorkersAssumption
<1> HIDE DEF t, W
<1>11. OutcomeOK(Outcome)
  BY <1>1, <1>5, <1>6, <1>7, <1>8, <1>9 DEF OutcomeOK
<1> QED BY <1>1, <1>10, <1>11

\* What totals.add has added up, with the counters named.
LEMMA AddedIs ==
  /\ \A c \in Counted :
       Added.totals[c] = SumOver([p \in DOMAIN outcomes |-> outcomes[p].totals[c]])
  /\ Added.connections = SumOver([p \in DOMAIN outcomes |-> outcomes[p].connections])
  /\ Added.notStarted = SumOver([p \in DOMAIN outcomes |-> outcomes[p].notStarted])
<1>1. DOMAIN Totals({}) = Counted
  BY DEF Totals, Counted
<1> QED BY <1>1 DEF Added

\* The books of the scenario so far: every phase that is over, and all of them
\* together, in exact totals whose reports add up.
PhasesOK ==
  /\ \A p \in DOMAIN outcomes : OutcomeOK(outcomes[p])
  /\ OutcomeOK(Added)
  /\ \A c \in ReportFields :
       Exactly(Added)[c] = SumOver([p \in DOMAIN outcomes |-> Exactly(outcomes[p])[c]])

\* One phase more.
LEMMA PhaseAdded ==
  ASSUME NEW S, outcomes \in Seq(S), PhasesOK, NEW o, OutcomeOK(o),
         outcomes' = Append(outcomes, o)
  PROVE  PhasesOK' /\ Added'.totals["sent"] = Added.totals["sent"] + o.totals["sent"]
<1> DEFINE n == Len(outcomes)
<1>1. /\ n \in Nat /\ DOMAIN outcomes = 1..n /\ DOMAIN outcomes' = 1..(n + 1)
      /\ \A p \in 1..n : outcomes'[p] = outcomes[p]
      /\ outcomes'[n + 1] = o
  <2> DEFINE T == S \cup {o}
  <2>1. n \in Nat /\ outcomes \in [1..n -> S]
    BY LenProperties
  <2>2. outcomes \in Seq(T) /\ o \in T
    <3>1. outcomes \in [1..n -> T]
      BY <2>1
    <3> QED BY <2>1, <3>1, IsASeq
  <2>3. /\ outcomes' \in Seq(T) /\ Len(outcomes') = n + 1
        /\ \A i \in 1..n : outcomes'[i] = outcomes[i]
        /\ outcomes'[n + 1] = o
    BY <2>2, AppendProperties
  <2>4. DOMAIN outcomes' = 1..(n + 1) /\ DOMAIN outcomes = 1..n
    BY <2>1, <2>3, LenProperties
  <2> QED BY <2>1, <2>3, <2>4
<1> HIDE DEF n
<1>2. \A p \in 1..n : OutcomeOK(outcomes[p])
  BY <1>1 DEF PhasesOK
<1>3. \A p \in 1..(n + 1) : OutcomeOK(outcomes'[p])
  <2>1. \A p \in 1..(n + 1) : p \in 1..n \/ p = n + 1
    BY <1>1
  <2> QED BY <1>1, <1>2, <2>1
<1>4. ASSUME NEW c \in Counted PROVE Added'.totals[c] = Added.totals[c] + o.totals[c]
  <2> DEFINE f == [p \in DOMAIN outcomes |-> outcomes[p].totals[c]]
             g == [p \in DOMAIN outcomes' |-> outcomes'[p].totals[c]]
  <2>1. /\ f \in [1..n -> Int] /\ g \in [1..(n + 1) -> Int] /\ \A i \in 1..n : g[i] = f[i]
        /\ g[n + 1] = o.totals[c]
    BY <1>1, <1>2, <1>3 DEF OutcomeOK
  <2>2. Added.totals[c] = SumOver(f)
    BY AddedIs
  <2>3. Added'.totals[c] = SumOver(g)
    BY DEF Added, Totals, Counted
  <2> HIDE DEF f, g
  <2> QED BY <1>1, <2>1, <2>2, <2>3, SumOverAppend
<1>5. Added'.connections = Added.connections + o.connections
  <2> DEFINE f == [p \in DOMAIN outcomes |-> outcomes[p].connections]
             g == [p \in DOMAIN outcomes' |-> outcomes'[p].connections]
  <2>1. /\ f \in [1..n -> Int] /\ g \in [1..(n + 1) -> Int] /\ \A i \in 1..n : g[i] = f[i]
        /\ g[n + 1] = o.connections
    BY <1>1, <1>2, <1>3 DEF OutcomeOK
  <2>2. Added.connections = SumOver(f) /\ Added'.connections = SumOver(g)
    BY DEF Added
  <2> HIDE DEF f, g
  <2> QED BY <1>1, <2>1, <2>2, SumOverAppend
<1>6. Added'.notStarted = Added.notStarted + o.notStarted
  <2> DEFINE f == [p \in DOMAIN outcomes |-> outcomes[p].notStarted]
             g == [p \in DOMAIN outcomes' |-> outcomes'[p].notStarted]
  <2>1. /\ f \in [1..n -> Int] /\ g \in [1..(n + 1) -> Int] /\ \A i \in 1..n : g[i] = f[i]
        /\ g[n + 1] = o.notStarted
    BY <1>1, <1>2, <1>3 DEF OutcomeOK
  <2>2. Added.notStarted = SumOver(f) /\ Added'.notStarted = SumOver(g)
    BY DEF Added
  <2> HIDE DEF f, g
  <2> QED BY <1>1, <2>1, <2>2, SumOverAppend
<1> DEFINE a == Added
           b == Added'
<1>7. OutcomeOK(a)
  BY DEF PhasesOK
<1> HIDE DEF a, b
<1>8. /\ OutcomeOK(b)
      /\ \A c \in ReportFields : /\ Exactly(a)[c] \in Int /\ Exactly(o)[c] \in Int
                                 /\ Exactly(b)[c] = Exactly(a)[c] + Exactly(o)[c]
  <2>1. /\ \A c \in Counted : b.totals[c] = a.totals[c] + o.totals[c]
        /\ b.connections = a.connections + o.connections
        /\ b.notStarted = a.notStarted + o.notStarted
    BY <1>4, <1>5, <1>6 DEF a, b
  <2> QED BY <1>7, <2>1, ReportsAddUp
<1>9. \A p : OutcomeOK(p) => \A c \in ReportFields : Exactly(p)[c] \in Int
  BY ExactlyNumbers
<1>10. ASSUME NEW c \in ReportFields
       PROVE  Exactly(b)[c] = SumOver([p \in DOMAIN outcomes' |-> Exactly(outcomes'[p])[c]])
  <2> DEFINE f == [p \in DOMAIN outcomes |-> Exactly(outcomes[p])[c]]
             g == [p \in DOMAIN outcomes' |-> Exactly(outcomes'[p])[c]]
  <2>1. /\ f \in [1..n -> Int] /\ g \in [1..(n + 1) -> Int] /\ \A i \in 1..n : g[i] = f[i]
        /\ g[n + 1] = Exactly(o)[c]
    BY <1>1, <1>2, <1>3, <1>9
  <2>2. Exactly(a)[c] = SumOver(f)
    BY DEF PhasesOK, a
  <2> HIDE DEF f, g
  <2>3. SumOver(g) = SumOver(f) + g[n + 1]
    BY <1>1, <2>1, SumOverAppend
  <2>4. Exactly(b)[c] = SumOver(g)
    BY <1>8, <2>1, <2>2, <2>3
  <2> QED BY <2>4 DEF g
<1>11. PhasesOK'
  BY <1>1, <1>3, <1>8, <1>10 DEF PhasesOK, b
<1>12. "sent" \in Counted
  BY DEF Counted, WorkerCounters
<1> QED BY <1>4, <1>11, <1>12
----------------------------------------------------------------------------
(* The steps of a scenario and its reports.                                *)

\* A step of run_action_loop stays inside its session and records what the
\* books expect.
LEMMA ScriptRecords ==
  ASSUME ScriptKnown, at_phase # "over", NEW w \in Workers, ActionSession(w, Script)
  PROVE  /\ pc[w] \notin Outside /\ UNCHANGED connected
         /\ stats' \in SessionRecords(stats, w)
         /\ \E l : l \notin Outside /\ pc' = [pc EXCEPT ![w] = l]
<1>1. \A l \in {"top", "slot", "delay", "send", "reply", "pause", "action", "burst", "think",
                "wait", "ping", "ended", "finished"} : l \notin Outside
  BY DEF Outside
<1>2. CASE ScriptTop(w)
  BY <1>1, <1>2 DEF ScriptTop, Goto, SessionRecords
<1>3. CASE ScriptStops(w)
  BY <1>1, <1>3 DEF ScriptStops, Goto, SessionRecords
<1>4. CASE ActionBegins(w, Script[at[w]])
  <2>1. Script[at[w]].type \in {"Send", "Wait", "Ping", "Close"}
    BY ScriptFacts DEF Action
  <2>2. PICK l \in {"burst", "wait", "ping", "finished"} : pc' = [pc EXCEPT ![w] = l]
    BY <1>4, <2>1 DEF ActionBegins, Goto
  <2> QED BY <1>1, <1>4, <2>2 DEF ActionBegins, SessionRecords
<1>5. CASE BurstGoesOn(w)
  BY <1>1, <1>5 DEF BurstGoesOn, Goto, SessionRecords
<1>6. CASE BurstOver(w)
  BY <1>1, <1>6 DEF BurstOver, Goto, SessionRecords
<1>7. CASE PingWrite(w)
  BY <1>1, <1>7 DEF PingWrite, Goto, SessionRecords
<1>8. CASE ActionPauseOver(w, Len(Script))
  BY <1>1, <1>8 DEF ActionPauseOver, Goto, SessionRecords
<1>9. CASE BurstMessage(w)
  <2>1. CASE EchoSlotCancelled(w) \/ EchoReplyCancelled(w) \/ EchoServerClose(w)
    BY <1>1, <2>1 DEF EchoSlotCancelled, EchoReplyCancelled, EchoServerClose, Goto, SessionRecords
  <2>2. CASE EchoLimitReached(w)
    BY <1>1, <2>2 DEF EchoLimitReached, Goto, SessionRecords
  <2>3. CASE BurstClaim(w)
    BY <1>1, <2>3 DEF BurstClaim, Goto, SessionRecords
  <2>4. CASE EchoDelay(w)
    BY <1>1, <2>4 DEF EchoDelay, Goto, SessionRecords
  <2>5. CASE BurstSend(w)
    BY <1>1, <2>5 DEF BurstSend, Goto, SessionRecords
  <2>6. CASE BurstReply(w)
    BY <1>1, <2>6 DEF BurstReply, Goto, SessionRecords
  <2>7. CASE EchoReplyFails(w)
    BY <1>1, <2>7 DEF EchoReplyFails, Goto, SessionRecords
  <2>8. CASE BurstPause(w)
    BY <1>1, <2>8 DEF BurstPause, Goto, SessionRecords
  <2> QED BY <1>9, <2>1, <2>2, <2>3, <2>4, <2>5, <2>6, <2>7, <2>8 DEF BurstMessage
<1> QED BY <1>2, <1>3, <1>4, <1>5, <1>6, <1>7, <1>8, <1>9 DEF ActionSession

\* What it sends is in the live counter and in the worker's metrics.
LEMMA RecordsSent ==
  ASSUME NEW s \in Stats, NEW w \in Workers, NEW t \in SessionRecords(s, w)
  PROVE  \E n \in {0, 1} :
           /\ t \in Stats
           /\ t.live["sent"] = s.live["sent"] + n
           /\ t.of[w]["sent"] = s.of[w]["sent"] + n
           /\ \A v \in Workers \ {w} : t.of[v] = s.of[v]
<1>1. \E n \in {0, 1} : \E a, h, r, f : Change(s, t, w, a, h, n, r, f)
  BY Changes, FailedCheck DEF SessionRecords
<1> QED BY <1>1 DEF Change

\* The live counter of sends runs on over the phases.
SentByPhases == stats.live["sent"] = Added.totals["sent"] + SumOf(stats, "sent")

\* What the reports of a scenario need.
ScenarioReported ==
  /\ Reported
  /\ IdleSentNothing
  /\ PhasesOK
  /\ SentByPhases

\* The sums over the phases are those of the outcomes.
LEMMA PhasesStay ==
  ASSUME UNCHANGED outcomes, PhasesOK
  PROVE  PhasesOK' /\ Added' = Added
<1>1. Added' = Added
  BY DEF Added, Totals
<1> QED BY <1>1 DEF PhasesOK

\* A worker's step that sends n messages keeps the sums.
LEMMA SentMoves ==
  ASSUME stats \in Stats, stats' \in Stats, NEW L, pc \in [Workers -> L], ScenarioReported,
         UNCHANGED outcomes, NEW w \in Workers, NEW n \in {0, 1}, NEW l, l # "idle",
         pc' = [pc EXCEPT ![w] = l],
         stats'.live["sent"] = stats.live["sent"] + n,
         stats'.of[w]["sent"] = stats.of[w]["sent"] + n,
         \A v \in Workers \ {w} : stats'.of[v] = stats.of[v]
  PROVE  IdleSentNothing' /\ PhasesOK' /\ SentByPhases'
<1>1. PhasesOK' /\ Added' = Added
  BY PhasesStay DEF ScenarioReported
<1>2. IdleSentNothing'
  BY DEF ScenarioReported, IdleSentNothing
<1>3. "sent" \in WorkerCounters /\ "sent" \in LiveCounters /\ "sent" \in Counted
  BY DEF WorkerCounters, LiveCounters, Counted
<1>4. /\ SumOf(stats, "sent") \in Nat
      /\ SumOf(stats', "sent")
           = SumOf(stats, "sent") + (stats'.of[w]["sent"] - stats.of[w]["sent"])
  BY <1>3, SumOfMoves
<1>5. /\ stats.live["sent"] \in Nat /\ stats'.live["sent"] \in Nat
      /\ stats.of[w]["sent"] \in Nat /\ stats'.of[w]["sent"] \in Nat
  BY <1>3 DEF Stats
<1>6. Added.totals["sent"] \in Nat
  BY <1>3 DEF ScenarioReported, PhasesOK, OutcomeOK
<1>7. stats.live["sent"] = Added.totals["sent"] + SumOf(stats, "sent")
  BY DEF ScenarioReported, SentByPhases
<1>8. stats'.live["sent"] = Added.totals["sent"] + SumOf(stats', "sent")
  <2>1. stats'.live["sent"] - stats.live["sent"] = stats'.of[w]["sent"] - stats.of[w]["sent"]
    BY <1>5
  <2> QED BY <1>4, <1>5, <1>6, <1>7, <2>1
<1> QED BY <1>1, <1>2, <1>8 DEF SentByPhases
\* A step of a worker.
LEMMA WorkerReported ==
  ASSUME ScenarioInv, ScenarioReported, NEW w \in Workers, WorkerStep(w)
  PROVE  ScenarioReported'
<1>1. /\ at_phase = "running" /\ at_phase # "over" /\ UNCHANGED <<drv, outcomes>>
      /\ LifecycleStep(w) \/ ActionSession(w, Script)
  BY DEF WorkerStep, scenarioVars
<1>2. /\ stats \in Stats /\ pc \in [Workers -> ScenarioPC] /\ GaugeIsOpenSessions
      /\ ScriptKnown /\ connected \in [Workers -> BOOLEAN] /\ Slots /\ Joined
  BY DEF ScenarioInv, BooksOK, ScenarioReported, Reported
<1>3. CASE Lifecycle(w)
  <2>1. PICK l : LifecycleEffect(w, l)
    BY <1>2, <1>3, LifecycleHasEffect
  <2>2. /\ pc' = [pc EXCEPT ![w] = l] /\ l # "idle" /\ pc[w] \notin {"idle", "done"}
        /\ stats' \in Stats
        /\ stats'.live["sent"] = stats.live["sent"] + 0
        /\ stats'.of[w]["sent"] = stats.of[w]["sent"] + 0
        /\ \A v \in Workers \ {w} : stats'.of[v] = stats.of[v]
    BY <2>1 DEF LifecycleEffect, Change
  <2>3. Slots' /\ Joined'
    BY <1>1, <1>2, <1>3, <2>2, LifecycleBooks, JoinedKept
  <2>4. connected' \in [Workers -> BOOLEAN]
    BY <1>2, <1>3 DEF Lifecycle, BuildFails, BuildRequest, HandshakeCancelled, HandshakeOpen,
       HandshakeStaticError, HandshakeFails, SessionEnded, SessionFinished, BackoffOver,
       BackoffCancelled
  <2>5. IdleSentNothing' /\ PhasesOK' /\ SentByPhases'
    BY <1>1, <1>2, <2>2, SentMoves
  <2> QED BY <2>3, <2>4, <2>5 DEF ScenarioReported, Reported
<1>4. CASE ActionSession(w, Script)
  <2>1. /\ pc[w] \notin Outside /\ UNCHANGED connected
        /\ stats' \in SessionRecords(stats, w)
    BY <1>1, <1>2, <1>4, ScriptRecords
  <2>2. PICK l : l \notin Outside /\ pc' = [pc EXCEPT ![w] = l]
    BY <1>1, <1>2, <1>4, ScriptRecords
  <2>3. Slots'
    BY <1>2, <2>1, <2>2, SessionBooksKept
  <2>4. pc[w] \notin {"idle", "done"} /\ l # "idle"
    BY <2>1, <2>2 DEF Outside
  <2>5. Joined'
    BY <1>1, <1>2, <2>4, JoinedKept
  <2>6. PICK n \in {0, 1} : /\ stats' \in Stats
                            /\ stats'.live["sent"] = stats.live["sent"] + n
                            /\ stats'.of[w]["sent"] = stats.of[w]["sent"] + n
                            /\ \A v \in Workers \ {w} : stats'.of[v] = stats.of[v]
    BY <1>2, <2>1, RecordsSent
  <2>7. IdleSentNothing' /\ PhasesOK' /\ SentByPhases'
    BY <1>1, <1>2, <2>2, <2>4, <2>6, SentMoves
  <2> QED BY <1>2, <2>1, <2>3, <2>5, <2>7 DEF ScenarioReported, Reported
<1> QED BY <1>1, <1>3, <1>4 DEF LifecycleStep

\* A step that leaves the workers and their counters alone.
LEMMA ReportedStays ==
  ASSUME ScenarioReported, UNCHANGED <<stats, pc, connected, outcomes>>,
         drv' # "done" \/ Joined'
  PROVE  ScenarioReported'
<1>1. PhasesOK' /\ Added' = Added
  BY PhasesStay DEF ScenarioReported
<1>2. Reported' /\ IdleSentNothing'
  BY DEF ScenarioReported, Reported, Slots, Joined, IdleSentNothing
<1>3. SentByPhases'
  BY <1>1 DEF ScenarioReported, SentByPhases
<1> QED BY <1>1, <1>2, <1>3 DEF ScenarioReported

\* The phase's runner.
LEMMA DriveReported ==
  ASSUME ScenarioInv, ScenarioReported, PhaseDrive
  PROVE  ScenarioReported'
<1>1. UNCHANGED outcomes /\ pc \in [Workers -> ScenarioPC]
  BY DEF PhaseDrive, scenarioVars, ScenarioInv, BooksOK
<1>2. ASSUME NEW w \in Workers, Spawn(w) PROVE ScenarioReported'
  <2> DEFINE W == {w}
  <2>1. /\ pc' = [v \in Workers |-> IF v \in W THEN "build" ELSE pc[v]]
        /\ UNCHANGED <<stats, connected>> /\ drv' # "done"
        /\ \A v \in W : pc[v] = "idle"
    BY <1>1, <1>2 DEF Spawn, Goto
  <2>2. IdleSentNothing'
    BY <2>1 DEF ScenarioReported, IdleSentNothing
  <2> HIDE DEF W
  <2>3. Slots'
    BY <1>1, <2>1, SpawnBooks DEF ScenarioReported, Reported
  <2>4. PhasesOK' /\ Added' = Added
    BY <1>1, PhasesStay DEF ScenarioReported
  <2>5. SentByPhases'
    BY <2>1, <2>4 DEF ScenarioReported, SentByPhases
  <2>6. Reported'
    BY <2>1, <2>3 DEF ScenarioReported, Reported, Joined
  <2> QED BY <2>2, <2>4, <2>5, <2>6 DEF ScenarioReported
<1>3. CASE RampOver \/ WaitUntilDone
  BY <1>1, <1>3, ReportedStays DEF RampOver, WaitUntilDone, workerVars
<1>4. CASE JoinWorkers
  BY <1>1, <1>4, ReportedStays DEF JoinWorkers, workerVars, Joined, Started
<1>5. CASE DurationOrSignal \/ RequestWatcher
  <2>1. UNCHANGED <<stats, pc, connected, drv>>
    BY <1>5 DEF DurationOrSignal, RequestWatcher, CancelRun
  <2>2. Joined'
    BY <2>1 DEF ScenarioReported, Reported, Joined, Started
  <2> QED BY <1>1, <2>1, <2>2, ReportedStays
<1> QED BY <1>2, <1>3, <1>4, <1>5 DEF PhaseDrive, RampDrive, DriveStep

\* The end of a phase: its outcome is added and the next phase's slots start
\* from nothing.
LEMMA PhaseOverReported ==
  ASSUME ScenarioInv, ScenarioReported, PhaseOver
  PROVE  ScenarioReported'
<1>1. /\ drv = "done" /\ drv' = "ramp" /\ outcomes' = Append(outcomes, Outcome)
      /\ stats' = [stats EXCEPT !.of = NoStats.of]
      /\ pc' = [w \in Workers |-> "idle"] /\ connected' = [w \in Workers |-> FALSE]
  BY DEF PhaseOver, FreshRunner
<1>2. /\ stats \in Stats /\ connected \in [Workers -> BOOLEAN] /\ Slots /\ IdleSentNothing
      /\ \A w \in Started : pc[w] = "done"
  BY <1>1 DEF ScenarioInv, BooksOK, ScenarioReported, Reported, Joined
<1> DEFINE o == Outcome
<1>3. OutcomeOK(o) /\ o.totals["sent"] = SumOf(stats, "sent")
  BY <1>2, OutcomeFacts
<1>4. outcomes' = Append(outcomes, o)
  BY <1>1
<1> HIDE DEF o
<1>5. PICK S : outcomes \in Seq(S)
  BY DEF ScenarioInv, ScriptKnown
<1>6. PhasesOK' /\ Added'.totals["sent"] = Added.totals["sent"] + o.totals["sent"]
  BY <1>3, <1>4, <1>5, PhaseAdded DEF ScenarioReported
<1>7. /\ stats' \in Stats /\ stats'.live = stats.live
      /\ \A w \in Workers, c \in WorkerCounters : stats'.of[w][c] = 0
  BY <1>1, <1>2 DEF Stats, NoStats
<1>8. Slots' /\ Joined' /\ connected' \in [Workers -> BOOLEAN] /\ IdleSentNothing'
  BY <1>1, <1>7 DEF Slots, SlotBooks, Outside, WorkerCounters, Joined, IdleSentNothing
<1>9. SumOf(stats', "sent") = 0
  <2> DEFINE f == [w \in Workers |-> stats'.of[w]["sent"]]
  <2>1. f \in [Workers -> Int] /\ \A v \in Workers : f[v] = Weight(v, {})
    BY <1>7 DEF Weight, WorkerCounters
  <2>2. SumOf(stats', "sent") = SumFunctionOnSet(f, Workers)
    BY DEF SumOf
  <2> HIDE DEF f
  <2>3. SumFunctionOnSet(f, Workers) = Cardinality({})
    BY <2>1, SumCounts, WorkersAssumption
  <2> QED BY <2>2, <2>3, FS_EmptySet
<1>10. SentByPhases'
  <2>1. "sent" \in Counted /\ "sent" \in LiveCounters
    BY DEF Counted, WorkerCounters, LiveCounters
  <2>2. Added.totals["sent"] \in Nat /\ o.totals["sent"] \in Nat
    BY <1>3, <2>1 DEF ScenarioReported, PhasesOK, OutcomeOK
  <2>3. stats.live["sent"] = Added.totals["sent"] + o.totals["sent"]
    BY <1>3 DEF ScenarioReported, SentByPhases
  <2>4. stats'.live["sent"] = Added'.totals["sent"] + SumOf(stats', "sent")
    BY <1>6, <1>7, <1>9, <2>2, <2>3
  <2> QED BY <2>4 DEF SentByPhases
<1> QED BY <1>6, <1>8, <1>10 DEF ScenarioReported, Reported

\* A scenario that has not begun.
LEMMA ScenarioReportedInit == Init => ScenarioReported
<1> SUFFICES ASSUME Init PROVE ScenarioReported
  OBVIOUS
<1>1. WorkerInit /\ drv = "ramp" /\ outcomes = <<>>
  BY DEF Init, DriveInit
<1>2. Reported /\ IdleSentNothing
  <2>1. connected \in [Workers -> BOOLEAN]
    BY <1>1 DEF WorkerInit
  <2>2. IdleSentNothing
    BY <1>1 DEF WorkerInit, MetricsInit, NoStats, IdleSentNothing, WorkerCounters
  <2> QED BY <1>1, <2>1, <2>2, BooksInit DEF Reported, Books, Joined
<1>3. DOMAIN outcomes = {}
  BY <1>1
<1>4. \A f : f \in [{} -> Int] => SumOver(f) = 0
  BY SumOverNone
<1>5. \A c \in Counted : Added.totals[c] = 0
  <2> TAKE c \in Counted
  <2> DEFINE f == [p \in DOMAIN outcomes |-> outcomes[p].totals[c]]
  <2>1. f \in [{} -> Int]
    BY <1>3
  <2>2. Added.totals[c] = SumOver(f)
    BY AddedIs
  <2> HIDE DEF f
  <2> QED BY <1>4, <2>1, <2>2
<1>6. Added.connections = 0 /\ Added.notStarted = 0
  <2> DEFINE f == [p \in DOMAIN outcomes |-> outcomes[p].connections]
             g == [p \in DOMAIN outcomes |-> outcomes[p].notStarted]
  <2>1. f \in [{} -> Int] /\ g \in [{} -> Int]
    BY <1>3
  <2>2. Added.connections = SumOver(f) /\ Added.notStarted = SumOver(g)
    BY AddedIs
  <2> HIDE DEF f, g
  <2> QED BY <1>4, <2>1, <2>2
<1>7. \A c \in {"handshakes", "reconnects", "interrupted", "errors", "sentErrors", "sent"} :
        c \in Counted
  BY DEF Counted, WorkerCounters
<1> DEFINE a == Added
<1> HIDE DEF a
<1>8. OutcomeOK(a) /\ \A c \in ReportFields : Exactly(a)[c] = 0
  <2>1. \A c \in {"handshakes", "reconnects", "interrupted", "errors", "sentErrors", "sent"} :
          a.totals[c] = 0
    BY <1>5, <1>7 DEF a
  <2>2. a.connections = 0 /\ a.notStarted = 0 /\ \A c \in Counted : a.totals[c] \in Nat
    BY <1>5, <1>6 DEF a
  <2> QED BY <2>1, <2>2 DEF OutcomeOK, Exactly, ReportFields
<1>9. ASSUME NEW c \in ReportFields
      PROVE  SumOver([p \in DOMAIN outcomes |-> Exactly(outcomes[p])[c]]) = 0
  <2> DEFINE f == [p \in DOMAIN outcomes |-> Exactly(outcomes[p])[c]]
  <2>1. f \in [{} -> Int]
    BY <1>3
  <2> HIDE DEF f
  <2>2. SumOver(f) = 0
    BY <1>4, <2>1
  <2> QED BY <2>2 DEF f
<1>10. PhasesOK
  BY <1>3, <1>8, <1>9 DEF PhasesOK, a
<1>11. SentByPhases
  <2>1. Agree(stats) /\ stats.live["sent"] = 0
    BY <1>1, BooksInit DEF Books, WorkerInit, MetricsInit, NoStats, LiveCounters
  <2> QED BY <1>5, <1>7, <2>1 DEF SentByPhases, Agree
<1> QED BY <1>2, <1>10, <1>11 DEF ScenarioReported

\* The books of a scenario for every number of phases and every script: the
\* report merged by ScenarioExecutor::run is the sum of the phases' reports,
\* and all phases together send no more than --requests.
THEOREM ScenarioBooksExact == Spec => []ScenarioBooks
<1>1. Init => ScenarioReported
  BY ScenarioReportedInit
<1>2. ScenarioInv /\ ScenarioReported /\ [Next]_vars => ScenarioReported'
  <2> SUFFICES ASSUME ScenarioInv, ScenarioReported, [Next]_vars PROVE ScenarioReported'
    OBVIOUS
  <2>1. ASSUME UNCHANGED <<stats, pc, connected, drv, outcomes>> PROVE ScenarioReported'
    <3>1. Joined'
      BY <2>1 DEF ScenarioReported, Reported, Joined, Started
    <3> QED BY <2>1, <3>1, ReportedStays
  <2>2. CASE NextPhase \/ PhasesSkipped
    BY <2>1, <2>2 DEF NextPhase, PhasesSkipped, driveVars, workerVars
  <2>3. CASE Signal
    BY <2>1, <2>3 DEF Signal
  <2>4. CASE UNCHANGED vars
    BY <2>1, <2>4 DEF vars, driveVars, workerVars, scenarioVars
  <2> QED BY <2>2, <2>3, <2>4, WorkerReported, DriveReported, PhaseOverReported
      DEF Next, Executor, ScenarioTerminated
<1>3. ScenarioInv /\ ScenarioReported => ScenarioBooks
  <2> SUFFICES ASSUME ScenarioInv, ScenarioReported PROVE ScenarioBooks
    OBVIOUS
  <2>1. PhasesAddUp
    <3> DEFINE a == Added
    <3>1. OutcomeOK(a)
      BY DEF ScenarioReported, PhasesOK
    <3>2. MergedReport = PhaseReport(a)
      BY DEF MergedReport, PhaseReport
    <3> HIDE DEF a
    <3>3. MergedReport = Exactly(a) /\ DOMAIN Exactly(a) = ReportFields
      BY <3>1, <3>2, PhaseReportIs DEF Exactly, ReportFields
    <3>4. ASSUME NEW c \in ReportFields
          PROVE  Exactly(a)[c] = SumOver([p \in DOMAIN outcomes |-> PhaseReport(outcomes[p])[c]])
      <4>1. \A p \in DOMAIN outcomes : PhaseReport(outcomes[p]) = Exactly(outcomes[p])
        BY PhaseReportIs DEF ScenarioReported, PhasesOK
      <4>2. [p \in DOMAIN outcomes |-> PhaseReport(outcomes[p])[c]]
              = [p \in DOMAIN outcomes |-> Exactly(outcomes[p])[c]]
        BY <4>1
      <4>3. Exactly(a)[c] = SumOver([p \in DOMAIN outcomes |-> Exactly(outcomes[p])[c]])
        BY DEF ScenarioReported, PhasesOK, a
      <4> QED BY <4>2, <4>3
    <3> QED BY <3>3, <3>4 DEF PhasesAddUp
  <2>2. CapCoversScenario
    <3>1. Totals(Workers)["sent"] = SumOf(stats, "sent")
      BY DEF Totals, SumOf, WorkerCounters
    <3>2. SendsWithinLimit
      BY CoverKeepsLimit DEF ScenarioInv, BooksOK
    <3> QED BY <3>1, <3>2 DEF CapCoversScenario, SendsWithinLimit, ScenarioReported, SentByPhases
  <2> QED BY <2>1, <2>2 DEF ScenarioBooks
<1> QED BY <1>1, <1>2, <1>3, ScenarioInvariant, PTL DEF Spec
============================================================================
