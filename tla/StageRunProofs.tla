--------------------------- MODULE StageRunProofs ---------------------------
(***************************************************************************)
(* Proofs about StageRun, for every set of workers, every profile and      *)
(* every option: which workers a staged run keeps, what they send, and how *)
(* they are reported.                                                      *)
(***************************************************************************)
EXTENDS StageRun, WorkerProofs, SequenceTheorems

----------------------------------------------------------------------------
(* The target of the profile is a number at every tick, as the usize that  *)
(* stage_target returns: the interpolation never goes below zero.          *)

\* Every stage lasts and has a target.
LEMMA ProfileFacts ==
  /\ Len(Profile) \in Nat \ {0} /\ DOMAIN Profile = 1..Len(Profile)
  /\ \A i \in 1..Len(Profile) :
       Profile[i].duration \in Nat \ {0} /\ Profile[i].target \in Nat
<1>1. Profile \in Seq([duration : Nat \ {0}, target : Nat]) /\ Profile # <<>>
  BY StagesAssumption
<1>2. Len(Profile) \in Nat \ {0} /\ DOMAIN Profile = 1..Len(Profile)
  BY <1>1, LenProperties, EmptySeq
<1>3. \A i \in 1..Len(Profile) : Profile[i] \in [duration : Nat \ {0}, target : Nat]
  BY <1>1, ElementOfSeq
<1> QED BY <1>2, <1>3

\* The ends of the first n stages.
Ends(e, n) ==
  /\ e \in [0..n -> Nat]
  /\ \A i \in 0..n : e[i] = IF i = 0 THEN 0 ELSE e[i - 1] + Profile[i].duration

\* They exist.
LEMMA EndsExist ==
  ASSUME NEW k \in 0..Len(Profile)
  PROVE  \E e : Ends(e, k)
<1> DEFINE N == {n \in Nat : n <= Len(Profile) => \E e : Ends(e, n)}
<1>1. 0 \in N
  <2> DEFINE e == [i \in 0..0 |-> 0]
  <2>1. Ends(e, 0)
    BY DEF Ends
  <2> QED BY <2>1
<1>2. ASSUME NEW n \in N PROVE n + 1 \in N
  <2> SUFFICES ASSUME n + 1 <= Len(Profile) PROVE \E e : Ends(e, n + 1)
    OBVIOUS
  <2>1. n \in Nat /\ n <= Len(Profile) /\ n + 1 \in 1..Len(Profile)
    BY ProfileFacts
  <2>2. PICK e : Ends(e, n)
    BY <2>1
  <2> DEFINE d == Profile[n + 1].duration
             g == [i \in 0..(n + 1) |-> IF i = n + 1 THEN e[n] + d ELSE e[i]]
  <2>3. d \in Nat /\ e \in [0..n -> Nat] /\ e[n] \in Nat
    BY <2>1, <2>2, ProfileFacts DEF Ends
  <2> HIDE DEF d
  <2>4. g \in [0..(n + 1) -> Nat]
    BY <2>1, <2>3
  <2>5. \A i \in 0..n : g[i] = e[i]
    BY <2>1
  <2>6. g[n + 1] = g[n] + d
    BY <2>1, <2>5
  <2>7. \A i \in 0..(n + 1) : i \in 0..n \/ i = n + 1
    BY <2>1
  <2> HIDE DEF g
  <2>8. ASSUME NEW i \in 0..(n + 1)
        PROVE  g[i] = IF i = 0 THEN 0 ELSE g[i - 1] + Profile[i].duration
    <3>1. CASE i = n + 1
      BY <2>1, <2>6, <3>1 DEF d
    <3>2. CASE i = 0
      BY <2>1, <2>2, <2>5, <3>2 DEF Ends
    <3>3. CASE i # 0 /\ i # n + 1
      <4>1. i \in 0..n /\ i - 1 \in 0..n
        BY <2>1, <2>7, <3>3
      <4>2. e[i] = e[i - 1] + Profile[i].duration
        BY <2>2, <3>3, <4>1 DEF Ends
      <4> QED BY <2>5, <3>3, <4>1, <4>2
    <3> QED BY <3>1, <3>2, <3>3
  <2>9. Ends(g, n + 1)
    BY <2>4, <2>8 DEF Ends
  <2> QED BY <2>9
<1>3. N = Nat
  <2> HIDE DEF N
  <2>1. N \in SUBSET Nat /\ \A n \in N : n + 1 \in N
    BY <1>2 DEF N
  <2> QED BY <1>1, <2>1, AllNumbers
<1>4. k \in Nat /\ k <= Len(Profile)
  BY ProfileFacts
<1> QED BY <1>3, <1>4

\* There is one such function.
LEMMA EndsUnique ==
  ASSUME NEW n \in Nat, NEW e, Ends(e, n), NEW k \in 0..n, NEW f, DOMAIN f = 0..k,
         \A i \in 0..k : f[i] = IF i = 0 THEN 0 ELSE f[i - 1] + Profile[i].duration
  PROVE  f[k] = e[k]
<1> DEFINE N == {i \in Nat : i <= k => f[i] = e[i]}
<1>1. 0 \in N
  BY DEF Ends
<1>2. ASSUME NEW i \in N PROVE i + 1 \in N
  <2> SUFFICES ASSUME i + 1 <= k PROVE f[i + 1] = e[i + 1]
    OBVIOUS
  <2>1. i \in Nat /\ i + 1 \in 0..k /\ i + 1 \in 0..n /\ i + 1 # 0 /\ (i + 1) - 1 = i /\ f[i] = e[i]
    OBVIOUS
  <2>2. f[i + 1] = f[(i + 1) - 1] + Profile[i + 1].duration
    BY <2>1
  <2>3. e[i + 1] = e[(i + 1) - 1] + Profile[i + 1].duration
    BY <2>1 DEF Ends
  <2> QED BY <2>1, <2>2, <2>3
<1>3. N = Nat
  <2> HIDE DEF N
  <2>1. N \in SUBSET Nat /\ \A i \in N : i + 1 \in N
    BY <1>2 DEF N
  <2> QED BY <1>1, <2>1, AllNumbers
<1> QED BY <1>3

\* StageEnd adds up the durations.
LEMMA StageEndFacts ==
  /\ StageEnd(Profile, 0) = 0
  /\ \A k \in 0..Len(Profile) : StageEnd(Profile, k) \in Nat
  /\ \A k \in 1..Len(Profile) :
       StageEnd(Profile, k) = StageEnd(Profile, k - 1) + Profile[k].duration
<1> DEFINE n == Len(Profile)
<1>1. n \in Nat \ {0}
  BY ProfileFacts
<1>2. PICK e : Ends(e, n)
  BY <1>1, EndsExist
<1> HIDE DEF n
<1>3. ASSUME NEW k \in 0..n PROVE StageEnd(Profile, k) = e[k]
  <2> DEFINE Is(f) == f = [i \in 0..k |-> IF i = 0 THEN 0 ELSE f[i - 1] + Profile[i].duration]
             c == CHOOSE f : Is(f)
  <2>1. PICK g : Ends(g, k)
    BY EndsExist DEF n
  <2>2. Is(g)
    BY <2>1 DEF Ends
  <2>3. Is(c)
    <3> HIDE DEF Is
    <3> QED BY <2>2
  <2>4. StageEnd(Profile, k) = c[k]
    BY DEF StageEnd
  <2> HIDE DEF c
  <2>5. /\ DOMAIN c = 0..k
        /\ \A i \in 0..k : c[i] = IF i = 0 THEN 0 ELSE c[i - 1] + Profile[i].duration
    BY <2>3
  <2>6. c[k] = e[k]
    BY <1>1, <1>2, <2>5, EndsUnique
  <2> QED BY <2>4, <2>6
<1>4. 0 \in 0..n /\ \A k \in 1..n : k \in 0..n /\ k - 1 \in 0..n /\ k # 0
  BY <1>1
<1>5. StageEnd(Profile, 0) = 0 /\ \A k \in 0..n : StageEnd(Profile, k) \in Nat
  BY <1>2, <1>3, <1>4 DEF Ends
<1>6. ASSUME NEW k \in 1..n
      PROVE  StageEnd(Profile, k) = StageEnd(Profile, k - 1) + Profile[k].duration
  BY <1>2, <1>3, <1>4 DEF Ends
<1> QED BY <1>5, <1>6 DEF n

\* A point between two numbers, rounded.
LEMMA RoundNatural ==
  ASSUME NEW a \in Nat, NEW b \in Nat, NEW d \in Nat \ {0}, NEW i \in 0..d
  PROVE  Round(a * d + (b - a) * i, d) \in Nat
<1> DEFINE x == a * (d - i)
           y == b * i
<1>1. d - i \in Nat /\ i \in Nat
  OBVIOUS
<1>2. x \in Nat /\ y \in Nat
  BY <1>1
<1>3. a * d + (b - a) * i = x + y
  BY <1>1
<1> HIDE DEF x, y
<1> DEFINE m == x + y
           u == 2 * m + d
           v == 2 * d
<1>4. m \in Nat /\ u \in Nat /\ v \in Nat \ {0}
  BY <1>2
<1>5. Round(m, d) = u \div v
  BY DEF Round
<1> HIDE DEF m, u, v
<1>6. u \div v \in Nat
  BY <1>4
<1> QED BY <1>3, <1>5, <1>6 DEF m

\* The target of a run is a number at every tick, and so is an agent's share.
LEMMA StageTargetNumber ==
  /\ Horizon \in Nat
  /\ \A t \in 0..Horizon : StageTarget[t] \in Nat
<1> DEFINE n == Len(Profile)
<1>1. /\ n \in Nat \ {0}
      /\ \A i \in 1..n : Profile[i].duration \in Nat \ {0} /\ Profile[i].target \in Nat
  BY ProfileFacts
<1>2. /\ StageEnd(Profile, 0) = 0
      /\ \A k \in 0..n : StageEnd(Profile, k) \in Nat
      /\ \A k \in 1..n : StageEnd(Profile, k) = StageEnd(Profile, k - 1) + Profile[k].duration
  BY StageEndFacts
<1> HIDE DEF n
<1>3. Horizon \in Nat
  BY <1>1, <1>2 DEF Horizon, n
<1>4. \A k \in 1..(n + 1) : StageFrom(Profile, k) \in Nat
  <2> SUFFICES ASSUME NEW k \in 1..(n + 1) PROVE StageFrom(Profile, k) \in Nat
    OBVIOUS
  <2>1. k = 1 \/ k - 1 \in 1..n
    BY <1>1
  <2> QED BY <1>1, <2>1 DEF StageFrom
<1>5. ASSUME NEW t \in Nat PROVE TargetAt(Profile, t) \in Nat
  <2> DEFINE Later == {k \in 1..n : t < StageEnd(Profile, k)}
             k == CHOOSE i \in Later : \A j \in Later : i <= j
             from == StageFrom(Profile, k)
             d == Profile[k].duration
             a == t - StageEnd(Profile, k - 1)
  <2>1. TargetAt(Profile, t) = IF Later = {} THEN StageFrom(Profile, n + 1)
                               ELSE Round(from * d + (Profile[k].target - from) * a, d)
    BY DEF TargetAt, n
  <2>2. CASE Later = {}
    <3>1. n + 1 \in 1..(n + 1)
      BY <1>1
    <3> QED BY <1>4, <2>1, <2>2, <3>1
  <2>3. CASE Later # {}
    <3>1. Later \in SUBSET Nat
      BY <1>1
    <3>2. \E i \in Later : \A j \in Later : i <= j
      <4> HIDE DEF Later
      <4> QED BY <2>3, <3>1, LeastNumber
    <3>3. k \in Later /\ \A j \in Later : k <= j
      <4> HIDE DEF Later
      <4> QED BY <3>2
    <3> HIDE DEF k
    <3>4. k \in 1..n /\ t < StageEnd(Profile, k) /\ k - 1 \in 0..n /\ k \in 0..n
      BY <1>1, <3>3
    <3>5. StageEnd(Profile, k - 1) <= t
      <4>1. CASE k = 1
        BY <1>2, <4>1
      <4>2. CASE k # 1
        <5>1. k - 1 \in 1..n /\ ~(k <= k - 1)
          BY <1>1, <3>4, <4>2
        <5>2. k - 1 \notin Later
          BY <3>3, <5>1
        <5>3. ~(t < StageEnd(Profile, k - 1)) /\ StageEnd(Profile, k - 1) \in Nat
          BY <1>2, <3>4, <5>1, <5>2
        <5> QED BY <5>3
      <4> QED BY <4>1, <4>2
    <3>6. /\ d \in Nat \ {0} /\ Profile[k].target \in Nat /\ from \in Nat
      <4>1. k \in 1..(n + 1)
        BY <1>1, <3>4
      <4> QED BY <1>1, <1>4, <3>4, <4>1
    <3>7. a \in 0..d
      BY <1>2, <3>4, <3>5, <3>6
    <3> HIDE DEF from, d, a, Later
    <3>8. Round(from * d + (Profile[k].target - from) * a, d) \in Nat
      BY <3>6, <3>7, RoundNatural
    <3> QED BY <2>1, <2>3, <3>8
  <2> QED BY <2>2, <2>3
<1>6. ASSUME NEW t \in 0..Horizon PROVE StageTarget[t] \in Nat
  <2> DEFINE m == TargetAt(Profile, t)
  <2>1. m \in Nat
    BY <1>3, <1>5
  <2>2. StageTarget[t] = Split(m, ShareIndex, ShareAgents)
    BY DEF StageTarget
  <2> HIDE DEF m
  <2>3. ShareAgents \in Nat \ {0}
    BY StagesAssumption
  <2>4. m \div ShareAgents \in Nat
    BY <2>1, <2>3
  <2> QED BY <2>2, <2>4 DEF Split
<1> QED BY <1>3, <1>6

StageAllPC == LifecyclePC \cup StreamPC

StageTypes ==
  /\ claimed \in Nat
  /\ stats \in Stats
  /\ childTok \in [Workers -> BOOLEAN]
  /\ pc \in [Workers -> StageAllPC]

\* The ids are given out in order, the stack holds each of them at most once,
\* and the token of a worker that was not started has not fired.
StackOK ==
  /\ elapsed \in Int /\ elapsed >= -1
  /\ NextId \in Nat /\ Started = 0..(NextId - 1)
  /\ open \in Seq(Nat)
  /\ \A i \in 1..Len(open) : open[i] \in Started
  /\ \A i, j \in 1..Len(open) : open[i] = open[j] => i = j
  /\ \A w \in Workers \ Started : ~childTok[w]

\* A worker of the stack was stopped by the limit or not at all.
StackRuns == \A i \in 1..Len(open) : childTok[open[i]] => MaxRequestsReached

StageInv ==
  /\ StageTypes
  /\ GaugeIsOpenSessions
  /\ ClaimsCover
  /\ StackOK
  /\ StackRuns

----------------------------------------------------------------------------
(* The steps of the workers.                                               *)

\* A step of worker w from its control point to l, which sends n messages and
\* changes the gauge with the connection.
Moves(w, l, n) ==
  /\ l \in StageAllPC \ {"idle"} /\ n \in {0, 1} /\ pc[w] # "idle"
  /\ pc' = [pc EXCEPT ![w] = l]
  /\ stats' \in Stats
  /\ stats'.live["active"]
       = stats.live["active"] + (Weight(pc[w], Outside) - Weight(l, Outside))
  /\ stats'.live["sent"] = stats.live["sent"] + n

\* A worker fires its own token only when the limit is used up.
StopsAtLimit(w) ==
  /\ childTok' \in [Workers -> BOOLEAN]
  /\ \A v \in Workers : childTok'[v] =>
       childTok[v] \/ (v = w /\ MaxRequestsReached)

\* A step of a worker that does no more than that keeps the invariant.
LEMMA WorkerMove ==
  ASSUME StageInv, NEW w \in Workers, NEW l, NEW n, Moves(w, l, n), UsesClaim(w, l, n),
         StopsAtLimit(w), UNCHANGED <<drv, elapsed, open>>
  PROVE  StageInv'
<1>1. /\ claimed \in Nat /\ MaxRequests \in Nat /\ Capped \in BOOLEAN
      /\ stats \in Stats /\ stats' \in Stats /\ pc \in [Workers -> StageAllPC]
      /\ stats.live["sent"] \in Nat /\ stats.live["active"] \in Nat
      /\ n \in {0, 1} /\ l \in StageAllPC
  BY LimitAssumption DEF StageInv, StageTypes, Moves, Stats, LiveCounters
<1>2. claimed' \in Nat /\ claimed <= claimed' /\ ClaimsCover'
  <2>1. pc' = [pc EXCEPT ![w] = l] /\ stats'.live["sent"] = stats.live["sent"] + n /\ ClaimsCover
    BY DEF Moves, StageInv
  <2> QED BY <1>1, <2>1, ClaimsMove
<1>3. StageTypes'
  BY <1>1, <1>2 DEF StageTypes, Moves, StopsAtLimit
<1>4. \A x, P : Weight(x, P) \in {0, 1}
  BY DEF Weight
<1>5. GaugeIsOpenSessions'
  <2> DEFINE a == Weight(pc[w], Outside) - Weight(l, Outside)
  <2>1. a \in {-1, 0, 1} /\ a + Weight(l, Outside) = Weight(pc[w], Outside)
    BY <1>4
  <2>2. /\ stats'.live["active"] = stats.live["active"] + a
        /\ pc' = [pc EXCEPT ![w] = l] /\ GaugeIsOpenSessions
    BY DEF Moves, StageInv
  <2> HIDE DEF a
  <2> QED BY <1>1, <2>1, <2>2, GaugeMove
<1>6. Started' = Started
  BY <1>1 DEF Started, Moves
<1>7. MaxRequestsReached => MaxRequestsReached'
  BY <1>1, <1>2 DEF MaxRequestsReached
<1>8. w \in Started /\ Started \subseteq Workers
  BY DEF Started, Moves
<1>9. StackOK'
  BY <1>6, <1>8 DEF StageInv, StackOK, NextId, StopsAtLimit
<1>10. StackRuns'
  <2>1. \A i \in 1..Len(open) : open[i] \in Workers
    BY <1>8 DEF StageInv, StackOK
  <2> QED BY <1>7, <2>1 DEF StageInv, StackRuns, StopsAtLimit
<1> QED BY <1>2, <1>3, <1>5, <1>9, <1>10 DEF StageInv

\* Every step of the lifecycle keeps the invariant.
LEMMA StageLifecycleStep ==
  ASSUME StageInv, NEW w \in Workers, Lifecycle(w), UNCHANGED <<drv, elapsed, open>>
  PROVE  StageInv'
<1>1. PICK l : LifecycleEffect(w, l)
  BY LifecycleHasEffect DEF StageInv, StageTypes
<1>2. stats \in Stats /\ stats.live["sent"] \in Nat
  BY DEF StageInv, StageTypes, Stats, LiveCounters
<1>3. Moves(w, l, 0)
  BY <1>1, <1>2 DEF LifecycleEffect, Moves, Change, StageAllPC, LifecyclePC
<1>4. UsesClaim(w, l, 0)
  BY <1>1 DEF LifecycleEffect, UsesClaim, Weight, ClaimedPC, LifecyclePC
<1>5. StopsAtLimit(w)
  BY <1>1 DEF LifecycleEffect, StopsAtLimit, StageInv, StageTypes
<1> QED BY <1>3, <1>4, <1>5, WorkerMove

\* A step inside a session, which keeps the connection open.
LEMMA StreamMove ==
  ASSUME StageInv, NEW w \in Workers, NEW l \in StreamPC \cup {"top", "ended"}, NEW n \in {0, 1},
         pc[w] \in StreamPC \cup {"top"}, pc' = [pc EXCEPT ![w] = l],
         Change(stats, stats', w, 0, 0, n, 0, 0) \/ Change(stats, stats', w, 0, 0, n, 1, 0),
         UsesClaim(w, l, n), StopsAtLimit(w), UNCHANGED <<drv, elapsed, open>>
  PROVE  StageInv'
<1>1. /\ l \in StageAllPC \ {"idle"} /\ pc[w] # "idle"
      /\ Weight(pc[w], Outside) - Weight(l, Outside) = 0
  BY DEF StageAllPC, StreamPC, LifecyclePC, Weight, Outside
<1>2. Moves(w, l, n)
  BY <1>1 DEF Moves, Change
<1> QED BY <1>2, WorkerMove

\* Every step of run_stream_loop keeps the invariant.
LEMMA StreamStep ==
  ASSUME StageInv, NEW w \in Workers, StreamSession(w), UNCHANGED <<drv, elapsed, open>>
  PROVE  StageInv'
<1>1. /\ stats \in Stats /\ childTok \in [Workers -> BOOLEAN] /\ pc = [pc EXCEPT ![w] = pc[w]]
  BY DEF StageInv, StageTypes
<1>2. /\ \A l \in {"top", "ended", "think"} : Weight(l, ClaimedPC) = 0
      /\ \A l \in {"delay", "send"} : Weight(l, ClaimedPC) = 1
      /\ {"delay", "send", "think"} \subseteq StreamPC
  BY DEF Weight, ClaimedPC, StreamPC
<1>3. UNCHANGED childTok => StopsAtLimit(w)
  BY <1>1 DEF StopsAtLimit
<1>4. ASSUME NEW l \in {"top", "ended", "send", "delay", "think"}, NEW n \in {0, 1},
             pc[w] \in {"top", "send", "delay", "think"}, pc' = [pc EXCEPT ![w] = l],
             Change(stats, stats', w, 0, 0, n, 0, 0) \/ Change(stats, stats', w, 0, 0, n, 1, 0),
             UsesClaim(w, l, n), StopsAtLimit(w)
      PROVE  StageInv'
  BY <1>2, <1>4, StreamMove
<1>5. CASE StreamLimitReached(w)
  <2>1. pc[w] = "top" /\ ClaimSend /\ MaxRequestsReached /\ pc' = [pc EXCEPT ![w] = "ended"]
    <3>1. claimed \in Nat /\ MaxRequests \in Nat
      BY LimitAssumption DEF StageInv, StageTypes
    <3> QED BY <1>5, <3>1 DEF StreamLimitReached, Tick, Goto, ClaimSucceeds, MaxRequestsReached
  <2>2. StopsAtLimit(w)
    BY <1>1, <1>5, <2>1 DEF StreamLimitReached, CancelSelf, StopsAtLimit
  <2>3. Change(stats, stats', w, 0, 0, 0, 0, 0)
    BY <1>1, <1>5, Changes DEF StreamLimitReached
  <2>4. UsesClaim(w, "ended", 0)
    BY <1>2, <2>1 DEF UsesClaim
  <2> QED BY <1>4, <2>1, <2>2, <2>3, <2>4
<1>6. CASE StreamClaim(w)
  <2>1. PICK l \in {"send", "delay", "top"} : pc' = [pc EXCEPT ![w] = l]
    BY <1>1, <1>6 DEF StreamClaim, Goto, Tick
  <2>2. Change(stats, stats', w, 0, 0, 0, 0, 0)
    BY <1>1, <1>6, Changes DEF StreamClaim
  <2>3. UsesClaim(w, l, 0)
    BY <1>2, <1>6 DEF StreamClaim, Tick, UsesClaim
  <2>4. pc[w] = "top" /\ StopsAtLimit(w)
    BY <1>3, <1>6 DEF StreamClaim, Tick
  <2> QED BY <1>4, <2>1, <2>2, <2>3, <2>4
<1>7. CASE StreamSleep(w)
  <2>1. PICK l \in {"send", "top", "ended"} :
          /\ pc' = [pc EXCEPT ![w] = l]
          /\ pc[w] = "delay" \/ (pc[w] = "think" /\ l # "send")
    BY <1>7 DEF StreamSleep, Goto
  <2>2. Change(stats, stats', w, 0, 0, 0, 0, 0) /\ StopsAtLimit(w)
    BY <1>1, <1>3, <1>7, Changes DEF StreamSleep
  <2>3. UsesClaim(w, l, 0)
    BY <1>2, <1>7, <2>1 DEF StreamSleep, UsesClaim
  <2> QED BY <1>4, <2>1, <2>2, <2>3
<1>8. CASE StreamSend(w)
  <2>1. pc[w] = "send" /\ claimed' = claimed /\ StopsAtLimit(w)
    BY <1>3, <1>8 DEF StreamSend
  <2>2. PICK l \in {"think", "ended"}, n \in {0, 1} :
          pc' = [pc EXCEPT ![w] = l] /\ Change(stats, stats', w, 0, 0, n, 0, 0)
    BY <1>1, <1>8, Changes DEF StreamSend, Goto
  <2>3. UsesClaim(w, l, n)
    BY <1>2, <2>1, <2>2 DEF UsesClaim
  <2> QED BY <1>4, <2>1, <2>2, <2>3
<1>9. CASE StreamRecv(w)
  <2>1. pc[w] = "top" /\ claimed' = claimed /\ StopsAtLimit(w) /\ pc' = [pc EXCEPT ![w] = "top"]
    BY <1>1, <1>3, <1>9 DEF StreamRecv
  <2>2. Change(stats, stats', w, 0, 0, 0, 1, 0)
    BY <1>1, <1>9, Changes DEF StreamRecv
  <2>3. UsesClaim(w, "top", 0)
    BY <1>2, <2>1 DEF UsesClaim
  <2> QED BY <1>4, <2>1, <2>2, <2>3
<1>10. CASE StreamLost(w) \/ StreamCancelled(w)
  <2>1. /\ pc[w] = "top" /\ claimed' = claimed /\ StopsAtLimit(w)
        /\ pc' = [pc EXCEPT ![w] = "ended"]
    BY <1>3, <1>10 DEF StreamLost, StreamCancelled, Goto
  <2>2. Change(stats, stats', w, 0, 0, 0, 0, 0)
    BY <1>1, <1>10, Changes DEF StreamLost, StreamCancelled
  <2>3. UsesClaim(w, "ended", 0)
    BY <1>2, <2>1 DEF UsesClaim
  <2> QED BY <1>4, <2>1, <2>2, <2>3
<1> QED BY <1>5, <1>6, <1>7, <1>8, <1>9, <1>10 DEF StreamSession, StreamOwn

----------------------------------------------------------------------------
(* A round of the loop.                                                    *)

\* A round of run_stages keeps the invariant: what it starts is new, and what
\* it stops leaves the stack.
LEMMA TickStep ==
  ASSUME StageInv, StageTick
  PROVE  StageInv'
<1>1. PICK t \in (elapsed + 1)..Horizon :
        LET wanted == StageTarget[t]
            new == NextId..(NextId + wanted - Len(open) - 1)
            dropped == {open[i] : i \in (wanted + 1)..Len(open)}
        IN /\ elapsed' = t
           /\ new \subseteq Workers
           /\ pc' = [w \in Workers |-> IF w \in new THEN "build" ELSE pc[w]]
           /\ childTok' = [w \in Workers |-> childTok[w] \/ w \in dropped]
           /\ open' = IF wanted <= Len(open) THEN SubSeq(open, 1, wanted)
                      ELSE open \o [i \in 1..(wanted - Len(open)) |-> NextId + i - 1]
  BY DEF StageTick
<1> DEFINE wanted == StageTarget[t]
           len == Len(open)
           id == NextId
           new == id..(id + wanted - len - 1)
           dropped == {open[i] : i \in (wanted + 1)..len}
<1>2. /\ elapsed' = t /\ new \subseteq Workers
      /\ pc' = [w \in Workers |-> IF w \in new THEN "build" ELSE pc[w]]
      /\ childTok' = [w \in Workers |-> childTok[w] \/ w \in dropped]
      /\ open' = IF wanted <= len THEN SubSeq(open, 1, wanted)
                 ELSE open \o [i \in 1..(wanted - len) |-> id + i - 1]
      /\ UNCHANGED <<claimed, stats, runTok, connected, drv>>
  BY <1>1 DEF StageTick
<1>3. /\ elapsed \in Int /\ elapsed >= -1 /\ Horizon \in Nat /\ t \in 0..Horizon
      /\ wanted \in Nat /\ len \in Nat /\ id \in Nat
      /\ open \in Seq(Nat) /\ Started = 0..(id - 1) /\ Started \subseteq Workers
  <2>1. /\ elapsed \in Int /\ elapsed >= -1 /\ Horizon \in Nat
    BY StageTargetNumber DEF StageInv, StackOK
  <2>2. t \in 0..Horizon
    BY <2>1
  <2>3. wanted \in Nat
    BY <2>2, StageTargetNumber
  <2> QED BY <2>1, <2>2, <2>3, LenProperties DEF StageInv, StackOK, Started
<1>4. /\ \A i \in 1..len : open[i] \in Started /\ open[i] \in Nat /\ open[i] < id
      /\ \A i, j \in 1..len : open[i] = open[j] => i = j
  BY <1>3 DEF StageInv, StackOK
<1>5. \A w \in new : w \notin Started /\ w \in Workers /\ pc[w] = "idle" /\ ~childTok[w]
  <2>1. \A w \in new : w \in Workers /\ w \in Nat /\ w >= id
    <3> HIDE DEF id, wanted, len
    <3> QED BY <1>2, <1>3
  <2>2. \A w \in new : w \notin Started
    <3> HIDE DEF id, new
    <3> QED BY <1>3, <2>1
  <2>3. \A w \in Workers \ Started : pc[w] = "idle" /\ ~childTok[w]
    BY DEF StageInv, StackOK, Started
  <2> HIDE DEF new
  <2> QED BY <2>1, <2>2, <2>3
<1>6. /\ childTok \in [Workers -> BOOLEAN] /\ pc \in [Workers -> StageAllPC]
      /\ \A i \in 1..len : childTok[open[i]] => MaxRequestsReached
      /\ \A w \in Workers \ Started : ~childTok[w]
  BY DEF StageInv, StageTypes, StackOK, StackRuns
<1> HIDE DEF wanted, len, id, new, dropped
<1>7. StageTypes'
  <2>1. pc' \in [Workers -> StageAllPC]
    BY <1>2, <1>6 DEF StageAllPC, LifecyclePC
  <2>2. childTok' \in [Workers -> BOOLEAN]
    BY <1>2
  <2> QED BY <1>2, <2>1, <2>2 DEF StageInv, StageTypes
<1>8. OpenSessions' = OpenSessions /\ Claimers' = Claimers
  <2>1. "build" \in Outside /\ "idle" \in Outside /\ "build" \notin ClaimedPC
        /\ "idle" \notin ClaimedPC
    BY DEF Outside, ClaimedPC
  <2> QED BY <1>2, <1>5, <2>1 DEF OpenSessions, Claimers
<1>9. GaugeIsOpenSessions' /\ ClaimsCover'
  BY <1>2, <1>8 DEF StageInv, GaugeIsOpenSessions, ClaimsCover
<1>10. Started' = Started \cup new
  BY <1>2, <1>5 DEF Started
<1>11. CASE wanted <= len
  <2>1. new = {}
    BY <1>3, <1>11 DEF new
  <2>2. Started' = Started /\ NextId' = NextId
    BY <1>10, <2>1 DEF NextId
  <2>3. /\ open' \in Seq(Nat) /\ Len(open') = wanted
        /\ \A i \in 1..wanted : open'[i] = open[i] /\ i \in 1..len
    <3>1. \A i \in 1..wanted : i \in 1..len /\ open[i] \in Nat
      BY <1>3, <1>4, <1>11
    <3>2. open' = SubSeq(open, 1, wanted)
      BY <1>2, <1>11
    <3>3. 1 \in Int /\ wanted \in Int
      BY <1>3
    <3>4. /\ SubSeq(open, 1, wanted) \in Seq(Nat)
          /\ Len(SubSeq(open, 1, wanted)) = IF 1 <= wanted THEN wanted - 1 + 1 ELSE 0
          /\ \A i \in 1..wanted - 1 + 1 : SubSeq(open, 1, wanted)[i] = open[1 + i - 1]
      BY <3>1, <3>3, SubSeqProperties
    <3>5. wanted - 1 + 1 = wanted /\ \A i \in 1..wanted : 1 + i - 1 = i
      BY <1>3
    <3> QED BY <1>3, <3>1, <3>2, <3>4, <3>5
  <2>4. \A w \in dropped : w \in Started
    BY <1>3, <1>4 DEF dropped
  <2>5. \A i \in 1..wanted : open[i] \notin dropped
    BY <1>3, <1>4, <2>3 DEF dropped
  <2>6. elapsed' \in Int /\ elapsed' >= -1
    BY <1>2, <1>3
  <2>7. StackOK'
    <3>1. \A i \in 1..Len(open') : open'[i] \in Started'
      BY <1>4, <2>2, <2>3
    <3>2. \A i, j \in 1..Len(open') : open'[i] = open'[j] => i = j
      BY <1>4, <2>3
    <3>3. \A w \in Workers \ Started' : ~childTok'[w]
      BY <1>2, <1>6, <2>2, <2>4
    <3>4. NextId' \in Nat /\ Started' = 0..(NextId' - 1)
      BY <1>3, <2>2 DEF id
    <3> QED BY <2>3, <2>6, <3>1, <3>2, <3>3, <3>4 DEF StackOK
  <2>8. StackRuns'
    <3> SUFFICES ASSUME NEW i \in 1..wanted, childTok'[open'[i]] PROVE MaxRequestsReached'
      BY <2>3 DEF StackRuns
    <3>1. open[i] \in Workers /\ open'[i] = open[i] /\ i \in 1..len
      BY <1>3, <1>4, <2>3
    <3>2. childTok[open[i]]
      BY <1>2, <2>5, <3>1
    <3> QED BY <1>2, <1>6, <3>1, <3>2 DEF MaxRequestsReached
  <2> QED BY <1>7, <1>9, <2>7, <2>8 DEF StageInv
<1>12. CASE wanted > len
  <2>1. dropped = {} /\ childTok' = childTok
    <3>1. dropped = {}
      BY <1>3, <1>12 DEF dropped
    <3>2. childTok' = [w \in Workers |-> childTok[w]]
      BY <1>2, <1>6, <3>1
    <3> QED BY <1>6, <3>1, <3>2
  <2>2. Started' = 0..(id + wanted - len - 1)
    BY <1>3, <1>10, <1>12 DEF new
  <2>3. NextId' = id + wanted - len
    <3>1. 0 \in Int /\ id + wanted - len - 1 \in Int /\ ~(0 > id + wanted - len - 1)
      BY <1>3, <1>12
    <3>2. Cardinality(0..(id + wanted - len - 1)) = (id + wanted - len - 1) - 0 + 1
      BY <3>1, FS_Interval
    <3>3. (id + wanted - len - 1) - 0 + 1 = id + wanted - len
      BY <1>3
    <3> QED BY <2>2, <3>2, <3>3 DEF NextId
  <2> DEFINE added == [i \in 1..(wanted - len) |-> id + i - 1]
  <2>4. added \in Seq(Nat) /\ Len(added) = wanted - len
    <3>1. wanted - len \in Nat /\ \A i \in 1..(wanted - len) : id + i - 1 \in Nat
      BY <1>3, <1>12
    <3> QED BY <3>1
  <2>5. \A i \in 1..(wanted - len) : added[i] = id + i - 1
    OBVIOUS
  <2>6. open' = open \o added
    BY <1>2, <1>3, <1>12
  <2> HIDE DEF added
  <2>7. /\ open' \in Seq(Nat) /\ Len(open') = wanted
        /\ \A i \in 1..wanted : open'[i] = IF i <= len THEN open[i] ELSE added[i - len]
    <3>1. /\ open \o added \in Seq(Nat) /\ Len(open \o added) = len + Len(added)
          /\ \A i \in 1..len + Len(added) :
               (open \o added)[i] = IF i <= len THEN open[i] ELSE added[i - len]
      BY <1>3, <2>4, ConcatProperties DEF len
    <3>2. len + Len(added) = wanted
      BY <1>3, <2>4
    <3> QED BY <2>6, <3>1, <3>2
  <2>8. \A i \in 1..wanted :
          /\ i <= len => i \in 1..len /\ open'[i] = open[i]
          /\ ~(i <= len) => open'[i] = id + (i - len) - 1 /\ open'[i] \in new
    <3> SUFFICES ASSUME NEW i \in 1..wanted
                 PROVE  /\ i <= len => i \in 1..len /\ open'[i] = open[i]
                        /\ ~(i <= len) => open'[i] = id + (i - len) - 1 /\ open'[i] \in new
      OBVIOUS
    <3>1. CASE i <= len
      BY <1>3, <2>7, <3>1
    <3>2. CASE ~(i <= len)
      <4>1. i - len \in 1..(wanted - len)
        BY <1>3, <3>2
      <4>2. open'[i] = id + (i - len) - 1
        BY <2>5, <2>7, <3>2, <4>1
      <4> QED BY <1>3, <3>2, <4>1, <4>2 DEF new
    <3> QED BY <3>1, <3>2
  <2>9. StackOK'
    <3>1. \A i \in 1..Len(open') : open'[i] \in Started'
      BY <1>4, <1>10, <2>7, <2>8
    <3>2. ASSUME NEW i \in 1..Len(open'), NEW j \in 1..Len(open'), open'[i] = open'[j]
          PROVE  i = j
      <4>1. \A k \in 1..wanted : /\ k <= len => open'[k] < id
                                 /\ ~(k <= len) => open'[k] >= id
        BY <1>3, <1>4, <2>8
      <4>2. CASE i <= len /\ j <= len
        BY <1>4, <2>7, <2>8, <3>2, <4>2
      <4>3. CASE ~(i <= len) /\ ~(j <= len)
        BY <1>3, <2>7, <2>8, <3>2, <4>3
      <4>4. CASE (i <= len) # (j <= len)
        <5>1. open'[i] \in Nat /\ open'[j] \in Nat
          BY <2>7, ElementOfSeq
        <5> QED BY <1>3, <2>7, <3>2, <4>1, <4>4, <5>1
      <4> QED BY <4>2, <4>3, <4>4
    <3>3. \A w \in Workers \ Started' : ~childTok'[w]
      BY <1>6, <1>10, <2>1
    <3>4. NextId' \in Nat /\ Started' = 0..(NextId' - 1)
      BY <1>3, <1>12, <2>2, <2>3
    <3>5. elapsed' \in Int /\ elapsed' >= -1
      BY <1>2, <1>3
    <3> QED BY <2>7, <3>1, <3>2, <3>3, <3>4, <3>5 DEF StackOK
  <2>10. StackRuns'
    <3> SUFFICES ASSUME NEW i \in 1..wanted, childTok'[open'[i]] PROVE MaxRequestsReached'
      BY <2>7 DEF StackRuns
    <3>1. i <= len
      BY <1>5, <2>1, <2>8
    <3>2. childTok[open[i]] /\ i \in 1..len
      BY <2>1, <2>8, <3>1
    <3> QED BY <1>2, <1>6, <3>2 DEF MaxRequestsReached
  <2> QED BY <1>7, <1>9, <2>9, <2>10 DEF StageInv
<1> QED BY <1>3, <1>11, <1>12

----------------------------------------------------------------------------
\* The invariant holds in every reachable state.
THEOREM StageRunInvariant == Spec => []StageInv
<1>1. Init => StageInv
  <2> SUFFICES ASSUME Init PROVE StageInv
    OBVIOUS
  <2>1. /\ claimed = 0 /\ stats = NoStats /\ pc = [w \in Workers |-> "idle"]
        /\ childTok = [w \in Workers |-> FALSE] /\ elapsed = -1 /\ open = <<>>
    BY DEF Init, StagesInit, DriveInit, WorkerInit, MetricsInit
  <2>2. /\ stats \in Stats /\ stats.live["active"] = 0 /\ stats.live["sent"] = 0
    BY <2>1 DEF NoStats, Stats, LiveCounters, WorkerCounters
  <2>3. StageTypes
    BY <2>1, <2>2 DEF StageTypes, StageAllPC, LifecyclePC
  <2>4. OpenSessions = {} /\ Claimers = {} /\ Started = {} /\ Cardinality({}) = 0
    BY <2>1, FS_EmptySet DEF OpenSessions, Outside, Claimers, ClaimedPC, Started
  <2>5. GaugeIsOpenSessions /\ ClaimsCover
    BY <2>1, <2>2, <2>4, LimitAssumption DEF GaugeIsOpenSessions, ClaimsCover
  <2>6. open \in Seq(Nat) /\ Len(open) = 0 /\ \A i \in 1..Len(open) : FALSE
    BY <2>1, EmptySeq
  <2>7. NextId = 0 /\ Started = 0..(NextId - 1)
    BY <2>4 DEF NextId
  <2>8. StackOK /\ StackRuns
    BY <2>1, <2>6, <2>7 DEF StackOK, StackRuns
  <2> QED BY <2>3, <2>5, <2>8 DEF StageInv
<1>2. StageInv /\ [Next]_vars => StageInv'
  <2> SUFFICES ASSUME StageInv, [Next]_vars PROVE StageInv'
    OBVIOUS
  <2>1. CASE UNCHANGED <<claimed, stats, childTok, pc, elapsed, open>>
    BY <2>1 DEF StageInv, StageTypes, GaugeIsOpenSessions, OpenSessions, ClaimsCover, Claimers,
       StackOK, NextId, Started, StackRuns, MaxRequestsReached
  <2>2. ASSUME NEW w \in Workers, WorkerStep(w) PROVE StageInv'
    BY <2>2, StageLifecycleStep, StreamStep DEF WorkerStep
  <2>3. CASE StageTick
    BY <2>3, TickStep
  <2>4. CASE \/ StagesStep \/ StagesTerminated \/ UNCHANGED vars
             \/ (DurationOrSignal \/ RequestWatcher) /\ UNCHANGED <<elapsed, open>>
    BY <2>1, <2>4 DEF StagesStep, StagesOver, WaitUntilDone, JoinWorkers, DurationOrSignal,
       RequestWatcher, CancelRun, StagesTerminated, vars, stageVars, driveVars, workerVars
  <2> QED BY <2>2, <2>3, <2>4 DEF Next, StagesDrive
<1> QED BY <1>1, <1>2, PTL DEF Spec

\* A worker the profile still wants is never stopped by a ramp-down meant for
\* another, whatever the profile and however many ticks the loop misses: ids
\* are never reused and the stack holds each at most once.
THEOREM StageKeepsWorkers == Spec => []KeptWorkersRun
<1>1. StageInv => KeptWorkersRun
  <2> SUFFICES ASSUME StageInv, NEW i \in DOMAIN open, childTok[open[i]]
               PROVE  MaxRequestsReached
    BY DEF KeptWorkersRun
  <2>1. i \in 1..Len(open)
    BY LenProperties DEF StageInv, StackOK
  <2> QED BY <2>1 DEF StageInv, StackRuns
<1> QED BY <1>1, StageRunInvariant, PTL

----------------------------------------------------------------------------
(* The report.                                                             *)

\* A step of run_stream_loop or run_listen_loop stays inside its session and
\* records what the books expect.
LEMMA StreamRecords ==
  ASSUME NEW L, pc \in [Workers -> L], NEW w \in Workers, StreamSession(w)
  PROVE  /\ pc[w] \notin Outside /\ UNCHANGED connected
         /\ stats' \in SessionRecords(stats, w)
         /\ \E l : l \notin Outside /\ pc' = [pc EXCEPT ![w] = l]
<1>1. \A l \in {"top", "delay", "send", "think", "ended"} : l \notin Outside
  BY DEF Outside
<1>2. UNCHANGED pc => pc' = [pc EXCEPT ![w] = pc[w]]
  OBVIOUS
<1>3. CASE StreamLimitReached(w)
  BY <1>1, <1>3 DEF StreamLimitReached, Tick, Goto, SessionRecords
<1>4. CASE StreamClaim(w)
  BY <1>1, <1>2, <1>4 DEF StreamClaim, Tick, Goto, SessionRecords
<1>5. CASE StreamSleep(w)
  BY <1>1, <1>5 DEF StreamSleep, Goto, SessionRecords
<1>6. CASE StreamSend(w)
  BY <1>1, <1>6 DEF StreamSend, Goto, SessionRecords
<1>7. CASE StreamCancelled(w)
  BY <1>1, <1>7 DEF StreamCancelled, Goto, SessionRecords
<1>8. CASE StreamRecv(w)
  BY <1>1, <1>2, <1>8 DEF StreamRecv, SessionRecords
<1>9. CASE StreamLost(w)
  BY <1>1, <1>9 DEF StreamLost, Goto, SessionRecords
<1> QED BY <1>3, <1>4, <1>5, <1>6, <1>7, <1>8, <1>9 DEF StreamSession, StreamOwn

\* Every step of a worker keeps the books and reports none that still runs.
LEMMA WorkerReported ==
  ASSUME StageInv, Reported, NEW w \in Workers, WorkerStep(w)
  PROVE  Reported'
<1>1. /\ stats \in Stats /\ pc \in [Workers -> StageAllPC] /\ connected \in [Workers -> BOOLEAN]
      /\ GaugeIsOpenSessions /\ Slots /\ Joined /\ UNCHANGED drv
  BY DEF StageInv, StageTypes, Reported, WorkerStep
<1>2. CASE Lifecycle(w)
  <2>1. Slots'
    BY <1>1, <1>2, LifecycleBooks
  <2>2. PICK l : LifecycleEffect(w, l)
    BY <1>1, <1>2, LifecycleHasEffect
  <2>3. pc[w] \notin {"idle", "done"}
    BY <2>2 DEF LifecycleEffect
  <2>4. connected' \in [Workers -> BOOLEAN]
    BY <1>1, <1>2 DEF Lifecycle, BuildFails, BuildRequest, HandshakeCancelled, HandshakeOpen,
       HandshakeStaticError, HandshakeFails, SessionEnded, SessionFinished, BackoffOver,
       BackoffCancelled
  <2> QED BY <1>1, <2>1, <2>3, <2>4, JoinedKept DEF Reported
<1>3. CASE StreamSession(w)
  <2>1. /\ pc[w] \notin Outside /\ UNCHANGED connected
        /\ stats' \in SessionRecords(stats, w)
    BY <1>1, <1>3, StreamRecords
  <2>2. PICK l : l \notin Outside /\ pc' = [pc EXCEPT ![w] = l]
    BY <1>1, <1>3, StreamRecords
  <2>3. Slots'
    BY <1>1, <2>1, <2>2, SessionBooksKept
  <2>4. pc[w] \notin {"idle", "done"}
    BY <2>1 DEF Outside
  <2> QED BY <1>1, <2>1, <2>3, <2>4, JoinedKept DEF Reported
<1> QED BY <1>2, <1>3 DEF WorkerStep

\* A tick of run_stages starts workers that were idle.
LEMMA TickReported ==
  ASSUME StageInv, Reported, StageTick
  PROVE  Reported'
<1>1. PICK t \in (elapsed + 1)..Horizon :
        LET new == NextId..(NextId + StageTarget[t] - Len(open) - 1)
        IN /\ new \subseteq Workers
           /\ pc' = [w \in Workers |-> IF w \in new THEN "build" ELSE pc[w]]
  BY DEF StageTick
<1> DEFINE new == NextId..(NextId + StageTarget[t] - Len(open) - 1)
<1>2. /\ new \subseteq Workers /\ UNCHANGED <<stats, connected>> /\ drv' # "done"
      /\ pc' = [w \in Workers |-> IF w \in new THEN "build" ELSE pc[w]]
  BY <1>1 DEF StageTick
<1>3. \A w \in new : w >= NextId
  OBVIOUS
<1>4. NextId \in Nat /\ Started = 0..(NextId - 1)
  BY DEF StageInv, StackOK
<1>5. \A w \in new : w \notin Started
  BY <1>3, <1>4
<1> HIDE DEF new
<1>6. \A w \in new : pc[w] = "idle"
  BY <1>2, <1>5 DEF Started
<1>7. pc \in [Workers -> StageAllPC] /\ connected \in [Workers -> BOOLEAN] /\ Slots
  BY DEF StageInv, StageTypes, Reported
<1>8. Slots'
  BY <1>2, <1>6, <1>7, SpawnBooks
<1> QED BY <1>2, <1>7, <1>8 DEF Reported, Joined

\* The books of a staged run, for every profile: the gauge counts the open
\* sessions while workers are started and ramped down, no more than --requests
\* is sent, and the report puts every worker started in its class, the ones
\* ramped down during their first handshake included.
THEOREM StageBooksExact == Spec => []StageBooks
<1>1. Init => Reported
  <2> SUFFICES ASSUME Init PROVE Reported
    OBVIOUS
  <2>1. WorkerInit /\ drv = "ramp"
    BY DEF Init, StagesInit, DriveInit
  <2>2. connected \in [Workers -> BOOLEAN]
    BY <2>1 DEF WorkerInit
  <2> QED BY <2>1, <2>2, BooksInit DEF Reported, Books, Joined
<1>2. StageInv /\ Reported /\ [Next]_vars => Reported'
  <2> SUFFICES ASSUME StageInv, Reported, [Next]_vars PROVE Reported'
    OBVIOUS
  <2>1. ASSUME UNCHANGED <<stats, pc, connected>>, drv' # "done" \/ Joined' PROVE Reported'
    BY <2>1 DEF Reported, Slots, Joined
  <2>2. CASE StagesOver \/ WaitUntilDone
    BY <2>1, <2>2 DEF StagesOver, WaitUntilDone, workerVars
  <2>3. CASE JoinWorkers
    BY <2>1, <2>3 DEF JoinWorkers, workerVars, Joined, Started
  <2>4. CASE CancelRun \/ UNCHANGED vars
    BY <2>1, <2>4 DEF CancelRun, vars, stageVars, driveVars, workerVars, Reported, Joined, Started
  <2> QED BY <2>2, <2>3, <2>4, WorkerReported, TickReported
      DEF Next, StagesDrive, StagesStep, DurationOrSignal, RequestWatcher, StagesTerminated, vars
<1>3. StageInv /\ Reported => StageBooks
  <2> SUFFICES ASSUME StageInv, Reported PROVE StageBooks
    OBVIOUS
  <2>1. stats \in Stats /\ GaugeIsOpenSessions /\ SendsWithinLimit
    BY CoverKeepsLimit DEF StageInv, StageTypes
  <2>2. StagesReportedExactly
    BY <2>1, ReportedExactly DEF StagesReportedExactly, StagesReport
  <2> QED BY <2>1, <2>2 DEF StageBooks
<1> QED BY <1>1, <1>2, <1>3, StageRunInvariant, PTL DEF Spec
============================================================================
