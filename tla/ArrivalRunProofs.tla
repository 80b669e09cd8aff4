-------------------------- MODULE ArrivalRunProofs --------------------------
(***************************************************************************)
(* Proofs about ArrivalRun, for every set of workers, every rate, duration *)
(* and cap: no arrival is left behind, and the peaks cover the load.       *)
(***************************************************************************)
EXTENDS ArrivalRun, WorkerProofs, SequenceTheorems

ArrivalPC == LifecyclePC \cup StreamPC

Counts == [skipped : Nat, peakOpen : Nat, intervalPeaks : Seq(Nat)]

ArrivalTypes ==
  /\ stats \in Stats
  /\ pc \in [Workers -> ArrivalPC]
  /\ now \in Nat /\ arrived \in Nat /\ busiest \in Nat
  /\ counts \in Counts

\* Every arrival handled so far was started, under the next id, or skipped.
Schedule ==
  /\ Cardinality(Started) \in Nat
  /\ Started = 0..(Cardinality(Started) - 1)
  /\ arrived = Cardinality(Started) + counts.skipped

\* The sessions not yet collected: those outside are over, and they fit.
SessionsFit ==
  /\ sessions \subseteq Started
  /\ \A w \in Started \ sessions : pc[w] = "done"
  /\ Cardinality(sessions) \in Nat /\ Cardinality(sessions) <= MaxOpen

\* Between two observations the load stays below the sessions not collected,
\* which the last observation covered; in the tail the interval of the end of
\* the run has been observed.
PeaksKnown ==
  /\ busiest <= Cardinality(sessions)
  /\ Cardinality(sessions) <= counts.peakOpen /\ counts.peakOpen <= MaxOpen
  /\ Len(counts.intervalPeaks) <= IntervalOf(now) + 1
  /\ Len(counts.intervalPeaks) > 0 =>
       Cardinality(sessions) <= counts.intervalPeaks[Len(counts.intervalPeaks)]
  /\ drv = "tail" => Len(counts.intervalPeaks) >= IntervalOf(End) + 1

ArrivalInv ==
  /\ ArrivalTypes
  /\ GaugeIsOpenSessions
  /\ Schedule
  /\ SessionsFit
  /\ PeaksKnown

----------------------------------------------------------------------------
(* Arithmetic of the schedule and of the intervals.                        *)

\* Later arrivals are due later, and no earlier than their number of ticks.
LEMMA DueGrows ==
  ASSUME NEW k \in Nat, NEW m \in Nat, k <= m
  PROVE  Due(k) \in Nat /\ Due(m) \in Nat /\ Due(k) <= Due(m) /\ k <= Due(k)
<1>1. Gap \in Nat /\ Gap >= 1
  BY ArrivalsAssumption
<1>2. \A x, g \in Nat : g >= 1 => x * g \in Nat /\ x <= x * g
  OBVIOUS
<1>3. \A x, y, g \in Nat : x <= y => x * g <= y * g
  OBVIOUS
<1> QED BY <1>1, <1>2, <1>3 DEF Due

\* A later moment is in the same interval or a later one.
LEMMA IntervalGrows ==
  ASSUME NEW t \in Nat, NEW u \in Nat, t <= u
  PROVE  IntervalOf(t) \in Nat /\ IntervalOf(u) \in Nat /\ IntervalOf(t) <= IntervalOf(u)
<1>1. Interval \in Nat /\ Interval >= 1
  BY ArrivalsAssumption
<1> QED BY <1>1 DEF IntervalOf

\* Subsets of the workers are finite, and grow with inclusion.
LEMMA WorkerSets ==
  ASSUME NEW B \in SUBSET Workers, NEW A \in SUBSET B
  PROVE  /\ IsFiniteSet(A) /\ IsFiniteSet(B)
         /\ Cardinality(A) \in Nat /\ Cardinality(B) \in Nat
         /\ Cardinality(A) <= Cardinality(B)
         /\ A # B => Cardinality(A) < Cardinality(B)
BY FS_Subset, FS_CardinalityType, WorkersAssumption

\* observe() raises the peak of the interval observed and of the run to what
\* it sees, gives the intervals in between what it sees, and keeps the rest.
LEMMA ObserveFacts ==
  ASSUME NEW c \in Counts,
         NEW i \in Nat, NEW n \in Nat, Len(c.intervalPeaks) <= i + 1
  PROVE  LET d == Observe(c, i, n)
         IN /\ d \in Counts
            /\ d.skipped = c.skipped
            /\ d.peakOpen = Larger(c.peakOpen, n)
            /\ Len(d.intervalPeaks) = i + 1
            /\ n <= d.intervalPeaks[i + 1]
            /\ \A j \in 1..(i + 1) :
                 /\ j <= Len(c.intervalPeaks) => c.intervalPeaks[j] <= d.intervalPeaks[j]
                 /\ j > Len(c.intervalPeaks) => n <= d.intervalPeaks[j]
<1> DEFINE len == Len(c.intervalPeaks)
           grown == [j \in 1..Larger(len, i + 1) |->
                       IF j <= len THEN c.intervalPeaks[j] ELSE n]
           peaks == [grown EXCEPT ![i + 1] = Larger(@, n)]
           d == Observe(c, i, n)
<1>1. len \in Nat /\ \A j \in 1..len : c.intervalPeaks[j] \in Nat
  BY LenProperties, ElementOfSeq DEF Counts
<1>2. Larger(len, i + 1) = i + 1 /\ i + 1 \in 1..(i + 1)
  BY <1>1 DEF Larger
<1>3. grown = [j \in 1..(i + 1) |-> IF j <= len THEN c.intervalPeaks[j] ELSE n]
  BY <1>2
<1> HIDE DEF len, grown
<1>4. /\ grown \in [1..(i + 1) -> Nat]
      /\ \A j \in 1..(i + 1) : /\ j <= len => grown[j] = c.intervalPeaks[j]
                               /\ ~(j <= len) => grown[j] = n
  BY <1>1, <1>3
<1>5. /\ peaks \in [1..(i + 1) -> Nat]
      /\ peaks[i + 1] = Larger(grown[i + 1], n)
      /\ \A j \in 1..(i + 1) : j # i + 1 => peaks[j] = grown[j]
  BY <1>2, <1>4 DEF Larger
<1>6. peaks \in Seq(Nat) /\ Len(peaks) = i + 1
  <2> HIDE DEF peaks
  <2>1. i + 1 \in Nat /\ \A j \in 1..(i + 1) : peaks[j] \in Nat
    BY <1>5
  <2> QED BY <1>5, <2>1
<1>7. d = [c EXCEPT !.intervalPeaks = peaks, !.peakOpen = Larger(@, n)]
  BY DEF Observe, grown, len
<1> HIDE DEF peaks, d
<1>8. /\ d = [skipped |-> c.skipped, peakOpen |-> Larger(c.peakOpen, n), intervalPeaks |-> peaks]
      /\ c.skipped \in Nat /\ c.peakOpen \in Nat
  BY <1>7 DEF Counts
<1>9. \A x, y \in Nat : Larger(x, y) \in Nat /\ Larger(x, y) >= x /\ Larger(x, y) >= y
  BY DEF Larger
<1>10. d \in Counts
  BY <1>6, <1>8, <1>9 DEF Counts
<1>11. \A j \in 1..(i + 1) : grown[j] <= peaks[j] /\ peaks[j] \in Nat /\ grown[j] \in Nat
  <2> SUFFICES ASSUME NEW j \in 1..(i + 1)
               PROVE  grown[j] <= peaks[j] /\ peaks[j] \in Nat /\ grown[j] \in Nat
    OBVIOUS
  <2>1. grown[j] \in Nat /\ peaks[j] \in Nat
    BY <1>4, <1>5
  <2>2. CASE j = i + 1
    BY <1>5, <1>9, <2>1, <2>2
  <2>3. CASE j # i + 1
    BY <1>5, <2>1, <2>3
  <2> QED BY <2>1, <2>2, <2>3
<1>12. n <= peaks[i + 1]
  <2>1. grown[i + 1] \in Nat
    BY <1>2, <1>4
  <2> QED BY <1>5, <1>9, <2>1
<1>13. \A j \in 1..(i + 1) : /\ j <= len => c.intervalPeaks[j] <= peaks[j]
                             /\ j > len => n <= peaks[j]
  BY <1>1, <1>4, <1>11
<1>14. /\ d.skipped = c.skipped /\ d.peakOpen = Larger(c.peakOpen, n)
       /\ d.intervalPeaks = peaks
  BY <1>8
<1> QED BY <1>6, <1>10, <1>12, <1>13, <1>14 DEF d, len

----------------------------------------------------------------------------
(* The steps of the workers.                                               *)

\* A step of a worker that runs, which moves the gauge with the connection,
\* keeps the invariant.
LEMMA ArrivalMove ==
  ASSUME ArrivalInv, NEW w \in Workers, NEW l \in ArrivalPC \ {"idle"},
         pc[w] \notin {"idle", "done"}, pc' = [pc EXCEPT ![w] = l], stats' \in Stats,
         stats'.live["active"]
           = stats.live["active"] + (Weight(pc[w], Outside) - Weight(l, Outside)),
         Notes
  PROVE  ArrivalInv'
<1>1. /\ stats \in Stats /\ pc \in [Workers -> ArrivalPC] /\ busiest \in Nat
      /\ UNCHANGED <<drv, now, sessions, arrived, counts>>
      /\ busiest' = Larger(busiest, stats'.live["active"])
  BY DEF ArrivalInv, ArrivalTypes, Notes, loopVars
<1>2. GaugeIsOpenSessions'
  <2> DEFINE a == Weight(pc[w], Outside) - Weight(l, Outside)
  <2>1. a \in {-1, 0, 1} /\ a + Weight(l, Outside) = Weight(pc[w], Outside)
    BY DEF Weight
  <2>2. stats'.live["active"] = stats.live["active"] + a /\ GaugeIsOpenSessions
    BY DEF ArrivalInv
  <2> HIDE DEF a
  <2> QED BY <1>1, <2>1, <2>2, GaugeMove
<1>3. Started' = Started
  BY <1>1 DEF Started
<1>4. Schedule'
  BY <1>1, <1>3 DEF ArrivalInv, Schedule
<1>5. SessionsFit'
  BY <1>1, <1>3 DEF ArrivalInv, SessionsFit
<1>6. stats'.live["active"] \in Nat /\ stats'.live["active"] <= Cardinality(sessions)
  <2>1. OpenSessions' \subseteq sessions /\ sessions \subseteq Workers
    <3>1. OpenSessions' \subseteq Started' /\ Started' \subseteq Workers /\ sessions \subseteq Started
      BY DEF OpenSessions, Started, Outside, ArrivalInv, SessionsFit
    <3>2. \A v \in Started' \ sessions' : v \notin OpenSessions'
      BY <1>5 DEF SessionsFit, OpenSessions, Outside
    <3> QED BY <1>1, <1>3, <3>1, <3>2
  <2> DEFINE A == OpenSessions'
  <2>2. A \in SUBSET sessions /\ sessions \in SUBSET Workers
    BY <2>1
  <2> HIDE DEF A
  <2>3. Cardinality(A) \in Nat /\ Cardinality(A) <= Cardinality(sessions)
    BY <2>2, WorkerSets
  <2> QED BY <1>2, <2>3 DEF GaugeIsOpenSessions, A
<1>7. busiest' \in Nat /\ busiest' <= Cardinality(sessions)
  BY <1>1, <1>6 DEF Larger, ArrivalInv, PeaksKnown
<1>8. ArrivalTypes'
  BY <1>1, <1>7 DEF ArrivalInv, ArrivalTypes
<1>9. PeaksKnown'
  BY <1>1, <1>7 DEF ArrivalInv, PeaksKnown, IntervalOf
<1> QED BY <1>2, <1>4, <1>5, <1>8, <1>9 DEF ArrivalInv

\* Every step of a worker keeps the invariant.
LEMMA ArrivalWorkerStep ==
  ASSUME ArrivalInv, NEW w \in Workers, WorkerStep(w)
  PROVE  ArrivalInv'
<1>1. stats \in Stats /\ pc = [pc EXCEPT ![w] = pc[w]] /\ GaugeIsOpenSessions /\ Notes
  BY DEF ArrivalInv, ArrivalTypes, WorkerStep
<1>2. CASE Lifecycle(w)
  <2>1. PICK l : LifecycleEffect(w, l)
    BY <1>1, <1>2, LifecycleHasEffect
  <2>2. l \in ArrivalPC \ {"idle"} /\ pc[w] \notin {"idle", "done"}
    BY <2>1 DEF LifecycleEffect, ArrivalPC, LifecyclePC
  <2> QED BY <1>1, <2>1, <2>2, ArrivalMove DEF LifecycleEffect, Change
<1>3. CASE StreamSession(w)
  <2>1. ASSUME NEW l \in {"top", "ended", "send", "delay", "think"},
               NEW n \in {0, 1}, NEW r \in {0, 1},
               pc[w] \in {"top", "send", "delay", "think"}, pc' = [pc EXCEPT ![w] = l],
               Change(stats, stats', w, 0, 0, n, r, 0)
        PROVE  ArrivalInv'
    <3>1. /\ l \in ArrivalPC \ {"idle"} /\ pc[w] \notin {"idle", "done"}
          /\ Weight(pc[w], Outside) - Weight(l, Outside) = 0
      BY <2>1 DEF ArrivalPC, StreamPC, LifecyclePC, Weight, Outside
    <3> QED BY <1>1, <2>1, <3>1, ArrivalMove DEF Change
  <2>2. CASE StreamLimitReached(w) \/ StreamClaim(w)
    <3>1. PICK l \in {"send", "delay", "top", "ended"} : pc' = [pc EXCEPT ![w] = l]
      BY <1>1, <2>2 DEF StreamLimitReached, StreamClaim, Goto, Tick
    <3>2. Change(stats, stats', w, 0, 0, 0, 0, 0)
      BY <1>1, <2>2, Changes DEF StreamLimitReached, StreamClaim
    <3>3. pc[w] = "top"
      BY <2>2 DEF StreamLimitReached, StreamClaim, Tick
    <3> QED BY <2>1, <3>1, <3>2, <3>3
  <2>3. CASE StreamSleep(w)
    <3>1. PICK l \in {"send", "top", "ended"} : pc' = [pc EXCEPT ![w] = l]
      BY <2>3 DEF StreamSleep, Goto
    <3>2. Change(stats, stats', w, 0, 0, 0, 0, 0)
      BY <1>1, <2>3, Changes DEF StreamSleep
    <3>3. pc[w] \in {"delay", "think"}
      BY <2>3 DEF StreamSleep
    <3> QED BY <2>1, <3>1, <3>2, <3>3
  <2>4. CASE StreamSend(w)
    <3>1. PICK l \in {"think", "ended"}, n \in {0, 1} :
            pc' = [pc EXCEPT ![w] = l] /\ Change(stats, stats', w, 0, 0, n, 0, 0)
      BY <1>1, <2>4, Changes DEF StreamSend, Goto
    <3>2. pc[w] = "send"
      BY <2>4 DEF StreamSend
    <3> QED BY <2>1, <3>1, <3>2
  <2>5. CASE StreamRecv(w)
    <3>1. pc[w] = "top" /\ pc' = [pc EXCEPT ![w] = "top"]
      BY <1>1, <2>5 DEF StreamRecv
    <3>2. Change(stats, stats', w, 0, 0, 0, 1, 0)
      BY <1>1, <2>5, Changes DEF StreamRecv
    <3> QED BY <2>1, <3>1, <3>2
  <2>6. CASE StreamLost(w) \/ StreamCancelled(w)
    <3>1. pc[w] = "top" /\ pc' = [pc EXCEPT ![w] = "ended"]
      BY <2>6 DEF StreamLost, StreamCancelled, Goto
    <3>2. Change(stats, stats', w, 0, 0, 0, 0, 0)
      BY <1>1, <2>6, Changes DEF StreamLost, StreamCancelled
    <3> QED BY <2>1, <3>1, <3>2
  <2> QED BY <1>3, <2>2, <2>3, <2>4, <2>5, <2>6 DEF StreamSession, StreamOwn
<1> QED BY <1>2, <1>3 DEF WorkerStep

----------------------------------------------------------------------------
(* What the loop observes.                                                 *)

\* The counters after a step of the loop that observed n sessions: the
\* sessions it leaves are below the peaks of the run and of the interval, and
\* the intervals since the last observation got at least n.
Observed(n) ==
  /\ counts' \in Counts
  /\ counts'.peakOpen <= MaxOpen
  /\ Cardinality(sessions') <= counts'.peakOpen
  /\ Len(counts'.intervalPeaks) = IntervalOf(now) + 1
  /\ Cardinality(sessions') <= counts'.intervalPeaks[IntervalOf(now) + 1]
  /\ \A j \in 1..(IntervalOf(now) + 1) :
       /\ j <= Len(counts.intervalPeaks) => counts.intervalPeaks[j] <= counts'.intervalPeaks[j]
       /\ j > Len(counts.intervalPeaks) => n <= counts'.intervalPeaks[j]

\* The history of the busiest moment starts afresh with an observation.
NotesLoop ==
  busiest' = IF UNCHANGED <<sessions, counts>> THEN busiest ELSE stats'.live.active

\* One call of observe().
LEMMA OneObservation ==
  ASSUME ArrivalInv, NEW n \in Nat, n <= Cardinality(sessions),
         sessions' \subseteq Workers, Cardinality(sessions') <= n,
         counts' = Observe(counts, IntervalOf(now), n)
  PROVE  Observed(n) /\ counts'.skipped = counts.skipped
<1>1. IntervalOf(now) \in Nat
  BY IntervalGrows DEF ArrivalInv, ArrivalTypes
<1>2. /\ counts \in Counts /\ Len(counts.intervalPeaks) <= IntervalOf(now) + 1
      /\ Cardinality(sessions) \in Nat /\ Cardinality(sessions) <= MaxOpen
      /\ counts.peakOpen <= MaxOpen /\ counts.peakOpen \in Nat /\ MaxOpen \in Nat
  BY ArrivalsAssumption DEF ArrivalInv, ArrivalTypes, PeaksKnown, SessionsFit, Counts
<1>3. Cardinality(sessions') \in Nat
  BY FS_Subset, FS_CardinalityType, WorkersAssumption
<1> DEFINE i == IntervalOf(now)
           d == Observe(counts, i, n)
<1>4. /\ d \in Counts
      /\ d.skipped = counts.skipped /\ d.peakOpen = Larger(counts.peakOpen, n)
      /\ Len(d.intervalPeaks) = i + 1 /\ n <= d.intervalPeaks[i + 1]
      /\ \A j \in 1..(i + 1) :
           /\ j <= Len(counts.intervalPeaks) => counts.intervalPeaks[j] <= d.intervalPeaks[j]
           /\ j > Len(counts.intervalPeaks) => n <= d.intervalPeaks[j]
  BY <1>1, <1>2, ObserveFacts
<1>5. counts' = d
  OBVIOUS
<1> HIDE DEF d, i
<1>6. d.intervalPeaks[i + 1] \in Nat
  <2>1. d.intervalPeaks \in Seq(Nat) /\ i + 1 \in 1..Len(d.intervalPeaks)
    BY <1>1, <1>4 DEF Counts, i
  <2> QED BY <2>1, ElementOfSeq
<1>7. /\ Cardinality(sessions') <= d.intervalPeaks[i + 1]
      /\ Cardinality(sessions') <= d.peakOpen /\ d.peakOpen <= MaxOpen
  BY <1>2, <1>3, <1>4, <1>6 DEF Larger
<1> QED BY <1>4, <1>5, <1>7 DEF Observed, i

\* After an observation the clauses about the peaks hold again.
LEMMA ObservedKeeps ==
  ASSUME ArrivalInv, NEW n \in Nat, Observed(n), NotesLoop, now' = now,
         GaugeIsOpenSessions', SessionsFit', Started' \subseteq Workers,
         drv' = "tail" => drv = "tail" \/ now >= End
  PROVE  PeaksKnown' /\ busiest' \in Nat
<1>1. sessions' \subseteq Workers /\ OpenSessions' \subseteq sessions'
  <2>1. /\ sessions' \subseteq Started'
        /\ \A w \in Started' \ sessions' : pc'[w] = "done"
    BY DEF SessionsFit
  <2>2. OpenSessions' \subseteq Started'
    BY DEF OpenSessions, Started, Outside
  <2>3. \A w \in OpenSessions' : pc'[w] # "done"
    BY DEF OpenSessions, Outside
  <2> QED BY <2>1, <2>2, <2>3
<1>2. stats'.live.active \in Nat /\ stats'.live.active <= Cardinality(sessions')
  <2> DEFINE A == OpenSessions'
             B == sessions'
  <2>1. A \in SUBSET B /\ B \in SUBSET Workers
    BY <1>1
  <2> HIDE DEF A, B
  <2>2. Cardinality(A) \in Nat /\ Cardinality(A) <= Cardinality(B)
    BY <2>1, WorkerSets
  <2> QED BY <2>2 DEF A, B, GaugeIsOpenSessions
<1>3. busiest' \in Nat /\ busiest' <= Cardinality(sessions')
  <2>1. CASE UNCHANGED <<sessions, counts>>
    BY <2>1 DEF NotesLoop, ArrivalInv, ArrivalTypes, PeaksKnown
  <2>2. CASE ~UNCHANGED <<sessions, counts>>
    BY <1>2, <2>2 DEF NotesLoop
  <2> QED BY <2>1, <2>2
<1>4. /\ now \in Nat /\ End \in Nat /\ IntervalOf(now) \in Nat /\ IntervalOf(End) \in Nat
      /\ now >= End => IntervalOf(now) >= IntervalOf(End)
  BY IntervalGrows, ArrivalsAssumption DEF ArrivalInv, ArrivalTypes
<1>5. IntervalOf(now)' = IntervalOf(now) /\ IntervalOf(End)' = IntervalOf(End)
  BY DEF IntervalOf
<1>6. Len(counts'.intervalPeaks) = IntervalOf(now) + 1
  BY DEF Observed
<1>7. drv' = "tail" => Len(counts'.intervalPeaks) >= IntervalOf(End) + 1
  <2>1. CASE drv = "tail"
    <3>1. /\ Len(counts.intervalPeaks) >= IntervalOf(End) + 1
          /\ Len(counts.intervalPeaks) <= IntervalOf(now) + 1
          /\ Len(counts.intervalPeaks) \in Nat
      BY <2>1, LenProperties DEF ArrivalInv, PeaksKnown, ArrivalTypes, Counts
    <3> QED BY <1>4, <1>6, <3>1
  <2>2. CASE now >= End
    BY <1>4, <1>6, <2>2
  <2> QED BY <2>1, <2>2
<1>8. /\ Cardinality(sessions') <= counts'.peakOpen /\ counts'.peakOpen <= MaxOpen
      /\ Cardinality(sessions') <= counts'.intervalPeaks[Len(counts'.intervalPeaks)]
  BY <1>6 DEF Observed
<1>9. Len(counts'.intervalPeaks) <= IntervalOf(now) + 1
  BY <1>4, <1>6
<1> QED BY <1>3, <1>5, <1>7, <1>8, <1>9 DEF PeaksKnown

\* What an observation gives the intervals since the last one covers the
\* busiest moment in between, up to the end of the run.
LEMMA ObservedCovers ==
  ASSUME ArrivalInv, NEW n \in Nat, Observed(n),
         n = Cardinality(sessions) \/ drv = "tail",
         NEW i \in DOMAIN counts'.intervalPeaks,
         i \in Larger(1, Len(counts.intervalPeaks))..(IntervalOf(End) + 1)
  PROVE  busiest <= counts'.intervalPeaks[i]
<1> DEFINE len == Len(counts.intervalPeaks)
           last == IntervalOf(now) + 1
<1>1. /\ len \in Nat /\ len <= last /\ last \in Nat /\ IntervalOf(End) \in Nat
      /\ busiest \in Nat /\ Cardinality(sessions) \in Nat /\ busiest <= Cardinality(sessions)
      /\ counts.intervalPeaks \in Seq(Nat) /\ counts'.intervalPeaks \in Seq(Nat)
  BY IntervalGrows, LenProperties, ArrivalsAssumption
     DEF ArrivalInv, ArrivalTypes, PeaksKnown, SessionsFit, Observed, Counts
<1>2. i \in 1..last /\ counts'.intervalPeaks[i] \in Nat
  BY <1>1, LenProperties, ElementOfSeq DEF Observed
<1>3. i >= 1 /\ i >= len /\ i <= IntervalOf(End) + 1 /\ i \in Nat
  BY <1>1, SMTT(30) DEF Larger
<1>4. CASE i = len
  <2>1. /\ Cardinality(sessions) <= counts.intervalPeaks[len]
        /\ counts.intervalPeaks[len] \in Nat
    <3>1. len \in 1..len /\ len > 0
      BY <1>1, <1>3, <1>4
    <3>2. counts.intervalPeaks[len] \in Nat
      BY <1>1, <3>1, ElementOfSeq
    <3> QED BY <3>1, <3>2 DEF ArrivalInv, PeaksKnown
  <2>2. counts.intervalPeaks[len] <= counts'.intervalPeaks[i]
    <3>1. i <= len
      BY <1>3, <1>4
    <3>2. counts.intervalPeaks[i] <= counts'.intervalPeaks[i]
      BY <1>2, <3>1 DEF Observed
    <3> QED BY <1>4, <3>2
  <2> QED BY <1>1, <1>2, <2>1, <2>2, SMTT(30)
<1>5. CASE i > len
  <2>1. n <= counts'.intervalPeaks[i]
    BY <1>2, <1>5 DEF Observed
  <2>2. drv # "tail"
    BY <1>1, <1>3, <1>5 DEF ArrivalInv, PeaksKnown
  <2> QED BY <1>1, <1>2, <2>1, <2>2
<1> QED BY <1>1, <1>3, <1>4, <1>5

----------------------------------------------------------------------------
(* The wake-up of the loop.                                                *)

\* The arrivals that are due, and how many of them fit.
Unfinished == {w \in sessions : pc[w] # "done"}
DueNow == {k \in arrived..End : Due(k) <= now /\ Due(k) < End}
Fit == Least(Cardinality(DueNow), Minus(MaxOpen, Cardinality(Unfinished)))
New == Cardinality(Started)..(Cardinality(Started) + Fit - 1)

\* The numbers a wake-up works with: what fits stays below the cap.
LEMMA WakeNumbers ==
  ASSUME ArrivalInv
  PROVE  /\ IsFiniteSet(DueNow) /\ Cardinality(DueNow) \in Nat
         /\ Unfinished \subseteq sessions /\ sessions \subseteq Workers
         /\ IsFiniteSet(Unfinished) /\ Cardinality(Unfinished) \in Nat
         /\ Cardinality(Unfinished) <= Cardinality(sessions)
         /\ Fit \in Nat /\ Fit <= Cardinality(DueNow)
         /\ Cardinality(Unfinished) + Fit <= MaxOpen
         /\ IsFiniteSet(New) /\ Cardinality(New) = Fit
         /\ New \cap Started = {} /\ Unfinished \cap New = {}
         /\ Started \cup New = 0..(Cardinality(Started) + Fit - 1)
         /\ Cardinality(Started \cup New) = Cardinality(Started) + Fit
<1>1. /\ arrived \in Nat /\ End \in Nat /\ MaxOpen \in Nat
      /\ Cardinality(Started) \in Nat /\ Started = 0..(Cardinality(Started) - 1)
      /\ sessions \subseteq Started /\ Cardinality(sessions) \in Nat
      /\ Cardinality(sessions) <= MaxOpen
  BY ArrivalsAssumption DEF ArrivalInv, ArrivalTypes, Schedule, SessionsFit
<1>2. IsFiniteSet(DueNow) /\ Cardinality(DueNow) \in Nat
  <2>1. arrived \in Int /\ End \in Int
    BY <1>1
  <2>2. IsFiniteSet(arrived..End)
    BY <2>1, FS_Interval
  <2>3. DueNow \in SUBSET (arrived..End)
    BY DEF DueNow
  <2> QED BY <2>2, <2>3, FS_Subset, FS_CardinalityType
<1>3. /\ Unfinished \subseteq sessions /\ sessions \subseteq Workers
      /\ IsFiniteSet(Unfinished) /\ Cardinality(Unfinished) \in Nat
      /\ Cardinality(Unfinished) <= Cardinality(sessions)
  <2>1. Unfinished \in SUBSET sessions /\ sessions \in SUBSET Workers
    BY <1>1 DEF Unfinished, Started
  <2> QED BY <2>1, WorkerSets
<1>4. /\ Fit \in Nat /\ Fit <= Cardinality(DueNow)
      /\ Cardinality(Unfinished) + Fit <= MaxOpen
  BY <1>1, <1>2, <1>3 DEF Fit, Least, Minus
<1> DEFINE first == Cardinality(Started)
           high == first + Fit - 1
<1>5. first \in Int /\ high \in Int /\ 0 \in Int /\ high - first + 1 = Fit /\ high - 0 + 1 = first + Fit
  BY <1>1, <1>4
<1> HIDE DEF high
<1>6. New = first..high
  BY DEF New, high
<1>7. IsFiniteSet(New) /\ Cardinality(New) = Fit
  <2>1. /\ IsFiniteSet(first..high)
        /\ Cardinality(first..high) = IF first > high THEN 0 ELSE high - first + 1
    BY <1>5, FS_Interval
  <2>2. first > high => Fit = 0
    BY <1>1, <1>4 DEF high
  <2> QED BY <1>5, <1>6, <2>1, <2>2
<1>8. New \cap Started = {}
  <2>1. \A x \in New : x >= first
    BY <1>5, <1>6
  <2>2. \A x \in Started : x \in Int /\ x < first
    BY <1>1
  <2>3. \A x \in New : x \in Int
    BY <1>5, <1>6
  <2> QED BY <1>5, <2>1, <2>2, <2>3
<1>9. Started \cup New = 0..high
  <2> HIDE DEF first
  <2>1. Started = 0..(first - 1) /\ first \in Nat /\ high >= first - 1
    BY <1>1, <1>4 DEF first, high
  <2> QED BY <1>5, <1>6, <2>1
<1>10. Cardinality(0..high) = first + Fit
  <2>1. Cardinality(0..high) = IF 0 > high THEN 0 ELSE high - 0 + 1
    BY <1>5, FS_Interval
  <2>2. 0 > high => first + Fit = 0
    BY <1>1, <1>4 DEF high
  <2> QED BY <1>5, <2>1, <2>2
<1> QED BY <1>1, <1>2, <1>3, <1>4, <1>7, <1>8, <1>9, <1>10 DEF high

\* A wake-up in those terms.
LEMMA WakeParts ==
  ASSUME ArrivalWake
  PROVE  /\ Due(arrived) < End /\ Due(arrived) <= now /\ drv = "ramp" /\ New \subseteq Workers
         /\ sessions' = Unfinished \cup New
         /\ pc' = [w \in Workers |-> IF w \in New THEN "build" ELSE pc[w]]
         /\ arrived' = arrived + Cardinality(DueNow)
         /\ counts' =
              [(IF Fit = 0 THEN Observe(counts, IntervalOf(now), Cardinality(sessions))
                ELSE Observe(Observe(counts, IntervalOf(now), Cardinality(sessions)),
                             IntervalOf(now), Cardinality(sessions')))
               EXCEPT !.skipped = @ + Cardinality(DueNow) - Fit]
         /\ UNCHANGED <<stats, drv, now>>
BY DEF ArrivalWake, Unfinished, DueNow, Fit, New

\* The first arrival that is not handled is not due: the arrivals due now are
\* consecutive, so as many as there are reach beyond the last of them.
LEMMA WakeReachesNow ==
  ASSUME ArrivalInv, ArrivalWake
  PROVE  Due(arrived') > now \/ Due(arrived') >= End
<1> DEFINE n == Cardinality(DueNow)
           next == arrived + n
<1>1. arrived \in Nat /\ now \in Nat /\ End \in Nat /\ n \in Nat /\ IsFiniteSet(DueNow)
  BY WakeNumbers, ArrivalsAssumption DEF ArrivalInv, ArrivalTypes
<1>2. arrived' = next
  BY WakeParts
<1>3. SUFFICES ASSUME Due(next) <= now, Due(next) < End PROVE FALSE
  <2>1. next \in Nat /\ Due(next) \in Nat
    BY <1>1, DueGrows
  <2> QED BY <1>1, <1>2, <2>1
<1>4. \A k \in arrived..next : k \in DueNow
  <2> SUFFICES ASSUME NEW k \in arrived..next PROVE k \in DueNow
    OBVIOUS
  <2>1. k \in Nat /\ next \in Nat /\ k <= next
    BY <1>1
  <2>2. Due(k) \in Nat /\ Due(next) \in Nat /\ Due(k) <= Due(next) /\ k <= Due(k)
    BY <2>1, DueGrows
  <2>3. Due(k) <= now /\ Due(k) < End /\ k \in arrived..End
    BY <1>1, <1>3, <2>1, <2>2
  <2> QED BY <2>3 DEF DueNow
<1>5. arrived..next \in SUBSET DueNow
  BY <1>4
<1>6. Cardinality(arrived..next) <= n
  BY <1>1, <1>5, FS_Subset
<1>7. arrived \in Int /\ next \in Int /\ ~(arrived > next)
  BY <1>1
<1>8. Cardinality(arrived..next) = next - arrived + 1
  BY <1>7, FS_Interval
<1> QED BY <1>1, <1>6, <1>8

\* Every arrival handled at a wake-up is started or skipped.
LEMMA WakeKeepsSchedule ==
  ASSUME ArrivalInv, ArrivalWake
  PROVE  /\ Started' = Started \cup New
         /\ Schedule' /\ SessionsFit' /\ GaugeIsOpenSessions'
         /\ pc' \in [Workers -> ArrivalPC] /\ arrived' \in Nat
         /\ Observed(Cardinality(sessions))
<1>1. /\ pc \in [Workers -> ArrivalPC] /\ arrived \in Nat /\ counts \in Counts
      /\ counts.skipped \in Nat /\ Started \subseteq Workers
      /\ Cardinality(sessions) \in Nat /\ Cardinality(Started) \in Nat
      /\ arrived = Cardinality(Started) + counts.skipped /\ now \in Nat
  BY DEF ArrivalInv, ArrivalTypes, Counts, Schedule, SessionsFit, Started
<1>2. \A w \in New : w \in Workers /\ w \notin Started /\ pc[w] = "idle" /\ pc'[w] = "build"
  BY WakeNumbers, WakeParts DEF Started
<1>3. \A w \in Workers \ New : pc'[w] = pc[w]
  BY WakeParts
<1>4. Started' = Started \cup New
  BY <1>2, <1>3 DEF Started
<1>5. pc' \in [Workers -> ArrivalPC]
  <2>1. "build" \in ArrivalPC
    BY DEF ArrivalPC, LifecyclePC
  <2> QED BY <1>1, <2>1, WakeParts
<1>6. GaugeIsOpenSessions'
  <2>1. OpenSessions' = OpenSessions
    BY <1>2, <1>3 DEF OpenSessions, Outside
  <2> QED BY <2>1, WakeParts DEF ArrivalInv, GaugeIsOpenSessions
<1>7. Cardinality(Started') = Cardinality(Started) + Fit /\ Started' = 0..(Cardinality(Started) + Fit - 1)
  BY <1>4, WakeNumbers
<1>8. sessions' = Unfinished \cup New /\ Cardinality(sessions') = Cardinality(Unfinished) + Fit
  <2>1. sessions' = Unfinished \cup New
    BY WakeParts
  <2>2. Cardinality(Unfinished \cup New)
          = Cardinality(Unfinished) + Cardinality(New) - Cardinality(Unfinished \cap New)
    BY WakeNumbers, FS_Union
  <2>3. Cardinality(Unfinished \cap New) = 0
    BY WakeNumbers, FS_EmptySet
  <2> QED BY <2>1, <2>2, <2>3, WakeNumbers
<1>9. Cardinality(sessions') \in Nat /\ Cardinality(sessions') <= MaxOpen /\ Fit \in Nat
  BY <1>8, WakeNumbers
<1>10. SessionsFit'
  <2>1. sessions' \subseteq Started'
    BY <1>4, <1>8, WakeNumbers DEF ArrivalInv, SessionsFit
  <2>2. ASSUME NEW w \in Started' \ sessions' PROVE pc'[w] = "done"
    <3>1. w \in Started /\ w \notin New /\ w \notin Unfinished
      BY <1>4, <1>8
    <3>2. pc[w] = "done"
      BY <3>1 DEF ArrivalInv, SessionsFit, Unfinished
    <3> QED BY <1>1, <1>3, <3>1, <3>2
  <2> QED BY <1>9, <2>1, <2>2 DEF SessionsFit
<1> DEFINE i == IntervalOf(now)
           n == Cardinality(sessions)
           m == Cardinality(sessions')
           seen == Observe(counts, i, n)
           after == IF Fit = 0 THEN seen ELSE Observe(seen, i, m)
           extra == Cardinality(DueNow) - Fit
<1>11. extra \in Nat /\ Cardinality(DueNow) \in Nat
  BY WakeNumbers
<1>12. i \in Nat /\ Len(counts.intervalPeaks) <= i + 1 /\ counts.peakOpen <= MaxOpen
       /\ counts.peakOpen \in Nat /\ MaxOpen \in Nat /\ n <= MaxOpen
  BY <1>1, IntervalGrows, ArrivalsAssumption DEF ArrivalInv, PeaksKnown, SessionsFit, Counts
<1>13. counts' = [after EXCEPT !.skipped = @ + Cardinality(DueNow) - Fit]
  BY WakeParts
<1>14. /\ seen \in Counts /\ seen.skipped = counts.skipped
       /\ seen.peakOpen = Larger(counts.peakOpen, n)
       /\ Len(seen.intervalPeaks) = i + 1 /\ n <= seen.intervalPeaks[i + 1]
       /\ \A j \in 1..(i + 1) :
            /\ j <= Len(counts.intervalPeaks) => counts.intervalPeaks[j] <= seen.intervalPeaks[j]
            /\ j > Len(counts.intervalPeaks) => n <= seen.intervalPeaks[j]
  BY <1>1, <1>12, ObserveFacts, SMTT(30)
<1> HIDE DEF i, n, m, seen, after, extra
<1>15. /\ Observe(seen, i, m) \in Counts /\ Observe(seen, i, m).skipped = seen.skipped
       /\ Observe(seen, i, m).peakOpen = Larger(seen.peakOpen, m)
       /\ Len(Observe(seen, i, m).intervalPeaks) = i + 1
       /\ m <= Observe(seen, i, m).intervalPeaks[i + 1]
       /\ \A j \in 1..(i + 1) :
            j <= Len(seen.intervalPeaks)
              => seen.intervalPeaks[j] <= Observe(seen, i, m).intervalPeaks[j]
  <2>1. m \in Nat /\ Len(seen.intervalPeaks) <= i + 1
    BY <1>9, <1>12, <1>14 DEF m
  <2> QED BY <1>12, <1>14, <2>1, ObserveFacts
<1>16. /\ after \in Counts /\ after.skipped = counts.skipped
       /\ Len(after.intervalPeaks) = i + 1
       /\ m <= after.intervalPeaks[i + 1]
       /\ m <= after.peakOpen /\ after.peakOpen <= MaxOpen
       /\ \A j \in 1..(i + 1) : seen.intervalPeaks[j] <= after.intervalPeaks[j]
  <2>1. /\ \A j \in 1..(i + 1) : seen.intervalPeaks[j] \in Nat
        /\ n \in Nat /\ m \in Nat /\ m <= MaxOpen /\ i + 1 \in 1..(i + 1)
    BY <1>1, <1>9, <1>12, <1>14, ElementOfSeq, SMTT(30) DEF Counts, n, m
  <2>2. CASE Fit = 0
    <3>1. after = seen /\ m <= n
      BY <1>8, <2>2, WakeNumbers DEF after, m, n
    <3> QED BY <1>12, <1>14, <2>1, <3>1 DEF Larger
  <2>3. CASE Fit # 0
    <3>1. after = Observe(seen, i, m)
      BY <2>3 DEF after
    <3>2. seen.peakOpen \in Nat /\ seen.peakOpen <= MaxOpen
      BY <1>12, <1>14, <2>1 DEF Larger, n
    <3>3. m <= Larger(seen.peakOpen, m) /\ Larger(seen.peakOpen, m) <= MaxOpen
      BY <1>12, <2>1, <3>2 DEF Larger
    <3>4. \A j \in 1..(i + 1) : j <= Len(seen.intervalPeaks)
      BY <1>12, <1>14
    <3> QED BY <1>14, <1>15, <3>1, <3>3, <3>4
  <2> QED BY <2>2, <2>3
<1>17. /\ counts' = [skipped |-> counts.skipped + extra, peakOpen |-> after.peakOpen,
                     intervalPeaks |-> after.intervalPeaks]
  <2>1. after = [skipped |-> after.skipped, peakOpen |-> after.peakOpen,
                 intervalPeaks |-> after.intervalPeaks]
    BY <1>16 DEF Counts
  <2>2. after.skipped + Cardinality(DueNow) - Fit = counts.skipped + extra
    BY <1>1, <1>9, <1>11, <1>16 DEF extra
  <2>3. counts' = [skipped |-> after.skipped + Cardinality(DueNow) - Fit,
                   peakOpen |-> after.peakOpen, intervalPeaks |-> after.intervalPeaks]
    BY <1>13, <2>1
  <2> QED BY <2>2, <2>3
<1>18. /\ counts'.skipped = counts.skipped + extra /\ counts'.peakOpen = after.peakOpen
       /\ counts'.intervalPeaks = after.intervalPeaks /\ counts' \in Counts
  BY <1>1, <1>11, <1>16, <1>17 DEF Counts
<1>19. arrived' \in Nat /\ Schedule'
  <2>1. arrived' = arrived + Cardinality(DueNow)
    BY WakeParts
  <2>2. arrived' = Cardinality(Started') + counts'.skipped
    BY <1>1, <1>7, <1>9, <1>11, <1>18, <2>1, SMTT(30) DEF extra
  <2>3. Cardinality(Started') \in Nat /\ Started' = 0..(Cardinality(Started') - 1)
    BY <1>1, <1>7, <1>9
  <2> QED BY <1>1, <1>11, <2>1, <2>2, <2>3, SMTT(30) DEF Schedule
<1>20. Observed(n)
  <2>1. \A j \in 1..(i + 1) :
          /\ j <= Len(counts.intervalPeaks) => counts.intervalPeaks[j] <= after.intervalPeaks[j]
          /\ j > Len(counts.intervalPeaks) => n <= after.intervalPeaks[j]
    <3> SUFFICES ASSUME NEW j \in 1..(i + 1)
                 PROVE  /\ j <= Len(counts.intervalPeaks)
                             => counts.intervalPeaks[j] <= after.intervalPeaks[j]
                        /\ j > Len(counts.intervalPeaks) => n <= after.intervalPeaks[j]
      OBVIOUS
    <3>1. seen.intervalPeaks[j] \in Nat /\ after.intervalPeaks[j] \in Nat /\ n \in Nat
      BY <1>1, <1>14, <1>16, ElementOfSeq DEF Counts, n
    <3>2. counts.intervalPeaks \in Seq(Nat) /\ j \in 1..(i + 1) /\ j \in Nat
      BY <1>1, <1>12 DEF Counts
    <3>3. CASE j <= Len(counts.intervalPeaks)
      <4>1. j \in 1..Len(counts.intervalPeaks)
        BY <3>2, <3>3, LenProperties
      <4>2. counts.intervalPeaks[j] \in Nat
        BY <3>2, <4>1, ElementOfSeq
      <4>3. ~(j > Len(counts.intervalPeaks))
        BY <3>2, <3>3, LenProperties
      <4> QED BY <1>14, <1>16, <3>1, <3>3, <4>2, <4>3
    <3>4. CASE ~(j <= Len(counts.intervalPeaks))
      BY <1>14, <1>16, <3>1, <3>4
    <3> QED BY <3>3, <3>4
  <2> QED BY <1>16, <1>18, <2>1 DEF Observed, i, n, m
<1> QED BY <1>4, <1>5, <1>6, <1>10, <1>19, <1>20 DEF n

----------------------------------------------------------------------------
(* The other steps of the loop.                                            *)

\* Collecting the sessions that are over, while the workers do nothing.
LEMMA CollectFits ==
  ASSUME ArrivalInv, UNCHANGED <<pc, stats>>, sessions' = Unfinished
  PROVE  /\ SessionsFit' /\ GaugeIsOpenSessions' /\ Started' = Started
         /\ Started' \subseteq Workers
         /\ sessions' \subseteq Workers /\ Cardinality(sessions') <= Cardinality(sessions)
         /\ (\E w \in sessions : pc[w] = "done") =>
              Cardinality(sessions') <= Cardinality(sessions) - 1
              /\ Cardinality(sessions) - 1 \in Nat
<1>1. Started' = Started /\ Started \subseteq Workers
  BY DEF Started
<1>2. GaugeIsOpenSessions'
  BY DEF ArrivalInv, GaugeIsOpenSessions, OpenSessions
<1>3. /\ Unfinished \subseteq sessions /\ sessions \subseteq Workers
      /\ Cardinality(Unfinished) \in Nat /\ Cardinality(sessions) \in Nat
      /\ Cardinality(Unfinished) <= Cardinality(sessions)
      /\ Cardinality(sessions) <= MaxOpen /\ MaxOpen \in Nat
  BY WakeNumbers, ArrivalsAssumption DEF ArrivalInv, SessionsFit
<1>4. SessionsFit'
  <2>1. \A w \in Started \ Unfinished : pc[w] = "done"
    BY DEF ArrivalInv, SessionsFit, Unfinished
  <2>2. Unfinished \subseteq Started
    BY <1>3 DEF ArrivalInv, SessionsFit
  <2> QED BY <1>1, <1>3, <2>1, <2>2 DEF SessionsFit
<1>5. ASSUME NEW w \in sessions, pc[w] = "done"
      PROVE  Cardinality(Unfinished) <= Cardinality(sessions) - 1 /\ Cardinality(sessions) - 1 \in Nat
  <2>1. Unfinished # sessions
    BY <1>5 DEF Unfinished
  <2>2. Unfinished \in SUBSET sessions /\ sessions \in SUBSET Workers
    BY <1>3
  <2>3. Cardinality(Unfinished) < Cardinality(sessions)
    BY <2>1, <2>2, WorkerSets
  <2> QED BY <1>3, <2>3
<1> QED BY <1>1, <1>2, <1>3, <1>4, <1>5

\* A step that changes the counters observes the sessions not collected, or,
\* in the tail, all of them but the one just joined.
LEMMA LoopObserves ==
  ASSUME ArrivalInv, ArrivalWake \/ ArrivalTail \/ TailCollect
  PROVE  \E n \in Nat : /\ Observed(n)
                        /\ n = Cardinality(sessions) \/ drv = "tail"
<1>1. Cardinality(sessions) \in Nat
  BY DEF ArrivalInv, SessionsFit
<1>2. CASE ArrivalWake
  BY <1>1, <1>2, WakeKeepsSchedule
<1>3. CASE ArrivalTail
  <2>1. /\ UNCHANGED <<pc, stats>> /\ sessions' = Unfinished
        /\ counts' = Observe(counts, IntervalOf(now), Cardinality(sessions))
    BY <1>3 DEF ArrivalTail, Unfinished, workerVars
  <2>2. Observed(Cardinality(sessions))
    BY <1>1, <2>1, CollectFits, OneObservation
  <2> QED BY <1>1, <2>2
<1>4. CASE TailCollect
  <2>1. /\ UNCHANGED <<pc, stats>> /\ sessions' = Unfinished /\ drv = "tail"
        /\ counts' = Observe(counts, IntervalOf(now), Cardinality(sessions) - 1)
        /\ \E w \in sessions : pc[w] = "done"
    BY <1>4 DEF TailCollect, Unfinished, workerVars
  <2>2. /\ sessions' \subseteq Workers /\ Cardinality(sessions) - 1 \in Nat
        /\ Cardinality(sessions') <= Cardinality(sessions) - 1
    BY <2>1, CollectFits
  <2>3. Cardinality(sessions) - 1 <= Cardinality(sessions)
    BY <1>1
  <2>4. Observed(Cardinality(sessions) - 1)
    BY <2>1, <2>2, <2>3, OneObservation
  <2> QED BY <2>1, <2>2, <2>4
<1> QED BY <1>2, <1>3, <1>4

\* A step that only moves the loop or the tokens, or the clock forward.
LEMMA QuietStep ==
  ASSUME ArrivalInv, UNCHANGED <<stats, pc, sessions, arrived, counts, busiest>>,
         now' \in Nat, now <= now', drv' = "tail" => drv = "tail"
  PROVE  ArrivalInv'
<1>1. now \in Nat /\ IntervalOf(now) \in Nat
  BY IntervalGrows DEF ArrivalInv, ArrivalTypes
<1>2. IntervalOf(now') \in Nat /\ IntervalOf(now) <= IntervalOf(now')
  BY <1>1, IntervalGrows
<1>3. Len(counts.intervalPeaks) \in Nat
  BY LenProperties DEF ArrivalInv, ArrivalTypes, Counts
<1>4. ArrivalTypes' /\ GaugeIsOpenSessions' /\ Schedule' /\ SessionsFit'
  BY DEF ArrivalInv, ArrivalTypes, GaugeIsOpenSessions, OpenSessions, Schedule, SessionsFit, Started
<1>5. Len(counts.intervalPeaks) <= IntervalOf(now') + 1
  BY <1>1, <1>2, <1>3 DEF ArrivalInv, PeaksKnown
<1>6. PeaksKnown'
  BY <1>5 DEF ArrivalInv, PeaksKnown, IntervalOf
<1> QED BY <1>4, <1>6 DEF ArrivalInv

\* Every step of run_arrivals keeps the invariant.
LEMMA ArrivalLoopStep ==
  ASSUME ArrivalInv, ArrivalsDrive, NotesLoop
  PROVE  ArrivalInv'
<1>0. /\ now \in Nat /\ stats \in Stats /\ pc \in [Workers -> ArrivalPC] /\ arrived \in Nat
      /\ counts \in Counts /\ Started \subseteq Workers
  BY DEF ArrivalInv, ArrivalTypes, Started
<1>1. CASE ArrivalWake
  <2>1. PICK n \in Nat : Observed(n)
    BY <1>1, LoopObserves
  <2>2. /\ Schedule' /\ SessionsFit' /\ GaugeIsOpenSessions' /\ Started' \subseteq Workers
        /\ pc' \in [Workers -> ArrivalPC] /\ arrived' \in Nat
    BY <1>0, <1>1, WakeKeepsSchedule, WakeParts
  <2>3. drv' = drv /\ now' = now /\ stats' = stats
    BY <1>1, WakeParts
  <2>4. PeaksKnown' /\ busiest' \in Nat
    BY <2>1, <2>2, <2>3, ObservedKeeps
  <2>5. counts' \in Counts
    BY <2>1 DEF Observed
  <2>6. ArrivalTypes'
    BY <1>0, <2>2, <2>3, <2>4, <2>5 DEF ArrivalTypes
  <2> QED BY <2>2, <2>4, <2>6 DEF ArrivalInv
<1>2. CASE ArrivalTail \/ TailCollect
  <2>1. /\ UNCHANGED <<pc, stats, now, arrived>> /\ sessions' = Unfinished
        /\ drv' = "tail" => drv = "tail" \/ now >= End
    BY <1>2 DEF ArrivalTail, TailCollect, Unfinished, workerVars
  <2>2. PICK n \in Nat : Observed(n)
    BY <1>2, LoopObserves
  <2>3. SessionsFit' /\ GaugeIsOpenSessions' /\ Started' = Started
    BY <2>1, CollectFits
  <2>4. PeaksKnown' /\ busiest' \in Nat
    BY <1>0, <2>1, <2>2, <2>3, ObservedKeeps
  <2>5. counts' \in Counts
    BY <2>2 DEF Observed
  <2>6. counts'.skipped = counts.skipped
    <3>1. Cardinality(sessions) \in Nat
      BY DEF ArrivalInv, SessionsFit
    <3>2. CASE ArrivalTail
      <4>1. counts' = Observe(counts, IntervalOf(now), Cardinality(sessions))
        BY <3>2 DEF ArrivalTail
      <4> QED BY <2>1, <3>1, <4>1, CollectFits, OneObservation
    <3>3. CASE TailCollect
      <4>1. /\ counts' = Observe(counts, IntervalOf(now), Cardinality(sessions) - 1)
            /\ \E w \in sessions : pc[w] = "done"
        BY <3>3 DEF TailCollect
      <4>2. /\ sessions' \subseteq Workers /\ Cardinality(sessions) - 1 \in Nat
            /\ Cardinality(sessions') <= Cardinality(sessions) - 1
        BY <2>1, <4>1, CollectFits
      <4>3. Cardinality(sessions) - 1 <= Cardinality(sessions)
        BY <3>1
      <4> QED BY <4>1, <4>2, <4>3, OneObservation
    <3> QED BY <1>2, <3>2, <3>3
  <2>7. Schedule'
    BY <2>1, <2>3, <2>6 DEF ArrivalInv, Schedule
  <2>8. ArrivalTypes'
    BY <1>0, <2>1, <2>4, <2>5 DEF ArrivalTypes
  <2> QED BY <2>3, <2>4, <2>7, <2>8 DEF ArrivalInv
<1>3. CASE ArrivalsJoined
  <2>1. /\ UNCHANGED <<pc, stats, now, arrived, counts>> /\ sessions' = {} /\ drv' = "done"
        /\ \A w \in Started : pc[w] = "done"
    BY <1>3 DEF ArrivalsJoined, JoinWorkers, workerVars
  <2>2. Started' = Started /\ OpenSessions' = {} /\ Cardinality({}) = 0 /\ 0 \in Nat
    BY <2>1, FS_EmptySet DEF Started, OpenSessions, Outside
  <2>3. SessionsFit' /\ Schedule'
    BY <2>1, <2>2, ArrivalsAssumption DEF ArrivalInv, SessionsFit, Schedule
  <2>4. GaugeIsOpenSessions'
    BY <2>1 DEF ArrivalInv, GaugeIsOpenSessions, OpenSessions
  <2>5. busiest' = 0
    <3>1. stats'.live.active = 0
      BY <2>2, <2>4 DEF GaugeIsOpenSessions
    <3>2. sessions = {} => busiest = 0
      BY <2>2 DEF ArrivalInv, ArrivalTypes, PeaksKnown
    <3> QED BY <2>1, <3>1, <3>2 DEF NotesLoop
  <2>6. Len(counts.intervalPeaks) > 0 => counts.intervalPeaks[Len(counts.intervalPeaks)] >= 0
    <3> SUFFICES ASSUME Len(counts.intervalPeaks) > 0
                 PROVE  counts.intervalPeaks[Len(counts.intervalPeaks)] >= 0
      OBVIOUS
    <3>1. counts.intervalPeaks \in Seq(Nat) /\ Len(counts.intervalPeaks) \in 1..Len(counts.intervalPeaks)
      BY <1>0, LenProperties DEF Counts
    <3> QED BY <3>1, ElementOfSeq
  <2>7. counts.peakOpen >= 0
    BY <1>0 DEF Counts
  <2>8. PeaksKnown'
    BY <2>1, <2>2, <2>5, <2>6, <2>7 DEF ArrivalInv, PeaksKnown, IntervalOf
  <2>9. ArrivalTypes'
    BY <1>0, <2>1, <2>5 DEF ArrivalTypes
  <2> QED BY <2>3, <2>4, <2>8, <2>9 DEF ArrivalInv
<1>4. ASSUME \/ ArrivalsOver \/ ClockTick \/ \E w \in Workers : SessionExpires(w)
             \/ (DurationOrSignal \/ RequestWatcher) /\ UNCHANGED <<now, loopVars>>
      PROVE  ArrivalInv'
  <2>1. UNCHANGED <<stats, pc, sessions, arrived, counts>>
    BY <1>4 DEF ArrivalsOver, ClockTick, SessionExpires, DurationOrSignal, RequestWatcher,
       CancelRun, driveVars, workerVars, loopVars
  <2>2. /\ now' \in Nat /\ now <= now' /\ (drv' = "tail" => drv = "tail")
    BY <1>0, <1>4 DEF ArrivalsOver, ClockTick, SessionExpires, DurationOrSignal, RequestWatcher,
       CancelRun, driveVars, workerVars, loopVars
  <2>3. busiest' = busiest
    BY <2>1 DEF NotesLoop
  <2> QED BY <2>1, <2>2, <2>3, QuietStep
<1> QED BY <1>1, <1>2, <1>3, <1>4 DEF ArrivalsDrive, ArrivalsStep

----------------------------------------------------------------------------
\* The invariant holds in every reachable state.
THEOREM ArrivalRunInvariant == Spec => []ArrivalInv
<1>1. Init => ArrivalInv
  <2> SUFFICES ASSUME Init PROVE ArrivalInv
    OBVIOUS
  <2>1. /\ stats = NoStats /\ pc = [w \in Workers |-> "idle"] /\ now = 0 /\ sessions = {}
        /\ arrived = 0 /\ counts = [skipped |-> 0, peakOpen |-> 0, intervalPeaks |-> <<>>]
        /\ busiest = 0 /\ drv = "ramp"
    BY DEF Init, ArrivalsInit, DriveInit, WorkerInit, MetricsInit
  <2>2. stats \in Stats /\ stats.live["active"] = 0
    BY <2>1 DEF NoStats, Stats, LiveCounters, WorkerCounters
  <2>3. <<>> \in Seq(Nat) /\ Len(<<>>) = 0
    BY EmptySeq
  <2>4. ArrivalTypes
    BY <2>1, <2>2, <2>3 DEF ArrivalTypes, ArrivalPC, LifecyclePC, Counts
  <2>5. OpenSessions = {} /\ Started = {} /\ Cardinality({}) = 0
    BY <2>1, FS_EmptySet DEF OpenSessions, Outside, Started
  <2>6. GaugeIsOpenSessions /\ Schedule /\ SessionsFit
    BY <2>1, <2>2, <2>5, ArrivalsAssumption DEF GaugeIsOpenSessions, Schedule, SessionsFit
  <2>7. IntervalOf(now) \in Nat
    BY <2>1, IntervalGrows
  <2>8. counts.intervalPeaks = <<>> /\ counts.peakOpen = 0 /\ Len(counts.intervalPeaks) = 0
    BY <2>1, <2>3
  <2>9. PeaksKnown
    BY <2>1, <2>5, <2>7, <2>8, ArrivalsAssumption DEF PeaksKnown
  <2> QED BY <2>4, <2>6, <2>9 DEF ArrivalInv
<1>2. ArrivalInv /\ [Next]_vars => ArrivalInv'
  <2> SUFFICES ASSUME ArrivalInv, [Next]_vars PROVE ArrivalInv'
    OBVIOUS
  <2>1. CASE ArrivalsDrive /\ NotesLoop
    BY <2>1, ArrivalLoopStep
  <2>2. ASSUME NEW w \in Workers, WorkerStep(w) PROVE ArrivalInv'
    BY <2>2, ArrivalWorkerStep
  <2>3. CASE UNCHANGED vars \/ (ArrivalsTerminated /\ UNCHANGED busiest)
    <3>1. UNCHANGED <<stats, pc, sessions, arrived, counts, busiest, now, drv>>
      BY <2>3 DEF ArrivalsTerminated, vars, arrivalVars, driveVars, workerVars
    <3>2. now' \in Nat /\ now <= now' /\ (drv' = "tail" => drv = "tail")
      BY <3>1 DEF ArrivalInv, ArrivalTypes
    <3> QED BY <3>1, <3>2, QuietStep
  <2>4. ASSUME Next PROVE ArrivalInv'
    <3>1. CASE /\ ArrivalsDrive
               /\ busiest' = IF UNCHANGED <<sessions, counts>> THEN busiest ELSE stats'.live.active
      BY <2>1, <3>1 DEF NotesLoop
    <3> QED BY <2>2, <2>3, <2>4, <3>1 DEF Next
  <2> QED BY <2>3, <2>4 DEF vars
<1> QED BY <1>1, <1>2, PTL DEF Spec

\* However late the loop of run_arrivals wakes, and whatever the rate, the
\* duration and the cap: it has then started or skipped exactly the arrivals
\* of the schedule up to now.
THEOREM EveryArrivalHandled == Spec => NoArrivalOverdue
<1>1. ASSUME ArrivalInv, ArrivalWake
      PROVE  /\ Due(arrived') > now \/ Due(arrived') >= End
             /\ arrived' = Cardinality({w \in Workers : pc'[w] # "idle"}) + counts'.skipped
  <2>1. arrived' = Cardinality(Started') + counts'.skipped
    BY <1>1, WakeKeepsSchedule DEF Schedule
  <2>2. Started' = {w \in Workers : pc'[w] # "idle"}
    BY DEF Started
  <2> QED BY <1>1, <2>1, <2>2, WakeReachesNow
<1>2. ArrivalInv => [ArrivalWake =>
        /\ Due(arrived') > now \/ Due(arrived') >= End
        /\ arrived' = Cardinality({w \in Workers : pc'[w] # "idle"}) + counts'.skipped]_arrivalVars
  BY <1>1
<1> QED BY <1>2, ArrivalRunInvariant, PTL DEF NoArrivalOverdue

\* The peaks an arrival run reports never miss a connection that was open, in
\* the run or in any of its intervals, and never exceed the cap.
THEOREM PeaksNeverMissLoad == Spec => PeaksCoverLoad
<1>1. ArrivalInv => busiest <= counts.peakOpen /\ counts.peakOpen <= MaxOpen
  BY ArrivalsAssumption DEF ArrivalInv, ArrivalTypes, SessionsFit, PeaksKnown, Counts
<1>2. ArrivalInv /\ [Next]_vars =>
        [\A i \in DOMAIN counts'.intervalPeaks :
          /\ counts' # counts
          /\ i \in Larger(1, Len(counts.intervalPeaks))..(IntervalOf(End) + 1)
          => busiest <= counts'.intervalPeaks[i]]_vars
  <2> SUFFICES ASSUME ArrivalInv, Next, NEW i \in DOMAIN counts'.intervalPeaks,
                      counts' # counts,
                      i \in Larger(1, Len(counts.intervalPeaks))..(IntervalOf(End) + 1)
               PROVE  busiest <= counts'.intervalPeaks[i]
    OBVIOUS
  <2>1. ArrivalWake \/ ArrivalTail \/ TailCollect
    BY DEF Next, ArrivalsDrive, ArrivalsStep, ArrivalsOver, ArrivalsJoined, ClockTick,
       SessionExpires, WorkerStep, Notes, ArrivalsTerminated, arrivalVars, loopVars
  <2>2. PICK n \in Nat : Observed(n) /\ (n = Cardinality(sessions) \/ drv = "tail")
    BY <2>1, LoopObserves
  <2> QED BY <2>2, ObservedCovers
<1> QED BY <1>1, <1>2, ArrivalRunInvariant, PTL DEF Spec, PeaksCoverLoad

----------------------------------------------------------------------------
(* The report.                                                             *)

\* A step of run_stream_loop or run_listen_loop stays inside its session and
\* records what the books expect.
LEMMA StreamRecords ==
  ASSUME NEW L, pc \in [Workers -> L], NEW w \in Workers, StreamSession(w)
  PROVE  /\ pc[w] \notin Outside /\ UNCHANGED connected
         /\ stats' \in SessionRecords(stats, w)
         /\ \E l : l \notin Outside /\ pc' = [pc EXCEPT ![w] = l]
<1>1. \A l \in {"top", "delay", "send", "think", "ended"} : l \notin Outside
  BY DEF Outside
<1>2. UNCHANGED pc => pc' = [pc EXCEPT ![w] = pc[w]]
  OBVIOUS
<1>3. CASE StreamLimitReached(w)
  BY <1>1, <1>3 DEF StreamLimitReached, Tick, Goto, SessionRecords
<1>4. CASE StreamClaim(w)
  BY <1>1, <1>2, <1>4 DEF StreamClaim, Tick, Goto, SessionRecords
<1>5. CASE StreamSleep(w)
  BY <1>1, <1>5 DEF StreamSleep, Goto, SessionRecords
<1>6. CASE StreamSend(w)
  BY <1>1, <1>6 DEF StreamSend, Goto, SessionRecords
<1>7. CASE StreamCancelled(w)
  BY <1>1, <1>7 DEF StreamCancelled, Goto, SessionRecords
<1>8. CASE StreamRecv(w)
  BY <1>1, <1>2, <1>8 DEF StreamRecv, SessionRecords
<1>9. CASE StreamLost(w)
  BY <1>1, <1>9 DEF StreamLost, Goto, SessionRecords
<1> QED BY <1>3, <1>4, <1>5, <1>6, <1>7, <1>8, <1>9 DEF StreamSession, StreamOwn

\* Every step of a worker keeps the books and reports none that still runs.
LEMMA WorkerReported ==
  ASSUME ArrivalInv, Reported, NEW w \in Workers, WorkerStep(w)
  PROVE  Reported'
<1>1. /\ stats \in Stats /\ pc \in [Workers -> ArrivalPC] /\ connected \in [Workers -> BOOLEAN]
      /\ GaugeIsOpenSessions /\ Slots /\ Joined /\ UNCHANGED drv
  BY DEF ArrivalInv, ArrivalTypes, Reported, WorkerStep, Notes
<1>2. CASE Lifecycle(w)
  <2>1. Slots'
    BY <1>1, <1>2, LifecycleBooks
  <2>2. PICK l : LifecycleEffect(w, l)
    BY <1>1, <1>2, LifecycleHasEffect
  <2>3. pc[w] \notin {"idle", "done"}
    BY <2>2 DEF LifecycleEffect
  <2>4. connected' \in [Workers -> BOOLEAN]
    BY <1>1, <1>2 DEF Lifecycle, BuildFails, BuildRequest, HandshakeCancelled, HandshakeOpen,
       HandshakeStaticError, HandshakeFails, SessionEnded, SessionFinished, BackoffOver,
       BackoffCancelled
  <2> QED BY <1>1, <2>1, <2>3, <2>4, JoinedKept DEF Reported
<1>3. CASE StreamSession(w)
  <2>1. /\ pc[w] \notin Outside /\ UNCHANGED connected
        /\ stats' \in SessionRecords(stats, w)
    BY <1>1, <1>3, StreamRecords
  <2>2. PICK l : l \notin Outside /\ pc' = [pc EXCEPT ![w] = l]
    BY <1>1, <1>3, StreamRecords
  <2>3. Slots'
    BY <1>1, <2>1, <2>2, SessionBooksKept
  <2>4. pc[w] \notin {"idle", "done"}
    BY <2>1 DEF Outside
  <2> QED BY <1>1, <2>1, <2>3, <2>4, JoinedKept DEF Reported
<1> QED BY <1>2, <1>3 DEF WorkerStep

\* A wake-up of run_arrivals starts sessions that were idle.
LEMMA WakeReported ==
  ASSUME ArrivalInv, Reported, ArrivalWake
  PROVE  Reported'
<1>1. \E fit : LET new == Cardinality(Started)..(Cardinality(Started) + fit - 1)
               IN /\ new \subseteq Workers
                  /\ pc' = [w \in Workers |-> IF w \in new THEN "build" ELSE pc[w]]
  BY DEF ArrivalWake
<1>2. PICK fit : LET new == Cardinality(Started)..(Cardinality(Started) + fit - 1)
                 IN /\ new \subseteq Workers
                    /\ pc' = [w \in Workers |-> IF w \in new THEN "build" ELSE pc[w]]
  BY <1>1
<1> DEFINE new == Cardinality(Started)..(Cardinality(Started) + fit - 1)
<1>3. /\ new \subseteq Workers /\ UNCHANGED <<stats, connected>> /\ drv' # "done"
      /\ pc' = [w \in Workers |-> IF w \in new THEN "build" ELSE pc[w]]
  BY <1>2 DEF ArrivalWake
<1>4. \A w \in new : w >= Cardinality(Started)
  OBVIOUS
<1>5. Cardinality(Started) \in Nat /\ Started = 0..(Cardinality(Started) - 1)
  BY DEF ArrivalInv, Schedule
<1>6. \A w \in new : w \notin Started
  BY <1>4, <1>5
<1> HIDE DEF new
<1>7. \A w \in new : pc[w] = "idle"
  BY <1>3, <1>6 DEF Started
<1>8. pc \in [Workers -> ArrivalPC] /\ connected \in [Workers -> BOOLEAN] /\ Slots
  BY DEF ArrivalInv, ArrivalTypes, Reported
<1>9. Slots'
  BY <1>3, <1>7, <1>8, SpawnBooks
<1> QED BY <1>3, <1>8, <1>9 DEF Reported, Joined

\* What an arrival run records is exact, for every rate, duration and cap: its
\* report puts every session it started in its class, and its peaks miss no
\* connection that was open.
THEOREM ArrivalsRecordedExactly == Spec => ArrivalsRecorded
<1>1. Init => Reported
  <2> SUFFICES ASSUME Init PROVE Reported
    OBVIOUS
  <2>1. WorkerInit /\ drv = "ramp"
    BY DEF Init, ArrivalsInit, DriveInit
  <2>2. connected \in [Workers -> BOOLEAN]
    BY <2>1 DEF WorkerInit
  <2> QED BY <2>1, <2>2, BooksInit DEF Reported, Books, Joined
<1>2. ArrivalInv /\ Reported /\ [Next]_vars => Reported'
  <2> SUFFICES ASSUME ArrivalInv, Reported, [Next]_vars PROVE Reported'
    OBVIOUS
  <2>1. ASSUME UNCHANGED <<stats, pc, connected>>, drv' # "done" \/ Joined' PROVE Reported'
    BY <2>1 DEF Reported, Slots, Joined
  <2>2. CASE ArrivalTail \/ TailCollect \/ ArrivalsOver \/ ClockTick
    BY <2>1, <2>2 DEF ArrivalTail, TailCollect, ArrivalsOver, ClockTick, driveVars, workerVars
  <2>3. CASE ArrivalsJoined
    BY <2>1, <2>3 DEF ArrivalsJoined, JoinWorkers, workerVars, Joined, Started
  <2>4. CASE CancelRun \/ (\E w \in Workers : SessionExpires(w)) \/ UNCHANGED vars
    BY <2>1, <2>4 DEF CancelRun, SessionExpires, vars, arrivalVars, driveVars, workerVars,
       Reported, Joined, Started
  <2>5. CASE ArrivalsTerminated /\ UNCHANGED busiest
    BY <2>4, <2>5 DEF ArrivalsTerminated, vars
  <2> QED BY <2>2, <2>3, <2>4, <2>5, WorkerReported, WakeReported
      DEF Next, ArrivalsDrive, ArrivalsStep, DurationOrSignal, RequestWatcher
<1>3. ArrivalInv /\ Reported => ArrivalsReportedExactly
  <2> SUFFICES ASSUME ArrivalInv, Reported PROVE ArrivalsReportedExactly
    OBVIOUS
  <2>1. stats \in Stats
    BY DEF ArrivalInv, ArrivalTypes
  <2> QED BY <2>1, ReportedExactly DEF ArrivalsReportedExactly, ArrivalsReport
<1> QED BY <1>1, <1>2, <1>3, ArrivalRunInvariant, PeaksNeverMissLoad, PTL
    DEF Spec, ArrivalsRecorded
============================================================================
