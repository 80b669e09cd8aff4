---------------------------- MODULE WorkerProofs ----------------------------
(***************************************************************************)
(* Facts about the counters and the control points of workers that the     *)
(* proofs of every load model use.                                         *)
(***************************************************************************)
EXTENDS Drive, Integers, FiniteSetTheorems, WellFoundedInduction, TLAPS

----------------------------------------------------------------------------
(* What the record_* operators do to each counter.                         *)

\* PlusOne adds one to the counters of C and leaves the others alone.
LEMMA PlusOneFacts ==
  ASSUME NEW D, NEW f \in [D -> Nat], NEW C
  PROVE  /\ PlusOne(f, C) \in [D -> Nat]
         /\ \A c \in D : PlusOne(f, C)[c] = IF c \in C THEN f[c] + 1 ELSE f[c]
BY DEF PlusOne

\* Record changes the counters it names, of one worker only.
LEMMA RecordFacts ==
  ASSUME NEW s \in Stats, NEW w \in Workers, NEW L, NEW C
  PROVE  /\ Record(s, w, L, C) \in Stats
         /\ \A c \in LiveCounters :
              Record(s, w, L, C).live[c] = IF c \in L THEN s.live[c] + 1 ELSE s.live[c]
         /\ \A c \in WorkerCounters :
              Record(s, w, L, C).of[w][c] = IF c \in C THEN s.of[w][c] + 1 ELSE s.of[w][c]
         /\ \A v \in Workers \ {w} : Record(s, w, L, C).of[v] = s.of[v]
<1>1. /\ PlusOne(s.live, L) \in [LiveCounters -> Nat]
      /\ PlusOne(s.of[w], C) \in [WorkerCounters -> Nat]
  BY PlusOneFacts DEF Stats
<1>2. s.of \in [Workers -> [WorkerCounters -> Nat]]
  BY DEF Stats
<1> QED BY <1>1, <1>2, PlusOneFacts DEF Record, Stats

\* record_connection_closed lowers the gauge and nothing else; it needs an
\* open connection not to go below zero.
LEMMA ClosedFacts ==
  ASSUME NEW s \in Stats, s.live["active"] > 0
  PROVE  /\ RecordClosed(s) \in Stats
         /\ RecordClosed(s).of = s.of
         /\ RecordClosed(s).live["active"] = s.live["active"] - 1
         /\ RecordClosed(s).live["sent"] = s.live["sent"]
BY DEF Stats, RecordClosed, LiveCounters

----------------------------------------------------------------------------
(* Counting the workers at a set of control points.                        *)

Weight(x, P) == IF x \in P THEN 1 ELSE 0

\* Two sets of workers that differ in one worker at most.
LEMMA MoveCardinality ==
  ASSUME NEW A \in SUBSET Workers, NEW B \in SUBSET Workers, NEW w \in Workers,
         A \ {w} = B \ {w}
  PROVE  /\ Cardinality(A) \in Nat
         /\ Cardinality(B) \in Nat
         /\ Cardinality(B) + Weight(w, A) = Cardinality(A) + Weight(w, B)
<1>1. ASSUME NEW C \in SUBSET Workers
      PROVE  /\ Cardinality(C) \in Nat /\ Cardinality(C \ {w}) \in Nat
             /\ Cardinality(C) = Cardinality(C \ {w}) + Weight(w, C)
  <2>1. IsFiniteSet(C)
    BY <1>1, FS_Subset, WorkersAssumption
  <2>2. /\ IsFiniteSet(C \ {w})
        /\ Cardinality(C \ {w}) = IF w \in C THEN Cardinality(C) - 1 ELSE Cardinality(C)
    BY <2>1, FS_RemoveElement
  <2>3. Cardinality(C) \in Nat /\ Cardinality(C \ {w}) \in Nat
    BY <2>1, <2>2, FS_CardinalityType
  <2> QED BY <2>2, <2>3 DEF Weight
<1>2. Weight(w, A) \in Nat /\ Weight(w, B) \in Nat
  BY DEF Weight
<1>3. /\ Cardinality(A) \in Nat /\ Cardinality(A \ {w}) \in Nat
      /\ Cardinality(A) = Cardinality(A \ {w}) + Weight(w, A)
  BY <1>1
<1>4. /\ Cardinality(B) \in Nat
      /\ Cardinality(B) = Cardinality(A \ {w}) + Weight(w, B)
  BY <1>1
<1> QED BY <1>2, <1>3, <1>4

----------------------------------------------------------------------------
(* Sums over a finite set.  The induction is over sets of numbers and of   *)
(* subsets, from the least element of a set of naturals.                   *)

\* A set of numbers has a least one.
LEMMA LeastNumber ==
  ASSUME NEW U \in SUBSET Nat, U # {}
  PROVE  \E x \in U : \A y \in U : x <= y
<1> DEFINE R == {p \in Nat \X Nat : p[1] < p[2]}
<1>1. IsWellFoundedOn(R, Nat)
  BY NatLessThanWellFounded DEF OpToRel
<1>2. PICK x \in U : \A y \in U : <<y, x>> \notin R
  <2> HIDE DEF R
  <2> QED BY <1>1, WFMin
<1>3. \A y \in U : x <= y
  <2> SUFFICES ASSUME NEW y \in U PROVE x <= y
    OBVIOUS
  <2>1. <<y, x>> \notin R /\ y \in Nat /\ x \in Nat
    BY <1>2
  <2> QED BY <2>1
<1> QED BY <1>3

\* A set of numbers with 0 and with the successor of each of its members.
LEMMA AllNumbers ==
  ASSUME NEW T \in SUBSET Nat, 0 \in T, \A n \in T : n + 1 \in T
  PROVE  T = Nat
<1> DEFINE R == {p \in Nat \X Nat : p[1] < p[2]}
           U == Nat \ T
<1>1. IsWellFoundedOn(R, Nat)
  BY NatLessThanWellFounded DEF OpToRel
<1>2. SUFFICES ASSUME U # {} PROVE FALSE
  OBVIOUS
<1>3. U \subseteq Nat
  OBVIOUS
<1>4. PICK x \in U : \A y \in U : <<y, x>> \notin R
  <2> HIDE DEF R, U
  <2> QED BY <1>1, <1>2, <1>3, WFMin
<1>5. x \in Nat /\ x # 0 /\ x - 1 \in Nat /\ x - 1 < x
  BY <1>4
<1>6. <<x - 1, x>> \in R
  BY <1>5
<1>7. x - 1 \in T
  BY <1>4, <1>5, <1>6
<1>8. (x - 1) + 1 \in T
  BY <1>7
<1> QED BY <1>4, <1>5, <1>8

\* The element the folds of the community modules take first.
Pick(s) == CHOOSE x \in s : TRUE

\* g[s] is the sum of f over s when it is over every smaller set.
Adds(g, f, s) == g[s] = IF s = {} THEN 0 ELSE f[Pick(s)] + g[s \ {Pick(s)}]

\* The elements of a finite set are taken one by one.
LEMMA PickFacts ==
  ASSUME NEW S, IsFiniteSet(S), NEW s \in SUBSET S
  PROVE  /\ Cardinality(s) \in Nat /\ Cardinality(s) <= Cardinality(S)
         /\ Cardinality(s) = 0 <=> s = {}
         /\ s # {} => /\ Pick(s) \in s /\ s \ {Pick(s)} \in SUBSET S
                      /\ Cardinality(s \ {Pick(s)}) = Cardinality(s) - 1
<1>1. /\ IsFiniteSet(s) /\ Cardinality(s) \in Nat /\ Cardinality(s) <= Cardinality(S)
      /\ Cardinality(s) = 0 <=> s = {}
  BY FS_Subset, FS_CardinalityType, FS_EmptySet
<1>2. s # {} => Pick(s) \in s
  BY DEF Pick
<1> QED BY <1>1, <1>2, FS_RemoveElement

\* Such a g exists.
LEMMA SumExists ==
  ASSUME NEW S, IsFiniteSet(S), NEW f \in [S -> Int]
  PROVE  \E g \in [SUBSET S -> Int] : \A s \in SUBSET S : Adds(g, f, s)
<1> DEFINE D(n) == {s \in SUBSET S : Cardinality(s) <= n}
           T == {n \in Nat : \E g \in [D(n) -> Int] : \A s \in D(n) : Adds(g, f, s)}
<1>1. \A s \in SUBSET S : /\ Cardinality(s) \in Nat /\ Cardinality(s) <= Cardinality(S)
                           /\ (Cardinality(s) = 0 <=> s = {})
  BY PickFacts
<1>2. \A s \in SUBSET S : s # {} =>
        /\ Pick(s) \in s /\ s \ {Pick(s)} \in SUBSET S
        /\ Cardinality(s \ {Pick(s)}) = Cardinality(s) - 1
  BY PickFacts
<1>3. 0 \in T
  <2> DEFINE g == [s \in D(0) |-> 0]
  <2>1. \A s \in D(0) : s = {}
    BY <1>1
  <2>2. g \in [D(0) -> Int] /\ \A s \in D(0) : Adds(g, f, s)
    BY <2>1 DEF Adds
  <2> QED BY <2>2
<1>4. ASSUME NEW n \in T PROVE n + 1 \in T
  <2>1. PICK g \in [D(n) -> Int] : \A s \in D(n) : Adds(g, f, s)
    BY <1>4
  <2> DEFINE h == [s \in D(n + 1) |-> IF s = {} THEN 0 ELSE f[Pick(s)] + g[s \ {Pick(s)}]]
  <2>2. n \in Nat /\ \A s \in D(n) : s \in D(n + 1)
    BY <1>1, <1>4
  <2>3. \A s \in D(n + 1) : s # {} => s \ {Pick(s)} \in D(n) /\ f[Pick(s)] \in Int
    BY <1>1, <1>2, <2>2
  <2>4. h \in [D(n + 1) -> Int]
    BY <2>1, <2>3
  <2>5. \A s \in D(n) : h[s] = g[s]
    BY <2>1, <2>2 DEF Adds
  <2>6. \A s \in D(n + 1) : Adds(h, f, s)
    BY <2>3, <2>5 DEF Adds
  <2>7. n + 1 \in Nat
    BY <2>2
  <2> HIDE DEF h, D
  <2> QED BY <2>4, <2>6, <2>7
<1>5. T = Nat
  <2> HIDE DEF T
  <2>1. T \in SUBSET Nat
    BY DEF T
  <2>2. \A n \in T : n + 1 \in T
    BY <1>4
  <2> QED BY <1>3, <2>1, <2>2, AllNumbers
<1>6. Cardinality(S) \in Nat /\ D(Cardinality(S)) = SUBSET S
  BY <1>1, FS_CardinalityType
<1> QED BY <1>5, <1>6

\* Induction over the subsets of a finite set.
LEMMA AllSubsets ==
  ASSUME NEW S, IsFiniteSet(S), NEW T, {} \in T,
         \A s \in SUBSET S : s # {} /\ s \ {Pick(s)} \in T => s \in T
  PROVE  \A s \in SUBSET S : s \in T
<1> DEFINE N == {n \in Nat : \A s \in SUBSET S : Cardinality(s) <= n => s \in T}
<1>1. 0 \in N
  <2>1. ASSUME NEW s \in SUBSET S, Cardinality(s) <= 0 PROVE s = {}
    <3>1. Cardinality(s) \in Nat /\ (Cardinality(s) = 0 <=> s = {})
      BY PickFacts
    <3> QED BY <2>1, <3>1
  <2> QED BY <2>1
<1>2. ASSUME NEW n \in N PROVE n + 1 \in N
  <2>1. ASSUME NEW s \in SUBSET S, Cardinality(s) <= n + 1 PROVE s \in T
    <3>1. n \in Nat /\ Cardinality(s) \in Nat
      BY PickFacts
    <3>2. s # {} => s \ {Pick(s)} \in SUBSET S /\ Cardinality(s \ {Pick(s)}) <= n
      BY <2>1, <3>1, PickFacts
    <3> QED BY <3>2
  <2> QED BY <2>1
<1>3. N = Nat
  <2> HIDE DEF N
  <2>1. N \in SUBSET Nat
    BY DEF N
  <2>2. \A n \in N : n + 1 \in N
    BY <1>2
  <2> QED BY <1>1, <2>1, <2>2, AllNumbers
<1>4. \A s \in SUBSET S : Cardinality(s) \in Nat
  BY PickFacts
<1> QED BY <1>3, <1>4

\* What SumFunctionOnSet computes.
LEMMA SumDef ==
  ASSUME NEW S, IsFiniteSet(S), NEW f \in [S -> Int]
  PROVE  \E g \in [SUBSET S -> Int] :
           (\A s \in SUBSET S : Adds(g, f, s)) /\ SumFunctionOnSet(f, S) = g[S]
<1> DEFINE Is(g) == g = [s \in SUBSET S |-> IF s = {} THEN 0 ELSE f[Pick(s)] + g[s \ {Pick(s)}]]
           c == CHOOSE h : Is(h)
<1>1. PICK g \in [SUBSET S -> Int] : \A s \in SUBSET S : Adds(g, f, s)
  BY SumExists
<1>2. Is(g)
  BY <1>1 DEF Adds
<1>3. SumFunctionOnSet(f, S) = c[S]
  BY DEF SumFunctionOnSet, FoldFunctionOnSet, MapThenFoldSet, Pick
<1>4. Is(c)
  <2> HIDE DEF Is
  <2> QED BY <1>2
<1>5. \A s \in SUBSET S : Adds(c, f, s)
  <2> HIDE DEF c
  <2> QED BY <1>4 DEF Adds
<1> HIDE DEF c
<1> DEFINE T == {s \in SUBSET S : c[s] = g[s]}
<1>6. {} \in T
  BY <1>1, <1>5 DEF Adds
<1>7. ASSUME NEW s \in SUBSET S, s # {}, s \ {Pick(s)} \in T PROVE s \in T
  BY <1>1, <1>5, <1>7 DEF Adds
<1>8. \A s \in SUBSET S : s \in T
  <2> HIDE DEF T
  <2> QED BY <1>6, <1>7, AllSubsets
<1> QED BY <1>1, <1>3, <1>8

\* Changing the value of one element changes the sum by as much.
LEMMA SumMove ==
  ASSUME NEW S, IsFiniteSet(S), NEW f \in [S -> Int], NEW g \in [S -> Int],
         NEW w \in S, \A v \in S \ {w} : g[v] = f[v]
  PROVE  /\ SumFunctionOnSet(f, S) \in Int /\ SumFunctionOnSet(g, S) \in Int
         /\ SumFunctionOnSet(g, S) = SumFunctionOnSet(f, S) + (g[w] - f[w])
<1>1. PICK a \in [SUBSET S -> Int] :
        (\A s \in SUBSET S : Adds(a, f, s)) /\ SumFunctionOnSet(f, S) = a[S]
  BY SumDef
<1>2. PICK b \in [SUBSET S -> Int] :
        (\A s \in SUBSET S : Adds(b, g, s)) /\ SumFunctionOnSet(g, S) = b[S]
  BY SumDef
<1> DEFINE Moved(s) == b[s] = a[s] + (IF w \in s THEN g[w] - f[w] ELSE 0)
           T == {s \in SUBSET S : Moved(s)}
<1>3. {} \in T
  <2>1. a[{}] = 0 /\ b[{}] = 0
    BY <1>1, <1>2 DEF Adds
  <2> QED BY <2>1
<1>4. ASSUME NEW s \in SUBSET S, s # {}, s \ {Pick(s)} \in T PROVE s \in T
  <2> DEFINE x == Pick(s)
             r == s \ {x}
  <2>1. x \in s /\ r \in SUBSET S /\ Moved(r)
    BY <1>4, PickFacts
  <2>2. a[s] = f[x] + a[r] /\ b[s] = g[x] + b[r]
    BY <1>1, <1>2, <1>4 DEF Adds
  <2>3. (w \in s <=> w \in r \/ w = x) /\ (w = x => w \notin r)
    BY <2>1
  <2>4. /\ a[r] \in Int /\ b[r] \in Int /\ f[x] \in Int /\ g[x] \in Int
        /\ g[w] \in Int /\ f[w] \in Int /\ (w # x => g[x] = f[x])
    BY <2>1
  <2> HIDE DEF x, r
  <2>5. Moved(s)
    BY <2>1, <2>2, <2>3, <2>4
  <2> QED BY <2>5
<1>5. \A s \in SUBSET S : s \in T
  <2> HIDE DEF T
  <2> QED BY <1>3, <1>4, AllSubsets
<1>6. Moved(S)
  BY <1>5
<1> QED BY <1>1, <1>2, <1>6

\* A sum of sums.
LEMMA SumAdd ==
  ASSUME NEW S, IsFiniteSet(S), NEW f \in [S -> Int], NEW g \in [S -> Int],
         NEW h \in [S -> Int], \A v \in S : h[v] = f[v] + g[v]
  PROVE  /\ SumFunctionOnSet(f, S) \in Int /\ SumFunctionOnSet(g, S) \in Int
         /\ SumFunctionOnSet(h, S) = SumFunctionOnSet(f, S) + SumFunctionOnSet(g, S)
<1>1. PICK a \in [SUBSET S -> Int] :
        (\A s \in SUBSET S : Adds(a, f, s)) /\ SumFunctionOnSet(f, S) = a[S]
  BY SumDef
<1>2. PICK b \in [SUBSET S -> Int] :
        (\A s \in SUBSET S : Adds(b, g, s)) /\ SumFunctionOnSet(g, S) = b[S]
  BY SumDef
<1>3. PICK c \in [SUBSET S -> Int] :
        (\A s \in SUBSET S : Adds(c, h, s)) /\ SumFunctionOnSet(h, S) = c[S]
  BY SumDef
<1> DEFINE T == {s \in SUBSET S : c[s] = a[s] + b[s]}
<1>4. {} \in T
  <2>1. a[{}] = 0 /\ b[{}] = 0 /\ c[{}] = 0
    BY <1>1, <1>2, <1>3 DEF Adds
  <2> QED BY <2>1
<1>5. ASSUME NEW s \in SUBSET S, s # {}, s \ {Pick(s)} \in T PROVE s \in T
  <2> DEFINE x == Pick(s)
             r == s \ {x}
  <2>1. x \in S /\ r \in SUBSET S /\ c[r] = a[r] + b[r]
    BY <1>5, PickFacts
  <2>2. a[s] = f[x] + a[r] /\ b[s] = g[x] + b[r] /\ c[s] = h[x] + c[r]
    BY <1>1, <1>2, <1>3, <1>5 DEF Adds
  <2>3. /\ a[r] \in Int /\ b[r] \in Int /\ f[x] \in Int /\ g[x] \in Int
        /\ h[x] = f[x] + g[x]
    BY <2>1
  <2> HIDE DEF x, r
  <2>4. c[s] = a[s] + b[s]
    BY <2>1, <2>2, <2>3
  <2> QED BY <2>4
<1>6. \A s \in SUBSET S : s \in T
  <2> HIDE DEF T
  <2> QED BY <1>4, <1>5, AllSubsets
<1>7. c[S] = a[S] + b[S]
  BY <1>6
<1> QED BY <1>1, <1>2, <1>3, <1>7

\* Adding up one for each member of A and nothing for the others counts A.
LEMMA SumCounts ==
  ASSUME NEW S, IsFiniteSet(S), NEW A \in SUBSET S, NEW f \in [S -> Int],
         \A v \in S : f[v] = Weight(v, A)
  PROVE  SumFunctionOnSet(f, S) = Cardinality(A)
<1>1. PICK a \in [SUBSET S -> Int] :
        (\A s \in SUBSET S : Adds(a, f, s)) /\ SumFunctionOnSet(f, S) = a[S]
  BY SumDef
<1> DEFINE T == {s \in SUBSET S : a[s] = Cardinality(s \cap A)}
<1>2. {} \in T
  <2>1. a[{}] = 0 /\ Cardinality({}) = 0 /\ {} \cap A = {}
    BY <1>1, FS_EmptySet DEF Adds
  <2> QED BY <2>1
<1>3. ASSUME NEW s \in SUBSET S, s # {}, s \ {Pick(s)} \in T PROVE s \in T
  <2> DEFINE x == Pick(s)
             r == s \ {x}
             c == s \cap A
  <2>1. x \in s /\ r \in SUBSET S /\ a[r] = Cardinality(r \cap A)
    BY <1>3, PickFacts
  <2>2. a[s] = f[x] + a[r]
    BY <1>1, <1>3 DEF Adds
  <2>3. r \cap A = c \ {x} /\ IsFiniteSet(c) /\ (x \in c <=> x \in A)
    <3>1. c \in SUBSET S
      OBVIOUS
    <3> QED BY <2>1, <3>1, FS_Subset
  <2>4. f[x] = Weight(x, A) /\ Weight(x, A) = IF x \in A THEN 1 ELSE 0
    BY <2>1 DEF Weight
  <2> HIDE DEF x, r, c
  <2>5. /\ Cardinality(c) \in Nat
        /\ Cardinality(c \ {x}) = IF x \in c THEN Cardinality(c) - 1 ELSE Cardinality(c)
    BY <2>3, FS_RemoveElement, FS_CardinalityType
  <2>6. a[r] = Cardinality(c \ {x})
    BY <2>1, <2>3
  <2>7. a[s] = Cardinality(c)
    <3>1. CASE x \in A
      BY <2>2, <2>3, <2>4, <2>5, <2>6, <3>1
    <3>2. CASE x \notin A
      BY <2>2, <2>3, <2>4, <2>5, <2>6, <3>2
    <3> QED BY <3>1, <3>2
  <2> QED BY <2>7 DEF c
<1>4. \A s \in SUBSET S : s \in T
  <2> HIDE DEF T
  <2> QED BY <1>2, <1>3, AllSubsets
<1>5. a[S] = Cardinality(S \cap A) /\ S \cap A = A
  BY <1>4
<1> QED BY <1>1, <1>5

\* Adding up naturals gives a natural.
LEMMA SumNatural ==
  ASSUME NEW S, IsFiniteSet(S), NEW f \in [S -> Int], \A v \in S : f[v] \in Nat
  PROVE  SumFunctionOnSet(f, S) \in Nat
<1>1. PICK a \in [SUBSET S -> Int] :
        (\A s \in SUBSET S : Adds(a, f, s)) /\ SumFunctionOnSet(f, S) = a[S]
  BY SumDef
<1> DEFINE T == {s \in SUBSET S : a[s] \in Nat}
<1>2. {} \in T
  BY <1>1 DEF Adds
<1>3. ASSUME NEW s \in SUBSET S, s # {}, s \ {Pick(s)} \in T PROVE s \in T
  <2>1. Pick(s) \in S /\ s \ {Pick(s)} \in SUBSET S
    BY <1>3, PickFacts
  <2> QED BY <1>1, <1>3, <2>1 DEF Adds
<1>4. \A s \in SUBSET S : s \in T
  <2> HIDE DEF T
  <2> QED BY <1>2, <1>3, AllSubsets
<1>5. a[S] \in Nat
  BY <1>4
<1> QED BY <1>1, <1>5

\* Adding up smaller values gives a smaller sum.
LEMMA SumBounded ==
  ASSUME NEW S, IsFiniteSet(S), NEW f \in [S -> Int], NEW g \in [S -> Int],
         \A v \in S : f[v] <= g[v]
  PROVE  SumFunctionOnSet(f, S) <= SumFunctionOnSet(g, S)
<1> DEFINE h == [v \in S |-> g[v] - f[v]]
<1>1. /\ h \in [S -> Int] /\ \A v \in S : h[v] \in Nat
      /\ \A v \in S : g[v] = f[v] + h[v]
  OBVIOUS
<1> HIDE DEF h
<1>2. SumFunctionOnSet(h, S) \in Nat
  BY <1>1, SumNatural
<1>3. /\ SumFunctionOnSet(f, S) \in Int
      /\ SumFunctionOnSet(g, S) = SumFunctionOnSet(f, S) + SumFunctionOnSet(h, S)
  BY <1>1, SumAdd
<1> QED BY <1>2, <1>3

\* The sum over s is that over the rest of s and the value of x.
Takes(g, f, s, x) == g[s] = f[x] + g[s \ {x}]

\* The order in which the elements are taken does not matter.
LEMMA SumAnyOrder ==
  ASSUME NEW S, IsFiniteSet(S), NEW f \in [S -> Int], NEW g \in [SUBSET S -> Int],
         \A s \in SUBSET S : Adds(g, f, s)
  PROVE  \A s \in SUBSET S : \A x \in s : Takes(g, f, s, x)
<1> DEFINE Any(s) == \A x \in s : Takes(g, f, s, x)
           N == {n \in Nat : \A s \in SUBSET S : Cardinality(s) <= n => Any(s)}
<1>1. \A s \in SUBSET S : /\ Cardinality(s) \in Nat /\ (Cardinality(s) = 0 <=> s = {})
                           /\ \A x \in s : Cardinality(s \ {x}) = Cardinality(s) - 1
  BY FS_Subset, FS_CardinalityType, FS_EmptySet, FS_RemoveElement
<1>2. 0 \in N
  <2>1. \A s \in SUBSET S : Cardinality(s) <= 0 => s = {}
    BY <1>1
  <2> QED BY <2>1
<1>3. ASSUME NEW n \in N PROVE n + 1 \in N
  <2>1. ASSUME NEW s \in SUBSET S, Cardinality(s) <= n + 1, NEW x \in s
        PROVE  Takes(g, f, s, x)
    <3> DEFINE p == Pick(s)
               a == s \ {p}
               b == s \ {x}
               c == a \ {x}
    <3>1. p \in s /\ p \in S /\ x \in S
      BY PickFacts
    <3>2. g[s] = f[p] + g[a]
      BY <3>1 DEF Adds
    <3>3. CASE x = p
      BY <3>2, <3>3 DEF Takes
    <3>4. CASE x # p
      <4>1. a \in SUBSET S /\ b \in SUBSET S /\ c \in SUBSET S /\ x \in a /\ p \in b
        BY <3>1, <3>4
      <4>2. b \ {p} = c
        OBVIOUS
      <4>3. n \in Nat /\ Cardinality(a) <= n /\ Cardinality(b) <= n
        <5>1. Cardinality(a) = Cardinality(s) - 1 /\ Cardinality(b) = Cardinality(s) - 1
          BY <1>1, <3>1
        <5> QED BY <1>1, <2>1, <5>1
      <4>4. Any(a) /\ Any(b)
        BY <4>1, <4>3
      <4>5. g[a] = f[x] + g[c]
        BY <4>1, <4>4 DEF Takes
      <4>6. g[b] = f[p] + g[c]
        BY <4>1, <4>2, <4>4 DEF Takes
      <4>7. g[c] \in Int /\ f[x] \in Int /\ f[p] \in Int
        BY <3>1, <4>1
      <4> HIDE DEF p, a, b, c
      <4> QED BY <3>2, <4>5, <4>6, <4>7 DEF b, Takes
    <3> QED BY <3>3, <3>4
  <2> QED BY <2>1
<1>4. N = Nat
  <2> HIDE DEF N
  <2>1. N \in SUBSET Nat
    BY DEF N
  <2>2. \A n \in N : n + 1 \in N
    BY <1>3
  <2> QED BY <1>2, <2>1, <2>2, AllNumbers
<1>5. \A s \in SUBSET S : Any(s)
  <2> HIDE DEF Any
  <2>1. \A n \in N : \A s \in SUBSET S : Cardinality(s) <= n => Any(s)
    OBVIOUS
  <2> HIDE DEF N
  <2> QED BY <1>1, <1>4, <2>1
<1> QED BY <1>5

\* Elements that add nothing can be left out.
LEMMA SumOfPart ==
  ASSUME NEW S, IsFiniteSet(S), NEW W \in SUBSET S, NEW f \in [S -> Int], NEW g \in [W -> Int],
         \A v \in W : g[v] = f[v], \A v \in S \ W : f[v] = 0
  PROVE  SumFunctionOnSet(f, S) = SumFunctionOnSet(g, W)
<1>1. PICK a \in [SUBSET S -> Int] :
        (\A s \in SUBSET S : Adds(a, f, s)) /\ SumFunctionOnSet(f, S) = a[S]
  BY SumDef
<1>2. IsFiniteSet(W)
  BY FS_Subset
<1>3. PICK b \in [SUBSET W -> Int] :
        (\A s \in SUBSET W : Adds(b, g, s)) /\ SumFunctionOnSet(g, W) = b[W]
  BY <1>2, SumDef
<1>4. \A s \in SUBSET W : \A x \in s : Takes(b, g, s, x)
  <2>1. \A s \in SUBSET W : Adds(b, g, s)
    BY <1>3
  <2> QED BY <1>2, <2>1, SumAnyOrder
<1> DEFINE T == {s \in SUBSET S : a[s] = b[s \cap W]}
<1>5. {} \in T
  <2>1. a[{}] = 0 /\ b[{}] = 0 /\ {} \cap W = {}
    BY <1>1, <1>3 DEF Adds
  <2> QED BY <2>1
<1>6. ASSUME NEW s \in SUBSET S, s # {}, s \ {Pick(s)} \in T PROVE s \in T
  <2> DEFINE x == Pick(s)
             r == s \ {x}
             u == s \cap W
  <2>1. x \in s /\ x \in S /\ r \in SUBSET S /\ a[r] = b[r \cap W]
    BY <1>6, PickFacts
  <2>2. a[s] = f[x] + a[r]
    BY <1>1, <1>6 DEF Adds
  <2>3. r \cap W = u \ {x} /\ u \in SUBSET W /\ u \ {x} \in SUBSET W
    OBVIOUS
  <2>4. a[r] = b[u \ {x}] /\ b[u] \in Int /\ f[x] \in Int
    BY <2>1, <2>3
  <2>5. CASE x \in W
    <3>1. x \in u /\ g[x] = f[x]
      BY <2>1, <2>5
    <3>2. b[u] = g[x] + b[u \ {x}]
      BY <1>4, <2>3, <3>1 DEF Takes
    <3>3. a[s] = b[u]
      BY <2>2, <2>4, <3>1, <3>2
    <3> QED BY <3>3
  <2>6. CASE x \notin W
    <3>1. u \ {x} = u /\ f[x] = 0
      BY <2>1, <2>6
    <3>2. a[r] = b[u]
      BY <2>4, <3>1
    <3>3. a[s] = b[u]
      BY <2>2, <2>4, <3>1, <3>2
    <3> QED BY <3>3
  <2> QED BY <2>5, <2>6
<1>7. \A s \in SUBSET S : s \in T
  <2> HIDE DEF T
  <2> QED BY <1>5, <1>6, AllSubsets
<1>8. a[S] = b[S \cap W] /\ S \cap W = W
  BY <1>7
<1> QED BY <1>1, <1>3, <1>8

\* One element more adds its value.
LEMMA SumOneMore ==
  ASSUME NEW S, IsFiniteSet(S), NEW x \in S, NEW f \in [S -> Int],
         NEW g \in [S \ {x} -> Int], \A v \in S \ {x} : g[v] = f[v]
  PROVE  /\ SumFunctionOnSet(g, S \ {x}) \in Int
         /\ SumFunctionOnSet(f, S) = SumFunctionOnSet(g, S \ {x}) + f[x]
<1> DEFINE W == S \ {x}
           h == [v \in S |-> IF v = x THEN 0 ELSE f[v]]
<1>1. /\ h \in [S -> Int] /\ h[x] = 0 /\ \A v \in S \ {x} : f[v] = h[v]
  OBVIOUS
<1>2. /\ W \in SUBSET S /\ g \in [W -> Int] /\ \A v \in W : g[v] = h[v]
      /\ \A v \in S \ W : h[v] = 0
  BY <1>1
<1> HIDE DEF W, h
<1>3. /\ SumFunctionOnSet(h, S) \in Int
      /\ SumFunctionOnSet(f, S) = SumFunctionOnSet(h, S) + (f[x] - h[x])
  BY <1>1, SumMove
<1>4. SumFunctionOnSet(h, S) = SumFunctionOnSet(g, W)
  BY <1>1, <1>2, SumOfPart
<1>5. f[x] \in Int
  OBVIOUS
<1> QED BY <1>1, <1>3, <1>4, <1>5 DEF W

----------------------------------------------------------------------------
(* The effect of each record_* call on the counters of the invariant.      *)

Effect(s, t, w, active, sent, failed) ==
  /\ t \in Stats
  /\ t.live["active"] = s.live["active"] + active
  /\ t.live["sent"] = s.live["sent"] + sent
  /\ t.of[w]["sent"] = s.of[w]["sent"] + sent
  /\ t.of[w]["sentErrors"] = s.of[w]["sentErrors"] + failed
  /\ \A v \in Workers \ {w} : t.of[v] = s.of[v]

\* The counters the invariant speaks of are numbers.
LEMMA StatsNumbers ==
  ASSUME NEW s \in Stats, NEW w \in Workers
  PROVE  /\ s.live["active"] \in Nat /\ s.live["sent"] \in Nat
         /\ s.of[w]["sent"] \in Nat /\ s.of[w]["sentErrors"] \in Nat
BY DEF Stats, LiveCounters, WorkerCounters

\* Record in terms of Effect.
LEMMA RecordEffect ==
  ASSUME NEW s \in Stats, NEW w \in Workers, NEW L, NEW C,
         "sent" \in L <=> "sent" \in C
  PROVE  Effect(s, Record(s, w, L, C), w, Weight("active", L),
                Weight("sent", L), Weight("sentErrors", C))
BY RecordFacts, StatsNumbers DEF Effect, Weight, LiveCounters, WorkerCounters

\* Each record_* function of the code in terms of Effect.
LEMMA Effects ==
  ASSUME NEW s \in Stats, NEW w \in Workers
  PROVE  /\ Effect(s, s, w, 0, 0, 0)
         /\ Effect(s, RecordHandshake(s, w), w, 1, 0, 0)
         /\ Effect(s, RecordReconnect(s, w), w, 1, 0, 0)
         /\ Effect(s, RecordAttemptError(s, w), w, 0, 0, 0)
         /\ Effect(s, RecordSentError(s, w), w, 0, 0, 1)
         /\ Effect(s, RecordConnectionFailed(s, w), w, 0, 0, 0)
         /\ Effect(s, RecordSent(s, w), w, 0, 1, 0)
         /\ Effect(s, RecordRecv(s, w), w, 0, 0, 0)
         /\ Effect(s, RecordChaosDropped(s, w), w, 0, 0, 0)
         /\ Effect(s, RecordInterrupted(s, w), w, 0, 0, 0)
<1>0. Effect(s, s, w, 0, 0, 0)
  BY StatsNumbers DEF Effect
<1>1. Effect(s, RecordHandshake(s, w), w, 1, 0, 0)
  <2>1. Effect(s, RecordHandshake(s, w), w, Weight("active", {"active", "established"}),
               Weight("sent", {"active", "established"}), Weight("sentErrors", {"handshakes"}))
    BY RecordEffect DEF RecordHandshake
  <2> QED BY <2>1 DEF Weight
<1>2. Effect(s, RecordReconnect(s, w), w, 1, 0, 0)
  <2>1. Effect(s, RecordReconnect(s, w), w, Weight("active", {"active", "reconnects"}),
               Weight("sent", {"active", "reconnects"}),
               Weight("sentErrors", {"handshakes", "reconnects"}))
    BY RecordEffect DEF RecordReconnect
  <2> QED BY <2>1 DEF Weight
<1>3. Effect(s, RecordAttemptError(s, w), w, 0, 0, 0)
  <2>1. Effect(s, RecordAttemptError(s, w), w, Weight("active", {"errors"}),
               Weight("sent", {"errors"}), Weight("sentErrors", {"errors"}))
    BY RecordEffect DEF RecordAttemptError
  <2> QED BY <2>1 DEF Weight
<1>4. Effect(s, RecordSentError(s, w), w, 0, 0, 1)
  <2>1. Effect(s, RecordSentError(s, w), w, Weight("active", {"errors"}),
               Weight("sent", {"errors"}), Weight("sentErrors", {"errors", "sentErrors"}))
    BY RecordEffect DEF RecordSentError
  <2> QED BY <2>1 DEF Weight
<1>5. Effect(s, RecordConnectionFailed(s, w), w, 0, 0, 0)
  <2>1. Effect(s, RecordConnectionFailed(s, w), w, Weight("active", {"errors", "failed"}),
               Weight("sent", {"errors", "failed"}), Weight("sentErrors", {"errors"}))
    BY RecordEffect DEF RecordConnectionFailed
  <2> QED BY <2>1 DEF Weight
<1>6. Effect(s, RecordSent(s, w), w, 0, 1, 0)
  <2>1. Effect(s, RecordSent(s, w), w, Weight("active", {"sent"}),
               Weight("sent", {"sent"}), Weight("sentErrors", {"sent"}))
    BY RecordEffect DEF RecordSent
  <2> QED BY <2>1 DEF Weight
<1>7. Effect(s, RecordRecv(s, w), w, 0, 0, 0)
  <2>1. Effect(s, RecordRecv(s, w), w, Weight("active", {"recv"}),
               Weight("sent", {"recv"}), Weight("sentErrors", {"recv"}))
    BY RecordEffect DEF RecordRecv
  <2> QED BY <2>1 DEF Weight
<1>8. Effect(s, RecordChaosDropped(s, w), w, 0, 0, 0)
  <2>1. Effect(s, RecordChaosDropped(s, w), w, Weight("active", {}),
               Weight("sent", {}), Weight("sentErrors", {"dropped"}))
    BY RecordEffect DEF RecordChaosDropped
  <2> QED BY <2>1 DEF Weight
<1>9. Effect(s, RecordInterrupted(s, w), w, 0, 0, 0)
  <2>1. Effect(s, RecordInterrupted(s, w), w, Weight("active", {}),
               Weight("sent", {}), Weight("sentErrors", {"interrupted"}))
    BY RecordEffect DEF RecordInterrupted
  <2> QED BY <2>1 DEF Weight
<1> QED BY <1>0, <1>1, <1>2, <1>3, <1>4, <1>5, <1>6, <1>7, <1>8, <1>9

\* The end of a session in terms of Effect.
LEMMA ClosedEffect ==
  ASSUME NEW s \in Stats, NEW w \in Workers, s.live["active"] > 0
  PROVE  Effect(s, RecordClosed(s), w, -1, 0, 0)
BY ClosedFacts, StatsNumbers DEF Effect

----------------------------------------------------------------------------
(* What a step of the lifecycle does, whatever session loop runs in it.    *)

\* Moving a worker keeps the gauge exact when the gauge changes by what the
\* move opens or closes.
LEMMA GaugeMove ==
  ASSUME NEW L, pc \in [Workers -> L], NEW w \in Workers, NEW l \in L,
         pc' = [pc EXCEPT ![w] = l],
         GaugeIsOpenSessions, NEW a \in {-1, 0, 1},
         stats'.live["active"] = stats.live["active"] + a,
         a + Weight(l, Outside) = Weight(pc[w], Outside)
  PROVE  GaugeIsOpenSessions'
<1> DEFINE P == L \ Outside
<1>1. /\ OpenSessions = {v \in Workers : pc[v] \in P}
      /\ OpenSessions' = {v \in Workers : pc'[v] \in P}
  BY DEF OpenSessions
<1>2. /\ Cardinality(OpenSessions) \in Nat /\ Cardinality(OpenSessions') \in Nat
      /\ Cardinality(OpenSessions') + Weight(pc[w], P) = Cardinality(OpenSessions) + Weight(l, P)
  <2> DEFINE A == OpenSessions
             B == OpenSessions'
  <2>1. /\ A \in SUBSET Workers /\ B \in SUBSET Workers /\ A \ {w} = B \ {w}
        /\ Weight(w, A) = Weight(pc[w], P) /\ Weight(w, B) = Weight(l, P)
    BY <1>1 DEF Weight
  <2> HIDE DEF A, B
  <2>2. /\ Cardinality(A) \in Nat /\ Cardinality(B) \in Nat
        /\ Cardinality(B) + Weight(w, A) = Cardinality(A) + Weight(w, B)
    BY <2>1, MoveCardinality
  <2> QED BY <2>1, <2>2 DEF A, B
<1>3. \A k \in L : Weight(k, P) + Weight(k, Outside) = 1 /\ Weight(k, P) \in {0, 1}
  BY DEF Weight
<1>4. Weight(pc[w], Outside) \in {0, 1} /\ Weight(l, Outside) \in {0, 1} /\ pc[w] \in L
  BY DEF Weight
<1>5. stats.live["active"] = Cardinality(OpenSessions)
  BY DEF GaugeIsOpenSessions
<1> HIDE DEF P
<1>6. stats'.live["active"] = Cardinality(OpenSessions')
  BY <1>2, <1>3, <1>4, <1>5
<1> QED BY <1>6 DEF GaugeIsOpenSessions

\* While a session is open the gauge is above zero.
LEMMA OpenGauge ==
  ASSUME GaugeIsOpenSessions, NEW w \in Workers, pc[w] \notin Outside
  PROVE  stats.live["active"] \in Nat \ {0}
<1>1. w \in OpenSessions /\ OpenSessions \in SUBSET Workers
  BY DEF OpenSessions
<1>2. IsFiniteSet(OpenSessions)
  BY <1>1, FS_Subset, WorkersAssumption
<1>3. Cardinality(OpenSessions) \in Nat \ {0}
  BY <1>1, <1>2, FS_CardinalityType, FS_EmptySet
<1> QED BY <1>3 DEF GaugeIsOpenSessions

\* The change of the gauge (a) and of worker w's handshakes, sent, received
\* and failed messages.
Change(s, t, w, a, h, n, r, f) ==
  /\ t \in Stats
  /\ t.live["active"] = s.live["active"] + a
  /\ t.live["sent"] = s.live["sent"] + n
  /\ t.of[w]["handshakes"] = s.of[w]["handshakes"] + h
  /\ t.of[w]["sent"] = s.of[w]["sent"] + n
  /\ t.of[w]["recv"] = s.of[w]["recv"] + r
  /\ t.of[w]["sentErrors"] = s.of[w]["sentErrors"] + f
  /\ \A v \in Workers \ {w} : t.of[v] = s.of[v]

\* Record in terms of Change.
LEMMA RecordChange ==
  ASSUME NEW s \in Stats, NEW w \in Workers, NEW L, NEW C,
         "sent" \in L <=> "sent" \in C
  PROVE  Change(s, Record(s, w, L, C), w, Weight("active", L), Weight("handshakes", C),
                Weight("sent", C), Weight("recv", C), Weight("sentErrors", C))
<1>1. /\ s.live \in [LiveCounters -> Nat] /\ s.of[w] \in [WorkerCounters -> Nat]
  BY DEF Stats
<1>2. /\ {"active", "sent"} \subseteq LiveCounters
      /\ {"handshakes", "sent", "recv", "sentErrors"} \subseteq WorkerCounters
  BY DEF LiveCounters, WorkerCounters
<1> QED BY <1>1, <1>2, RecordFacts DEF Change, Weight

\* Each record_* function in terms of Change.
LEMMA Changes ==
  ASSUME NEW s \in Stats, NEW w \in Workers
  PROVE  /\ Change(s, s, w, 0, 0, 0, 0, 0)
         /\ Change(s, RecordHandshake(s, w), w, 1, 1, 0, 0, 0)
         /\ Change(s, RecordReconnect(s, w), w, 1, 1, 0, 0, 0)
         /\ Change(s, RecordAttemptError(s, w), w, 0, 0, 0, 0, 0)
         /\ Change(s, RecordSentError(s, w), w, 0, 0, 0, 0, 1)
         /\ Change(s, RecordConnectionFailed(s, w), w, 0, 0, 0, 0, 0)
         /\ Change(s, RecordSent(s, w), w, 0, 0, 1, 0, 0)
         /\ Change(s, RecordRecv(s, w), w, 0, 0, 0, 1, 0)
         /\ Change(s, RecordChaosDropped(s, w), w, 0, 0, 0, 0, 0)
         /\ Change(s, RecordInterrupted(s, w), w, 0, 0, 0, 0, 0)
         /\ s.live["active"] > 0 => Change(s, RecordClosed(s), w, -1, 0, 0, 0, 0)
<1>0. /\ s.live \in [LiveCounters -> Nat] /\ s.of[w] \in [WorkerCounters -> Nat]
      /\ {"active", "sent"} \subseteq LiveCounters
      /\ {"handshakes", "sent", "recv", "sentErrors"} \subseteq WorkerCounters
  BY DEF Stats, LiveCounters, WorkerCounters
<1>1. Change(s, s, w, 0, 0, 0, 0, 0)
  BY <1>0 DEF Change
<1>2. s.live["active"] > 0 => Change(s, RecordClosed(s), w, -1, 0, 0, 0, 0)
  BY <1>0, ClosedFacts DEF Change
<1>3. \A L, C : ("sent" \in L <=> "sent" \in C) =>
        Change(s, Record(s, w, L, C), w, IF "active" \in L THEN 1 ELSE 0,
               IF "handshakes" \in C THEN 1 ELSE 0, IF "sent" \in C THEN 1 ELSE 0,
               IF "recv" \in C THEN 1 ELSE 0, IF "sentErrors" \in C THEN 1 ELSE 0)
  BY RecordChange DEF Weight
<1>4. Change(s, RecordHandshake(s, w), w, 1, 1, 0, 0, 0)
  BY <1>3 DEF RecordHandshake
<1>5. Change(s, RecordReconnect(s, w), w, 1, 1, 0, 0, 0)
  BY <1>3 DEF RecordReconnect
<1>6. Change(s, RecordAttemptError(s, w), w, 0, 0, 0, 0, 0)
  BY <1>3 DEF RecordAttemptError
<1>7. Change(s, RecordSentError(s, w), w, 0, 0, 0, 0, 1)
  BY <1>3 DEF RecordSentError
<1>8. Change(s, RecordConnectionFailed(s, w), w, 0, 0, 0, 0, 0)
  BY <1>3 DEF RecordConnectionFailed
<1>9. Change(s, RecordSent(s, w), w, 0, 0, 1, 0, 0)
  BY <1>3 DEF RecordSent
<1>10. Change(s, RecordRecv(s, w), w, 0, 0, 0, 1, 0)
  BY <1>3 DEF RecordRecv
<1>11. Change(s, RecordChaosDropped(s, w), w, 0, 0, 0, 0, 0)
  BY <1>3 DEF RecordChaosDropped
<1>12. Change(s, RecordInterrupted(s, w), w, 0, 0, 0, 0, 0)
  BY <1>3 DEF RecordInterrupted
<1> QED BY <1>1, <1>2, <1>4, <1>5, <1>6, <1>7, <1>8, <1>9, <1>10, <1>11, <1>12

\* A step of WorkerSession::run or handshake: it never claims or cancels,
\* never starts a worker or continues one that is done, only enters a session
\* through a completed handshake, and moves the gauge with the connection.
LifecycleEffect(w, l) ==
  /\ pc' = [pc EXCEPT ![w] = l]
  /\ l \in LifecyclePC \ {"idle", "ended", "finished"}
  /\ pc[w] \in LifecyclePC \ {"idle", "done", "top"}
  /\ Change(stats, stats', w, Weight(pc[w], Outside) - Weight(l, Outside),
            Weight(l, {"top"}), 0, 0, 0)
  /\ pc[w] = "ended" /\ Cancelled(w) => l = "done"
  /\ UNCHANGED <<claimed, runTok, childTok>>

\* Every step of the lifecycle has that effect.
LEMMA LifecycleHasEffect ==
  ASSUME stats \in Stats, GaugeIsOpenSessions, NEW w \in Workers, Lifecycle(w)
  PROVE  \E l : LifecycleEffect(w, l)
<1>1. pc[w] \in {"ended", "finished"} => stats.live["active"] > 0
  <2>1. \A l \in {"ended", "finished"} : l \notin Outside
    BY DEF Outside
  <2> QED BY <2>1, OpenGauge
<1>2. /\ \A l \in {"build", "handshake", "backoff", "done"} : Weight(l, Outside) = 1
      /\ \A l \in {"top", "ended", "finished"} : Weight(l, Outside) = 0
      /\ Weight("top", {"top"}) = 1
      /\ \A l \in {"handshake", "backoff", "done"} : Weight(l, {"top"}) = 0
  BY DEF Weight, Outside
<1>3. /\ \A l \in {"handshake", "backoff", "done", "top"} :
           l \in LifecyclePC \ {"idle", "ended", "finished"}
      /\ \A l \in {"build", "handshake", "backoff", "ended", "finished"} :
           l \in LifecyclePC \ {"idle", "done", "top"}
  BY DEF LifecyclePC
<1>4. ASSUME NEW k \in {"build", "handshake", "backoff"}, pc[w] = k,
             NEW l \in {"handshake", "backoff", "done"}, pc' = [pc EXCEPT ![w] = l],
             Change(stats, stats', w, 0, 0, 0, 0, 0), UNCHANGED <<claimed, runTok, childTok>>
      PROVE  LifecycleEffect(w, l)
  BY <1>2, <1>3, <1>4 DEF LifecycleEffect
<1>5. CASE BuildFails(w)
  BY <1>4, <1>5, Changes DEF BuildFails, Goto
<1>6. CASE BuildRequest(w)
  BY <1>4, <1>6, Changes DEF BuildRequest, Goto
<1>7. CASE HandshakeCancelled(w)
  <2>1. Change(stats, stats', w, 0, 0, 0, 0, 0)
    BY <1>7, Changes DEF HandshakeCancelled
  <2> QED BY <1>4, <1>7, <2>1 DEF HandshakeCancelled, Goto
<1>8. CASE HandshakeOpen(w)
  <2>1. Change(stats, stats', w, 1, 1, 0, 0, 0)
    BY <1>8, Changes DEF HandshakeOpen
  <2>2. LifecycleEffect(w, "top")
    BY <1>2, <1>3, <1>8, <2>1 DEF HandshakeOpen, Goto, LifecycleEffect
  <2> QED BY <2>2
<1>9. CASE HandshakeStaticError(w)
  BY <1>4, <1>9, Changes DEF HandshakeStaticError, Goto
<1>10. CASE HandshakeFails(w)
  BY <1>4, <1>10, Changes DEF HandshakeFails, Goto
<1>11. CASE SessionEnded(w)
  <2>1. Change(stats, stats', w, -1, 0, 0, 0, 0)
    BY <1>1, <1>11, Changes DEF SessionEnded
  <2>2. PICK l \in {"done", "backoff"} :
          pc' = [pc EXCEPT ![w] = l] /\ (Cancelled(w) => l = "done")
    BY <1>11 DEF SessionEnded, Goto
  <2>3. pc[w] = "ended" /\ UNCHANGED <<claimed, runTok, childTok>>
    BY <1>11 DEF SessionEnded
  <2>4. LifecycleEffect(w, l)
    BY <1>2, <1>3, <2>1, <2>2, <2>3 DEF LifecycleEffect
  <2> QED BY <2>4
<1>12. CASE SessionFinished(w)
  <2>1. Change(stats, stats', w, -1, 0, 0, 0, 0)
    BY <1>1, <1>12, Changes DEF SessionFinished
  <2>2. LifecycleEffect(w, "done")
    BY <1>2, <1>3, <1>12, <2>1 DEF SessionFinished, Goto, LifecycleEffect
  <2> QED BY <2>2
<1>13. CASE BackoffOver(w)
  BY <1>4, <1>13, Changes DEF BackoffOver, Goto
<1>14. CASE BackoffCancelled(w)
  BY <1>4, <1>14, Changes DEF BackoffCancelled, Goto
<1> QED BY <1>5, <1>6, <1>7, <1>8, <1>9, <1>10, <1>11, <1>12, <1>13, <1>14 DEF Lifecycle

----------------------------------------------------------------------------
(* The books of a run: the live counters against the workers' metrics, and *)
(* what the metrics of a slot say about it.                                *)

\* The sum of counter c over the workers.
SumOf(s, c) == SumFunctionOnSet([w \in Workers |-> s.of[w][c]], Workers)

\* LiveAgreesWithTotals as a fact about the counters.
Agree(s) ==
  /\ s.live["sent"] = SumOf(s, "sent")
  /\ s.live["recv"] = SumOf(s, "recv")
  /\ s.live["errors"] = SumOf(s, "errors")
  /\ s.live["reconnects"] = SumOf(s, "reconnects")
  /\ s.live["established"] = SumOf(s, "handshakes") - SumOf(s, "reconnects")

\* A step of one worker changes a sum by what it adds to its own counter.
LEMMA SumOfMoves ==
  ASSUME NEW s \in Stats, NEW t \in Stats, NEW w \in Workers, NEW c \in WorkerCounters,
         \A v \in Workers \ {w} : t.of[v] = s.of[v]
  PROVE  /\ SumOf(s, c) \in Nat
         /\ SumOf(t, c) = SumOf(s, c) + (t.of[w][c] - s.of[w][c])
<1> DEFINE f == [v \in Workers |-> s.of[v][c]]
           g == [v \in Workers |-> t.of[v][c]]
<1>1. /\ \A v \in Workers : s.of[v][c] \in Nat /\ t.of[v][c] \in Nat
      /\ \A v \in Workers \ {w} : t.of[v][c] = s.of[v][c]
  BY DEF Stats
<1>2. /\ f \in [Workers -> Int] /\ g \in [Workers -> Int]
      /\ \A v \in Workers : f[v] \in Nat
      /\ \A v \in Workers \ {w} : g[v] = f[v]
      /\ f[w] = s.of[w][c] /\ g[w] = t.of[w][c]
  BY <1>1
<1>3. SumOf(s, c) = SumFunctionOnSet(f, Workers) /\ SumOf(t, c) = SumFunctionOnSet(g, Workers)
  BY DEF SumOf
<1> HIDE DEF f, g
<1>4. SumFunctionOnSet(f, Workers) \in Nat
  BY <1>2, SumNatural, WorkersAssumption
<1>5. SumFunctionOnSet(g, Workers) = SumFunctionOnSet(f, Workers) + (g[w] - f[w])
  BY <1>2, SumMove, WorkersAssumption
<1> QED BY <1>2, <1>3, <1>4, <1>5

\* A record_* function that adds to a live counter and to the same counter of
\* the worker keeps the two records in agreement.
LEMMA RecordAgrees ==
  ASSUME NEW s \in Stats, NEW w \in Workers, NEW L, NEW C, Agree(s),
         \A c \in {"sent", "recv", "errors", "reconnects"} : c \in L <=> c \in C,
         "established" \in L <=> "handshakes" \in C /\ "reconnects" \notin C,
         "reconnects" \in C => "handshakes" \in C
  PROVE  Agree(Record(s, w, L, C))
<1> DEFINE t == Record(s, w, L, C)
<1>1. /\ t \in Stats /\ \A v \in Workers \ {w} : t.of[v] = s.of[v]
      /\ \A c \in LiveCounters : t.live[c] = IF c \in L THEN s.live[c] + 1 ELSE s.live[c]
      /\ \A c \in WorkerCounters : t.of[w][c] = IF c \in C THEN s.of[w][c] + 1 ELSE s.of[w][c]
  BY RecordFacts
<1> HIDE DEF t
<1>2. /\ \A c \in LiveCounters : s.live[c] \in Nat
      /\ \A c \in WorkerCounters : s.of[w][c] \in Nat
  BY DEF Stats
<1>3. \A c \in WorkerCounters : /\ SumOf(s, c) \in Nat
                                /\ SumOf(t, c) = SumOf(s, c) + (t.of[w][c] - s.of[w][c])
  BY <1>1, SumOfMoves
<1>4. \A c \in WorkerCounters :
        SumOf(t, c) = IF c \in C THEN SumOf(s, c) + 1 ELSE SumOf(s, c)
  BY <1>1, <1>2, <1>3
<1>5. /\ \A c \in {"sent", "recv", "errors", "reconnects"} :
           c \in LiveCounters /\ c \in WorkerCounters
      /\ "established" \in LiveCounters /\ "handshakes" \in WorkerCounters
  BY DEF LiveCounters, WorkerCounters
<1>6. Agree(t)
  BY <1>1, <1>2, <1>3, <1>4, <1>5 DEF Agree
<1> QED BY <1>6 DEF t

\* What a step does to the counters of slot w that tell how it ended.
SlotChange(s, t, w, h, r, e, f, i) ==
  /\ t.of[w]["handshakes"] = s.of[w]["handshakes"] + h
  /\ t.of[w]["reconnects"] = s.of[w]["reconnects"] + r
  /\ t.of[w]["errors"] = s.of[w]["errors"] + e
  /\ t.of[w]["sentErrors"] = s.of[w]["sentErrors"] + f
  /\ t.of[w]["interrupted"] = s.of[w]["interrupted"] + i
  /\ \A v \in Workers \ {w} : t.of[v] = s.of[v]
  /\ Agree(s) => Agree(t)

\* Record in these terms.
LEMMA RecordSlot ==
  ASSUME NEW s \in Stats, NEW w \in Workers, NEW L, NEW C,
         \A c \in {"sent", "recv", "errors", "reconnects"} : c \in L <=> c \in C,
         "established" \in L <=> "handshakes" \in C /\ "reconnects" \notin C,
         "reconnects" \in C => "handshakes" \in C
  PROVE  SlotChange(s, Record(s, w, L, C), w, Weight("handshakes", C),
                    Weight("reconnects", C), Weight("errors", C), Weight("sentErrors", C),
                    Weight("interrupted", C))
<1>1. /\ \A c \in WorkerCounters : s.of[w][c] \in Nat
      /\ {"handshakes", "reconnects", "errors", "sentErrors", "interrupted"}
           \subseteq WorkerCounters
  BY DEF Stats, WorkerCounters
<1>2. /\ \A v \in Workers \ {w} : Record(s, w, L, C).of[v] = s.of[v]
      /\ \A c \in WorkerCounters :
           Record(s, w, L, C).of[w][c] = s.of[w][c] + Weight(c, C)
  BY <1>1, RecordFacts DEF Weight
<1>3. Agree(s) => Agree(Record(s, w, L, C))
  BY RecordAgrees
<1> QED BY <1>1, <1>2, <1>3 DEF SlotChange

\* Each record_* function in these terms.
LEMMA SlotChanges ==
  ASSUME NEW s \in Stats, NEW w \in Workers
  PROVE  /\ SlotChange(s, s, w, 0, 0, 0, 0, 0)
         /\ SlotChange(s, RecordHandshake(s, w), w, 1, 0, 0, 0, 0)
         /\ SlotChange(s, RecordReconnect(s, w), w, 1, 1, 0, 0, 0)
         /\ SlotChange(s, RecordAttemptError(s, w), w, 0, 0, 1, 0, 0)
         /\ SlotChange(s, RecordSentError(s, w), w, 0, 0, 1, 1, 0)
         /\ SlotChange(s, RecordConnectionFailed(s, w), w, 0, 0, 1, 0, 0)
         /\ SlotChange(s, RecordSent(s, w), w, 0, 0, 0, 0, 0)
         /\ SlotChange(s, RecordRecv(s, w), w, 0, 0, 0, 0, 0)
         /\ SlotChange(s, RecordChaosDropped(s, w), w, 0, 0, 0, 0, 0)
         /\ SlotChange(s, RecordInterrupted(s, w), w, 0, 0, 0, 0, 1)
         /\ SlotChange(s, RecordClosed(s), w, 0, 0, 0, 0, 0)
<1>0. /\ s.live \in [LiveCounters -> Nat] /\ s.of[w] \in [WorkerCounters -> Nat]
      /\ {"handshakes", "reconnects", "errors", "sentErrors", "interrupted"}
           \subseteq WorkerCounters
      /\ {"active", "established", "reconnects", "sent", "recv", "errors"} \subseteq LiveCounters
  BY DEF Stats, LiveCounters, WorkerCounters
<1>1. SlotChange(s, s, w, 0, 0, 0, 0, 0)
  BY <1>0 DEF SlotChange
<1>2. SlotChange(s, RecordClosed(s), w, 0, 0, 0, 0, 0)
  <2>1. /\ RecordClosed(s).of = s.of
        /\ \A c \in LiveCounters \ {"active"} : RecordClosed(s).live[c] = s.live[c]
    BY <1>0 DEF RecordClosed
  <2>2. \A c : SumOf(RecordClosed(s), c) = SumOf(s, c)
    BY <2>1 DEF SumOf
  <2>3. Agree(s) => Agree(RecordClosed(s))
    BY <1>0, <2>1, <2>2 DEF Agree
  <2> QED BY <1>0, <2>1, <2>3 DEF SlotChange
<1>3. \A L, C :
        /\ \A c \in {"sent", "recv", "errors", "reconnects"} : c \in L <=> c \in C
        /\ "established" \in L <=> "handshakes" \in C /\ "reconnects" \notin C
        /\ "reconnects" \in C => "handshakes" \in C
        => SlotChange(s, Record(s, w, L, C), w, IF "handshakes" \in C THEN 1 ELSE 0,
                      IF "reconnects" \in C THEN 1 ELSE 0, IF "errors" \in C THEN 1 ELSE 0,
                      IF "sentErrors" \in C THEN 1 ELSE 0, IF "interrupted" \in C THEN 1 ELSE 0)
  BY RecordSlot DEF Weight
<1>4. SlotChange(s, RecordHandshake(s, w), w, 1, 0, 0, 0, 0)
  BY <1>3 DEF RecordHandshake
<1>5. SlotChange(s, RecordReconnect(s, w), w, 1, 1, 0, 0, 0)
  BY <1>3 DEF RecordReconnect
<1>6. SlotChange(s, RecordAttemptError(s, w), w, 0, 0, 1, 0, 0)
  BY <1>3 DEF RecordAttemptError
<1>7. SlotChange(s, RecordSentError(s, w), w, 0, 0, 1, 1, 0)
  BY <1>3 DEF RecordSentError
<1>8. SlotChange(s, RecordConnectionFailed(s, w), w, 0, 0, 1, 0, 0)
  BY <1>3 DEF RecordConnectionFailed
<1>9. SlotChange(s, RecordSent(s, w), w, 0, 0, 0, 0, 0)
  BY <1>3 DEF RecordSent
<1>10. SlotChange(s, RecordRecv(s, w), w, 0, 0, 0, 0, 0)
  BY <1>3 DEF RecordRecv
<1>11. SlotChange(s, RecordChaosDropped(s, w), w, 0, 0, 0, 0, 0)
  BY <1>3 DEF RecordChaosDropped
<1>12. SlotChange(s, RecordInterrupted(s, w), w, 0, 0, 0, 0, 1)
  BY <1>3 DEF RecordInterrupted
<1> QED BY <1>1, <1>2, <1>4, <1>5, <1>6, <1>7, <1>8, <1>9, <1>10, <1>11, <1>12

\* What the metrics m of a slot say when its task is at k: whether b, that a
\* handshake completed, and otherwise whether an attempt failed.
SlotBooks(m, k, b) ==
  /\ m["handshakes"] = m["reconnects"] + (IF b THEN 1 ELSE 0)
  /\ m["interrupted"] = IF k = "done" /\ ~b /\ m["errors"] = 0 THEN 1 ELSE 0
  /\ m["sentErrors"] <= m["errors"]
  /\ k \notin Outside => b
  /\ k = "backoff" => b \/ m["errors"] > 0

Slots == \A w \in Workers : SlotBooks(stats.of[w], pc[w], connected[w])

Books == Agree(stats) /\ Slots

\* A step of one worker that keeps its own slot's books keeps the run's.
LEMMA SlotMoves ==
  ASSUME NEW L, pc \in [Workers -> L], connected \in [Workers -> BOOLEAN], Slots,
         NEW w \in Workers, NEW l, NEW b, pc' = [pc EXCEPT ![w] = l],
         connected' = [connected EXCEPT ![w] = b],
         \A v \in Workers \ {w} : stats'.of[v] = stats.of[v],
         SlotBooks(stats'.of[w], l, b)
  PROVE  Slots'
BY DEF Slots

\* The counters of a slot are numbers.
LEMMA SlotNumbers ==
  ASSUME NEW s \in Stats, NEW w \in Workers
  PROVE  \A c \in {"handshakes", "reconnects", "errors", "sentErrors", "interrupted"} :
           s.of[w][c] \in Nat
BY DEF Stats, WorkerCounters

\* Every step of WorkerSession::run and handshake keeps the books.
LEMMA LifecycleBooks ==
  ASSUME stats \in Stats, NEW L, pc \in [Workers -> L], connected \in [Workers -> BOOLEAN],
         NEW w \in Workers, Slots, Lifecycle(w)
  PROVE  Slots' /\ (Agree(stats) => Agree(stats'))
<1> DEFINE m == stats.of[w]
           n == stats'.of[w]
           b == connected[w]
<1>1. /\ m["handshakes"] \in Nat /\ m["reconnects"] \in Nat /\ m["errors"] \in Nat
      /\ m["sentErrors"] \in Nat /\ m["interrupted"] \in Nat /\ b \in BOOLEAN
  BY SlotNumbers
<1>2. SlotBooks(m, pc[w], b)
  BY DEF Slots
<1>3. /\ \A k \in {"build", "handshake", "backoff", "done"} : k \in Outside
      /\ \A k \in {"top", "ended", "finished"} : k \notin Outside
  BY DEF Outside
<1>4. ASSUME NEW l, NEW c, pc' = [pc EXCEPT ![w] = l], connected' = [connected EXCEPT ![w] = c],
             NEW h, NEW r, NEW e, NEW i, SlotChange(stats, stats', w, h, r, e, 0, i),
             SlotBooks(n, l, c)
      PROVE  Slots' /\ (Agree(stats) => Agree(stats'))
  BY <1>4, SlotMoves DEF SlotChange
<1>5. connected = [connected EXCEPT ![w] = b]
  OBVIOUS
<1> HIDE DEF b
<1>6. ASSUME pc[w] \in {"build", "handshake"}, SlotChange(stats, stats', w, 0, 0, 1, 0, 0),
             NEW l \in {"done", "backoff"}, pc' = [pc EXCEPT ![w] = l], UNCHANGED connected
      PROVE  Slots' /\ (Agree(stats) => Agree(stats'))
  <2>1. SlotBooks(n, l, b)
    BY <1>1, <1>2, <1>3, <1>6 DEF SlotBooks, SlotChange
  <2> HIDE DEF n
  <2> QED BY <1>4, <1>5, <1>6, <2>1
<1>7. ASSUME SlotChange(stats, stats', w, 0, 0, 0, 0, 0), NEW l, pc' = [pc EXCEPT ![w] = l],
             UNCHANGED connected,
             \/ pc[w] \in {"build", "backoff"} /\ l = "handshake"
             \/ pc[w] = "backoff" /\ l = "done"
             \/ pc[w] \in {"ended", "finished"} /\ l \in {"done", "backoff"}
             \/ pc[w] = "handshake" /\ l = "done" /\ (b \/ m["errors"] > 0)
      PROVE  Slots' /\ (Agree(stats) => Agree(stats'))
  <2>1. SlotBooks(n, l, b)
    BY <1>1, <1>2, <1>3, <1>7 DEF SlotBooks, SlotChange
  <2> HIDE DEF n
  <2> QED BY <1>4, <1>5, <1>7, <2>1
<1>8. CASE BuildFails(w)
  <2>1. SlotChange(stats, stats', w, 0, 0, 1, 0, 0)
    BY <1>8, SlotChanges DEF BuildFails
  <2> QED BY <1>6, <1>8, <2>1 DEF BuildFails, Goto
<1>9. CASE BuildRequest(w)
  <2>1. SlotChange(stats, stats', w, 0, 0, 0, 0, 0)
    BY <1>9, SlotChanges DEF BuildRequest
  <2> QED BY <1>7, <1>9, <2>1 DEF BuildRequest, Goto
<1>10. CASE HandshakeCancelled(w)
  <2>1. pc[w] = "handshake" /\ pc' = [pc EXCEPT ![w] = "done"] /\ UNCHANGED connected
    BY <1>10 DEF HandshakeCancelled, Goto
  <2>2. CASE ~b /\ m["errors"] = 0
    <3>1. SlotChange(stats, stats', w, 0, 0, 0, 0, 1)
      BY <1>10, <2>2, SlotChanges DEF HandshakeCancelled, b
    <3>2. SlotBooks(n, "done", b)
      BY <1>1, <1>2, <1>3, <2>1, <2>2, <3>1 DEF SlotBooks, SlotChange
    <3> HIDE DEF n
    <3> QED BY <1>4, <1>5, <2>1, <3>1, <3>2
  <2>3. CASE ~(~b /\ m["errors"] = 0)
    <3>1. SlotChange(stats, stats', w, 0, 0, 0, 0, 0)
      BY <1>10, <2>3, SlotChanges DEF HandshakeCancelled, b
    <3>2. b \/ m["errors"] > 0
      BY <1>1, <2>3
    <3> QED BY <1>7, <2>1, <3>1, <3>2
  <2> QED BY <2>2, <2>3
<1>11. CASE HandshakeOpen(w)
  <2>1. /\ pc[w] = "handshake" /\ pc' = [pc EXCEPT ![w] = "top"]
        /\ connected' = [connected EXCEPT ![w] = TRUE]
    BY <1>11 DEF HandshakeOpen, Goto
  <2>2. CASE b
    <3>1. SlotChange(stats, stats', w, 1, 1, 0, 0, 0)
      BY <1>11, <2>2, SlotChanges DEF HandshakeOpen, b
    <3>2. SlotBooks(n, "top", TRUE)
      BY <1>1, <1>2, <1>3, <2>1, <2>2, <3>1 DEF SlotBooks, SlotChange
    <3> HIDE DEF n
    <3> QED BY <1>4, <2>1, <3>1, <3>2
  <2>3. CASE ~b
    <3>1. SlotChange(stats, stats', w, 1, 0, 0, 0, 0)
      BY <1>11, <2>3, SlotChanges DEF HandshakeOpen, b
    <3>2. SlotBooks(n, "top", TRUE)
      BY <1>1, <1>2, <1>3, <2>1, <2>3, <3>1 DEF SlotBooks, SlotChange
    <3> HIDE DEF n
    <3> QED BY <1>4, <2>1, <3>1, <3>2
  <2> QED BY <2>2, <2>3
<1>12. CASE HandshakeStaticError(w)
  <2>1. SlotChange(stats, stats', w, 0, 0, 1, 0, 0)
    BY <1>12, SlotChanges DEF HandshakeStaticError
  <2> QED BY <1>6, <1>12, <2>1 DEF HandshakeStaticError, Goto
<1>13. CASE HandshakeFails(w)
  <2>1. SlotChange(stats, stats', w, 0, 0, 1, 0, 0)
    BY <1>13, SlotChanges DEF HandshakeFails
  <2>2. PICK l \in {"done", "backoff"} : pc' = [pc EXCEPT ![w] = l]
    BY <1>13 DEF HandshakeFails, Goto
  <2> QED BY <1>6, <1>13, <2>1, <2>2 DEF HandshakeFails
<1>14. CASE SessionEnded(w)
  <2>1. SlotChange(stats, stats', w, 0, 0, 0, 0, 0)
    BY <1>14, SlotChanges DEF SessionEnded
  <2>2. PICK l \in {"done", "backoff"} : pc' = [pc EXCEPT ![w] = l]
    BY <1>14 DEF SessionEnded, Goto
  <2> QED BY <1>7, <1>14, <2>1, <2>2 DEF SessionEnded
<1>15. CASE SessionFinished(w)
  <2>1. SlotChange(stats, stats', w, 0, 0, 0, 0, 0)
    BY <1>15, SlotChanges DEF SessionFinished
  <2> QED BY <1>7, <1>15, <2>1 DEF SessionFinished, Goto
<1>16. CASE BackoffOver(w)
  <2>1. SlotChange(stats, stats', w, 0, 0, 0, 0, 0)
    BY <1>16, SlotChanges DEF BackoffOver
  <2> QED BY <1>7, <1>16, <2>1 DEF BackoffOver, Goto
<1>17. CASE BackoffCancelled(w)
  <2>1. SlotChange(stats, stats', w, 0, 0, 0, 0, 0)
    BY <1>17, SlotChanges DEF BackoffCancelled
  <2> QED BY <1>7, <1>17, <2>1 DEF BackoffCancelled, Goto
<1> QED BY <1>8, <1>9, <1>10, <1>11, <1>12, <1>13, <1>14, <1>15, <1>16, <1>17 DEF Lifecycle

\* The counters after one step of a session loop.
SessionRecords(s, w) ==
  {s, RecordAttemptError(s, w), RecordSentError(s, w), RecordSent(s, w), RecordRecv(s, w),
   RecordChaosDropped(s, w), RecordSentError(RecordRecv(s, w), w)}

\* A step inside a session, whatever the loop, keeps the books.
LEMMA SessionBooksKept ==
  ASSUME stats \in Stats, NEW L, pc \in [Workers -> L], connected \in [Workers -> BOOLEAN],
         NEW w \in Workers, Slots, pc[w] \notin Outside,
         NEW l, l \notin Outside, pc' = [pc EXCEPT ![w] = l],
         stats' \in SessionRecords(stats, w), UNCHANGED connected
  PROVE  Slots' /\ (Agree(stats) => Agree(stats'))
<1>1. \E e, f \in {0, 1} : f <= e /\ SlotChange(stats, stats', w, 0, 0, e, f, 0)
  <2> DEFINE r == RecordRecv(stats, w)
  <2>1. CASE stats' = RecordSentError(r, w)
    <3>1. SlotChange(stats, r, w, 0, 0, 0, 0, 0) /\ r \in Stats
      BY SlotChanges, Changes DEF Change
    <3> HIDE DEF r
    <3>2. SlotChange(r, RecordSentError(r, w), w, 0, 0, 1, 1, 0)
      BY <3>1, SlotChanges
    <3>3. SlotChange(stats, stats', w, 0, 0, 1, 1, 0)
      BY <2>1, <3>1, <3>2, SlotNumbers DEF SlotChange
    <3> QED BY <3>3
  <2>2. CASE stats' # RecordSentError(r, w)
    BY <2>2, SlotChanges DEF SessionRecords
  <2> QED BY <2>1, <2>2
<1>2. PICK e, f \in {0, 1} : f <= e /\ SlotChange(stats, stats', w, 0, 0, e, f, 0)
  BY <1>1
<1>3. /\ stats.of[w]["handshakes"] \in Nat /\ stats.of[w]["reconnects"] \in Nat
      /\ stats.of[w]["errors"] \in Nat /\ stats.of[w]["sentErrors"] \in Nat
      /\ stats.of[w]["interrupted"] \in Nat /\ connected[w] \in BOOLEAN
  BY SlotNumbers
<1>4. SlotBooks(stats.of[w], pc[w], connected[w]) /\ connected[w]
  BY DEF Slots, SlotBooks
<1>5. pc[w] # "done" /\ l # "done" /\ l # "backoff"
  BY DEF Outside
<1>6. SlotBooks(stats'.of[w], l, connected[w])
  BY <1>2, <1>3, <1>4, <1>5 DEF SlotBooks, SlotChange
<1>7. connected' = [connected EXCEPT ![w] = connected[w]]
  OBVIOUS
<1>8. Slots'
  BY <1>2, <1>6, <1>7, SlotMoves DEF SlotChange
<1> QED BY <1>2, <1>8 DEF SlotChange

\* Starting workers keeps the books.
LEMMA SpawnBooks ==
  ASSUME NEW L, pc \in [Workers -> L], Slots, NEW W, \A w \in W : pc[w] = "idle",
         pc' = [w \in Workers |-> IF w \in W THEN "build" ELSE pc[w]],
         UNCHANGED <<stats, connected>>
  PROVE  Slots'
<1> SUFFICES ASSUME NEW w \in Workers PROVE SlotBooks(stats.of[w], pc'[w], connected[w])
  BY DEF Slots
<1>1. SlotBooks(stats.of[w], pc[w], connected[w])
  BY DEF Slots
<1>2. pc'[w] = pc[w] \/ (pc[w] = "idle" /\ pc'[w] = "build")
  OBVIOUS
<1> QED BY <1>1, <1>2 DEF SlotBooks, Outside

\* The books of a run that has not begun.
LEMMA BooksInit ==
  ASSUME WorkerInit
  PROVE  Books
<1>1. stats \in Stats /\ \A w \in Workers, c \in WorkerCounters : stats.of[w][c] = 0
  BY DEF WorkerInit, MetricsInit, NoStats, Stats, LiveCounters, WorkerCounters
<1>2. \A c \in LiveCounters : stats.live[c] = 0
  BY DEF WorkerInit, MetricsInit, NoStats
<1>3. Slots
  BY <1>1 DEF Slots, SlotBooks, WorkerInit, Outside, WorkerCounters
<1>4. ASSUME NEW c \in WorkerCounters PROVE SumOf(stats, c) = 0
  <2> DEFINE f == [w \in Workers |-> stats.of[w][c]]
  <2>1. f \in [Workers -> Int] /\ \A v \in Workers : f[v] = 0
    BY <1>1
  <2>2. \A v \in Workers : f[v] = Weight(v, {})
    BY <2>1 DEF Weight
  <2>3. SumOf(stats, c) = SumFunctionOnSet(f, Workers)
    BY DEF SumOf
  <2> HIDE DEF f
  <2>4. SumFunctionOnSet(f, Workers) = Cardinality({})
    BY <2>1, <2>2, SumCounts, WorkersAssumption
  <2> QED BY <2>3, <2>4, FS_EmptySet
<1>5. Agree(stats)
  <2>1. /\ {"sent", "recv", "errors", "reconnects", "established"} \subseteq LiveCounters
        /\ {"sent", "recv", "errors", "reconnects", "handshakes"} \subseteq WorkerCounters
    BY DEF LiveCounters, WorkerCounters
  <2> QED BY <1>2, <1>4, <2>1 DEF Agree
<1> QED BY <1>3, <1>5 DEF Books

\* LiveAgreesWithTotals is Agree.
LEMMA AgreeIsLive == Agree(stats) => LiveAgreesWithTotals
<1>1. \A c \in WorkerCounters \ {"dropped"} : Totals(Workers)[c] = SumOf(stats, c)
  BY DEF Totals, SumOf
<1>2. {"sent", "recv", "errors", "reconnects", "handshakes"} \subseteq WorkerCounters \ {"dropped"}
  BY DEF WorkerCounters
<1> QED BY <1>1, <1>2 DEF Agree, LiveAgreesWithTotals

\* A sum over some of the workers, when each adds a counter and one for the
\* members of A.
LEMMA TotalsDiffer ==
  ASSUME stats \in Stats, NEW W \in SUBSET Workers, NEW A \in SUBSET W,
         NEW c \in WorkerCounters, NEW d \in WorkerCounters,
         \A w \in W : stats.of[w][c] = stats.of[w][d] + Weight(w, A)
  PROVE  LET Sum(k) == SumFunctionOnSet([w \in W |-> stats.of[w][k]], W)
         IN Sum(c) \in Nat /\ Sum(d) \in Nat /\ Sum(c) = Sum(d) + Cardinality(A)
<1> DEFINE f == [w \in W |-> stats.of[w][c]]
           g == [w \in W |-> stats.of[w][d]]
           h == [w \in W |-> Weight(w, A)]
<1>1. IsFiniteSet(W)
  BY FS_Subset, WorkersAssumption
<1>2. \A w \in W : stats.of[w][c] \in Nat /\ stats.of[w][d] \in Nat /\ Weight(w, A) \in Nat
  BY DEF Stats, Weight
<1>3. /\ f \in [W -> Int] /\ g \in [W -> Int] /\ h \in [W -> Int]
      /\ \A w \in W : f[w] \in Nat /\ g[w] \in Nat
      /\ \A w \in W : f[w] = g[w] + h[w]
      /\ \A w \in W : h[w] = Weight(w, A)
  BY <1>2
<1> HIDE DEF f, g, h
<1>4. SumFunctionOnSet(f, W) \in Nat /\ SumFunctionOnSet(g, W) \in Nat
  BY <1>1, <1>3, SumNatural
<1>5. SumFunctionOnSet(f, W) = SumFunctionOnSet(g, W) + SumFunctionOnSet(h, W)
  BY <1>1, <1>3, SumAdd
<1>6. SumFunctionOnSet(h, W) = Cardinality(A)
  BY <1>1, <1>3, SumCounts
<1> QED BY <1>4, <1>5, <1>6 DEF f, g

\* A sum of flags counts the workers that have it set.
LEMMA TotalsCount ==
  ASSUME stats \in Stats, NEW W \in SUBSET Workers, NEW A \in SUBSET W,
         NEW c \in WorkerCounters, \A w \in W : stats.of[w][c] = Weight(w, A)
  PROVE  SumFunctionOnSet([w \in W |-> stats.of[w][c]], W) = Cardinality(A)
<1> DEFINE f == [w \in W |-> stats.of[w][c]]
<1>1. IsFiniteSet(W)
  BY FS_Subset, WorkersAssumption
<1>2. f \in [W -> Int] /\ \A w \in W : f[w] = Weight(w, A)
  BY DEF Stats
<1> HIDE DEF f
<1> QED BY <1>1, <1>2, SumCounts DEF f

\* The classes of the workers that were started.
Reached == {w \in Started : connected[w]}
Refused == {w \in Started : ~connected[w] /\ stats.of[w]["errors"] > 0}
Cut == {w \in Started : ~connected[w] /\ stats.of[w]["errors"] = 0}

\* The totals of the workers that were started, when all of them are over.
LEMMA TotalsClassify ==
  ASSUME stats \in Stats, connected \in [Workers -> BOOLEAN], Slots,
         \A w \in Started : pc[w] = "done"
  PROVE  LET t == Totals(Started)
         IN /\ t.handshakes \in Nat /\ t.reconnects \in Nat
            /\ t.handshakes = t.reconnects + Cardinality(Reached)
            /\ t.interrupted = Cardinality(Cut)
<1>1. /\ Started \in SUBSET Workers /\ Reached \in SUBSET Started /\ Cut \in SUBSET Started
  BY DEF Started, Reached, Cut
<1>2. ASSUME NEW w \in Started
      PROVE  /\ stats.of[w]["handshakes"] = stats.of[w]["reconnects"] + Weight(w, Reached)
             /\ stats.of[w]["interrupted"] = Weight(w, Cut)
  <2>1. w \in Workers /\ SlotBooks(stats.of[w], "done", connected[w]) /\ connected[w] \in BOOLEAN
    BY <1>1, <1>2 DEF Slots
  <2>2. (w \in Reached <=> connected[w])
        /\ (w \in Cut <=> ~connected[w] /\ stats.of[w]["errors"] = 0)
    BY DEF Reached, Cut
  <2> QED BY <2>1, <2>2 DEF SlotBooks, Weight
<1>3. /\ {"handshakes", "reconnects", "interrupted"} \subseteq WorkerCounters
      /\ \A c \in WorkerCounters \ {"dropped"} :
           Totals(Started)[c] = SumFunctionOnSet([w \in Started |-> stats.of[w][c]], Started)
  BY DEF WorkerCounters, Totals
<1>4. Totals(Started)["interrupted"] = Cardinality(Cut)
  BY <1>1, <1>2, <1>3, TotalsCount
<1>5. LET Sum(k) == SumFunctionOnSet([w \in Started |-> stats.of[w][k]], Started)
      IN /\ Sum("handshakes") \in Nat /\ Sum("reconnects") \in Nat
         /\ Sum("handshakes") = Sum("reconnects") + Cardinality(Reached)
  BY <1>1, <1>2, <1>3, TotalsDiffer
<1> QED BY <1>3, <1>4, <1>5

\* The classes make up the workers that were started.
LEMMA ClassesAddUp ==
  ASSUME stats \in Stats, connected \in [Workers -> BOOLEAN]
  PROVE  /\ Cardinality(Reached) \in Nat /\ Cardinality(Refused) \in Nat
         /\ Cardinality(Cut) \in Nat /\ Cardinality(Started) \in Nat
         /\ Cardinality(Started)
              = Cardinality(Reached) + Cardinality(Refused) + Cardinality(Cut)
<1>1. /\ Reached \in SUBSET Workers /\ Refused \in SUBSET Workers /\ Cut \in SUBSET Workers
      /\ Started \in SUBSET Workers
  BY DEF Reached, Refused, Cut, Started
<1>2. \A w \in Workers : stats.of[w]["errors"] \in Nat
  BY SlotNumbers
<1>3. /\ Started = Reached \cup (Refused \cup Cut)
      /\ Reached \cap (Refused \cup Cut) = {} /\ Refused \cap Cut = {}
  BY <1>1, <1>2 DEF Reached, Refused, Cut
<1>4. /\ IsFiniteSet(Reached) /\ IsFiniteSet(Refused) /\ IsFiniteSet(Cut)
      /\ IsFiniteSet(Started)
  BY <1>1, FS_Subset, WorkersAssumption
<1>5. /\ IsFiniteSet(Refused \cup Cut)
      /\ Cardinality(Refused \cup Cut)
           = Cardinality(Refused) + Cardinality(Cut) - Cardinality(Refused \cap Cut)
  BY <1>4, FS_Union
<1>6. Cardinality(Started)
        = Cardinality(Reached) + Cardinality(Refused \cup Cut)
            - Cardinality(Reached \cap (Refused \cup Cut))
  <2> DEFINE R == Refused \cup Cut
  <2>1. IsFiniteSet(R) /\ Started = Reached \cup R
    BY <1>3, <1>5
  <2> HIDE DEF R
  <2>2. Cardinality(Started) = Cardinality(Reached) + Cardinality(R) - Cardinality(Reached \cap R)
    BY <1>4, <2>1, FS_Union
  <2> QED BY <2>2 DEF R
<1>7. /\ Cardinality(Reached) \in Nat /\ Cardinality(Refused) \in Nat
      /\ Cardinality(Cut) \in Nat /\ Cardinality(Started) \in Nat
  BY <1>4, FS_CardinalityType
<1>8. Cardinality(Refused \cap Cut) = 0 /\ Cardinality(Reached \cap (Refused \cup Cut)) = 0
  BY <1>3, FS_EmptySet, Zenon
<1>9. Cardinality(Refused \cup Cut) = Cardinality(Refused) + Cardinality(Cut)
  BY <1>5, <1>7, <1>8
<1>10. Cardinality(Started) = Cardinality(Reached) + Cardinality(Refused \cup Cut)
  BY <1>6, <1>7, <1>8, <1>9
<1> QED BY <1>7, <1>9, <1>10

\* MetricsTotals::finish of a run that is over, with n slots more than the
\* workers it started: no clamp and no saturating subtraction takes effect.
LEMMA FinishExact ==
  ASSUME stats \in Stats, connected \in [Workers -> BOOLEAN], Slots,
         \A w \in Started : pc[w] = "done", NEW n \in Nat
  PROVE  LET r == Finish(Totals(Started), Cardinality(Started) + n)
         IN /\ r.established = Cardinality(Reached)
            /\ r.interrupted = Cardinality(Cut)
            /\ r.failed = Cardinality(Refused) + n
            /\ r.notStarted = 0
<1> DEFINE t == Totals(Started)
           k == Cardinality(Started) + n
<1>1. /\ t.handshakes \in Nat /\ t.reconnects \in Nat
      /\ t.handshakes = t.reconnects + Cardinality(Reached)
      /\ t.interrupted = Cardinality(Cut)
  BY TotalsClassify
<1>2. /\ Cardinality(Reached) \in Nat /\ Cardinality(Refused) \in Nat
      /\ Cardinality(Cut) \in Nat
      /\ k = Cardinality(Reached) + Cardinality(Refused) + Cardinality(Cut) + n
  BY ClassesAddUp
<1> HIDE DEF t, k
<1>3. Minus(t.handshakes, t.reconnects) = Cardinality(Reached)
  BY <1>1, <1>2 DEF Minus
<1>4. Least(Minus(t.handshakes, t.reconnects), k) = Cardinality(Reached)
  BY <1>2, <1>3 DEF Least
<1>5. Least(t.interrupted, Minus(k, Cardinality(Reached))) = Cardinality(Cut)
  BY <1>1, <1>2 DEF Least, Minus
<1>6. Minus(Minus(k, Cardinality(Reached)), Cardinality(Cut)) = Cardinality(Refused) + n
  BY <1>2 DEF Minus
<1>7. /\ Finish(t, k).established = Cardinality(Reached)
      /\ Finish(t, k).interrupted = Cardinality(Cut)
      /\ Finish(t, k).failed = Cardinality(Refused) + n
      /\ Finish(t, k).notStarted = 0
  BY <1>4, <1>5, <1>6 DEF Finish
<1> QED BY <1>7 DEF t, k

\* A report with these numbers classifies every slot.
LEMMA ClassesReported ==
  ASSUME stats \in Stats, connected \in [Workers -> BOOLEAN], NEW r, NEW n,
         r.established = Cardinality(Reached), r.failed = Cardinality(Refused),
         r.interrupted = Cardinality(Cut), r.notStarted = n
  PROVE  ClassifiesSlots(r, n)
<1> DEFINE Never == {w \in Started : ~connected[w]}
           Failed == {w \in Never : stats.of[w].errors > 0}
<1>1. \A w \in Started : stats.of[w]["errors"] \in Nat /\ connected[w] \in BOOLEAN
  BY SlotNumbers DEF Started
<1>2. Started \ Never = Reached /\ Failed = Refused /\ Never \ Failed = Cut
  BY <1>1 DEF Reached, Refused, Cut
<1> HIDE DEF Never, Failed
<1> QED BY <1>2 DEF ClassifiesSlots, Never, Failed

\* with_not_started moves the slots without a worker out of the failed ones.
LEMMA NotStartedExact ==
  ASSUME NEW t, NEW k, NEW n \in Nat, NEW f \in Nat, Finish(t, k).failed = f + n
  PROVE  LET r == Finish(t, k)
             s == WithNotStarted(r, n)
         IN /\ s.established = r.established /\ s.interrupted = r.interrupted
            /\ s.failed = f /\ s.notStarted = n
<1>1. Least(n, Finish(t, k).failed) = n
  BY DEF Least
<1> QED BY <1>1 DEF WithNotStarted, Finish

\* drive() reports after it has joined every worker it started.
Joined == drv = "done" => \A w \in Started : pc[w] = "done"

\* A worker that moves was not joined yet.
LEMMA JoinedKept ==
  ASSUME Joined, NEW w \in Workers, pc[w] \notin {"idle", "done"}, UNCHANGED drv
  PROVE  Joined'
<1>1. w \in Started
  BY DEF Started
<1>2. drv # "done"
  BY <1>1 DEF Joined
<1> QED BY <1>2 DEF Joined

\* What the report needs: the books of every slot, and that drive() has
\* joined the workers.
Reported == connected \in [Workers -> BOOLEAN] /\ Slots /\ Joined

\* Once drive() is done the report classifies the workers that were started.
LEMMA ReportedExactly ==
  ASSUME stats \in Stats, Reported, drv = "done"
  PROVE  ClassifiesSlots(Finish(Totals(Started), Cardinality(Started)), 0)
<1> DEFINE r == Finish(Totals(Started), Cardinality(Started))
<1>1. /\ connected \in [Workers -> BOOLEAN] /\ Slots /\ \A w \in Started : pc[w] = "done"
  BY DEF Reported, Joined
<1>2. Cardinality(Started) \in Nat /\ Cardinality(Refused) \in Nat
  BY <1>1, ClassesAddUp
<1>3. Cardinality(Started) = Cardinality(Started) + 0
  BY <1>2
<1>4. LET s == Finish(Totals(Started), Cardinality(Started) + 0)
      IN /\ s.established = Cardinality(Reached) /\ s.interrupted = Cardinality(Cut)
         /\ s.failed = Cardinality(Refused) + 0 /\ s.notStarted = 0
  BY <1>1, FinishExact
<1>5. /\ r.established = Cardinality(Reached) /\ r.interrupted = Cardinality(Cut)
      /\ r.failed = Cardinality(Refused) /\ r.notStarted = 0
  BY <1>2, <1>3, <1>4
<1> HIDE DEF r
<1>6. ClassifiesSlots(r, 0)
  BY <1>1, <1>5, ClassesReported
<1> QED BY <1>6 DEF r

----------------------------------------------------------------------------
(* The claims of a run with a limit, for the loops whose control points    *)
(* between a claim and its send are these.                                 *)
ClaimedPC == {"delay", "send"}
Claimers == {w \in Workers : pc[w] \in ClaimedPC}

\* Every send, and every claim not yet turned into a send, has a claim of its
\* own below the limit.
ClaimsCover ==
  Capped => /\ stats.live["sent"] + Cardinality(Claimers) <= claimed
            /\ stats.live["sent"] + Cardinality(Claimers) <= MaxRequests

\* What a step of w to l that sends n messages does with the claims: it spends
\* the one the worker holds, takes one below the limit, or takes one that is
\* not used.
UsesClaim(w, l, n) ==
  \/ claimed' = claimed /\ n + Weight(l, ClaimedPC) <= Weight(pc[w], ClaimedPC)
  \/ ClaimSucceeds /\ ClaimSend /\ n = 0 /\ Weight(pc[w], ClaimedPC) = 0
  \/ ClaimSend /\ n = 0 /\ Weight(l, ClaimedPC) = 0 /\ Weight(pc[w], ClaimedPC) = 0

\* Such a step keeps the claims ahead of the sends.
LEMMA ClaimsMove ==
  ASSUME claimed \in Nat, stats \in Stats, NEW L, pc \in [Workers -> L], ClaimsCover,
         NEW w \in Workers, NEW l, NEW n \in {0, 1}, pc' = [pc EXCEPT ![w] = l],
         stats'.live["sent"] = stats.live["sent"] + n, UsesClaim(w, l, n)
  PROVE  claimed' \in Nat /\ claimed <= claimed' /\ ClaimsCover'
<1>1. /\ MaxRequests \in Nat /\ Capped \in BOOLEAN /\ stats.live["sent"] \in Nat
  BY LimitAssumption DEF Stats, LiveCounters
<1>2. claimed' \in Nat /\ claimed <= claimed'
  BY <1>1 DEF UsesClaim, ClaimSend
<1>3. \A x, P : Weight(x, P) \in {0, 1}
  BY DEF Weight
<1>4. ClaimsCover'
  <2> DEFINE A == Claimers
             B == Claimers'
  <2>1. /\ A \in SUBSET Workers /\ B \in SUBSET Workers /\ A \ {w} = B \ {w}
        /\ Weight(w, A) = Weight(pc[w], ClaimedPC) /\ Weight(w, B) = Weight(l, ClaimedPC)
    BY DEF Claimers, Weight
  <2>2. Capped => /\ stats.live["sent"] + Cardinality(A) <= claimed
                  /\ stats.live["sent"] + Cardinality(A) <= MaxRequests
    BY DEF ClaimsCover
  <2> HIDE DEF A, B
  <2>3. /\ Cardinality(A) \in Nat /\ Cardinality(B) \in Nat
        /\ Cardinality(B) + Weight(pc[w], ClaimedPC) = Cardinality(A) + Weight(l, ClaimedPC)
    BY <2>1, MoveCardinality
  <2>4. SUFFICES ASSUME Capped
                 PROVE  /\ stats'.live["sent"] + Cardinality(B) <= claimed'
                        /\ stats'.live["sent"] + Cardinality(B) <= MaxRequests
    BY DEF ClaimsCover, B
  <2>5. CASE claimed' = claimed /\ n + Weight(l, ClaimedPC) <= Weight(pc[w], ClaimedPC)
    BY <1>1, <1>3, <2>2, <2>3, <2>4, <2>5
  <2>6. CASE ClaimSucceeds /\ ClaimSend /\ n = 0 /\ Weight(pc[w], ClaimedPC) = 0
    BY <1>1, <1>3, <2>2, <2>3, <2>4, <2>6 DEF ClaimSucceeds, ClaimSend
  <2>7. CASE /\ ClaimSend /\ n = 0
             /\ Weight(l, ClaimedPC) = 0 /\ Weight(pc[w], ClaimedPC) = 0
    BY <1>1, <2>2, <2>3, <2>4, <2>7 DEF ClaimSend
  <2> QED BY <2>5, <2>6, <2>7 DEF UsesClaim
<1> QED BY <1>2, <1>4

\* With the claims ahead, no more than --requests is sent.
LEMMA CoverKeepsLimit ==
  ASSUME stats \in Stats, ClaimsCover
  PROVE  SendsWithinLimit
<1> SUFFICES ASSUME Capped PROVE stats.live["sent"] <= MaxRequests
  BY DEF SendsWithinLimit
<1>1. Claimers \in SUBSET Workers
  BY DEF Claimers
<1>2. Cardinality(Claimers) \in Nat
  BY <1>1, FS_Subset, FS_CardinalityType, WorkersAssumption
<1>3. stats.live["sent"] \in Nat /\ MaxRequests \in Nat
  BY LimitAssumption DEF Stats, LiveCounters
<1> QED BY <1>2, <1>3 DEF ClaimsCover
============================================================================
