--------------------------- MODULE ProtocolProofs ---------------------------
(***************************************************************************)
(* Proofs about six small protocols: the agent's busy flag (AgentLease),   *)
(* the way of a refreshed credential to the agents (Token), the pump of a  *)
(* Socket.IO session (SocketIo), the way of a captured frame to the file   *)
(* (Capture), the sessions of the mock server (MockServer) and the race of *)
(* a connection's addresses (Connect).  They hold for every set of         *)
(* connections, agents, sessions or processes, every rules file, every     *)
(* answer of the resolver, and whatever the bounds.                        *)
(***************************************************************************)
EXTENDS AgentLease, Token, SocketIo, Capture, MockServer, Connect, WorkerProofs, SequenceTheorems

----------------------------------------------------------------------------
(* The agent's busy flag.                                                  *)

LeaseSpec == LeaseInit /\ [][LeaseNext]_leaseVars

LeaseAt == {"tls", "shake", "answer"} \cup Testing \cup Gone

LeaseTypeOK ==
  /\ leaseTls \in BOOLEAN /\ leaseStop \in BOOLEAN /\ leaseBusy \in BOOLEAN
  /\ leaseLoop \in {"accepting", "draining", "ended"}
  /\ leaseConn \in [Coordinators -> [at : LeaseAt, claimed : BOOLEAN]]

Holding(c) == leaseConn[c].at \in Testing \cup {"answer"}

\* A connection holds the agent exactly from its claim to its end; at most
\* one does, and the flag says whether one does.  The aborted tasks of an
\* agent that ended hold nothing.
LeaseInv ==
  /\ LeaseTypeOK
  /\ \A c \in Coordinators :
       /\ Holding(c) => leaseConn[c].claimed
       /\ leaseConn[c].at \in {"away", "tls", "shake"} => ~leaseConn[c].claimed
  /\ \A c, d \in Coordinators : Holding(c) /\ Holding(d) => c = d
  /\ leaseLoop # "ended" => (leaseBusy <=> \E c \in Coordinators : Holding(c))
  /\ leaseLoop = "ended" => \A c \in Coordinators : leaseConn[c].at \in Gone

\* Every step of the accept loop, of a connection or of the shutdown keeps
\* the flag with its holder.
LEMMA LeaseStep ==
  ASSUME LeaseInv, [LeaseNext]_leaseVars
  PROVE  LeaseInv'
<1> USE DEF LeaseInv, LeaseTypeOK, Holding, LeaseAt, Testing, Waits, Gone, To
<1>0. ASSUME NEW c \in Coordinators, NEW r \in [at : LeaseAt, claimed : BOOLEAN],
             leaseConn' = [leaseConn EXCEPT ![c] = r]
      PROVE  /\ leaseConn' \in [Coordinators -> [at : LeaseAt, claimed : BOOLEAN]]
             /\ leaseConn'[c] = r
             /\ \A d \in Coordinators \ {c} : leaseConn'[d] = leaseConn[d]
  BY <1>0
<1>1. ASSUME NEW c \in Coordinators, Accept(c) PROVE LeaseInv'
  BY <1>1 DEF Accept
<1>2. ASSUME NEW c \in Coordinators, TlsAccepted(c) PROVE LeaseInv'
  BY <1>2 DEF TlsAccepted
<1>3. ASSUME NEW c \in Coordinators, TlsEnds(c) PROVE LeaseInv'
  BY <1>3 DEF TlsEnds
<1>4. ASSUME NEW c \in Coordinators, Claim(c) PROVE LeaseInv'
  <2>1. CASE c \in Trusted /\ ~leaseBusy
    <3>1. /\ leaseBusy' = TRUE
          /\ leaseConn' = [leaseConn EXCEPT ![c] = [at |-> "answer", claimed |-> TRUE]]
      BY <1>4, <2>1 DEF Claim
    <3>2. leaseLoop # "ended"
      BY <1>4 DEF Claim
    <3>3. \A d \in Coordinators : ~Holding(d)
      BY <2>1, <3>2
    <3>4. [at |-> "answer", claimed |-> TRUE] \in [at : LeaseAt, claimed : BOOLEAN]
      OBVIOUS
    <3>5. /\ leaseConn' \in [Coordinators -> [at : LeaseAt, claimed : BOOLEAN]]
          /\ leaseConn'[c] = [at |-> "answer", claimed |-> TRUE]
          /\ \A d \in Coordinators \ {c} : leaseConn'[d] = leaseConn[d]
      BY <1>0, <3>1, <3>4
    <3> QED BY <1>4, <3>1, <3>2, <3>3, <3>5 DEF Claim
  <2>2. CASE ~(c \in Trusted /\ ~leaseBusy)
    BY <1>4, <2>2 DEF Claim
  <2> QED BY <2>1, <2>2
<1>5. ASSUME NEW c \in Coordinators, HandshakeEnds(c) PROVE LeaseInv'
  <2>1. CASE Holding(c)
    <3>1. leaseBusy' = FALSE /\ \A d \in Coordinators \ {c} : ~Holding(d)
      BY <1>5, <2>1 DEF HandshakeEnds
    <3>2. ~Holding(c)' /\ \A d \in Coordinators \ {c} : leaseConn'[d] = leaseConn[d]
      BY <1>5 DEF HandshakeEnds
    <3>3. leaseLoop' = leaseLoop /\ leaseLoop # "ended"
      BY <1>5, <2>1 DEF HandshakeEnds
    <3>4. leaseConn' \in [Coordinators -> [at : LeaseAt, claimed : BOOLEAN]]
      BY <1>5 DEF HandshakeEnds
    <3>5. leaseConn'[c].at = "ended" /\ \A d \in Coordinators : ~Holding(d)'
      BY <1>5, <3>1, <3>2 DEF HandshakeEnds
    <3>6. /\ leaseTls' \in BOOLEAN /\ leaseStop' \in BOOLEAN
          /\ \A d \in Coordinators : leaseConn'[d].at \in {"away", "tls", "shake"} =>
               ~leaseConn'[d].claimed
      BY <1>5, <3>2, <3>5 DEF HandshakeEnds
    <3> HIDE DEF Holding
    <3> QED BY <3>1, <3>3, <3>4, <3>5, <3>6
  <2>2. CASE ~Holding(c)
    <3>1. leaseConn[c].at = "shake" /\ UNCHANGED <<leaseTls, leaseStop, leaseLoop, leaseBusy>>
      BY <1>5, <2>2 DEF HandshakeEnds
    <3>2. leaseConn' = [leaseConn EXCEPT ![c].at = "ended"]
      BY <1>5 DEF HandshakeEnds
    <3> QED BY <3>1, <3>2
  <2> QED BY <2>1, <2>2
<1>6. ASSUME NEW c \in Coordinators, HandshakeDone(c) PROVE LeaseInv'
  BY <1>6 DEF HandshakeDone
<1>7. ASSUME NEW c \in Coordinators, TestGoesOn(c) PROVE LeaseInv'
  BY <1>7 DEF TestGoesOn, Advance
<1>8. ASSUME NEW c \in Coordinators, TestEnds(c) PROVE LeaseInv'
  BY <1>8 DEF TestEnds
<1>9. ASSUME NEW c \in Coordinators, ErrorSent(c) PROVE LeaseInv'
  BY <1>9 DEF ErrorSent
<1>10. ASSUME NEW c \in Coordinators, Closed(c) PROVE LeaseInv'
  <2>1. CASE Holding(c)
    <3>1. leaseBusy' = FALSE /\ \A d \in Coordinators \ {c} : ~Holding(d)
      BY <1>10, <2>1 DEF Closed
    <3>2. ~Holding(c)' /\ \A d \in Coordinators \ {c} : leaseConn'[d] = leaseConn[d]
      BY <1>10 DEF Closed
    <3>3. leaseLoop' = leaseLoop /\ leaseLoop # "ended"
      BY <1>10, <2>1 DEF Closed
    <3>4. leaseConn' \in [Coordinators -> [at : LeaseAt, claimed : BOOLEAN]]
      BY <1>10 DEF Closed
    <3>5. leaseConn'[c].at = "ended" /\ \A d \in Coordinators : ~Holding(d)'
      BY <1>10, <3>1, <3>2 DEF Closed
    <3>6. /\ leaseTls' \in BOOLEAN /\ leaseStop' \in BOOLEAN
          /\ \A d \in Coordinators : leaseConn'[d].at \in {"away", "tls", "shake"} =>
               ~leaseConn'[d].claimed
      BY <1>10, <3>2, <3>5 DEF Closed
    <3> HIDE DEF Holding
    <3> QED BY <3>1, <3>3, <3>4, <3>5, <3>6
  <2>2. CASE ~Holding(c)
    BY <1>10, <2>2 DEF Closed
  <2> QED BY <2>1, <2>2
<1>11. CASE StopAgent
  BY <1>11 DEF StopAgent
<1>12. CASE StopAccepting
  BY <1>12 DEF StopAccepting
<1>13. CASE DrainEnds
  BY <1>13 DEF DrainEnds
<1>14. CASE UNCHANGED leaseVars
  BY <1>14 DEF leaseVars
<1> QED
  BY <1>1, <1>2, <1>3, <1>4, <1>5, <1>6, <1>7, <1>8, <1>9, <1>10, <1>11, <1>12, <1>13,
     <1>14
  DEF LeaseNext, LeaseTerminated

\* The agent belongs to at most one connection, and its flag is set exactly
\* while it belongs to one.
THEOREM LeaseIsHeldByOne == LeaseSpec => []LeaseHeldByOne
<1>1. LeaseInit => LeaseInv
  <2> SUFFICES ASSUME LeaseInit PROVE LeaseInv
    OBVIOUS
  <2>1. LeaseTypeOK
    BY DEF LeaseInit, LeaseTypeOK, LeaseAt, Gone
  <2>2. \A c \in Coordinators : ~Holding(c) /\ ~leaseConn[c].claimed
    BY DEF LeaseInit, Holding, Testing, Waits
  <2> QED BY <2>1, <2>2 DEF LeaseInit, LeaseInv
<1>2. LeaseInv /\ [LeaseNext]_leaseVars => LeaseInv'
  BY LeaseStep
<1>3. LeaseInv => LeaseHeldByOne
  <2> SUFFICES ASSUME LeaseInv PROVE LeaseHeldByOne
    OBVIOUS
  <2>1. \A c \in Coordinators : c \in Holders <=> Holding(c)
    BY DEF LeaseInv, Holders, Holding
  <2>2. Cardinality(Holders) <= 1
    <3>1. CASE Holders = {}
      BY <3>1, FS_EmptySet
    <3>2. ASSUME NEW c \in Holders PROVE Cardinality(Holders) <= 1
      <4>1. Holders = {c}
        BY <2>1, <3>2 DEF LeaseInv, Holders
      <4> QED BY <4>1, FS_Singleton
    <3> QED BY <3>1, <3>2
  <2>3. leaseLoop # "ended" => (leaseBusy <=> Holders # {})
    BY <2>1 DEF LeaseInv, Holders
  <2> QED BY <2>2, <2>3 DEF LeaseHeldByOne
<1> QED BY <1>1, <1>2, <1>3, PTL DEF LeaseSpec

----------------------------------------------------------------------------
(* A credential on its way to the agents.                                  *)

TokenSpec == TokenInit /\ [][TokenNext]_tokenVars

TokenMsg == {"prepare", "start", "token"} \X Nat

TokenTypeOK ==
  /\ tokShared \in Nat
  /\ tokThread \in [at : {"new", "waiting", "refreshing", "ended"}, fails : Nat,
                    suppressed : Nat, recent : BOOLEAN]
  /\ tokRun \in [at : {"auth", "planning", "barrier", "running", "over", "failed"},
                 phase : Nat, planned : Nat]
  /\ tokWatch \in [value : Nat, open : BOOLEAN]
  /\ tokFollow \in [TokenAgents -> [at : {"idle", "follow", "done"}, seen : Nat]]
  /\ tokLink \in [TokenAgents -> Seq(TokenMsg)]
  /\ tokAgent \in [TokenAgents -> [at : {"between", "ready", "running", "reported"},
                                   value : Nat]]
  /\ tokPresented \in [TokenAgents -> Nat]

\* What is on the way: no message of a kind, or at most one; and credentials
\* in the order they were made, from lo to hi.
Lacks(q, k) == \A i \in 1..Len(q) : q[i][1] # k
AtMostOne(q, k) == \A i, j \in 1..Len(q) : q[i][1] = k /\ q[j][1] = k => i = j
Ordered(q, lo, hi) ==
  /\ \A i \in 1..Len(q) : q[i][1] # "start" => lo <= q[i][2] /\ q[i][2] <= hi
  /\ \A i, j \in 1..Len(q) :
       i < j /\ q[i][1] # "start" /\ q[j][1] # "start" => q[i][2] <= q[j][2]

\* The newest credential that may be on its way to the agents: the one the
\* phase was planned with, then the one last put into the watch channel.
Newest == CASE tokRun.at = "barrier" -> tokRun.planned
            [] tokRun.at = "running" -> tokWatch.value
            [] OTHER -> tokShared

\* An agent's credential only grows, along what is on the way to it.
Growing(a) ==
  /\ tokPresented[a] <= tokAgent[a].value
  /\ tokAgent[a].value <= Newest
  /\ Ordered(tokLink[a], tokAgent[a].value, Newest)

\* Between phases nothing is on the way but tokens; at the barrier a prepare
\* is, until the agent is ready; and a start is until the agent runs.
InPhase(a) ==
  /\ tokFollow[a].at = "follow" => tokRun.at = "running"
  /\ tokRun.at \notin {"barrier", "running"} =>
       /\ tokAgent[a].at = "between"
       /\ Lacks(tokLink[a], "prepare") /\ Lacks(tokLink[a], "start")
  /\ tokRun.at = "barrier" =>
       /\ tokAgent[a].at \in {"between", "ready"}
       /\ Lacks(tokLink[a], "start") /\ AtMostOne(tokLink[a], "prepare")
       /\ \A i \in 1..Len(tokLink[a]) :
            tokLink[a][i][1] = "prepare" => tokLink[a][i][2] = tokRun.planned
       /\ tokAgent[a].at = "ready" =>
            Lacks(tokLink[a], "prepare") /\ tokRun.planned <= tokAgent[a].value
  /\ tokRun.at = "running" =>
       /\ Lacks(tokLink[a], "prepare") /\ AtMostOne(tokLink[a], "start")
       /\ tokRun.planned <= tokAgent[a].value
       /\ tokAgent[a].at # "ready" => Lacks(tokLink[a], "start")
       /\ tokFollow[a].at = "done" => tokAgent[a].at = "between"
       /\ tokFollow[a].at # "idle"

TokenInv ==
  /\ TokenTypeOK
  /\ tokRun.at = "auth" => tokShared = NoCredential /\ tokThread.at = "new"
  /\ tokRun.planned <= tokShared
  /\ tokRun.at = "running" => /\ tokRun.planned <= tokWatch.value
                              /\ tokWatch.value <= tokShared
  /\ \A a \in TokenAgents : Growing(a) /\ InPhase(a)

\* What sending does to what is on the way.
LEMMA SendFacts ==
  ASSUME NEW q \in Seq(TokenMsg), NEW m \in TokenMsg
  PROVE  /\ Append(q, m) \in Seq(TokenMsg)
         /\ \A k : Lacks(q, k) /\ m[1] # k => Lacks(Append(q, m), k)
         /\ \A k : Lacks(q, k) => AtMostOne(Append(q, m), k)
         /\ \A k : AtMostOne(q, k) /\ m[1] # k => AtMostOne(Append(q, m), k)
         /\ \A lo, hi, top \in Nat :
              /\ Ordered(q, lo, hi) /\ lo <= hi /\ hi <= top
              /\ m[1] = "start" \/ (hi <= m[2] /\ m[2] <= top)
              => Ordered(Append(q, m), lo, top)
<1>1. /\ Append(q, m) \in Seq(TokenMsg)
      /\ Len(Append(q, m)) = Len(q) + 1 /\ Len(q) \in Nat
      /\ \A i \in 1..Len(q) : Append(q, m)[i] = q[i]
      /\ Append(q, m)[Len(q) + 1] = m
  BY AppendProperties, LenProperties
<1>2. \A i \in 1..Len(q) : q[i] \in TokenMsg
  BY ElementOfSeq
<1>3. \A x \in TokenMsg : x[2] \in Nat
  BY DEF TokenMsg
<1>4. \A i \in 1..Len(q) + 1 : i \in 1..Len(q) \/ i = Len(q) + 1
  BY <1>1
<1> DEFINE r == Append(q, m)
<1> HIDE DEF r
<1>5. /\ Len(r) = Len(q) + 1
      /\ \A i \in 1..Len(q) : r[i] = q[i]
      /\ r[Len(q) + 1] = m
  BY <1>1 DEF r
<1>6. \A k : Lacks(q, k) /\ m[1] # k => Lacks(r, k)
  BY <1>4, <1>5 DEF Lacks
<1>7. \A k : Lacks(q, k) => AtMostOne(r, k)
  BY <1>4, <1>5 DEF Lacks, AtMostOne
<1>8. \A k : AtMostOne(q, k) /\ m[1] # k => AtMostOne(r, k)
  BY <1>4, <1>5 DEF AtMostOne
<1>9. ASSUME NEW lo \in Nat, NEW hi \in Nat, NEW top \in Nat,
             Ordered(q, lo, hi), lo <= hi, hi <= top,
             m[1] = "start" \/ (hi <= m[2] /\ m[2] <= top)
      PROVE  Ordered(r, lo, top)
  <2>1. ASSUME NEW i \in 1..Len(r), r[i][1] # "start"
        PROVE  lo <= r[i][2] /\ r[i][2] <= top
    <3>1. CASE i \in 1..Len(q)
      BY <1>2, <1>3, <1>5, <1>9, <2>1, <3>1 DEF Ordered
    <3>2. CASE i = Len(q) + 1
      BY <1>3, <1>5, <1>9, <2>1, <3>2
    <3> QED BY <1>4, <1>5, <3>1, <3>2
  <2>2. ASSUME NEW i \in 1..Len(r), NEW j \in 1..Len(r), i < j,
               r[i][1] # "start", r[j][1] # "start"
        PROVE  r[i][2] <= r[j][2]
    <3>1. i \in 1..Len(q)
      BY <1>1, <1>5, <2>2
    <3>2. CASE j \in 1..Len(q)
      BY <1>5, <1>9, <2>2, <3>1, <3>2 DEF Ordered
    <3>3. CASE j = Len(q) + 1
      BY <1>2, <1>3, <1>5, <1>9, <2>2, <3>1, <3>3 DEF Ordered
    <3> QED BY <1>4, <1>5, <3>2, <3>3
  <2> QED BY <2>1, <2>2 DEF Ordered
<1> QED BY <1>1, <1>6, <1>7, <1>8, <1>9 DEF r

\* What receiving does to it.
LEMMA ReceiveFacts ==
  ASSUME NEW q \in Seq(TokenMsg), q # <<>>
  PROVE  /\ Head(q) = q[1] /\ q[1] \in TokenMsg /\ Tail(q) \in Seq(TokenMsg)
         /\ Len(q) \in Nat /\ 1 \in 1..Len(q)
         /\ \A i \in 1..Len(Tail(q)) : Tail(q)[i] = q[i + 1] /\ i + 1 \in 1..Len(q)
         /\ \A k : Lacks(q, k) => Lacks(Tail(q), k)
         /\ \A k : AtMostOne(q, k) => AtMostOne(Tail(q), k)
         /\ \A k : AtMostOne(q, k) /\ q[1][1] = k => Lacks(Tail(q), k)
         /\ \A lo, hi \in Nat : Ordered(q, lo, hi) =>
              /\ Ordered(Tail(q), lo, hi)
              /\ q[1][1] # "start" => /\ lo <= q[1][2] /\ q[1][2] <= hi
                                      /\ Ordered(Tail(q), q[1][2], hi)
<1>1. /\ Head(q) = q[1] /\ Tail(q) \in Seq(TokenMsg)
      /\ Len(Tail(q)) = Len(q) - 1 /\ Len(q) \in Nat \ {0}
      /\ \A i \in 1..Len(Tail(q)) : Tail(q)[i] = q[i + 1]
  BY HeadTailProperties, EmptySeq
<1>2. \A i \in 1..Len(q) : q[i] \in TokenMsg
  BY ElementOfSeq
<1>3. \A x \in TokenMsg : x[2] \in Nat
  BY DEF TokenMsg
<1> DEFINE r == Tail(q)
<1> HIDE DEF r
<1>4. /\ \A i \in 1..Len(r) : r[i] = q[i + 1] /\ i + 1 \in 1..Len(q) /\ 1 < i + 1
      /\ 1 \in 1..Len(q)
  BY <1>1 DEF r
<1>5. \A k : Lacks(q, k) => Lacks(r, k)
  BY <1>4 DEF Lacks
<1>6. \A k : AtMostOne(q, k) => AtMostOne(r, k)
  BY <1>4 DEF AtMostOne
<1>7. \A k : AtMostOne(q, k) /\ q[1][1] = k => Lacks(r, k)
  BY <1>4 DEF AtMostOne, Lacks
<1>8. ASSUME NEW lo \in Nat, NEW hi \in Nat, Ordered(q, lo, hi)
      PROVE  /\ Ordered(r, lo, hi)
             /\ q[1][1] # "start" => /\ lo <= q[1][2] /\ q[1][2] <= hi
                                     /\ Ordered(r, q[1][2], hi)
  <2>1. \A i \in 1..Len(q) : q[i][2] \in Nat
    BY <1>2, <1>3
  <2>2. \A i \in 1..Len(r) : r[i][1] # "start" => lo <= r[i][2] /\ r[i][2] <= hi
    BY <1>4, <1>8 DEF Ordered
  <2>3. \A i, j \in 1..Len(r) :
          i < j /\ r[i][1] # "start" /\ r[j][1] # "start" => r[i][2] <= r[j][2]
    <3> SUFFICES ASSUME NEW i \in 1..Len(r), NEW j \in 1..Len(r), i < j,
                        r[i][1] # "start", r[j][1] # "start"
                 PROVE  r[i][2] <= r[j][2]
      OBVIOUS
    <3>1. /\ r[i] = q[i + 1] /\ i + 1 \in 1..Len(q)
          /\ r[j] = q[j + 1] /\ j + 1 \in 1..Len(q) /\ i + 1 < j + 1
      BY <1>4
    <3> QED BY <1>8, <3>1 DEF Ordered
  <2>4. q[1][1] # "start" => \A i \in 1..Len(r) : r[i][1] # "start" => q[1][2] <= r[i][2]
    BY <1>4, <1>8 DEF Ordered
  <2> QED BY <1>4, <1>8, <2>2, <2>3, <2>4 DEF Ordered
<1> QED BY <1>1, <1>2, <1>4, <1>5, <1>6, <1>7, <1>8 DEF r

\* The queues' elements are pairs of a kind and a credential.
LEMMA TokenMsgFacts ==
  /\ \A m \in TokenMsg : m[1] \in {"prepare", "start", "token"} /\ m[2] \in Nat
  /\ \A k \in {"prepare", "start", "token"}, v \in Nat :
       <<k, v>> \in TokenMsg /\ <<k, v>>[1] = k /\ <<k, v>>[2] = v
BY DEF TokenMsg

\* A newer credential leaves the order of what is on the way alone.
LEMMA OrderedGrows ==
  ASSUME NEW q \in Seq(TokenMsg), NEW lo \in Nat, NEW hi \in Nat, NEW top \in Nat,
         Ordered(q, lo, hi), hi <= top
  PROVE  Ordered(q, lo, top)
<1>1. \A i \in 1..Len(q) : q[i][2] \in Nat
  BY ElementOfSeq, TokenMsgFacts
<1> QED BY <1>1 DEF Ordered

\* A step that leaves an agent and what is on the way to it alone, and does
\* not lower the newest credential, keeps its credential growing.
LEMMA GrowingKept ==
  ASSUME TokenInv, NEW a \in TokenAgents, Newest' \in Nat, Newest <= Newest',
         tokPresented'[a] = tokPresented[a], tokAgent'[a].value = tokAgent[a].value,
         tokLink'[a] = tokLink[a]
  PROVE  Growing(a)'
<1>1. /\ tokLink[a] \in Seq(TokenMsg) /\ tokAgent[a].value \in Nat
      /\ Newest \in Nat /\ Growing(a)
  BY DEF TokenInv, TokenTypeOK, Newest
<1>2. Ordered(tokLink[a], tokAgent[a].value, Newest')
  BY <1>1, OrderedGrows DEF Growing
<1>3. Ordered(tokLink'[a], tokAgent'[a].value, Newest')
  BY <1>2
<1> QED BY <1>1, <1>3 DEF Growing

\* Every step keeps the types.
LEMMA TokenTypeStep ==
  ASSUME TokenTypeOK, [TokenNext]_tokenVars
  PROVE  TokenTypeOK'
<1> USE DEF TokenTypeOK, NoCredential
<1>1. CASE PrepareAuth
  <2>1. CASE tokRun' = [tokRun EXCEPT !.at = "planning", !.phase = 1]
    <3>1. tokShared' \in Nat
      BY <1>1 DEF PrepareAuth
    <3>2. tokThread' \in [at : {"new", "waiting", "refreshing", "ended"}, fails : Nat,
                        suppressed : Nat, recent : BOOLEAN]
      BY <1>1 DEF PrepareAuth
    <3> QED BY <1>1, <2>1, <3>1, <3>2 DEF PrepareAuth
  <2>2. CASE tokRun' = [tokRun EXCEPT !.at = "failed"] /\ UNCHANGED <<tokShared, tokThread>>
    BY <1>1, <2>2 DEF PrepareAuth
  <2> QED BY <1>1, <2>1, <2>2 DEF PrepareAuth
<1>2. CASE RefreshDue
  BY <1>2 DEF RefreshDue
<1>3. CASE RefreshSucceeds
  <2>1. tokThread' \in [at : {"new", "waiting", "refreshing", "ended"}, fails : Nat,
                        suppressed : Nat, recent : BOOLEAN]
    <3>1. PICK at \in {"waiting", "ended"} :
            tokThread' = [tokThread EXCEPT !.at = at, !.suppressed = 0]
      BY <1>3 DEF RefreshSucceeds
    <3> QED BY <3>1
  <2> QED BY <1>3, <2>1 DEF RefreshSucceeds
<1>4. CASE RefreshFails
  BY <1>4 DEF RefreshFails
<1>5. CASE ThreadStops
  BY <1>5 DEF ThreadStops
<1>6. CASE PlanPhase
  <2>1. CASE UNCHANGED tokLink
    BY <1>6, <2>1 DEF PlanPhase
  <2>2. CASE tokLink' = [a \in TokenAgents |-> Append(tokLink[a], <<"prepare", tokShared>>)]
    <3>1. tokLink' \in [TokenAgents -> Seq(TokenMsg)]
      BY <2>2, SendFacts, TokenMsgFacts
    <3>2. tokRun' \in [at : {"auth", "planning", "barrier", "running", "over", "failed"},
                     phase : Nat, planned : Nat]
      BY <1>6 DEF PlanPhase
    <3> QED BY <1>6, <3>1, <3>2 DEF PlanPhase
  <2> QED BY <1>6, <2>1, <2>2 DEF PlanPhase
<1>7. CASE StartPhase
  BY <1>7, SendFacts, TokenMsgFacts DEF StartPhase
<1>8. CASE TokenTick
  BY <1>8 DEF TokenTick
<1>9. CASE PhaseEnds
  <2>1. tokRun' \in [at : {"auth", "planning", "barrier", "running", "over", "failed"},
                     phase : Nat, planned : Nat]
    <3>1. CASE tokRun' = [tokRun EXCEPT !.at = "over"]
      BY <3>1
    <3>2. CASE tokRun' = [tokRun EXCEPT !.at = "planning", !.phase = @ + 1]
      <4>1. tokRun.phase + 1 \in Nat
        OBVIOUS
      <4>2. tokRun' = [at |-> "planning", phase |-> tokRun.phase + 1, planned |-> tokRun.planned]
        BY <3>2
      <4> QED BY <4>1, <4>2
    <3> QED BY <1>9, <3>1, <3>2 DEF PhaseEnds
  <2> QED BY <1>9, <2>1 DEF PhaseEnds
<1>10. ASSUME NEW a \in TokenAgents, FollowSends(a) PROVE TokenTypeOK'
  BY <1>10, SendFacts, TokenMsgFacts, SMTT(30) DEF FollowSends
<1>11. ASSUME NEW a \in TokenAgents, FollowEnds(a) PROVE TokenTypeOK'
  BY <1>11, ZenonT(60) DEF FollowEnds
<1>12. ASSUME NEW a \in TokenAgents, AgentReceives(a) PROVE TokenTypeOK'
  BY <1>12, ReceiveFacts, TokenMsgFacts, SMTT(30) DEF AgentReceives
<1>13. ASSUME NEW a \in TokenAgents, AgentShakes(a) PROVE TokenTypeOK'
  BY <1>13 DEF AgentShakes
<1>14. ASSUME NEW a \in TokenAgents, AgentReports(a) PROVE TokenTypeOK'
  BY <1>14 DEF AgentReports
<1>15. CASE UNCHANGED tokenVars
  BY <1>15 DEF tokenVars
<1> QED
  BY <1>1, <1>2, <1>3, <1>4, <1>5, <1>6, <1>7, <1>8, <1>9, <1>10,
     <1>11, <1>12, <1>13, <1>14, <1>15
  DEF TokenNext, TokenTerminated

\* What a step of the process that refreshes does keeps the invariant.
LEMMA TokenProcessStep ==
  ASSUME TokenInv, TokenTypeOK',
         PrepareAuth \/ RefreshDue \/ RefreshSucceeds \/ RefreshFails \/ ThreadStops
  PROVE  TokenInv'
<1>1. /\ tokShared \in Nat /\ tokShared' \in Nat /\ tokRun.planned \in Nat
      /\ tokThread \in [at : {"new", "waiting", "refreshing", "ended"}, fails : Nat,
                        suppressed : Nat, recent : BOOLEAN]
      /\ tokRun \in [at : {"auth", "planning", "barrier", "running", "over", "failed"},
                     phase : Nat, planned : Nat]
      /\ tokWatch.value \in Nat
  BY DEF TokenInv, TokenTypeOK
<1>2. /\ tokShared <= tokShared' /\ tokRun'.planned = tokRun.planned
      /\ tokRun'.at = tokRun.at \/ (tokRun.at = "auth" /\ tokRun'.at \in {"planning", "failed"})
      /\ UNCHANGED <<tokSource, tokWatch, tokFollow, tokLink, tokAgent, tokPresented>>
  <2>1. CASE PrepareAuth
    <3>1. tokRun.at = "auth" /\ tokShared = 0
      BY <2>1 DEF PrepareAuth, TokenInv, NoCredential
    <3>2. CASE tokRun' = [tokRun EXCEPT !.at = "planning", !.phase = 1]
      BY <1>1, <2>1, <3>1, <3>2 DEF PrepareAuth
    <3>3. CASE tokRun' = [tokRun EXCEPT !.at = "failed"] /\ UNCHANGED <<tokShared, tokThread>>
      BY <1>1, <2>1, <3>1, <3>3 DEF PrepareAuth
    <3> QED BY <2>1, <3>2, <3>3 DEF PrepareAuth
  <2>2. CASE RefreshSucceeds
    <3>1. /\ tokShared' = tokShared + 1
          /\ UNCHANGED <<tokSource, tokRun, tokWatch, tokFollow, tokLink, tokAgent, tokPresented>>
      BY <2>2 DEF RefreshSucceeds
    <3> QED BY <1>1, <3>1
  <2>3. CASE RefreshDue \/ RefreshFails \/ ThreadStops
    BY <1>1, <2>3 DEF RefreshDue, RefreshFails, ThreadStops
  <2> QED BY <2>1, <2>2, <2>3
<1>3. tokRun'.at = "auth" => tokShared' = NoCredential /\ tokThread'.at = "new"
  BY <1>1 DEF PrepareAuth, RefreshDue, RefreshSucceeds, RefreshFails, ThreadStops, TokenInv
<1>4. Newest' \in Nat /\ Newest <= Newest'
  BY <1>1, <1>2 DEF Newest
<1>5. \A a \in TokenAgents : Growing(a)'
  BY <1>2, <1>4, GrowingKept
<1>6. \A a \in TokenAgents : InPhase(a)'
  BY <1>2 DEF TokenInv, InPhase
<1>7. /\ tokRun'.planned <= tokShared'
      /\ tokRun'.at = "running" => /\ tokRun'.planned <= tokWatch'.value
                                   /\ tokWatch'.value <= tokShared'
  BY <1>1, <1>2 DEF TokenInv
<1> QED BY <1>3, <1>5, <1>6, <1>7 DEF TokenInv

\* What the coordinator does keeps the invariant.
LEMMA TokenCoordinatorStep ==
  ASSUME TokenInv, TokenTypeOK', PlanPhase \/ StartPhase \/ TokenTick \/ PhaseEnds
  PROVE  TokenInv'
<1>1. /\ TokenTypeOK /\ Newest \in Nat
      /\ tokRun.planned \in Nat /\ tokWatch.value \in Nat /\ tokShared \in Nat
      /\ \A a \in TokenAgents : /\ Growing(a) /\ InPhase(a)
                                /\ tokLink[a] \in Seq(TokenMsg) /\ tokAgent[a].value \in Nat
  BY DEF TokenInv, TokenTypeOK, Newest
<1>2. CASE PlanPhase /\ ~Sendable(tokShared)
  <2>1. /\ tokRun.at = "planning" /\ tokRun'.at = "failed" /\ tokRun'.planned = tokRun.planned
        /\ UNCHANGED <<tokThread, tokShared, tokWatch, tokFollow, tokLink, tokAgent, tokPresented>>
    BY <1>1, <1>2 DEF PlanPhase, TokenTypeOK
  <2>2. Newest' = Newest
    BY <2>1 DEF Newest
  <2>3. \A a \in TokenAgents : Growing(a)' /\ InPhase(a)'
    BY <1>1, <2>1, <2>2 DEF Growing, InPhase
  <2> QED BY <2>1, <2>3 DEF TokenInv
<1>3. CASE PlanPhase /\ Sendable(tokShared)
  <2>1. /\ tokRun.at = "planning" /\ tokRun'.at = "barrier" /\ tokRun'.planned = tokShared
        /\ tokLink' = [a \in TokenAgents |-> Append(tokLink[a], <<"prepare", tokShared>>)]
        /\ UNCHANGED <<tokThread, tokShared, tokWatch, tokFollow, tokAgent, tokPresented>>
    BY <1>1, <1>3 DEF PlanPhase, TokenTypeOK
  <2>2. Newest = tokShared /\ Newest' = tokShared
    BY <2>1 DEF Newest
  <2>3. ASSUME NEW a \in TokenAgents PROVE Growing(a)' /\ InPhase(a)'
    <3> DEFINE q == tokLink[a]
               m == <<"prepare", tokShared>>
    <3>1. /\ q \in Seq(TokenMsg) /\ m \in TokenMsg /\ m[1] = "prepare" /\ m[2] = tokShared
          /\ tokLink'[a] = Append(q, m)
      BY <1>1, <2>1, TokenMsgFacts
    <3>2. /\ Lacks(q, "prepare") /\ Lacks(q, "start") /\ tokAgent[a].at = "between"
          /\ tokFollow[a].at # "follow"
      BY <1>1, <2>1 DEF InPhase
    <3> HIDE DEF q, m
    <3>3. /\ Lacks(Append(q, m), "start") /\ AtMostOne(Append(q, m), "prepare")
          /\ \A lo, hi, top \in Nat :
               /\ Ordered(q, lo, hi) /\ lo <= hi /\ hi <= top
               /\ m[1] = "start" \/ (hi <= m[2] /\ m[2] <= top)
               => Ordered(Append(q, m), lo, top)
      BY <3>1, <3>2, SendFacts
    <3>4. \A i \in 1..Len(Append(q, m)) :
            Append(q, m)[i][1] = "prepare" => Append(q, m)[i][2] = tokShared
      <4>1. /\ Len(Append(q, m)) = Len(q) + 1 /\ Len(q) \in Nat
            /\ \A i \in 1..Len(q) : Append(q, m)[i] = q[i]
            /\ Append(q, m)[Len(q) + 1] = m
        BY <3>1, AppendProperties, LenProperties
      <4> QED BY <3>1, <3>2, <4>1 DEF Lacks
    <3>5. Ordered(Append(q, m), tokAgent[a].value, tokShared)
      BY <1>1, <2>2, <3>1, <3>3 DEF Growing, q
    <3>6. Growing(a)'
      BY <1>1, <2>1, <2>2, <3>1, <3>5 DEF Growing
    <3> QED BY <2>1, <3>1, <3>2, <3>3, <3>4, <3>6 DEF InPhase
  <2> QED BY <1>1, <2>1, <2>3 DEF TokenInv
<1>4. CASE StartPhase
  <2>1. /\ tokRun.at = "barrier" /\ tokRun'.at = "running" /\ tokRun'.planned = tokRun.planned
        /\ tokWatch'.value = tokRun.planned
        /\ \A a \in TokenAgents :
             /\ tokAgent[a].at = "ready" /\ tokFollow'[a].at = "follow"
             /\ tokLink'[a] = Append(tokLink[a], <<"start", NoCredential>>)
        /\ UNCHANGED <<tokThread, tokShared, tokAgent, tokPresented>>
    BY <1>1, <1>4 DEF StartPhase, TokenTypeOK
  <2>2. Newest = tokRun.planned /\ Newest' = tokRun.planned
    BY <2>1 DEF Newest
  <2>3. ASSUME NEW a \in TokenAgents PROVE Growing(a)' /\ InPhase(a)'
    <3> DEFINE q == tokLink[a]
               m == <<"start", NoCredential>>
    <3>1. /\ q \in Seq(TokenMsg) /\ m \in TokenMsg /\ m[1] = "start"
          /\ tokLink'[a] = Append(q, m)
      BY <1>1, <2>1, TokenMsgFacts DEF NoCredential
    <3>2. /\ Lacks(q, "prepare") /\ Lacks(q, "start") /\ tokRun.planned <= tokAgent[a].value
          /\ Ordered(q, tokAgent[a].value, tokRun.planned)
          /\ tokAgent[a].value <= tokRun.planned
      BY <1>1, <2>1, <2>2 DEF InPhase, Growing
    <3> HIDE DEF q, m
    <3>3. /\ Lacks(Append(q, m), "prepare") /\ AtMostOne(Append(q, m), "start")
      BY <3>1, <3>2, SendFacts
    <3>4. Ordered(Append(q, m), tokAgent[a].value, tokRun.planned)
      BY <1>1, <3>1, <3>2, SendFacts
    <3>5. Growing(a)'
      BY <1>1, <2>1, <2>2, <3>1, <3>4 DEF Growing
    <3> QED BY <2>1, <3>1, <3>2, <3>3, <3>5 DEF InPhase
  <2> QED BY <1>1, <2>1, <2>3 DEF TokenInv
<1>5. CASE TokenTick
  <2>1. /\ tokRun.at = "running" /\ tokWatch'.value = tokShared
        /\ UNCHANGED <<tokRun, tokThread, tokShared, tokFollow, tokLink, tokAgent, tokPresented>>
    BY <1>1, <1>5 DEF TokenTick, TokenTypeOK
  <2>2. Newest <= Newest' /\ Newest' \in Nat
    BY <1>1, <2>1 DEF Newest, TokenInv
  <2>3. \A a \in TokenAgents : Growing(a)'
    BY <2>1, <2>2, GrowingKept
  <2>4. \A a \in TokenAgents : InPhase(a)'
    BY <1>1, <2>1 DEF InPhase
  <2> QED BY <1>1, <2>1, <2>3, <2>4 DEF TokenInv
<1>6. CASE PhaseEnds
  <2>1. /\ tokRun.at = "running" /\ tokRun'.at \in {"over", "planning"}
        /\ tokRun'.planned = tokRun.planned
        /\ \A a \in TokenAgents : tokFollow[a].at = "done"
        /\ UNCHANGED <<tokThread, tokShared, tokFollow, tokLink, tokAgent, tokPresented>>
    BY <1>1, <1>6 DEF PhaseEnds, TokenTypeOK
  <2>2. Newest <= Newest' /\ Newest' \in Nat
    BY <1>1, <2>1 DEF Newest, TokenInv
  <2>3. \A a \in TokenAgents : Growing(a)'
    BY <2>1, <2>2, GrowingKept
  <2>4. \A a \in TokenAgents : InPhase(a)'
    BY <1>1, <2>1 DEF InPhase
  <2> QED BY <1>1, <2>1, <2>3, <2>4 DEF TokenInv
<1> QED BY <1>2, <1>3, <1>4, <1>5, <1>6

\* What an agent and the task that follows it do keeps the invariant.
LEMMA TokenAgentStep ==
  ASSUME TokenInv, TokenTypeOK', NEW a \in TokenAgents,
         \/ FollowSends(a) \/ FollowEnds(a) \/ AgentReceives(a)
         \/ AgentShakes(a) \/ AgentReports(a)
  PROVE  TokenInv'
<1>1. /\ TokenTypeOK /\ Newest \in Nat /\ Growing(a) /\ InPhase(a)
      /\ tokRun.planned \in Nat /\ tokWatch.value \in Nat /\ tokShared \in Nat
      /\ tokLink[a] \in Seq(TokenMsg) /\ tokPresented[a] \in Nat
      /\ tokAgent[a] \in [at : {"between", "ready", "running", "reported"}, value : Nat]
      /\ tokFollow[a] \in [at : {"idle", "follow", "done"}, seen : Nat]
  BY DEF TokenInv, TokenTypeOK, Newest
<1>2. UNCHANGED <<tokRun, tokThread, tokShared, tokWatch>>
  BY DEF FollowSends, FollowEnds, AgentReceives, AgentShakes, AgentReports
<1>3. Newest' = Newest
  BY <1>2 DEF Newest
<1>4. ASSUME NEW b \in TokenAgents, b # a PROVE Growing(b)' /\ InPhase(b)'
  <2>1. /\ tokFollow'[b] = tokFollow[b] /\ tokLink'[b] = tokLink[b]
        /\ tokAgent'[b] = tokAgent[b] /\ tokPresented'[b] = tokPresented[b]
    BY <1>1, <1>4, ZenonT(60) DEF FollowSends, FollowEnds, AgentReceives, AgentShakes, AgentReports,
                      TokenTypeOK
  <2>2. Growing(b) /\ InPhase(b)
    BY DEF TokenInv
  <2> QED BY <1>2, <1>3, <2>1, <2>2 DEF Growing, InPhase
<1>5. CASE FollowSends(a)
  <2> DEFINE q == tokLink[a]
             m == <<"token", tokWatch.value>>
  <2>1. /\ tokFollow[a].at = "follow" /\ tokFollow'[a].at = "follow"
        /\ tokLink'[a] = Append(q, m)
        /\ tokAgent'[a] = tokAgent[a] /\ tokPresented'[a] = tokPresented[a]
    BY <1>1, <1>5 DEF FollowSends, TokenTypeOK
  <2>2. tokRun.at = "running" /\ Newest = tokWatch.value
    BY <1>1, <2>1 DEF InPhase, Newest
  <2>3. /\ q \in Seq(TokenMsg) /\ m \in TokenMsg /\ m[1] = "token" /\ m[2] = tokWatch.value
    BY <1>1, TokenMsgFacts
  <2> HIDE DEF q, m
  <2>4. /\ Lacks(q, "prepare") => Lacks(Append(q, m), "prepare")
        /\ Lacks(q, "start") => Lacks(Append(q, m), "start")
        /\ AtMostOne(q, "start") => AtMostOne(Append(q, m), "start")
        /\ \A lo, hi, top \in Nat :
             /\ Ordered(q, lo, hi) /\ lo <= hi /\ hi <= top
             /\ m[1] = "start" \/ (hi <= m[2] /\ m[2] <= top)
             => Ordered(Append(q, m), lo, top)
    BY <2>3, SendFacts
  <2>5. Ordered(Append(q, m), tokAgent[a].value, Newest)
    <3>1. /\ Ordered(q, tokAgent[a].value, Newest) /\ tokAgent[a].value <= Newest
          /\ tokAgent[a].value \in Nat
      BY <1>1 DEF Growing, q
    <3> QED BY <1>1, <2>2, <2>3, <2>4, <3>1
  <2>6. Growing(a)'
    BY <1>1, <1>3, <2>1, <2>5 DEF Growing
  <2>7. InPhase(a)'
    BY <1>1, <1>2, <2>1, <2>2, <2>4 DEF InPhase, q
  <2> QED BY <1>2, <1>4, <2>6, <2>7 DEF TokenInv
<1>6. CASE FollowEnds(a)
  <2>1. /\ tokFollow[a].at = "follow" /\ tokFollow'[a].at = "done"
        /\ tokAgent[a].at = "reported" /\ tokAgent'[a].at = "between"
        /\ tokAgent'[a].value = tokAgent[a].value
        /\ tokLink'[a] = tokLink[a] /\ tokPresented'[a] = tokPresented[a]
    BY <1>1, <1>6 DEF FollowEnds, TokenTypeOK
  <2>2. Growing(a)' /\ InPhase(a)'
    BY <1>1, <1>2, <1>3, <2>1 DEF Growing, InPhase
  <2> QED BY <1>2, <1>4, <2>2 DEF TokenInv
<1>7. CASE AgentReceives(a)
  <2> DEFINE q == tokLink[a]
             m == Head(tokLink[a])
  <2>1. q # <<>> /\ tokLink'[a] = Tail(q)
    BY <1>1, <1>7 DEF AgentReceives, TokenTypeOK
  <2>2. UNCHANGED <<tokFollow, tokPresented>>
    BY <1>7 DEF AgentReceives
  <2>3. /\ m[1] = "prepare" => tokAgent'[a] = [at |-> "ready", value |-> m[2]]
        /\ m[1] = "start" => tokAgent'[a] = [tokAgent[a] EXCEPT !.at = "running"]
        /\ m[1] = "token" => \/ tokAgent'[a] = tokAgent[a]
                             \/ /\ tokAgent[a].at \in {"ready", "running"}
                                /\ tokAgent'[a] = [tokAgent[a] EXCEPT !.value = m[2]]
    BY <1>1, <1>7 DEF AgentReceives, TokenTypeOK
  <2>4. /\ m = q[1] /\ m \in TokenMsg /\ Tail(q) \in Seq(TokenMsg)
        /\ Len(q) \in Nat /\ 1 \in 1..Len(q)
        /\ \A i \in 1..Len(Tail(q)) : Tail(q)[i] = q[i + 1] /\ i + 1 \in 1..Len(q)
        /\ \A k : Lacks(q, k) => Lacks(Tail(q), k)
        /\ \A k : AtMostOne(q, k) => AtMostOne(Tail(q), k)
        /\ \A k : AtMostOne(q, k) /\ q[1][1] = k => Lacks(Tail(q), k)
        /\ \A lo, hi \in Nat : Ordered(q, lo, hi) =>
             /\ Ordered(Tail(q), lo, hi)
             /\ q[1][1] # "start" => /\ lo <= q[1][2] /\ q[1][2] <= hi
                                     /\ Ordered(Tail(q), q[1][2], hi)
    BY <1>1, <2>1, ReceiveFacts
  <2>5. m[1] \in {"prepare", "start", "token"} /\ m[2] \in Nat
    BY <2>4, TokenMsgFacts
  <2>6. /\ tokPresented[a] <= tokAgent[a].value /\ tokAgent[a].value <= Newest
        /\ Ordered(Tail(q), tokAgent[a].value, Newest)
        /\ m[1] # "start" => /\ tokAgent[a].value <= m[2] /\ m[2] <= Newest
                             /\ Ordered(Tail(q), m[2], Newest)
    BY <1>1, <2>4 DEF Growing
  <2>7. \A k : Lacks(q, k) => m[1] # k
    BY <2>4 DEF Lacks
  <2>8. Growing(a)'
    <3> HIDE DEF q, m
    <3>1. CASE tokAgent'[a].value = tokAgent[a].value
      BY <1>3, <2>1, <2>2, <2>6, <3>1 DEF Growing
    <3>2. CASE m[1] # "start" /\ tokAgent'[a].value = m[2]
      <4>1. tokPresented[a] <= m[2]
        BY <1>1, <2>5, <2>6, <3>2
      <4> QED BY <1>3, <2>1, <2>2, <2>6, <3>2, <4>1 DEF Growing
    <3> QED BY <1>1, <2>3, <2>5, <3>1, <3>2
  <2>9. InPhase(a)'
    <3>0. /\ Lacks(q, "prepare") => Lacks(Tail(q), "prepare")
          /\ Lacks(q, "start") => Lacks(Tail(q), "start")
          /\ AtMostOne(q, "prepare") => AtMostOne(Tail(q), "prepare")
          /\ AtMostOne(q, "start") => AtMostOne(Tail(q), "start")
          /\ AtMostOne(q, "prepare") /\ m[1] = "prepare" => Lacks(Tail(q), "prepare")
          /\ AtMostOne(q, "start") /\ m[1] = "start" => Lacks(Tail(q), "start")
          /\ Lacks(q, "prepare") => m[1] # "prepare"
          /\ Lacks(q, "start") => m[1] # "start"
      BY <2>4, <2>7
    <3>00. \A p : (\A i \in 1..Len(q) : q[i][1] = "prepare" => q[i][2] = p)
                   => \A i \in 1..Len(Tail(q)) : Tail(q)[i][1] = "prepare" => Tail(q)[i][2] = p
      BY <2>4
    <3>1. CASE m[1] = "prepare"
      <4>1. tokRun.at = "barrier" /\ m[2] = tokRun.planned
        BY <1>1, <2>4, <3>0, <3>1 DEF InPhase
      <4>2. tokAgent'[a].at = "ready" /\ tokAgent'[a].value = m[2]
        BY <2>3, <3>1
      <4> HIDE DEF m
      <4> QED BY <1>1, <1>2, <2>1, <2>2, <3>0, <3>00, <3>1, <4>1, <4>2 DEF InPhase
    <3>2. CASE m[1] = "start"
      <4>1. tokRun.at = "running" /\ tokAgent[a].at = "ready" /\ tokFollow[a].at # "done"
        BY <1>1, <3>0, <3>2 DEF InPhase
      <4>2. tokAgent'[a].at = "running" /\ tokAgent'[a].value = tokAgent[a].value
        BY <1>1, <2>3, <3>2
      <4> HIDE DEF m
      <4> QED BY <1>1, <1>2, <2>1, <2>2, <3>0, <3>2, <4>1, <4>2 DEF InPhase
    <3>3. CASE m[1] = "token"
      <4>1. tokAgent'[a].at = tokAgent[a].at
        BY <1>1, <2>3, <3>3
      <4>2. tokAgent'[a].value = tokAgent[a].value \/ tokAgent'[a].value = m[2]
        BY <1>1, <2>3, <3>3
      <4>3. tokAgent[a].value <= tokAgent'[a].value /\ tokAgent'[a].value \in Nat
        BY <1>1, <2>5, <2>6, <3>3, <4>2
      <4>4. tokRun.planned <= tokAgent[a].value => tokRun.planned <= tokAgent'[a].value
        BY <1>1, <4>3
      <4> HIDE DEF m
      <4> QED BY <1>1, <1>2, <2>1, <2>2, <3>0, <3>00, <4>1, <4>4 DEF InPhase
    <3> QED BY <2>5, <3>1, <3>2, <3>3
  <2> QED BY <1>2, <1>4, <2>8, <2>9 DEF TokenInv
<1>8. CASE AgentShakes(a)
  <2>1. /\ tokPresented'[a] = tokAgent[a].value /\ tokAgent'[a] = tokAgent[a]
        /\ tokFollow' = tokFollow /\ tokLink' = tokLink
    BY <1>1, <1>8 DEF AgentShakes, TokenTypeOK
  <2>2. Growing(a)' /\ InPhase(a)'
    BY <1>1, <1>2, <1>3, <2>1 DEF Growing, InPhase
  <2> QED BY <1>2, <1>4, <2>2 DEF TokenInv
<1>9. CASE AgentReports(a)
  <2>1. /\ tokAgent[a].at = "running" /\ tokAgent'[a].at = "reported"
        /\ tokAgent'[a].value = tokAgent[a].value
        /\ tokFollow' = tokFollow /\ tokLink' = tokLink /\ tokPresented' = tokPresented
    BY <1>1, <1>9 DEF AgentReports, TokenTypeOK
  <2>2. Growing(a)' /\ InPhase(a)'
    BY <1>1, <1>2, <1>3, <2>1 DEF Growing, InPhase
  <2> QED BY <1>2, <1>4, <2>2 DEF TokenInv
<1> QED BY <1>5, <1>6, <1>7, <1>8, <1>9

\* The handshakes of an agent never present a credential older than the one
\* its phase was planned with, nor older than one they presented before, nor
\* one that was never made, however the refreshes, the ticks, the messages
\* and the phases interleave.
THEOREM CredentialsNeverOlder == TokenSpec => []TokenNeverOlder
<1>1. TokenInit => TokenInv
  <2> SUFFICES ASSUME TokenInit PROVE TokenInv
    OBVIOUS
  <2>1. /\ tokShared = 0 /\ tokRun = [at |-> "auth", phase |-> 0, planned |-> 0]
        /\ tokThread = [at |-> "new", fails |-> 0, suppressed |-> 0, recent |-> FALSE]
        /\ tokWatch = [value |-> 0, open |-> FALSE]
    BY DEF TokenInit, NoCredential
  <2>2. /\ tokFollow = [a \in TokenAgents |-> [at |-> "idle", seen |-> 0]]
        /\ tokAgent = [a \in TokenAgents |-> [at |-> "between", value |-> 0]]
        /\ tokPresented = [a \in TokenAgents |-> 0]
        /\ tokLink = [a \in TokenAgents |-> <<>>]
    BY DEF TokenInit, NoCredential
  <2>3. << >> \in Seq(TokenMsg) /\ Len(<< >>) = 0
    BY EmptySeq
  <2>4. TokenTypeOK
    BY <2>1, <2>2, <2>3 DEF TokenTypeOK
  <2>5. Newest = 0
    BY <2>1 DEF Newest
  <2>6. ASSUME NEW a \in TokenAgents PROVE Growing(a) /\ InPhase(a)
    <3>1. /\ tokFollow[a].at = "idle" /\ tokAgent[a].at = "between" /\ tokAgent[a].value = 0
          /\ tokPresented[a] = 0 /\ tokLink[a] = << >>
      BY <2>2
    <3>2. \A i \in 1..Len(tokLink[a]) : FALSE
      BY <2>3, <3>1
    <3> QED BY <2>1, <2>5, <3>1, <3>2 DEF Growing, InPhase, Ordered, Lacks
  <2> QED BY <2>1, <2>4, <2>6 DEF TokenInv, NoCredential
<1>2. TokenInv /\ [TokenNext]_tokenVars => TokenInv'
  <2> SUFFICES ASSUME TokenInv, [TokenNext]_tokenVars PROVE TokenInv'
    OBVIOUS
  <2>1. TokenTypeOK'
    BY TokenTypeStep DEF TokenInv
  <2>2. CASE UNCHANGED tokenVars
    BY <2>2 DEF tokenVars, TokenInv, TokenTypeOK, Growing, InPhase, Newest
  <2> QED BY <2>1, <2>2, TokenProcessStep, TokenCoordinatorStep, TokenAgentStep
          DEF TokenNext, TokenTerminated
<1>3. TokenInv => TokenNeverOlder
  <2> SUFFICES ASSUME TokenInv, NEW a \in TokenAgents, tokAgent[a].at = "running"
               PROVE  /\ tokRun.planned <= tokAgent[a].value
                      /\ tokPresented[a] <= tokAgent[a].value
                      /\ tokAgent[a].value <= tokShared
    BY DEF TokenNeverOlder
  <2>1. Growing(a) /\ InPhase(a)
    BY DEF TokenInv
  <2>2. tokRun.at = "running"
    BY <2>1 DEF InPhase
  <2>3. tokAgent[a].value \in Nat /\ tokWatch.value \in Nat /\ tokShared \in Nat
    BY DEF TokenInv, TokenTypeOK
  <2> QED BY <2>1, <2>2, <2>3 DEF TokenInv, Growing, InPhase, Newest
<1> QED BY <1>1, <1>2, <1>3, PTL DEF TokenSpec
----------------------------------------------------------------------------
(* The replies of a Socket.IO session.                                     *)

SocketIoSpec == SocketIoInit /\ [][SocketIoNext]_socketIoVars

\* Frames; those that carry an ack id belong to the event of that id.
Kinds == {"open", "connect", "connect_error", "disconnect", "event", "ack", "binary", "text", "reply",
          "ping", "pong", "ws_ping", "ws_pong", "bye", "close", "failure"}
Frames == [t : Kinds, own : BOOLEAN, id : Nat, att : Nat, ev : Nat]
Genuine == {f \in Frames : f.id # None => f.ev = f.id}
Partials == {p \in [needed : Nat, ack : BOOLEAN, id : Nat, ev : Nat] : p.id # None => p.ev = p.id}

Loops == [at : {"opening", "idle", "await", "over"}, opened : BOOLEAN, seq : Nat,
          token : BOOLEAN, end : {"none", "error", "finished", "lost"}]
Pumps == [at : {"new", "run", "over"}, next_id : Nat, awaited : Nat, pending : Partials,
          unsolicited : Nat, replies : Nat, packets : Nat]
Servers == [opened : BOOLEAN, pending : Partials, owed : SUBSET Genuine,
            pushed : Nat, closed : BOOLEAN]

SioTypes ==
  /\ sioLoop \in Loops /\ sioPump \in Pumps /\ sioServer \in Servers
  /\ sioOutgoing \in Seq(Frames) /\ sioIncoming \in Seq(Frames)
  /\ sioToClient \in Seq(Genuine)

DataAt(s) == {i \in 1..Len(s) : s[i].t # "close"}
RepliesAt(s) == {i \in 1..Len(s) : s[i].t = "reply"}
Free == {"opening", "idle"}

\* At most one data frame is under way in the channel, the pump's next id is
\* the number of that frame, and of the next one when there is none.
DataInOrder ==
  /\ \A i \in DataAt(sioOutgoing) :
       /\ sioOutgoing[i].ev = sioLoop.seq /\ sioPump.next_id = sioLoop.seq
       /\ sioLoop.at \notin Free
  /\ \A i, j \in DataAt(sioOutgoing) : i = j
  /\ sioPump.next_id \in {sioLoop.seq, sioLoop.seq + 1}
  /\ sioLoop.at \in Free => sioPump.next_id = sioLoop.seq + 1 /\ sioPump.awaited = None
  /\ sioPump.awaited # None =>
       sioPump.awaited = sioLoop.seq /\ sioPump.next_id = sioLoop.seq + 1

\* A reply on its way to the loop is the only one and answers the latest
\* event, and the pump then awaits none.
RepliesInOrder ==
  /\ \A i \in RepliesAt(sioIncoming) :
       /\ sioIncoming[i].ev = sioLoop.seq /\ sioPump.awaited = None
       /\ sioPump.next_id = sioLoop.seq + 1 /\ sioLoop.at \notin Free
  /\ \A i, j \in RepliesAt(sioIncoming) : i = j

Counted(p) == p.replies + p.unsolicited + (IF p.pending = NoPending THEN 0 ELSE 1) = p.packets

SioInv == SioTypes /\ DataInOrder /\ RepliesInOrder /\ Counted(sioPump)

\* The channel after a frame was taken from it.
LEMMA TailAt ==
  ASSUME NEW F, NEW s \in Seq(F), s # <<>>
  PROVE  /\ Tail(s) \in Seq(F) /\ s[1] \in F /\ 1 \in 1..Len(s)
         /\ \A i \in 1..Len(Tail(s)) : i + 1 \in 1..Len(s) /\ i + 1 # 1 /\ Tail(s)[i] = s[i + 1]
<1>1. /\ Len(s) \in Nat \ {0} /\ Tail(s) \in Seq(F) /\ Len(Tail(s)) = Len(s) - 1
      /\ \A i \in 1..(Len(s) - 1) : Tail(s)[i] = s[i + 1]
  BY HeadTailProperties, LenProperties, EmptySeq
<1>2. 1 \in 1..Len(s)
  BY <1>1
<1>3. s[1] \in F
  BY <1>2, ElementOfSeq
<1> QED BY <1>1, <1>2, <1>3

\* The channel after a frame was put into it.
LEMMA AppendAt ==
  ASSUME NEW F, NEW s \in Seq(F), NEW x \in F
  PROVE  /\ Append(s, x) \in Seq(F)
         /\ \A i \in 1..Len(Append(s, x)) :
              \/ i \in 1..Len(s) /\ Append(s, x)[i] = s[i]
              \/ i = Len(s) + 1 /\ Append(s, x)[i] = x
<1>1. /\ Append(s, x) \in Seq(F) /\ Len(Append(s, x)) = Len(s) + 1 /\ Len(s) \in Nat
      /\ \A i \in 1..Len(s) : Append(s, x)[i] = s[i]
      /\ Append(s, x)[Len(s) + 1] = x
  BY AppendProperties, LenProperties
<1> QED BY <1>1

\* Frames without an ack id, and the ones the pump sends, are genuine.
LEMMA MsgTypes ==
  ASSUME NEW t \in Kinds, NEW own \in BOOLEAN, NEW id \in Nat, NEW att \in Nat, NEW ev \in Nat
  PROVE  /\ Msg(t, own, id, att, ev) \in Frames
         /\ id = None \/ ev = id => Msg(t, own, id, att, ev) \in Genuine
         /\ Msg(t, own, id, att, ev).t = t /\ Msg(t, own, id, att, ev).ev = ev
         /\ Sign(t) \in Genuine
BY DEF Msg, Sign, Frames, Genuine, None

\* The server only ever owes acks that name the event they answer.
LEMMA ReceiveGenuine ==
  ASSUME NEW server \in Servers, NEW f \in Genuine
  PROVE  Receive(server, f) \in Servers
<1> DEFINE p == server.pending
           quiet == [server EXCEPT !.pending = NoPending]
<1>1. /\ p \in Partials /\ server.owed \in SUBSET Genuine
      /\ f.id \in Nat /\ f.att \in Nat /\ f.ev \in Nat /\ (f.id # None => f.ev = f.id)
      /\ p.id \in Nat /\ p.ev \in Nat /\ (p.id # None => p.ev = p.id)
  BY DEF Servers, Genuine, Frames, Partials
<1>2. NoPending \in Partials
  BY DEF NoPending, Partials, None
<1>3. /\ quiet \in Servers
      /\ \A answer \in Genuine : [quiet EXCEPT !.owed = @ \cup {answer}] \in Servers
      /\ [quiet EXCEPT !.closed = TRUE] \in Servers
  BY <1>1, <1>2 DEF Servers
<1>4. /\ Msg("ack", TRUE, p.id, 1, p.ev) \in Genuine /\ Msg("ack", TRUE, f.id, 0, f.ev) \in Genuine
      /\ Sign("pong") \in Genuine /\ Sign("connect") \in Genuine
  <2> HIDE DEF p
  <2>1. \A id, att, ev \in Nat : id = None \/ ev = id => Msg("ack", TRUE, id, att, ev) \in Genuine
    BY MsgTypes, ZenonT(60) DEF Kinds
  <2>2. Sign("pong") \in Genuine /\ Sign("connect") \in Genuine
    BY MsgTypes, ZenonT(60) DEF Kinds
  <2> QED BY <1>1, <2>1, <2>2
<1>5. [needed |-> f.att, ack |-> FALSE, id |-> f.id, ev |-> f.ev] \in Partials
  BY <1>1 DEF Partials
<1>6. [server EXCEPT !.pending = [needed |-> f.att, ack |-> FALSE, id |-> f.id, ev |-> f.ev]]
        \in Servers
  BY <1>5 DEF Servers
<1> QED BY <1>3, <1>4, <1>6 DEF Receive

\* What the client writes keeps the server's type.
LEMMA WritesGenuine ==
  ASSUME sioServer \in Servers, NEW f \in Genuine, NEW g \in Genuine,
         Writes(f) \/ WritesBoth(f, g)
  PROVE  sioServer' \in Servers
BY ReceiveGenuine DEF Writes, WritesBoth

\* A step that leaves the channels and the ids alone keeps their order.
LEMMA KeepsOrder ==
  ASSUME DataInOrder, RepliesInOrder, UNCHANGED <<sioOutgoing, sioIncoming>>,
         sioLoop'.seq = sioLoop.seq, sioLoop'.at \in Free => sioLoop.at \in Free,
         sioPump'.next_id = sioPump.next_id, sioPump'.awaited = sioPump.awaited
  PROVE  DataInOrder' /\ RepliesInOrder'
BY DEF DataInOrder, RepliesInOrder

\* Every frame written out in the code below is genuine.
LEMMA Signs ==
  /\ \A t \in {"ws_pong", "pong", "ping", "connect", "close", "disconnect", "binary", "open",
               "bye", "ws_ping", "failure"} : Sign(t) \in Genuine /\ Sign(t) \in Frames
  /\ CloseFrame \in Genuine /\ Disconnect \in Genuine /\ CloseFrame \in Frames
  /\ CloseFrame.t = "close"
<1>1. \A t \in Kinds : Sign(t) \in Genuine
  BY MsgTypes
<1>2. \A f \in Genuine : f \in Frames
  BY DEF Genuine
<1>3. CloseFrame.t = "close"
  BY DEF CloseFrame, Sign, Msg
<1> QED BY <1>1, <1>2, <1>3 DEF Kinds, CloseFrame, Disconnect

\* What the session does, opening and over its channel, keeps the invariant.
LEMMA SioLoopStep ==
  ASSUME SioInv, SocketIoLoop \/ Cancel
  PROVE  SioInv'
<1>1. /\ sioLoop \in Loops /\ sioPump \in Pumps /\ sioServer \in Servers
      /\ sioOutgoing \in Seq(Frames) /\ sioIncoming \in Seq(Frames)
      /\ sioToClient \in Seq(Genuine) /\ DataInOrder /\ RepliesInOrder /\ Counted(sioPump)
      /\ sioLoop.seq \in Nat /\ sioPump.next_id \in Nat
  BY DEF SioInv, SioTypes, Loops, Pumps
<1>2. ASSUME NEW end \in {"none", "error", "finished", "lost"}, LoopEnds(end)
      PROVE  sioLoop' \in Loops /\ sioLoop'.seq = sioLoop.seq /\ sioLoop'.at \notin Free
  BY <1>1, <1>2 DEF LoopEnds, Loops, Free
<1>3. ASSUME sioLoop' \in Loops, sioPump' \in Pumps, sioServer' \in Servers,
             sioToClient' \in Seq(Genuine), UNCHANGED <<sioOutgoing, sioIncoming>>,
             sioLoop'.seq = sioLoop.seq, sioLoop'.at \in Free => sioLoop.at \in Free,
             sioPump' = sioPump \/ sioPump' = [sioPump EXCEPT !.at = "run"]
      PROVE  SioInv'
  <2>1. /\ sioPump'.next_id = sioPump.next_id /\ sioPump'.awaited = sioPump.awaited
        /\ sioPump'.replies = sioPump.replies /\ sioPump'.unsolicited = sioPump.unsolicited
        /\ sioPump'.pending = sioPump.pending /\ sioPump'.packets = sioPump.packets
    BY <1>1, <1>3 DEF Pumps
  <2>2. Counted(sioPump)'
    BY <1>1, <2>1 DEF Counted
  <2> QED BY <1>1, <1>3, <2>1, <2>2, KeepsOrder DEF SioInv, SioTypes
<1>4. CASE OpenReads
  <2>1. /\ sioLoop.at = "opening" /\ sioToClient # <<>> /\ sioToClient' = Tail(sioToClient)
        /\ UNCHANGED <<sioOutgoing, sioIncoming>>
    BY <1>4 DEF OpenReads
  <2>2. sioToClient' \in Seq(Genuine) /\ sioLoop.at \in Free
    BY <1>1, <2>1, TailAt DEF Free
  <2>3. CASE OpenFails
    BY <1>1, <1>2, <1>3, <2>1, <2>2, <2>3, Signs, WritesGenuine DEF OpenFails
  <2>4. CASE OpenSucceeds
    <3>1. sioLoop' \in Loops /\ sioLoop'.seq = sioLoop.seq /\ sioPump' \in Pumps
      BY <1>1, <2>4 DEF OpenSucceeds, Loops, Pumps
    <3> QED BY <1>1, <1>3, <2>1, <2>2, <2>4, <3>1 DEF OpenSucceeds
  <2>5. CASE OpenIgnores
    BY <1>1, <1>3, <2>1, <2>2, <2>5 DEF OpenIgnores
  <2>6. ASSUME NEW t \in {"ws_pong", "pong"}, OpenAnswers(Sign(t)) PROVE SioInv'
    <3>1. sioServer' \in Servers
      BY <1>1, <2>6, Signs, WritesGenuine DEF OpenAnswers
    <3> QED BY <1>1, <1>3, <2>1, <2>2, <2>6, <3>1 DEF OpenAnswers
  <2>7. CASE /\ sioLoop' = [sioLoop EXCEPT !.opened = TRUE] /\ UNCHANGED sioPump
             /\ UNCHANGED sioServer \/ Writes(Sign("connect"))
    <3>1. sioLoop' \in Loops /\ sioLoop'.seq = sioLoop.seq
      BY <1>1, <2>7 DEF Loops
    <3>2. sioServer' \in Servers
      BY <1>1, <2>7, Signs, WritesGenuine
    <3> QED BY <1>1, <1>3, <2>1, <2>2, <2>7, <3>1, <3>2
  <2> QED BY <1>4, <2>3, <2>4, <2>5, <2>6, <2>7 DEF OpenReads
<1>5. CASE OpenTimesOut \/ OpenCancelled
  <2>1. \E end \in {"error", "finished"} : LoopEnds(end)
    BY <1>5 DEF OpenTimesOut, OpenCancelled, OpenFails
  <2>2. sioServer' \in Servers
    BY <1>1, <1>5, Signs, WritesGenuine DEF OpenTimesOut, OpenCancelled, OpenFails
  <2>3. UNCHANGED <<sioPump, sioOutgoing, sioIncoming, sioToClient>>
    BY <1>5 DEF OpenTimesOut, OpenCancelled, OpenFails
  <2> QED BY <1>1, <1>2, <1>3, <2>1, <2>2, <2>3
<1>6. CASE LoopTimesOut \/ Cancel
  <2>1. UNCHANGED <<sioPump, sioServer, sioToClient, sioOutgoing, sioIncoming>>
    BY <1>6 DEF LoopTimesOut, Cancel, LoopOnly
  <2>2. /\ sioLoop' \in Loops /\ sioLoop'.seq = sioLoop.seq
        /\ sioLoop'.at \in Free => sioLoop.at \in Free
    <3>1. CASE LoopTimesOut
      BY <1>2, <3>1 DEF LoopTimesOut
    <3>2. CASE Cancel
      BY <1>1, <3>2 DEF Cancel, Loops
    <3> QED BY <1>6, <3>1, <3>2
  <2> QED BY <1>1, <1>3, <2>1, <2>2
<1>7. CASE LoopSends
  <2>1. UNCHANGED <<sioPump, sioServer, sioToClient, sioIncoming>> /\ sioLoop.at = "idle"
    BY <1>7 DEF LoopSends, LoopOnly
  <2>2. CASE LoopEnds("error") /\ UNCHANGED sioOutgoing
    BY <1>1, <1>2, <1>3, <2>1, <2>2
  <2>3. ASSUME NEW t \in {"text", "binary"},
               sioLoop' = [sioLoop EXCEPT !.at = "await", !.seq = @ + 1],
               sioOutgoing' = Append(sioOutgoing, Msg(t, TRUE, None, 0, sioLoop.seq + 1))
        PROVE  SioInv'
    <3> DEFINE x == Msg(t, TRUE, None, 0, sioLoop.seq + 1)
    <3>1. x \in Frames /\ x.ev = sioLoop.seq + 1
      <4>1. t \in Kinds /\ TRUE \in BOOLEAN /\ None \in Nat /\ 0 \in Nat /\ sioLoop.seq + 1 \in Nat
        BY <1>1 DEF Kinds, None
      <4> QED BY <4>1 DEF Msg, Frames
    <3> HIDE DEF x
    <3>2. sioLoop' \in Loops /\ sioLoop'.seq = sioLoop.seq + 1 /\ sioLoop'.at = "await"
      <4>1. sioLoop' = [at |-> "await", opened |-> sioLoop.opened, seq |-> sioLoop.seq + 1,
                        token |-> sioLoop.token, end |-> sioLoop.end]
        BY <1>1, <2>3 DEF Loops
      <4>2. sioLoop.seq + 1 \in Nat
        BY <1>1
      <4> QED BY <1>1, <4>1, <4>2 DEF Loops
    <3>3. /\ sioOutgoing' \in Seq(Frames)
          /\ \A i \in 1..Len(sioOutgoing') :
               \/ i \in 1..Len(sioOutgoing) /\ sioOutgoing'[i] = sioOutgoing[i]
               \/ i = Len(sioOutgoing) + 1 /\ sioOutgoing'[i] = x
      BY <1>1, <2>3, <3>1, AppendAt DEF x
    <3>4. /\ sioPump.next_id = sioLoop.seq + 1 /\ sioPump.awaited = None
          /\ \A i \in 1..Len(sioOutgoing) : i \notin DataAt(sioOutgoing)
          /\ \A i \in 1..Len(sioIncoming) : i \notin RepliesAt(sioIncoming)
      BY <1>1, <2>1 DEF DataInOrder, RepliesInOrder, Free
    <3>5. \A i \in DataAt(sioOutgoing') : i = Len(sioOutgoing) + 1 /\ sioOutgoing'[i] = x
      BY <3>3, <3>4 DEF DataAt
    <3>6. \A i \in RepliesAt(sioIncoming') : FALSE
      BY <2>1, <3>4 DEF RepliesAt
    <3>7. DataInOrder'
      BY <1>1, <2>1, <3>1, <3>2, <3>4, <3>5 DEF DataInOrder, Free
    <3>8. RepliesInOrder'
      BY <3>6 DEF RepliesInOrder
    <3> QED BY <1>1, <2>1, <3>2, <3>3, <3>7, <3>8 DEF SioInv, SioTypes, Counted
  <2> QED BY <1>7, <2>2, <2>3 DEF LoopSends
<1>8. CASE LoopReads
  <2>1. UNCHANGED <<sioPump, sioServer, sioToClient, sioOutgoing>> /\ sioLoop.at = "await"
    BY <1>8 DEF LoopReads, LoopOnly
  <2>2. CASE sioIncoming # <<>> /\ sioIncoming' = Tail(sioIncoming)
    <3>1. /\ sioIncoming' \in Seq(Frames) /\ 1 \in 1..Len(sioIncoming)
          /\ \A i \in 1..Len(sioIncoming') :
               i + 1 \in 1..Len(sioIncoming) /\ i + 1 # 1 /\ sioIncoming'[i] = sioIncoming[i + 1]
      BY <1>1, <2>2, TailAt
    <3>2. \A i \in RepliesAt(sioIncoming') :
            i + 1 \in RepliesAt(sioIncoming) /\ i + 1 # 1 /\ sioIncoming'[i] = sioIncoming[i + 1]
      BY <3>1 DEF RepliesAt
    <3>3. ASSUME sioLoop' \in Loops, sioLoop'.seq = sioLoop.seq,
                 sioLoop'.at \in Free => 1 \in RepliesAt(sioIncoming)
          PROVE  SioInv'
      <4>1. sioLoop'.at \in Free =>
              /\ sioPump.next_id = sioLoop.seq + 1 /\ sioPump.awaited = None
              /\ \A i \in RepliesAt(sioIncoming') : FALSE
        BY <1>1, <3>2, <3>3 DEF RepliesInOrder
      <4>2. DataInOrder'
        BY <1>1, <2>1, <3>3, <4>1 DEF DataInOrder
      <4>3. \A i, j \in RepliesAt(sioIncoming') : i = j
        <5> SUFFICES ASSUME NEW i \in RepliesAt(sioIncoming'), NEW j \in RepliesAt(sioIncoming')
                     PROVE  i = j
          OBVIOUS
        <5>1. i + 1 = j + 1
          BY <1>1, <3>2 DEF RepliesInOrder
        <5>2. i \in Nat /\ j \in Nat
          BY DEF RepliesAt
        <5> QED BY <5>1, <5>2
      <4>4. RepliesInOrder'
        BY <1>1, <2>1, <3>2, <3>3, <4>1, <4>3 DEF RepliesInOrder
      <4> QED BY <1>1, <2>1, <3>1, <3>3, <4>2, <4>4 DEF SioInv, SioTypes, Counted
    <3>4. CASE sioIncoming[1].t = "reply" /\ sioLoop' = [sioLoop EXCEPT !.at = "idle"]
      BY <1>1, <3>1, <3>3, <3>4 DEF Loops, RepliesAt
    <3>5. CASE LoopEnds("lost") \/ LoopEnds("error")
      BY <1>2, <3>3, <3>5
    <3> QED BY <1>8, <2>2, <3>4, <3>5 DEF LoopReads, LoopEnds
  <2>3. CASE LoopEnds("error") /\ UNCHANGED sioIncoming
    BY <1>1, <1>2, <1>3, <2>1, <2>3
  <2> QED BY <1>8, <2>2, <2>3 DEF LoopReads
<1>9. CASE LoopCloses
  <2>1. /\ UNCHANGED <<sioPump, sioServer, sioToClient, sioIncoming>> /\ LoopEnds("finished")
        /\ sioOutgoing' = sioOutgoing \/ sioOutgoing' = Append(sioOutgoing, CloseFrame)
    BY <1>9 DEF LoopCloses, LoopOnly
  <2>2. sioLoop' \in Loops /\ sioLoop'.seq = sioLoop.seq /\ sioLoop'.at \notin Free
    BY <1>2, <2>1
  <2>3. CASE sioOutgoing' = sioOutgoing
    BY <1>1, <1>3, <2>1, <2>2, <2>3
  <2>4. CASE sioOutgoing' = Append(sioOutgoing, CloseFrame)
    <3>1. /\ sioOutgoing' \in Seq(Frames)
          /\ \A i \in 1..Len(sioOutgoing') :
               \/ i \in 1..Len(sioOutgoing) /\ sioOutgoing'[i] = sioOutgoing[i]
               \/ i = Len(sioOutgoing) + 1 /\ sioOutgoing'[i] = CloseFrame
      BY <1>1, <2>4, AppendAt, Signs
    <3>2. \A i \in DataAt(sioOutgoing') :
            i \in DataAt(sioOutgoing) /\ sioOutgoing'[i] = sioOutgoing[i]
      BY <3>1, Signs DEF DataAt
    <3>3. DataInOrder'
      BY <1>1, <2>1, <2>2, <3>2 DEF DataInOrder
    <3>4. RepliesInOrder'
      BY <1>1, <2>1, <2>2 DEF RepliesInOrder
    <3> QED BY <1>1, <2>1, <2>2, <3>1, <3>3, <3>4 DEF SioInv, SioTypes, Counted
  <2> QED BY <2>1, <2>3, <2>4
<1> QED BY <1>4, <1>5, <1>6, <1>7, <1>8, <1>9 DEF SocketIoLoop

\* What the pump passes on besides replies leaves the replies alone.
LEMMA PassesOther ==
  ASSUME SioInv, NEW t \in {"failure", "close"}, Passes(t, 0)
  PROVE  /\ sioIncoming' \in Seq(Frames)
         /\ \A i \in RepliesAt(sioIncoming') :
              i \in RepliesAt(sioIncoming) /\ sioIncoming'[i] = sioIncoming[i]
<1>1. sioIncoming \in Seq(Frames)
  BY DEF SioInv, SioTypes
<1> DEFINE x == Msg(t, TRUE, None, 0, 0)
<1>2. x \in Frames /\ x.t # "reply"
  BY DEF Msg, Frames, Kinds, None
<1> HIDE DEF x
<1>3. CASE sioIncoming' = sioIncoming
  BY <1>1, <1>3
<1>4. CASE sioIncoming' = Append(sioIncoming, x)
  <2>1. /\ sioIncoming' \in Seq(Frames)
        /\ \A i \in 1..Len(sioIncoming') :
             \/ i \in 1..Len(sioIncoming) /\ sioIncoming'[i] = sioIncoming[i]
             \/ i = Len(sioIncoming) + 1 /\ sioIncoming'[i] = x
    BY <1>1, <1>2, <1>4, AppendAt
  <2> QED BY <1>2, <2>1 DEF RepliesAt
<1> QED BY <1>3, <1>4 DEF Passes, x

\* A pump that only ends, or counts, keeps the order of data and replies.
LEMMA PumpKeepsOrder ==
  ASSUME SioInv, UNCHANGED sioLoop, sioPump'.next_id = sioPump.next_id,
         sioPump'.awaited = sioPump.awaited,
         \A i \in DataAt(sioOutgoing') : i \in DataAt(sioOutgoing) /\ sioOutgoing'[i] = sioOutgoing[i],
         \A i \in RepliesAt(sioIncoming') : i \in RepliesAt(sioIncoming) /\ sioIncoming'[i] = sioIncoming[i]
  PROVE  DataInOrder' /\ RepliesInOrder'
BY DEF SioInv, DataInOrder, RepliesInOrder

\* A complete packet is taken as the reply only when it answers the latest
\* event, and then nothing is awaited any more.
LEMMA RepliesKeep ==
  ASSUME SioInv, NEW p \in Pumps, NEW ack \in BOOLEAN, NEW id \in Nat, NEW ev \in Nat,
         id # None => ev = id, p.awaited = sioPump.awaited, p.next_id = sioPump.next_id,
         p.pending = NoPending, p.replies + p.unsolicited + 1 = p.packets,
         PumpReplies(p, ack, id, ev), UNCHANGED <<sioLoop, sioOutgoing>>
  PROVE  /\ sioPump' \in Pumps /\ sioIncoming' \in Seq(Frames)
         /\ DataInOrder' /\ RepliesInOrder' /\ Counted(sioPump)'
<1>1. /\ sioIncoming \in Seq(Frames) /\ DataInOrder /\ RepliesInOrder
      /\ p.replies \in Nat /\ p.unsolicited \in Nat /\ p.packets \in Nat
      /\ p = [at |-> p.at, next_id |-> p.next_id, awaited |-> p.awaited, pending |-> p.pending,
              unsolicited |-> p.unsolicited, replies |-> p.replies, packets |-> p.packets]
      /\ p.at \in {"new", "run", "over"} /\ p.next_id \in Nat /\ p.awaited \in Nat
      /\ p.pending \in Partials
  BY DEF SioInv, SioTypes, Pumps
<1>2. CASE ack /\ id # None /\ id = p.awaited
  <2>1. /\ sioPump' = [at |-> p.at, next_id |-> p.next_id, awaited |-> None, pending |-> p.pending,
                       unsolicited |-> p.unsolicited, replies |-> p.replies + 1,
                       packets |-> p.packets]
        /\ Passes("reply", ev)
    BY <1>1, <1>2 DEF PumpReplies
  <2>2. /\ sioPump' \in Pumps /\ sioPump'.awaited = None /\ sioPump'.next_id = sioPump.next_id
        /\ sioPump'.pending = NoPending /\ sioPump'.unsolicited = p.unsolicited
        /\ sioPump'.replies = p.replies + 1 /\ sioPump'.packets = p.packets
    BY <1>1, <2>1 DEF Pumps, None
  <2>3. /\ ev = sioLoop.seq /\ sioPump.next_id = sioLoop.seq + 1 /\ sioLoop.at \notin Free
        /\ \A i \in RepliesAt(sioIncoming) : FALSE
    BY <1>1, <1>2 DEF DataInOrder, RepliesInOrder
  <2>4. Counted(sioPump)'
    BY <1>1, <2>2 DEF Counted
  <2> DEFINE x == Msg("reply", TRUE, None, 0, ev)
  <2>5. x \in Frames /\ x.ev = ev
    BY DEF Msg, Frames, Kinds, None
  <2> HIDE DEF x
  <2>6. /\ sioIncoming' \in Seq(Frames)
        /\ \A i \in RepliesAt(sioIncoming') : i = Len(sioIncoming) + 1 /\ sioIncoming'[i] = x
    <3>1. CASE sioIncoming' = sioIncoming
      BY <1>1, <2>3, <3>1
    <3>2. CASE sioIncoming' = Append(sioIncoming, x)
      <4>1. /\ sioIncoming' \in Seq(Frames)
            /\ \A i \in 1..Len(sioIncoming') :
                 \/ i \in 1..Len(sioIncoming) /\ sioIncoming'[i] = sioIncoming[i]
                 \/ i = Len(sioIncoming) + 1 /\ sioIncoming'[i] = x
        BY <1>1, <2>5, <3>2, AppendAt
      <4> QED BY <2>3, <4>1 DEF RepliesAt
    <3> QED BY <2>1, <3>1, <3>2 DEF Passes, x
  <2>7. RepliesInOrder'
    BY <2>2, <2>3, <2>5, <2>6 DEF RepliesInOrder
  <2>8. DataInOrder'
    BY <1>1, <2>2 DEF DataInOrder
  <2> QED BY <2>2, <2>4, <2>6, <2>7, <2>8
<1>3. CASE ~(ack /\ id # None /\ id = p.awaited)
  <2>1. /\ sioPump' = [at |-> p.at, next_id |-> p.next_id, awaited |-> p.awaited,
                       pending |-> p.pending, unsolicited |-> p.unsolicited + 1,
                       replies |-> p.replies, packets |-> p.packets]
        /\ UNCHANGED sioIncoming
    BY <1>1, <1>3 DEF PumpReplies
  <2>2. /\ sioPump' \in Pumps /\ sioPump'.awaited = sioPump.awaited
        /\ sioPump'.next_id = sioPump.next_id /\ sioPump'.pending = NoPending
        /\ sioPump'.unsolicited = p.unsolicited + 1
        /\ sioPump'.replies = p.replies /\ sioPump'.packets = p.packets
    BY <1>1, <2>1 DEF Pumps
  <2>3. Counted(sioPump)'
    BY <1>1, <2>2 DEF Counted
  <2> QED BY <1>1, <2>1, <2>2, <2>3, KeepsOrder
<1> QED BY <1>2, <1>3

\* What the pump writes keeps the invariant: a data frame becomes the event
\* that carries its number as ack id.
LEMMA PumpSendsStep ==
  ASSUME SioInv, PumpSends \/ PumpWriteFails \/ PumpStreamEnds \/ PumpPings
  PROVE  SioInv'
<1>1. /\ sioLoop \in Loops /\ sioPump \in Pumps /\ sioServer \in Servers
      /\ sioOutgoing \in Seq(Frames) /\ sioIncoming \in Seq(Frames)
      /\ sioToClient \in Seq(Genuine) /\ DataInOrder /\ RepliesInOrder /\ Counted(sioPump)
      /\ sioLoop.seq \in Nat /\ sioPump.next_id \in Nat
      /\ UNCHANGED <<sioLoop, sioToClient>>
  BY DEF SioInv, SioTypes, Loops, Pumps, PumpSends, PumpWriteFails, PumpStreamEnds, PumpPings,
     PumpUnchanged
<1>2. ASSUME PumpEnds
      PROVE  /\ sioPump' \in Pumps /\ sioPump'.next_id = sioPump.next_id
             /\ sioPump'.awaited = sioPump.awaited /\ Counted(sioPump)'
  BY <1>1, <1>2 DEF PumpEnds, Pumps, Counted
<1>3. CASE sioOutgoing # <<>> /\ PumpSends /\ sioOutgoing' = Tail(sioOutgoing)
  <2>1. /\ sioOutgoing' \in Seq(Frames) /\ 1 \in 1..Len(sioOutgoing) /\ sioOutgoing[1] \in Frames
        /\ \A i \in 1..Len(sioOutgoing') :
             i + 1 \in 1..Len(sioOutgoing) /\ i + 1 # 1 /\ sioOutgoing'[i] = sioOutgoing[i + 1]
    BY <1>1, <1>3, TailAt
  <2>2. \A i \in DataAt(sioOutgoing') :
          i + 1 \in DataAt(sioOutgoing) /\ i + 1 # 1 /\ sioOutgoing'[i] = sioOutgoing[i + 1]
    BY <2>1 DEF DataAt
  <2>3. \A i, j \in DataAt(sioOutgoing') : i = j
    <3> SUFFICES ASSUME NEW i \in DataAt(sioOutgoing'), NEW j \in DataAt(sioOutgoing')
                 PROVE  i = j
      OBVIOUS
    <3>1. i + 1 = j + 1 /\ i \in Nat /\ j \in Nat
      BY <1>1, <2>2, SMTT(30) DEF DataInOrder, DataAt
    <3> QED BY <3>1
  <2>4. UNCHANGED sioIncoming
    BY <1>3 DEF PumpSends
  <2>5. CASE PumpEnds /\ WritesBoth(Disconnect, CloseFrame)
    <3>1. sioServer' \in Servers
      BY <1>1, <2>5, Signs, WritesGenuine
    <3>2. DataInOrder'
      BY <1>1, <1>2, <2>2, <2>3, <2>5 DEF DataInOrder
    <3>3. RepliesInOrder'
      BY <1>1, <1>2, <2>4, <2>5 DEF RepliesInOrder
    <3> QED BY <1>1, <1>2, <2>1, <2>4, <2>5, <3>1, <3>2, <3>3 DEF SioInv, SioTypes
  <2>6. CASE sioOutgoing[1].t # "close" /\ PumpEvent(sioOutgoing[1])
    <3> DEFINE f == sioOutgoing[1]
               id == sioPump.next_id
               event == Msg("event", TRUE, id, IF f.t = "binary" THEN 1 ELSE 0, f.ev)
    <3>1. 1 \in DataAt(sioOutgoing)
      BY <2>1, <2>6 DEF DataAt
    <3>2. f.ev = sioLoop.seq /\ id = sioLoop.seq /\ sioLoop.at \notin Free
      BY <1>1, <3>1 DEF DataInOrder
    <3>3. \A i \in DataAt(sioOutgoing') : FALSE
      BY <1>1, <2>2, <3>1 DEF DataInOrder
    <3>4. \A i \in RepliesAt(sioIncoming) : FALSE
      BY <1>1, <3>2 DEF RepliesInOrder
    <3>5. /\ sioPump' = [sioPump EXCEPT !.awaited = id, !.next_id = @ + 1]
          /\ WritesBoth(event, Sign("binary")) \/ Writes(event)
      BY <2>6 DEF PumpEvent
    <3>6. event \in Genuine
      <4>1. id \in Nat /\ f.ev = id
        BY <1>1, <3>2
      <4> QED BY <4>1 DEF Msg, Genuine, Frames, Kinds
    <3> HIDE DEF event, f
    <3>7. sioServer' \in Servers
      BY <1>1, <3>5, <3>6, Signs, WritesGenuine
    <3>8. /\ sioPump' \in Pumps /\ sioPump'.next_id = sioLoop.seq + 1
          /\ sioPump'.awaited = sioLoop.seq /\ Counted(sioPump)'
      <4>1. sioPump' = [at |-> sioPump.at, next_id |-> sioPump.next_id + 1, awaited |-> id,
                        pending |-> sioPump.pending, unsolicited |-> sioPump.unsolicited,
                        replies |-> sioPump.replies, packets |-> sioPump.packets]
        BY <1>1, <3>5 DEF Pumps
      <4>2. sioPump.next_id + 1 \in Nat
        BY <1>1
      <4> QED BY <1>1, <3>2, <4>1, <4>2 DEF Pumps, Counted
    <3>9. DataInOrder'
      BY <1>1, <3>2, <3>3, <3>8 DEF DataInOrder
    <3>10. RepliesInOrder'
      BY <2>4, <3>4 DEF RepliesInOrder
    <3> QED BY <1>1, <2>1, <2>4, <3>7, <3>8, <3>9, <3>10 DEF SioInv, SioTypes
  <2> QED BY <1>3, <2>5, <2>6 DEF PumpSends
<1>4. CASE PumpSends /\ UNCHANGED sioOutgoing /\ PumpEnds /\ WritesBoth(Disconnect, CloseFrame)
  <2>1. sioServer' \in Servers
    BY <1>1, <1>4, Signs, WritesGenuine
  <2>2. UNCHANGED sioIncoming
    BY <1>4 DEF PumpSends
  <2> QED BY <1>1, <1>2, <1>4, <2>1, <2>2, KeepsOrder DEF SioInv, SioTypes
<1>5. CASE PumpWriteFails
  <2>1. sioOutgoing' = <<>> /\ PumpEnds /\ Passes("failure", 0) /\ UNCHANGED sioServer
    BY <1>5 DEF PumpWriteFails
  <2>2. sioOutgoing' \in Seq(Frames) /\ \A i \in DataAt(sioOutgoing') : FALSE
    BY <2>1, EmptySeq DEF DataAt
  <2>3. DataInOrder' /\ RepliesInOrder' /\ sioIncoming' \in Seq(Frames)
    BY <1>1, <1>2, <2>1, <2>2, PassesOther, PumpKeepsOrder
  <2> QED BY <1>1, <1>2, <2>1, <2>2, <2>3 DEF SioInv, SioTypes
<1>6. CASE PumpStreamEnds
  <2>1. PumpEnds /\ UNCHANGED <<sioIncoming, sioOutgoing, sioServer>>
    BY <1>6 DEF PumpStreamEnds
  <2> QED BY <1>1, <1>2, <2>1, KeepsOrder DEF SioInv, SioTypes
<1>7. CASE PumpPings
  <2>1. Writes(Sign("ping")) /\ UNCHANGED <<sioPump, sioIncoming, sioOutgoing>>
    BY <1>7 DEF PumpPings
  <2>2. sioServer' \in Servers
    BY <1>1, <2>1, Signs, WritesGenuine
  <2> QED BY <1>1, <2>1, <2>2, KeepsOrder DEF SioInv, SioTypes, Counted
<1> QED BY <1>3, <1>4, <1>5, <1>6, <1>7 DEF PumpSends

\* What the pump reads keeps the invariant, whatever the server sent: packets
\* cut off by another one, stray attachments, late and foreign acks.
LEMMA PumpReadsStep ==
  ASSUME SioInv, PumpReads
  PROVE  SioInv'
<1> DEFINE f == sioToClient[1]
<1>1. /\ sioLoop \in Loops /\ sioPump \in Pumps /\ sioServer \in Servers
      /\ sioOutgoing \in Seq(Frames) /\ sioIncoming \in Seq(Frames)
      /\ DataInOrder /\ RepliesInOrder /\ Counted(sioPump)
      /\ UNCHANGED <<sioLoop, sioOutgoing>>
  BY DEF SioInv, SioTypes, PumpReads, PumpUnchanged
<1>2. sioToClient' \in Seq(Genuine) /\ f \in Genuine
  <2>1. sioToClient \in Seq(Genuine) /\ sioToClient # <<>> /\ sioToClient' = Tail(sioToClient)
    BY DEF SioInv, SioTypes, PumpReads
  <2> QED BY <2>1, TailAt
<1>3. /\ f.id \in Nat /\ f.att \in Nat /\ f.ev \in Nat /\ f.own \in BOOLEAN
      /\ f.id # None => f.ev = f.id
  BY <1>2 DEF Genuine, Frames
<1>4. CASE f.t = "ws_ping"
  <2>1. Writes(Sign("ws_pong")) /\ UNCHANGED <<sioPump, sioIncoming>>
    BY <1>4 DEF PumpReads
  <2>2. sioServer' \in Servers
    BY <1>1, <2>1, Signs, WritesGenuine
  <2> QED BY <1>1, <1>2, <2>1, <2>2, KeepsOrder DEF SioInv, SioTypes, Counted
<1> DEFINE q == sioPump
<1>5. /\ q = [at |-> q.at, next_id |-> q.next_id, awaited |-> q.awaited, pending |-> q.pending,
              unsolicited |-> q.unsolicited, replies |-> q.replies, packets |-> q.packets]
      /\ q.at \in {"new", "run", "over"} /\ q.next_id \in Nat /\ q.awaited \in Nat
      /\ q.pending \in Partials /\ q.unsolicited \in Nat /\ q.replies \in Nat /\ q.packets \in Nat
      /\ q.pending = NoPending => q.replies + q.unsolicited = q.packets
      /\ q.pending # NoPending => q.replies + q.unsolicited + 1 = q.packets
  BY <1>1 DEF Pumps, Counted
<1>6. NoPending \in Partials
  BY DEF NoPending, Partials, None
\* A step of the pump that takes nothing for the reply.
<1>7. ASSUME sioPump' \in Pumps, sioPump'.next_id = q.next_id, sioPump'.awaited = q.awaited,
             Counted(sioPump)', sioServer' \in Servers, sioIncoming' \in Seq(Frames),
             \A i \in RepliesAt(sioIncoming') :
               i \in RepliesAt(sioIncoming) /\ sioIncoming'[i] = sioIncoming[i]
      PROVE  SioInv'
  <2>1. DataInOrder' /\ RepliesInOrder'
    BY <1>1, <1>7, PumpKeepsOrder
  <2> QED BY <1>1, <1>2, <1>7, <2>1 DEF SioInv, SioTypes
<1>8. UNCHANGED sioIncoming => /\ sioIncoming' \in Seq(Frames)
                               /\ \A i \in RepliesAt(sioIncoming') :
                                    i \in RepliesAt(sioIncoming) /\ sioIncoming'[i] = sioIncoming[i]
  BY <1>1
<1>9. CASE f.t \in {"close", "failure"}
  <2>1. PICK t \in {"close", "failure"} : Passes(t, 0) /\ PumpEnds /\ UNCHANGED sioServer
    BY <1>9 DEF PumpReads
  <2>2. sioPump' = [at |-> "over", next_id |-> q.next_id, awaited |-> q.awaited,
                    pending |-> q.pending, unsolicited |-> q.unsolicited, replies |-> q.replies,
                    packets |-> q.packets]
    BY <1>5, <2>1 DEF PumpEnds
  <2>3. /\ sioIncoming' \in Seq(Frames)
        /\ \A i \in RepliesAt(sioIncoming') :
             i \in RepliesAt(sioIncoming) /\ sioIncoming'[i] = sioIncoming[i]
    BY <2>1, PassesOther
  <2>4. sioPump' \in Pumps /\ sioPump'.next_id = q.next_id /\ sioPump'.awaited = q.awaited
    BY <1>5, <2>2 DEF Pumps
  <2>5. Counted(sioPump)'
    BY <1>1, <2>2 DEF Counted
  <2> QED BY <1>1, <1>7, <2>1, <2>3, <2>4, <2>5
<1>10. CASE f.t = "binary"
  <2> DEFINE p == sioPump.pending
             left == [sioPump EXCEPT !.pending = NoPending]
  <2>1. PumpBinary(f)
    BY <1>10 DEF PumpReads
  <2>2. sioServer' \in Servers
    BY <1>1, <2>1 DEF PumpBinary
  <2>3. left = [at |-> q.at, next_id |-> q.next_id, awaited |-> q.awaited, pending |-> NoPending,
                unsolicited |-> q.unsolicited, replies |-> q.replies, packets |-> q.packets]
    BY <1>5
  <2> HIDE DEF left
  <2>4. CASE p = NoPending
    <3>1. /\ sioPump' = [left EXCEPT !.unsolicited = @ + 1, !.packets = @ + 1]
          /\ UNCHANGED sioIncoming
      BY <2>1, <2>4 DEF PumpBinary, left
    <3>2. sioPump' = [at |-> q.at, next_id |-> q.next_id, awaited |-> q.awaited,
                      pending |-> NoPending, unsolicited |-> q.unsolicited + 1,
                      replies |-> q.replies, packets |-> q.packets + 1]
      BY <2>3, <3>1
    <3>3. /\ q.unsolicited + 1 \in Nat /\ q.packets + 1 \in Nat
          /\ q.replies + (q.unsolicited + 1) = q.packets + 1
      BY <1>5, <2>4
    <3>4. sioPump' \in Pumps /\ sioPump'.next_id = q.next_id /\ sioPump'.awaited = q.awaited
      BY <1>5, <1>6, <3>2, <3>3 DEF Pumps
    <3>5. Counted(sioPump)'
      BY <1>5, <3>2, <3>3 DEF Counted
    <3> QED BY <1>7, <1>8, <2>2, <3>1, <3>4, <3>5
  <2>5. CASE p # NoPending /\ ~f.own
    <3>1. sioPump' = [left EXCEPT !.unsolicited = @ + 1] /\ UNCHANGED sioIncoming
      BY <2>1, <2>5 DEF PumpBinary, left
    <3>2. sioPump' = [at |-> q.at, next_id |-> q.next_id, awaited |-> q.awaited,
                      pending |-> NoPending, unsolicited |-> q.unsolicited + 1,
                      replies |-> q.replies, packets |-> q.packets]
      BY <2>3, <3>1
    <3>3. /\ q.unsolicited + 1 \in Nat
          /\ q.replies + (q.unsolicited + 1) = q.packets
      BY <1>5, <2>5
    <3>4. sioPump' \in Pumps /\ sioPump'.next_id = q.next_id /\ sioPump'.awaited = q.awaited
      BY <1>5, <1>6, <3>2, <3>3 DEF Pumps
    <3>5. Counted(sioPump)'
      BY <1>5, <3>2, <3>3 DEF Counted
    <3> QED BY <1>7, <1>8, <2>2, <3>1, <3>4, <3>5
  <2>6. CASE p # NoPending /\ f.own /\ p.needed > 1
    <3> DEFINE less == [p EXCEPT !.needed = @ - 1]
    <3>1. sioPump' = [sioPump EXCEPT !.pending.needed = @ - 1] /\ UNCHANGED sioIncoming
      BY <2>1, <2>6 DEF PumpBinary
    <3>2. /\ p = [needed |-> p.needed, ack |-> p.ack, id |-> p.id, ev |-> p.ev]
          /\ p.needed \in Nat /\ p.ack \in BOOLEAN /\ p.id \in Nat /\ p.ev \in Nat
          /\ p.id # None => p.ev = p.id
      BY <1>5 DEF Partials
    <3>3. less = [needed |-> p.needed - 1, ack |-> p.ack, id |-> p.id, ev |-> p.ev]
      BY <3>2
    <3>4. p.needed - 1 \in Nat /\ p.needed - 1 # 0
      BY <2>6, <3>2
    <3>5. less \in Partials /\ less # NoPending
      BY <3>2, <3>3, <3>4 DEF Partials, NoPending
    <3>6. sioPump' = [at |-> q.at, next_id |-> q.next_id, awaited |-> q.awaited,
                      pending |-> less, unsolicited |-> q.unsolicited,
                      replies |-> q.replies, packets |-> q.packets]
      BY <1>5, <3>1
    <3> HIDE DEF less
    <3>7. sioPump' \in Pumps /\ sioPump'.next_id = q.next_id /\ sioPump'.awaited = q.awaited
      BY <1>5, <1>6, <3>5, <3>6 DEF Pumps
    <3>8. Counted(sioPump)'
      BY <1>5, <2>6, <3>5, <3>6 DEF Counted
    <3> QED BY <1>7, <1>8, <2>2, <3>1, <3>7, <3>8
  <2>7. CASE p # NoPending /\ f.own /\ ~(p.needed > 1)
    <3>1. PumpReplies(left, p.ack, p.id, p.ev)
      BY <2>1, <2>7 DEF PumpBinary, left
    <3>2. /\ p.ack \in BOOLEAN /\ p.id \in Nat /\ p.ev \in Nat /\ (p.id # None => p.ev = p.id)
      BY <1>5 DEF Partials
    <3>3. /\ left \in Pumps /\ left.awaited = q.awaited /\ left.next_id = q.next_id
          /\ left.pending = NoPending /\ left.replies + left.unsolicited + 1 = left.packets
      BY <1>5, <1>6, <2>3, <2>7 DEF Pumps
    <3> HIDE DEF p
    <3>4. /\ sioPump' \in Pumps /\ sioIncoming' \in Seq(Frames)
          /\ DataInOrder' /\ RepliesInOrder' /\ Counted(sioPump)'
      BY <1>1, <3>1, <3>2, <3>3, RepliesKeep
    <3> QED BY <1>1, <1>2, <2>2, <3>4 DEF SioInv, SioTypes
  <2> QED BY <2>4, <2>5, <2>6, <2>7
<1>11. CASE f.t \notin {"ws_ping", "close", "failure", "binary"}
  <2> DEFINE cut == sioPump.pending # NoPending
             extra == IF cut THEN 1 ELSE 0
             p == [sioPump EXCEPT !.pending = NoPending, !.unsolicited = IF cut THEN @ + 1 ELSE @]
             counted == [p EXCEPT !.packets = @ + 1]
  <2>1. PumpText(f)
    BY <1>11 DEF PumpReads
  <2>2. p = [at |-> q.at, next_id |-> q.next_id, awaited |-> q.awaited, pending |-> NoPending,
             unsolicited |-> q.unsolicited + extra, replies |-> q.replies, packets |-> q.packets]
    <3>1. (IF cut THEN q.unsolicited + 1 ELSE q.unsolicited) = q.unsolicited + extra
      BY <1>5
    <3>2. ASSUME NEW x \in Nat
          PROVE  [q EXCEPT !.pending = NoPending, !.unsolicited = x]
                   = [at |-> q.at, next_id |-> q.next_id, awaited |-> q.awaited, pending |-> NoPending,
                      unsolicited |-> x, replies |-> q.replies, packets |-> q.packets]
      <4> DEFINE left == [q EXCEPT !.pending = NoPending]
      <4>1. left = [at |-> q.at, next_id |-> q.next_id, awaited |-> q.awaited, pending |-> NoPending,
                    unsolicited |-> q.unsolicited, replies |-> q.replies, packets |-> q.packets]
        BY <1>5
      <4> HIDE DEF left
      <4>2. [left EXCEPT !.unsolicited = x]
              = [at |-> q.at, next_id |-> q.next_id, awaited |-> q.awaited, pending |-> NoPending,
                 unsolicited |-> x, replies |-> q.replies, packets |-> q.packets]
        BY <4>1
      <4> QED BY <4>2, Zenon DEF left
    <3>3. p = [q EXCEPT !.pending = NoPending,
                        !.unsolicited = IF cut THEN q.unsolicited + 1 ELSE q.unsolicited]
      BY <1>5
    <3>4. q.unsolicited + extra \in Nat
      BY <1>5
    <3> HIDE DEF p, cut, extra
    <3> QED BY <3>1, <3>2, <3>3, <3>4
  <2>3. /\ q.unsolicited + extra \in Nat /\ q.packets + 1 \in Nat
        /\ q.replies + (q.unsolicited + extra) = q.packets
    <3>1. CASE cut
      BY <1>5, <3>1
    <3>2. CASE ~cut
      BY <1>5, <3>2
    <3> QED BY <3>1, <3>2
  <2> HIDE DEF cut, extra, p
  <2>4. counted = [at |-> q.at, next_id |-> q.next_id, awaited |-> q.awaited, pending |-> NoPending,
                   unsolicited |-> q.unsolicited + extra, replies |-> q.replies,
                   packets |-> q.packets + 1]
    BY <2>2
  <2> HIDE DEF counted
  <2>5. CASE sioPump' = p /\ (UNCHANGED sioServer \/ Writes(Sign("pong"))) /\ UNCHANGED sioIncoming
    <3>1. sioServer' \in Servers
      BY <1>1, <2>5, Signs, WritesGenuine
    <3>2. sioPump' \in Pumps /\ sioPump'.next_id = q.next_id /\ sioPump'.awaited = q.awaited
      BY <1>5, <1>6, <2>2, <2>3, <2>5 DEF Pumps
    <3>3. Counted(sioPump)'
      BY <1>5, <2>2, <2>3, <2>5 DEF Counted
    <3> QED BY <1>7, <1>8, <2>5, <3>1, <3>2, <3>3
  <2>6. CASE Passes("close", 0) /\ sioPump' = [p EXCEPT !.at = "over"] /\ UNCHANGED sioServer
    <3>1. sioPump' = [at |-> "over", next_id |-> q.next_id, awaited |-> q.awaited,
                      pending |-> NoPending, unsolicited |-> q.unsolicited + extra,
                      replies |-> q.replies, packets |-> q.packets]
      BY <2>2, <2>6
    <3>2. /\ sioIncoming' \in Seq(Frames)
          /\ \A i \in RepliesAt(sioIncoming') :
               i \in RepliesAt(sioIncoming) /\ sioIncoming'[i] = sioIncoming[i]
      BY <2>6, PassesOther
    <3>3. sioPump' \in Pumps /\ sioPump'.next_id = q.next_id /\ sioPump'.awaited = q.awaited
      BY <1>5, <1>6, <2>3, <3>1 DEF Pumps
    <3>4. Counted(sioPump)'
      BY <1>5, <2>3, <3>1 DEF Counted
    <3> QED BY <1>1, <1>7, <2>6, <3>2, <3>3, <3>4
  <2>7. CASE /\ f.att > 0 /\ UNCHANGED <<sioServer, sioIncoming>>
             /\ sioPump' = [counted EXCEPT !.pending =
                  [needed |-> f.att, ack |-> f.t = "ack" /\ f.own, id |-> f.id, ev |-> f.ev]]
    <3> DEFINE ack == f.t = "ack" /\ f.own
               new == [needed |-> f.att, ack |-> ack, id |-> f.id, ev |-> f.ev]
    <3>0. ack \in BOOLEAN
      OBVIOUS
    <3> HIDE DEF ack
    <3>1. new \in Partials /\ new # NoPending
      BY <1>3, <2>7, <3>0 DEF Partials, NoPending
    <3>2. sioPump' = [at |-> q.at, next_id |-> q.next_id, awaited |-> q.awaited,
                      pending |-> new, unsolicited |-> q.unsolicited + extra,
                      replies |-> q.replies, packets |-> q.packets + 1]
      BY <2>4, <2>7 DEF ack
    <3> HIDE DEF new
    <3>3. q.replies + (q.unsolicited + extra) + 1 = q.packets + 1
      BY <1>5, <2>3
    <3>4. sioPump' \in Pumps /\ sioPump'.next_id = q.next_id /\ sioPump'.awaited = q.awaited
      BY <1>5, <1>6, <2>3, <3>1, <3>2 DEF Pumps
    <3>5. Counted(sioPump)'
      BY <1>5, <3>1, <3>2, <3>3 DEF Counted
    <3> QED BY <1>1, <1>7, <1>8, <2>7, <3>4, <3>5
  <2>8. CASE PumpReplies(counted, f.t = "ack" /\ f.own, f.id, f.ev) /\ UNCHANGED sioServer
    <3>1. /\ counted \in Pumps /\ counted.awaited = q.awaited /\ counted.next_id = q.next_id
          /\ counted.pending = NoPending
          /\ counted.replies + counted.unsolicited + 1 = counted.packets
      BY <1>5, <1>6, <2>3, <2>4 DEF Pumps
    <3> DEFINE ack == f.t = "ack" /\ f.own
    <3>2. ack \in BOOLEAN /\ PumpReplies(counted, ack, f.id, f.ev)
      BY <2>8
    <3> HIDE DEF ack
    <3>3. /\ sioPump' \in Pumps /\ sioIncoming' \in Seq(Frames)
          /\ DataInOrder' /\ RepliesInOrder' /\ Counted(sioPump)'
      BY <1>1, <1>3, <3>1, <3>2, RepliesKeep
    <3> QED BY <1>1, <1>2, <2>8, <3>3 DEF SioInv, SioTypes
  <2> QED BY <2>1, <2>5, <2>6, <2>7, <2>8 DEF PumpText, counted, p, cut
<1> QED BY <1>4, <1>9, <1>10, <1>11

\* What the server sends is genuine: its answers, and what it pushes.
LEMMA SioServerStep ==
  ASSUME SioInv, sioRoot \in BOOLEAN, ServerOpens \/ SioAnswers \/ ServerPushes \/ ServerEnds
  PROVE  SioInv'
<1>1. /\ sioServer \in Servers /\ sioToClient \in Seq(Genuine)
      /\ UNCHANGED <<sioLoop, sioPump, sioOutgoing, sioIncoming>>
  BY DEF SioInv, SioTypes, ServerOpens, SioAnswers, ServerPushes, ServerEnds, ServerUnchanged
<1>2. ASSUME sioServer' \in Servers, sioToClient' \in Seq(Genuine) PROVE SioInv'
  BY <1>1, <1>2, KeepsOrder DEF SioInv, SioTypes, Counted
<1>3. ASSUME NEW x \in Genuine, NEW y \in Genuine
      PROVE  /\ Append(sioToClient, x) \in Seq(Genuine)
             /\ Append(sioToClient, x) \o <<y>> \in Seq(Genuine)
             /\ Append(sioToClient, x) \o <<>> \in Seq(Genuine)
             /\ sioToClient \o <<y>> \in Seq(Genuine) /\ sioToClient \o <<>> \in Seq(Genuine)
  BY <1>1, <1>3
<1>4. CASE ServerOpens
  <2>1. sioServer' \in Servers
    BY <1>1, <1>4 DEF ServerOpens, Servers
  <2>2. Msg("connect", sioRoot, None, 0, 0) \in Genuine /\ Sign("open") \in Genuine
    BY MsgTypes DEF Kinds, None
  <2>3. CASE sioEngine = "V3"
    <3>1. sioToClient' = Append(sioToClient, Sign("open")) \o <<Msg("connect", sioRoot, None, 0, 0)>>
      BY <1>4, <2>3 DEF ServerOpens
    <3> QED BY <1>2, <1>3, <2>1, <2>2, <3>1
  <2>4. CASE sioEngine # "V3"
    <3>1. sioToClient' = Append(sioToClient, Sign("open")) \o <<>>
      BY <1>4, <2>4 DEF ServerOpens
    <3> QED BY <1>2, <1>3, <2>1, <2>2, <3>1
  <2> QED BY <2>3, <2>4
<1>5. CASE SioAnswers
  <2>1. PICK ack \in sioServer.owed :
          /\ sioServer' = [sioServer EXCEPT !.owed = @ \ {ack}]
          /\ sioToClient' = Append(sioToClient, ack)
               \o (IF ack.att > 0 THEN <<Sign("binary")>> ELSE <<>>)
    BY <1>5 DEF SioAnswers
  <2>2. ack \in Genuine /\ sioServer' \in Servers
    BY <1>1, <2>1 DEF Servers
  <2> QED BY <1>2, <1>3, <2>1, <2>2, Signs
<1>6. CASE ServerPushes
  <2>1. sioServer' \in Servers
    <3>1. sioServer' = [opened |-> sioServer.opened, pending |-> sioServer.pending,
                        owed |-> sioServer.owed, pushed |-> sioServer.pushed + 1,
                        closed |-> sioServer.closed]
      BY <1>1, <1>6 DEF ServerPushes, Servers
    <3>2. sioServer.pushed + 1 \in Nat
      BY <1>1 DEF Servers
    <3> QED BY <1>1, <3>1, <3>2 DEF Servers
  <2>2. \A f \in Pushes : f \in Genuine
    <3>1. Msg("binary", FALSE, None, 0, 0) \in Genuine
      BY MsgTypes, ZenonT(60) DEF Kinds, None
    <3>2. \A own \in BOOLEAN : Msg("ack", own, 1, 0, 1) \in Genuine
      BY MsgTypes DEF Kinds
    <3>3. [t : {"event"}, own : BOOLEAN, id : {None}, att : 0..2, ev : {0}] \subseteq Genuine
      BY DEF Genuine, Frames, Kinds, None
    <3>4. \A t \in {"ping", "bye", "ws_ping", "binary", "disconnect"} : Sign(t) \in Genuine
      BY MsgTypes, SMTT(30) DEF Kinds
    <3> QED BY <3>1, <3>2, <3>3, <3>4 DEF Pushes
  <2> QED BY <1>2, <1>3, <1>6, <2>1, <2>2 DEF ServerPushes
<1>7. CASE ServerEnds
  <2>1. sioServer' \in Servers
    BY <1>1, <1>7 DEF ServerEnds, Servers
  <2> QED BY <1>2, <1>3, <1>7, <2>1, Signs DEF ServerEnds
<1> QED BY <1>4, <1>5, <1>6, <1>7

\* Whatever the server pushes, repeats or answers out of order: the reply a
\* Socket.IO session reads belongs to the event it waits for, and every packet
\* is counted once.
THEOREM ReplyBelongsToEvent == SocketIoSpec => []RepliesAnswerEvents
<1>1. SocketIoInit => SioInv
  <2> SUFFICES ASSUME SocketIoInit PROVE SioInv
    OBVIOUS
  <2>1. <<>> \in Seq(Frames) /\ <<>> \in Seq(Genuine) /\ Len(<<>>) = 0
    BY EmptySeq
  <2>2. NoPending \in Partials
    BY DEF NoPending, Partials, None
  <2>3. SioTypes
    BY <2>1, <2>2 DEF SocketIoInit, SioTypes, Loops, Pumps, Servers, None
  <2>4. DataAt(sioOutgoing) = {} /\ RepliesAt(sioIncoming) = {}
    BY <2>1 DEF SocketIoInit, DataAt, RepliesAt
  <2>5. DataInOrder /\ RepliesInOrder
    BY <2>4 DEF SocketIoInit, DataInOrder, RepliesInOrder, None
  <2>6. Counted(sioPump)
    BY DEF SocketIoInit, Counted
  <2> QED BY <2>3, <2>5, <2>6 DEF SioInv
<1>2. SioInv /\ sioRoot \in BOOLEAN /\ [SocketIoNext]_socketIoVars => (SioInv /\ sioRoot \in BOOLEAN)'
  <2> SUFFICES ASSUME SioInv, sioRoot \in BOOLEAN, [SocketIoNext]_socketIoVars
               PROVE  SioInv' /\ UNCHANGED sioRoot
    OBVIOUS
  <2>1. CASE UNCHANGED socketIoVars
    BY <2>1 DEF socketIoVars, SioInv, SioTypes, DataInOrder, RepliesInOrder, Counted
  <2>2. CASE SocketIoNext
    <3>1. CASE SocketIoTerminated
      BY <2>1, <3>1 DEF SocketIoTerminated
    <3>2. CASE ~SocketIoTerminated
      <4>1. UNCHANGED sioRoot
        BY <2>2, <3>2
           DEF SocketIoNext, SocketIoLoop, SocketIoPump, OpenReads, OpenTimesOut, OpenCancelled,
               LoopSends, LoopReads, LoopTimesOut, LoopCloses, Cancel, LoopOnly, PumpSends,
               PumpWriteFails, PumpReads, PumpStreamEnds, PumpPings, PumpUnchanged, ServerOpens,
               SioAnswers, ServerPushes, ServerEnds, ServerUnchanged
      <4> QED BY <2>2, <3>2, <4>1, SioLoopStep, PumpSendsStep, PumpReadsStep, SioServerStep
              DEF SocketIoNext, SocketIoPump
    <3> QED BY <3>1, <3>2
  <2> QED BY <2>1, <2>2
<1>3. SioInv => RepliesAnswerEvents
  <2> SUFFICES ASSUME SioInv PROVE RepliesAnswerEvents
    OBVIOUS
  <2>1. \A i \in DOMAIN sioIncoming : sioIncoming[i].t = "reply" => i \in RepliesAt(sioIncoming)
    BY LenProperties DEF SioInv, SioTypes, RepliesAt
  <2> QED BY <2>1 DEF SioInv, RepliesInOrder, Counted, RepliesAnswerEvents, Free
<1>4. SocketIoInit => sioRoot \in BOOLEAN
  BY DEF SocketIoInit
<1> QED BY <1>1, <1>2, <1>3, <1>4, PTL DEF SocketIoSpec

----------------------------------------------------------------------------
(* Capture: sums over sequences.                                           *)

\* The sum of a sequence of numbers.
SeqSum(q) == SumFunctionOnSet(q, 1 .. Len(q))

\* Whatever function follows the recursion of a sum is the sum.
LEMMA SumUnique ==
  ASSUME NEW S, IsFiniteSet(S), NEW f \in [S -> Int], NEW c,
         \A s \in SUBSET S : Adds(c, f, s)
  PROVE  c[S] = SumFunctionOnSet(f, S)
<1>1. PICK g \in [SUBSET S -> Int] :
        (\A s \in SUBSET S : Adds(g, f, s)) /\ SumFunctionOnSet(f, S) = g[S]
  BY SumDef
<1> DEFINE T == {s \in SUBSET S : c[s] = g[s]}
<1>2. {} \in T
  BY <1>1 DEF Adds
<1>3. ASSUME NEW s \in SUBSET S, s # {}, s \ {Pick(s)} \in T PROVE s \in T
  BY <1>1, <1>3 DEF Adds
<1>4. \A s \in SUBSET S : s \in T
  <2> HIDE DEF T
  <2> QED BY <1>2, <1>3, AllSubsets
<1> QED BY <1>1, <1>4

\* The sum over no elements is zero.
LEMMA SumNothing ==
  ASSUME NEW f \in [{} -> Int]
  PROVE  SumFunctionOnSet(f, {}) = 0
<1>1. IsFiniteSet({}) /\ Cardinality({}) = 0
  BY FS_EmptySet
<1> QED BY <1>1, SumCounts

\* A sum of zeros is zero.
LEMMA SumZero ==
  ASSUME NEW S, IsFiniteSet(S), NEW f \in [S -> Int], \A v \in S : f[v] = 0
  PROVE  SumFunctionOnSet(f, S) = 0
<1>1. {} \in SUBSET S /\ \A v \in S : f[v] = Weight(v, {})
  BY DEF Weight
<1>2. SumFunctionOnSet(f, S) = Cardinality({})
  BY <1>1, SumCounts
<1> QED BY <1>2, FS_EmptySet

\* The values of a sequence up to n.
Firsts(q, n) == [i \in 1 .. n |-> q[i]]

\* Each value of a sequence adds itself to the sum of the values before it.
LEMMA FirstsOneMore ==
  ASSUME NEW q \in Seq(Nat), NEW n \in Nat, n < Len(q)
  PROVE  /\ SumFunctionOnSet(Firsts(q, n), 1 .. n) \in Int
         /\ SumFunctionOnSet(Firsts(q, n + 1), 1 .. (n + 1))
              = SumFunctionOnSet(Firsts(q, n), 1 .. n) + q[n + 1]
<1> DEFINE S == 1 .. (n + 1)
           x == n + 1
           f == Firsts(q, n + 1)
           g == Firsts(q, n)
<1>1. S \ {x} = 1 .. n /\ x \in S
  OBVIOUS
<1>2. IsFiniteSet(S)
  BY FS_Interval
<1>3. /\ f \in [S -> Int] /\ g \in [S \ {x} -> Int]
      /\ (\A i \in S \ {x} : g[i] = f[i]) /\ f[x] = q[n + 1]
  BY <1>1, LenProperties DEF Firsts
<1> HIDE DEF S, x, f, g
<1>4. /\ SumFunctionOnSet(g, S \ {x}) \in Int
      /\ SumFunctionOnSet(f, S) = SumFunctionOnSet(g, S \ {x}) + f[x]
  <2>1. x \in S
    BY <1>1
  <2>2. f \in [S -> Int] /\ g \in [S \ {x} -> Int]
    BY <1>3
  <2>3. \A i \in S \ {x} : g[i] = f[i]
    BY <1>3
  <2> QED BY <1>2, <2>1, <2>2, <2>3, SumOneMore
<1> QED BY <1>1, <1>3, <1>4 DEF S, x, f, g

\* The sums of no values and of all values of a sequence.
LEMMA FirstsAll ==
  ASSUME NEW q \in Seq(Nat)
  PROVE  Firsts(q, Len(q)) = q /\ SumFunctionOnSet(Firsts(q, 0), 1 .. 0) = 0
<1>1. Firsts(q, Len(q)) = q
  BY LenProperties DEF Firsts
<1>2. Firsts(q, 0) \in [{} -> Int] /\ 1 .. 0 = {}
  BY DEF Firsts
<1> QED BY <1>1, <1>2, SumNothing

\* A sequence's sum is a number, zero when the sequence is empty.
LEMMA SeqSumFacts ==
  ASSUME NEW q \in Seq(Nat)
  PROVE  SeqSum(q) \in Nat /\ (q = <<>> => SeqSum(q) = 0)
<1>0. Len(q) \in Nat /\ q \in [1 .. Len(q) -> Nat]
  BY LenProperties
<1>1. /\ q \in [1 .. Len(q) -> Int]
      /\ \A i \in 1 .. Len(q) : q[i] \in Nat
  BY <1>0
<1>2. SumFunctionOnSet(q, 1 .. Len(q)) \in Nat
  <2>1. IsFiniteSet(1 .. Len(q))
    BY <1>0, FS_Interval
  <2> QED BY <1>1, <2>1, SumNatural
<1>3. ASSUME q = <<>> PROVE SeqSum(q) = 0
  <2>1. Len(q) = 0
    BY <1>3, EmptySeq
  <2> QED BY <2>1, FirstsAll DEF SeqSum
<1> QED BY <1>2, <1>3 DEF SeqSum

\* What is appended adds to the sum.
LEMMA SeqSumAppend ==
  ASSUME NEW q \in Seq(Nat), NEW n \in Nat
  PROVE  SeqSum(Append(q, n)) = SeqSum(q) + n
<1> DEFINE r == Append(q, n)
<1>1. /\ r \in Seq(Nat) /\ Len(r) = Len(q) + 1 /\ Len(q) \in Nat
      /\ (\A i \in 1 .. Len(q) : r[i] = q[i]) /\ r[Len(q) + 1] = n
  BY AppendProperties, LenProperties
<1> HIDE DEF r
<1>2. Firsts(r, Len(q)) = Firsts(q, Len(q))
  BY <1>1 DEF Firsts
<1>3. Len(q) < Len(r)
  BY <1>1
<1>4. SumFunctionOnSet(Firsts(r, Len(q) + 1), 1 .. (Len(q) + 1))
        = SumFunctionOnSet(Firsts(r, Len(q)), 1 .. Len(q)) + r[Len(q) + 1]
  BY <1>1, <1>3, FirstsOneMore
<1>5. Firsts(r, Len(r)) = r /\ Firsts(q, Len(q)) = q
  BY <1>1, FirstsAll
<1> QED BY <1>1, <1>2, <1>4, <1>5 DEF SeqSum, r

\* What is taken from the front leaves the sum.
LEMMA SeqSumTail ==
  ASSUME NEW q \in Seq(Nat), q # <<>>
  PROVE  SeqSum(q) = Head(q) + SeqSum(Tail(q))
<1> DEFINE t == Tail(q)
           Part(s, n) == SumFunctionOnSet(Firsts(s, n), 1 .. n)
           T == {n \in Nat : n <= Len(t) => Part(q, n + 1) = q[1] + Part(t, n)}
<1>1. /\ t \in Seq(Nat) /\ Len(t) = Len(q) - 1 /\ Len(q) \in Nat /\ Len(t) \in Nat
      /\ (\A i \in 1 .. Len(t) : t[i] = q[i + 1]) /\ Head(q) = q[1] /\ q[1] \in Nat
  BY HeadTailProperties, LenProperties, EmptySeq
<1> HIDE DEF t
<1>2. \A n \in Nat : n < Len(q) => Part(q, n) \in Int /\ Part(q, n + 1) = Part(q, n) + q[n + 1]
  BY FirstsOneMore
<1>3. \A n \in Nat : n < Len(t) => Part(t, n) \in Int /\ Part(t, n + 1) = Part(t, n) + t[n + 1]
  BY <1>1, FirstsOneMore
<1>4. Part(q, 0) = 0 /\ Part(t, 0) = 0
  BY <1>1, FirstsAll
<1>5. /\ Part(q, Len(q)) = SeqSum(q) /\ Part(t, Len(t)) = SeqSum(t)
  BY <1>1, FirstsAll DEF SeqSum
<1> HIDE DEF Part
<1>6. 0 \in T
  <2>1. Part(q, 1) = Part(q, 0) + q[1]
    <3>1. 0 \in Nat /\ 0 < Len(q) /\ 0 + 1 = 1
      BY <1>1
    <3>2. Part(q, 0 + 1) = Part(q, 0) + q[0 + 1]
      BY <1>2, <3>1
    <3> QED BY <3>1, <3>2
  <2> QED BY <1>1, <1>4, <2>1
<1>7. ASSUME NEW n \in T PROVE n + 1 \in T
  <2>1. SUFFICES ASSUME n + 1 <= Len(t) PROVE Part(q, n + 2) = q[1] + Part(t, n + 1)
    OBVIOUS
  <2>2. Part(q, n + 1) = q[1] + Part(t, n)
    BY <1>1, <2>1
  <2>3. Part(q, n + 2) = Part(q, n + 1) + q[n + 2] /\ Part(t, n + 1) = Part(t, n) + t[n + 1]
    <3>1. n \in Nat /\ Len(t) \in Nat /\ Len(q) = Len(t) + 1
      BY <1>1
    <3>2. n + 1 \in Nat /\ n < Len(t) /\ n + 1 < Len(q) /\ (n + 1) + 1 = n + 2
      BY <2>1, <3>1
    <3>3. Part(t, n + 1) = Part(t, n) + t[n + 1]
      BY <1>3, <3>1, <3>2
    <3>4. Part(q, (n + 1) + 1) = Part(q, n + 1) + q[(n + 1) + 1]
      BY <1>2, <3>2
    <3> QED BY <3>2, <3>3, <3>4
  <2>4. t[n + 1] = q[n + 2] /\ t[n + 1] \in Nat
    <3>1. n \in Nat /\ Len(t) \in Nat
      BY <1>1
    <3>2. n + 1 \in 1 .. Len(t) /\ (n + 1) + 1 = n + 2
      BY <2>1, <3>1
    <3>3. t[n + 1] = q[(n + 1) + 1] /\ t[n + 1] \in Nat
      BY <1>1, <3>2, LenProperties
    <3> QED BY <3>2, <3>3
  <2>5. Part(t, n) \in Int
    BY <1>1, <1>3, <2>1
  <2> QED BY <1>1, <2>2, <2>3, <2>4, <2>5
<1>8. T = Nat
  <2> HIDE DEF T
  <2>1. T \in SUBSET Nat
    BY DEF T
  <2>2. \A n \in T : n + 1 \in T
    BY <1>7
  <2> QED BY <1>6, <2>1, <2>2, AllNumbers
<1>9. Part(q, Len(t) + 1) = q[1] + Part(t, Len(t))
  <2>1. Len(t) \in T /\ Len(t) <= Len(t)
    <3> HIDE DEF T
    <3>1. Len(t) \in Nat
      BY <1>1
    <3> QED BY <1>8, <3>1
  <2> QED BY <2>1
<1> QED BY <1>1, <1>5, <1>9 DEF t

\* A first value lowered by one lowers the sum by one.
LEMMA SeqSumLess ==
  ASSUME NEW q \in Seq(Nat), q # <<>>, q[1] > 0
  PROVE  /\ [q EXCEPT ![1] = @ - 1] \in Seq(Nat)
         /\ SeqSum([q EXCEPT ![1] = @ - 1]) = SeqSum(q) - 1
<1> DEFINE r == [q EXCEPT ![1] = q[1] - 1]
           S == 1 .. Len(q)
           x == 1
<1>1. /\ Len(q) \in Nat \ {0} /\ q \in [1 .. Len(q) -> Nat] /\ 1 \in 1 .. Len(q)
      /\ q[1] \in Nat /\ q[1] - 1 \in Nat
  BY EmptySeq, LenProperties
<1>2. /\ r \in Seq(Nat) /\ Len(r) = Len(q)
      /\ \A j \in 1 .. Len(q) : r[j] = IF j = 1 THEN q[1] - 1 ELSE q[j]
  BY <1>1, ExceptSeq
<1>3. IsFiniteSet(S)
  BY <1>1, FS_Interval
<1>6. \A v \in S \ {x} : r[v] = q[v]
  BY <1>2
<1>7. x \in S /\ q \in [S -> Int] /\ r[x] = q[x] - 1 /\ q[x] \in Int
  BY <1>1, <1>2
<1>8. r \in [S -> Int]
  BY <1>1, <1>2
<1> HIDE DEF r, S, x
<1>4. /\ SumFunctionOnSet(q, S) \in Int
      /\ SumFunctionOnSet(r, S) = SumFunctionOnSet(q, S) + (r[x] - q[x])
  <2>1. x \in S
    BY <1>7
  <2>2. q \in [S -> Int]
    BY <1>7
  <2> QED BY <1>3, <1>6, <1>8, <2>1, <2>2, SumMove
<1>5. SumFunctionOnSet(r, S) = SumFunctionOnSet(q, S) - 1
  BY <1>4, <1>7
<1> QED BY <1>2, <1>5 DEF r, S, SeqSum

----------------------------------------------------------------------------
(* Capture (src/capture.rs).  The inductive invariant says where every     *)
(* record the sessions made is: claimed, queued, in the thread's batch, on *)
(* its way to the coordinator, or counted as written, lost or dropped.     *)

CaptureSpec == CaptureInit /\ [][CaptureNext]_captureVars

CapSessionRecords == [at : {"new", "idle", "claim", "offer", "closed"}, made : Nat, dropped : Nat]
ThreadRecords == [at : {"start", "run", "flush", "done"}, batch : Nat,
                  written : Nat, lost : Nat, failed : BOOLEAN]

\* Types; a queue holds no empty batch.
CaptureTypes ==
  /\ capMerged \in BOOLEAN
  /\ capHome \in [CapSessions -> CapHosts]
  /\ capSession \in [CapSessions -> CapSessionRecords]
  /\ capShared \in [CapHosts -> [claimed : Int, dropped : Nat]]
  /\ capQueue \in [CapHosts -> Seq({"record", "finish"})]
  /\ capThread \in [CapHosts -> ThreadRecords]
  /\ capTask \in [CapHosts -> {"run", "finish", "rest", "over"}]
  /\ capBatches \in [CapHosts -> Seq(Nat \ {0})]
  /\ capLink \in [CapHosts -> Seq(Nat)]
  /\ capWriter \in [queue : Seq(Nat \ {0}), ended : SUBSET CapHosts, cut : SUBSET CapHosts,
                    written : Nat, lost : Nat, over : Nat, failed : BOOLEAN, dropped : Nat]

\* Where one process is on its way to the end: its control task leaves the
\* sessions behind, then its thread; "finish" and the result come last in
\* their queues; a task that was not cut off ended after its thread.
HostOrder(h) ==
  LET thread == capThread[h]
      queue == capQueue[h]
      link == capLink[h]
  IN /\ capTask[h] # "run" => h \in HomeHosts /\ SessionsOver(h)
     /\ capTask[h] \in {"run", "finish"} => thread.at \in {"start", "run"}
     /\ \A i \in 1 .. Len(queue) :
          queue[i] = "finish" => i = Len(queue) /\ capTask[h] \in {"rest", "over"}
     /\ thread.at \in {"flush", "done"} => queue = <<>>
     /\ thread.at = "done" => thread.batch = 0
     /\ h \in capWriter.ended => capTask[h] = "over" /\ link = <<>>
     /\ \A i \in 1 .. Len(link) : link[i] = Result => i = Len(link) /\ capTask[h] = "over"
     /\ capTask[h] = "over" /\ h \notin capWriter.cut
          => thread.at = "done" /\ capBatches[h] = <<>>

\* What a process does not use stays empty: the file's count on an agent, the
\* way to a coordinator on a single machine, all of it on a process that
\* has no session.
HostIdle(h) ==
  LET thread == capThread[h]
  IN /\ capMerged => thread.written = 0
     /\ ~capMerged => /\ thread.batch = 0 /\ capBatches[h] = <<>> /\ capLink[h] = <<>>
                      /\ h \notin capWriter.ended
     /\ h \notin HomeHosts =>
          /\ capQueue[h] = <<>> /\ thread.batch = 0 /\ thread.written = 0 /\ thread.lost = 0
          /\ capBatches[h] = <<>> /\ capLink[h] = <<>> /\ capShared[h].dropped = 0

\* The coordinator's side stays empty on a single machine.
WriterIdle ==
  /\ capWriter.cut \subseteq capWriter.ended
  /\ ~capMerged => /\ capWriter.queue = <<>> /\ capWriter.written = 0 /\ capWriter.lost = 0
                   /\ capWriter.over = 0 /\ capWriter.dropped = 0

\* The records in a queue: all of it but a last "finish".
Records(q) == IF q # <<>> /\ q[Len(q)] = "finish" THEN Len(q) - 1 ELSE Len(q)

\* The records session s has put into its queue.
PutBy == [s \in CapSessions |-> capSession[s].made - capSession[s].dropped
                                  - Weight(capSession[s].at, {"claim", "offer"})]
\* The records of process h that have not reached the coordinator.
CarriedBy == [h \in CapHosts |->
  Records(capQueue[h]) + capThread[h].batch + capThread[h].written + capThread[h].lost
    + SeqSum(capBatches[h]) + SeqSum(capLink[h])]
\* The records that have reached the coordinator.
Taken == SeqSum(capWriter.queue) + capWriter.written + capWriter.lost + capWriter.over

\* The drops session s has handed to the shared count, as it does when it
\* ends.
GivenUpBy == [s \in CapSessions |->
  IF capSession[s].at = "closed" THEN capSession[s].dropped ELSE 0]
\* The drops in the shared count of process h.
SharedBy == [h \in CapHosts |-> capShared[h].dropped]
\* What the result of process h has told the coordinator of drops and losses.
ToldBy == [h \in CapHosts |->
  IF h \in capWriter.ended THEN capShared[h].dropped + capThread[h].lost ELSE 0]

\* The books balance while no agent was cut off.
CaptureBooks ==
  capWriter.cut = {} =>
    /\ SumFunctionOnSet(PutBy, CapSessions) = SumFunctionOnSet(CarriedBy, CapHosts) + Taken
    /\ SumFunctionOnSet(GivenUpBy, CapSessions) = SumFunctionOnSet(SharedBy, CapHosts)
    /\ capWriter.dropped = SumFunctionOnSet(ToldBy, CapHosts)

\* The sessions of h between their claim and their queue.
OfferedTo(h) == [s \in CapSessions |-> IF capHome[s] = h /\ capSession[s].at = "offer" THEN 1 ELSE 0]
\* The claims of process h in use.
Held(h) == SumFunctionOnSet(OfferedTo(h), CapSessions) + Records(capQueue[h])
             + capThread[h].written + capThread[h].lost

\* The limit: the coordinator counts against it what it takes; on a single
\* machine every record in use is backed by a claim, and no claim is
\* granted beyond the limit.
CaptureLimit ==
  Limited =>
    /\ capMerged => capWriter.written + capWriter.lost <= CapLimit
    /\ ~capMerged => /\ Cardinality(HomeHosts) = 1
                     /\ \A h \in CapHosts : Held(h) <= CapLimit /\ Held(h) <= capShared[h].claimed

\* The inductive invariant.
CaptureInv ==
  /\ CaptureTypes /\ WriterIdle
  /\ \A h \in CapHosts : HostOrder(h) /\ HostIdle(h)
  /\ CaptureBooks /\ CaptureLimit

----------------------------------------------------------------------------
\* The records of a queue before and after its first message is taken.
LEMMA RecordsFacts ==
  ASSUME NEW q \in Seq({"record", "finish"}),
         \A i \in 1 .. Len(q) : q[i] = "finish" => i = Len(q)
  PROVE  /\ Records(q) \in Nat /\ (q = <<>> => Records(q) = 0)
         /\ q # <<>> /\ Head(q) = "finish" => Tail(q) = <<>> /\ Records(Tail(q)) = Records(q)
         /\ q # <<>> /\ Head(q) # "finish" => Records(Tail(q)) = Records(q) - 1
         /\ q # <<>> => /\ Tail(q) \in Seq({"record", "finish"})
                        /\ Len(Tail(q)) = Len(q) - 1
                        /\ \A i \in 1 .. Len(Tail(q)) : Tail(q)[i] = q[i + 1]
<1>1. Len(q) \in Nat /\ (q = <<>> <=> Len(q) = 0)
  BY EmptySeq, LenProperties
<1>2. Records(q) \in Nat /\ (q = <<>> => Records(q) = 0)
  BY <1>1 DEF Records
<1>3. ASSUME q # <<>>
      PROVE  /\ Tail(q) \in Seq({"record", "finish"})
             /\ Len(Tail(q)) = Len(q) - 1
             /\ \A i \in 1 .. Len(Tail(q)) : Tail(q)[i] = q[i + 1]
  BY <1>3, HeadTailProperties
<1>4. ASSUME q # <<>>, Head(q) = "finish"
      PROVE  Tail(q) = <<>> /\ Records(Tail(q)) = Records(q)
  <2>1. Head(q) = q[1] /\ 1 \in 1 .. Len(q)
    BY <1>1, <1>4
  <2>2. Len(q) = 1 /\ q[Len(q)] = "finish"
    BY <1>4, <2>1
  <2>3. Tail(q) = <<>>
    <3>1. Tail(q) \in Seq({"record", "finish"}) /\ Len(Tail(q)) = 0
      BY <1>3, <1>4, <2>2
    <3> QED BY <3>1, EmptySeq
  <2>4. Records(q) = 0 /\ Records(<<>>) = 0
    BY <1>4, <2>2 DEF Records
  <2> QED BY <2>3, <2>4
<1>5. ASSUME q # <<>>, Head(q) # "finish" PROVE Records(Tail(q)) = Records(q) - 1
  <2>1. Head(q) = q[1]
    OBVIOUS
  <2> DEFINE t == Tail(q)
  <2>2. t \in Seq({"record", "finish"}) /\ Len(t) = Len(q) - 1
        /\ \A i \in 1 .. Len(t) : t[i] = q[i + 1]
    BY <1>3, <1>5
  <2> HIDE DEF t
  <2>3. Len(q) \in Nat \ {0} /\ (t = <<>> <=> Len(t) = 0)
    BY <1>1, <1>5, <2>2, EmptySeq
  <2>4. CASE t = <<>>
    BY <1>5, <2>1, <2>2, <2>3, <2>4 DEF Records
  <2>5. CASE t # <<>>
    <3>1. Len(t) \in 1 .. Len(t) /\ t[Len(t)] = q[Len(q)]
      BY <2>2, <2>3, <2>5
    <3> QED BY <1>5, <2>2, <2>3, <2>5, <3>1 DEF Records
  <2> QED BY <2>4, <2>5 DEF t
<1> QED BY <1>2, <1>3, <1>4, <1>5

\* The records of a queue after a record or "finish" is appended.
LEMMA RecordsAppend ==
  ASSUME NEW q \in Seq({"record", "finish"}), NEW x \in {"record", "finish"},
         \A i \in 1 .. Len(q) : q[i] # "finish"
  PROVE  /\ Append(q, x) \in Seq({"record", "finish"}) /\ Len(Append(q, x)) = Len(q) + 1
         /\ \A i \in 1 .. Len(q) : Append(q, x)[i] # "finish"
         /\ Append(q, x)[Len(q) + 1] = x
         /\ Records(q) = Len(q) /\ Len(q) \in Nat
         /\ Records(Append(q, x)) = IF x = "record" THEN Len(q) + 1 ELSE Len(q)
<1>1. Len(q) \in Nat /\ (q = <<>> <=> Len(q) = 0)
  BY EmptySeq, LenProperties
<1> DEFINE r == Append(q, x)
<1>2. /\ r \in Seq({"record", "finish"}) /\ r # <<>> /\ Len(r) = Len(q) + 1
      /\ (\A i \in 1 .. Len(q) : r[i] = q[i]) /\ r[Len(q) + 1] = x
  BY AppendProperties
<1> HIDE DEF r
<1>3. Records(q) = Len(q)
  BY <1>1 DEF Records
<1>4. Records(r) = IF x = "record" THEN Len(q) + 1 ELSE Len(q)
  BY <1>1, <1>2 DEF Records
<1> QED BY <1>1, <1>2, <1>3, <1>4 DEF r

\* Every process is in order.
HostsOrder == \A h \in CapHosts : HostOrder(h)

\* Every term of the books is a number.
BookNumbers ==
  /\ PutBy \in [CapSessions -> Int] /\ CarriedBy \in [CapHosts -> Int]
  /\ GivenUpBy \in [CapSessions -> Int] /\ SharedBy \in [CapHosts -> Int]
  /\ ToldBy \in [CapHosts -> Int] /\ Taken \in Int
  /\ \A h \in CapHosts :
       /\ Records(capQueue[h]) \in Nat /\ SeqSum(capBatches[h]) \in Nat
       /\ SeqSum(capLink[h]) \in Nat /\ OfferedTo(h) \in [CapSessions -> Int]

\* The terms of the books are numbers in every state of the right types.
LEMMA BookTypes == CaptureTypes /\ HostsOrder => BookNumbers
<1> SUFFICES ASSUME CaptureTypes, HostsOrder PROVE BookNumbers
  OBVIOUS
<1>1. \A h \in CapHosts : Records(capQueue[h]) \in Nat
  <2> SUFFICES ASSUME NEW h \in CapHosts PROVE Records(capQueue[h]) \in Nat
    OBVIOUS
  <2>1. /\ capQueue[h] \in Seq({"record", "finish"})
        /\ \A i \in 1 .. Len(capQueue[h]) : capQueue[h][i] = "finish" => i = Len(capQueue[h])
    BY DEF CaptureTypes, HostsOrder, HostOrder
  <2> QED BY <2>1, RecordsFacts
<1>2. \A h \in CapHosts : SeqSum(capBatches[h]) \in Nat /\ SeqSum(capLink[h]) \in Nat
  <2> SUFFICES ASSUME NEW h \in CapHosts PROVE SeqSum(capBatches[h]) \in Nat /\ SeqSum(capLink[h]) \in Nat
    OBVIOUS
  <2>1. capBatches[h] \in Seq(Nat) /\ capLink[h] \in Seq(Nat)
    BY SeqMonotonic DEF CaptureTypes
  <2> QED BY <2>1, SeqSumFacts
<1>3. SeqSum(capWriter.queue) \in Nat
  <2>1. capWriter.queue \in Seq(Nat)
    BY SeqMonotonic DEF CaptureTypes
  <2> QED BY <2>1, SeqSumFacts
<1>4. PutBy \in [CapSessions -> Int]
  BY DEF CaptureTypes, CapSessionRecords, PutBy, Weight
<1>5. CarriedBy \in [CapHosts -> Int]
  <2>1. \A h \in CapHosts : /\ capThread[h].batch \in Nat /\ capThread[h].written \in Nat
                             /\ capThread[h].lost \in Nat
    BY DEF CaptureTypes, ThreadRecords
  <2> QED BY <1>1, <1>2, <2>1 DEF CarriedBy
<1>6. GivenUpBy \in [CapSessions -> Int] /\ SharedBy \in [CapHosts -> Int]
  BY DEF CaptureTypes, CapSessionRecords, GivenUpBy, SharedBy
<1>7. ToldBy \in [CapHosts -> Int]
  BY DEF CaptureTypes, ThreadRecords, ToldBy
<1>8. Taken \in Int
  BY <1>3 DEF CaptureTypes, Taken
<1>9. \A h \in CapHosts : OfferedTo(h) \in [CapSessions -> Int]
  BY DEF OfferedTo
<1> QED BY <1>1, <1>2, <1>4, <1>5, <1>6, <1>7, <1>8, <1>9 DEF BookNumbers

----------------------------------------------------------------------------
\* A process that a step leaves alone.
SameHost(k) ==
  /\ capShared'[k] = capShared[k] /\ capQueue'[k] = capQueue[k]
  /\ capThread'[k] = capThread[k] /\ capTask'[k] = capTask[k]
  /\ capBatches'[k] = capBatches[k] /\ capLink'[k] = capLink[k]
  /\ (k \in capWriter'.ended <=> k \in capWriter.ended)
  /\ (k \in capWriter'.cut <=> k \in capWriter.cut)

\* Sessions stay where they are or close.
ClosedStay ==
  /\ capHome' = capHome /\ capMerged' = capMerged
  /\ \A s \in CapSessions : capSession[s].at = "closed" => capSession'[s].at = "closed"

\* A process that a step leaves alone stays in order.
LEMMA HostFrame ==
  ASSUME NEW k \in CapHosts, SameHost(k), ClosedStay, HostOrder(k), HostIdle(k)
  PROVE  HostOrder(k)' /\ HostIdle(k)'
<1>1. HomeHosts' = HomeHosts
  BY DEF HomeHosts, ClosedStay
<1>2. SessionsOver(k) => SessionsOver(k)'
  BY DEF SessionsOver, ClosedStay
<1>3. HostOrder(k)'
  BY <1>1, <1>2 DEF HostOrder, SameHost
<1>4. HostIdle(k)'
  BY <1>1 DEF HostIdle, SameHost, ClosedStay
<1> QED BY <1>3, <1>4

\* What BookTypes needs, as one name.
Numbers == CaptureTypes /\ HostsOrder

\* The books are numbers before a step.
LEMMA NumbersBefore == Numbers => BookNumbers
BY BookTypes DEF Numbers

\* The books are numbers after a step.
LEMMA NumbersAfter == Numbers' => BookNumbers'
BY NumbersBefore, PTL

\* The sums over the processes follow the terms of process k.
HostSumsFollow(k) ==
  /\ SumFunctionOnSet(CarriedBy, CapHosts) \in Int
  /\ SumFunctionOnSet(SharedBy, CapHosts) \in Int
  /\ SumFunctionOnSet(ToldBy, CapHosts) \in Int
  /\ SumFunctionOnSet(CarriedBy', CapHosts)
       = SumFunctionOnSet(CarriedBy, CapHosts) + (CarriedBy'[k] - CarriedBy[k])
  /\ SumFunctionOnSet(SharedBy', CapHosts)
       = SumFunctionOnSet(SharedBy, CapHosts) + (SharedBy'[k] - SharedBy[k])
  /\ SumFunctionOnSet(ToldBy', CapHosts)
       = SumFunctionOnSet(ToldBy, CapHosts) + (ToldBy'[k] - ToldBy[k])
  /\ CarriedBy[k] \in Int /\ CarriedBy'[k] \in Int
  /\ SharedBy[k] \in Int /\ SharedBy'[k] \in Int
  /\ ToldBy[k] \in Int /\ ToldBy'[k] \in Int

\* A step that changes the terms of one process alone moves the sums with it.
LEMMA HostSums ==
  ASSUME Numbers, Numbers', NEW k \in CapHosts, \A h \in CapHosts \ {k} : SameHost(h)
  PROVE  HostSumsFollow(k)
<1>1. IsFiniteSet(CapHosts)
  BY CaptureAssumption
<1>2. /\ CarriedBy \in [CapHosts -> Int] /\ SharedBy \in [CapHosts -> Int] /\ ToldBy \in [CapHosts -> Int]
  BY NumbersBefore DEF BookNumbers
<1>3. /\ CarriedBy' \in [CapHosts -> Int] /\ SharedBy' \in [CapHosts -> Int] /\ ToldBy' \in [CapHosts -> Int]
  BY NumbersAfter DEF BookNumbers
<1>4. \A h \in CapHosts \ {k} : CarriedBy'[h] = CarriedBy[h]
  BY DEF CarriedBy, SameHost
<1>5. \A h \in CapHosts \ {k} : SharedBy'[h] = SharedBy[h]
  BY DEF SharedBy, SameHost
<1>6. \A h \in CapHosts \ {k} : ToldBy'[h] = ToldBy[h]
  BY DEF ToldBy, SameHost
<1>7. ASSUME NEW f \in [CapHosts -> Int], NEW g \in [CapHosts -> Int],
             \A h \in CapHosts \ {k} : g[h] = f[h]
      PROVE  /\ SumFunctionOnSet(f, CapHosts) \in Int
             /\ SumFunctionOnSet(g, CapHosts) = SumFunctionOnSet(f, CapHosts) + (g[k] - f[k])
             /\ f[k] \in Int /\ g[k] \in Int
  BY <1>1, <1>7, SumMove
<1>8. /\ SumFunctionOnSet(CarriedBy, CapHosts) \in Int
      /\ SumFunctionOnSet(CarriedBy', CapHosts)
           = SumFunctionOnSet(CarriedBy, CapHosts) + (CarriedBy'[k] - CarriedBy[k])
      /\ CarriedBy[k] \in Int /\ CarriedBy'[k] \in Int
  BY <1>2, <1>3, <1>4, <1>7
<1>9. /\ SumFunctionOnSet(SharedBy, CapHosts) \in Int
      /\ SumFunctionOnSet(SharedBy', CapHosts)
           = SumFunctionOnSet(SharedBy, CapHosts) + (SharedBy'[k] - SharedBy[k])
      /\ SharedBy[k] \in Int /\ SharedBy'[k] \in Int
  BY <1>2, <1>3, <1>5, <1>7
<1>10. /\ SumFunctionOnSet(ToldBy, CapHosts) \in Int
       /\ SumFunctionOnSet(ToldBy', CapHosts)
           = SumFunctionOnSet(ToldBy, CapHosts) + (ToldBy'[k] - ToldBy[k])
       /\ ToldBy[k] \in Int /\ ToldBy'[k] \in Int
  BY <1>2, <1>3, <1>6, <1>7
<1> QED BY <1>8, <1>9, <1>10 DEF HostSumsFollow

\* The sums over the sessions follow the terms of session s.
SessionSumsFollow(s) ==
  /\ SumFunctionOnSet(PutBy, CapSessions) \in Int
  /\ SumFunctionOnSet(GivenUpBy, CapSessions) \in Int
  /\ SumFunctionOnSet(PutBy', CapSessions)
       = SumFunctionOnSet(PutBy, CapSessions) + (PutBy'[s] - PutBy[s])
  /\ SumFunctionOnSet(GivenUpBy', CapSessions)
       = SumFunctionOnSet(GivenUpBy, CapSessions) + (GivenUpBy'[s] - GivenUpBy[s])
  /\ PutBy[s] \in Int /\ PutBy'[s] \in Int /\ GivenUpBy[s] \in Int /\ GivenUpBy'[s] \in Int
  /\ \A h \in CapHosts :
       /\ SumFunctionOnSet(OfferedTo(h), CapSessions) \in Int
       /\ OfferedTo(h)[s] \in Int /\ OfferedTo(h)'[s] \in Int
       /\ SumFunctionOnSet(OfferedTo(h)', CapSessions)
            = SumFunctionOnSet(OfferedTo(h), CapSessions) + (OfferedTo(h)'[s] - OfferedTo(h)[s])

\* A step that changes the terms of one session alone moves the sums with it.
LEMMA SessionSums ==
  ASSUME Numbers, Numbers', NEW s \in CapSessions, capHome' = capHome,
         \A v \in CapSessions \ {s} : capSession'[v] = capSession[v]
  PROVE  SessionSumsFollow(s)
<1>1. IsFiniteSet(CapSessions)
  BY CaptureAssumption
<1>2. PutBy \in [CapSessions -> Int] /\ GivenUpBy \in [CapSessions -> Int]
  BY NumbersBefore DEF BookNumbers
<1>3. PutBy' \in [CapSessions -> Int] /\ GivenUpBy' \in [CapSessions -> Int]
  BY NumbersAfter DEF BookNumbers
<1>4. \A v \in CapSessions \ {s} : PutBy'[v] = PutBy[v]
  BY DEF PutBy
<1>5. \A v \in CapSessions \ {s} : GivenUpBy'[v] = GivenUpBy[v]
  BY DEF GivenUpBy
<1>7. ASSUME NEW f \in [CapSessions -> Int], NEW g \in [CapSessions -> Int],
             \A v \in CapSessions \ {s} : g[v] = f[v]
      PROVE  /\ SumFunctionOnSet(f, CapSessions) \in Int
             /\ SumFunctionOnSet(g, CapSessions) = SumFunctionOnSet(f, CapSessions) + (g[s] - f[s])
             /\ f[s] \in Int /\ g[s] \in Int
  BY <1>1, <1>7, SumMove
<1>8. /\ SumFunctionOnSet(PutBy, CapSessions) \in Int
      /\ SumFunctionOnSet(PutBy', CapSessions)
           = SumFunctionOnSet(PutBy, CapSessions) + (PutBy'[s] - PutBy[s])
      /\ PutBy[s] \in Int /\ PutBy'[s] \in Int
  BY <1>2, <1>3, <1>4, <1>7
<1>9. /\ SumFunctionOnSet(GivenUpBy, CapSessions) \in Int
      /\ SumFunctionOnSet(GivenUpBy', CapSessions)
           = SumFunctionOnSet(GivenUpBy, CapSessions) + (GivenUpBy'[s] - GivenUpBy[s])
      /\ GivenUpBy[s] \in Int /\ GivenUpBy'[s] \in Int
  BY <1>2, <1>3, <1>5, <1>7
<1>10. ASSUME NEW h \in CapHosts
       PROVE  /\ SumFunctionOnSet(OfferedTo(h), CapSessions) \in Int
              /\ OfferedTo(h)[s] \in Int /\ OfferedTo(h)'[s] \in Int
              /\ SumFunctionOnSet(OfferedTo(h)', CapSessions)
                   = SumFunctionOnSet(OfferedTo(h), CapSessions) + (OfferedTo(h)'[s] - OfferedTo(h)[s])
  <2>1. OfferedTo(h) \in [CapSessions -> Int] /\ OfferedTo(h)' \in [CapSessions -> Int]
    BY DEF OfferedTo
  <2>2. \A v \in CapSessions \ {s} : OfferedTo(h)'[v] = OfferedTo(h)[v]
    BY DEF OfferedTo
  <2> QED BY <1>7, <2>1, <2>2
<1> QED BY <1>8, <1>9, <1>10 DEF SessionSumsFollow

\* The sessions of h that hold a claim are counted by a number.
LEMMA OfferedNumber ==
  ASSUME NEW h \in CapHosts
  PROVE  SumFunctionOnSet(OfferedTo(h), CapSessions) \in Nat
<1>1. IsFiniteSet(CapSessions)
  BY CaptureAssumption
<1>2. OfferedTo(h) \in [CapSessions -> Int] /\ \A s \in CapSessions : OfferedTo(h)[s] \in Nat
  BY DEF OfferedTo
<1> QED BY <1>1, <1>2, SumNatural

\* A step of process k or of the coordinator that takes from it keeps the
\* invariant when it moves records without gaining or losing any.
LEMMA HostStep ==
  ASSUME CaptureInv, NEW k \in CapHosts, \A h \in CapHosts \ {k} : SameHost(h),
         capSession' = capSession, capHome' = capHome, capMerged' = capMerged,
         capShared' = capShared, capWriter'.cut = capWriter.cut,
         CaptureTypes', WriterIdle', HostOrder(k)', HostIdle(k)',
         capWriter.cut = {} => /\ CarriedBy'[k] + Taken' = CarriedBy[k] + Taken
                               /\ capWriter'.dropped - capWriter.dropped = ToldBy'[k] - ToldBy[k],
         capMerged /\ Limited => capWriter'.written + capWriter'.lost <= CapLimit,
         ~capMerged => Records(capQueue'[k]) + capThread'[k].written + capThread'[k].lost
                         <= Records(capQueue[k]) + capThread[k].written + capThread[k].lost
  PROVE  CaptureInv'
<1>1. ClosedStay
  BY DEF ClosedStay
<1>2. \A h \in CapHosts : HostOrder(h)' /\ HostIdle(h)'
  <2> SUFFICES ASSUME NEW h \in CapHosts \ {k} PROVE HostOrder(h)' /\ HostIdle(h)'
    OBVIOUS
  <2>1. SameHost(h) /\ HostOrder(h) /\ HostIdle(h) /\ h \in CapHosts
    BY DEF CaptureInv
  <2> QED BY <1>1, <2>1, HostFrame
<1>3. Numbers /\ Numbers'
  BY <1>2 DEF Numbers, CaptureInv, HostsOrder
<1>4. CaptureBooks'
  <2> SUFFICES ASSUME capWriter.cut = {} PROVE CaptureBooks'
    BY DEF CaptureBooks
  <2>1. PutBy' = PutBy /\ GivenUpBy' = GivenUpBy
    BY DEF PutBy, GivenUpBy
  <2>2. Taken \in Int /\ Taken' \in Int /\ capWriter.dropped \in Int /\ capWriter'.dropped \in Int
    BY <1>3, NumbersBefore, NumbersAfter DEF BookNumbers, CaptureInv, CaptureTypes, ThreadRecords
  <2>3. SharedBy' = SharedBy
    BY DEF SharedBy
  <2>6. HostSumsFollow(k)
    BY <1>3, HostSums
  <2>7. /\ (CarriedBy')[k] + Taken' = CarriedBy[k] + Taken
        /\ capWriter'.dropped - capWriter.dropped = (ToldBy')[k] - ToldBy[k]
    OBVIOUS
  <2>8. SumFunctionOnSet(CarriedBy', CapHosts) + Taken' = SumFunctionOnSet(CarriedBy, CapHosts) + Taken
    BY <2>2, <2>6, <2>7 DEF HostSumsFollow
  <2>9. /\ SumFunctionOnSet(ToldBy, CapHosts) \in Int /\ SumFunctionOnSet(ToldBy', CapHosts) \in Int
        /\ SumFunctionOnSet(ToldBy', CapHosts) - SumFunctionOnSet(ToldBy, CapHosts)
             = capWriter'.dropped - capWriter.dropped
    BY <2>2, <2>6, <2>7 DEF HostSumsFollow
  <2>4. /\ SumFunctionOnSet(CarriedBy', CapHosts) + Taken' = SumFunctionOnSet(CarriedBy, CapHosts) + Taken
        /\ SumFunctionOnSet(ToldBy', CapHosts) - SumFunctionOnSet(ToldBy, CapHosts)
             = capWriter'.dropped - capWriter.dropped
        /\ SumFunctionOnSet(ToldBy, CapHosts) \in Int /\ SumFunctionOnSet(ToldBy', CapHosts) \in Int
    BY <2>8, <2>9
  <2>5. /\ SumFunctionOnSet(PutBy', CapSessions) = SumFunctionOnSet(CarriedBy', CapHosts) + Taken'
        /\ SumFunctionOnSet(GivenUpBy', CapSessions) = SumFunctionOnSet(SharedBy', CapHosts)
        /\ capWriter'.dropped = SumFunctionOnSet(ToldBy', CapHosts)
    BY <2>1, <2>2, <2>3, <2>4 DEF CaptureInv, CaptureBooks
  <2> QED BY <2>5 DEF CaptureBooks
<1>5. CaptureLimit'
  <2> SUFFICES ASSUME Limited PROVE CaptureLimit'
    BY DEF CaptureLimit, Limited
  <2>1. capMerged' => capWriter'.written + capWriter'.lost <= CapLimit
    OBVIOUS
  <2>2. ASSUME ~capMerged, NEW h \in CapHosts
        PROVE  Held(h)' <= CapLimit /\ Held(h)' <= capShared'[h].claimed
    <3>1. Held(h) <= CapLimit /\ Held(h) <= capShared[h].claimed
      BY <2>2 DEF CaptureInv, CaptureLimit
    <3>2. OfferedTo(h)' = OfferedTo(h) /\ SumFunctionOnSet(OfferedTo(h), CapSessions) \in Nat
      BY OfferedNumber DEF OfferedTo
    <3>3. Records(capQueue'[h]) + capThread'[h].written + capThread'[h].lost
            <= Records(capQueue[h]) + capThread[h].written + capThread[h].lost
      <4>1. CASE h = k
        BY <2>2, <4>1
      <4>2. CASE h # k
        <5>1. capQueue'[h] = capQueue[h] /\ capThread'[h] = capThread[h]
          BY <4>2 DEF SameHost
        <5>2. Records(capQueue[h]) \in Nat /\ capThread[h].written \in Nat /\ capThread[h].lost \in Nat
          BY <1>3, NumbersBefore DEF BookNumbers, CaptureInv, CaptureTypes, ThreadRecords
        <5> QED BY <5>1, <5>2
      <4> QED BY <4>1, <4>2
    <3>4. /\ Records(capQueue[h]) \in Nat /\ capThread[h].written \in Nat /\ capThread[h].lost \in Nat
      BY <1>3, NumbersBefore DEF BookNumbers, CaptureInv, CaptureTypes, ThreadRecords
    <3>5. /\ Records(capQueue'[h]) \in Nat /\ capThread'[h].written \in Nat /\ capThread'[h].lost \in Nat
      BY <1>3, NumbersAfter DEF BookNumbers, CaptureTypes, ThreadRecords
    <3>6. CapLimit \in Nat /\ capShared[h].claimed \in Int
      BY CaptureAssumption DEF CaptureInv, CaptureTypes
    <3>7. Held(h) = SumFunctionOnSet(OfferedTo(h), CapSessions)
                      + Records(capQueue[h]) + capThread[h].written + capThread[h].lost
      BY DEF Held
    <3>8. Held(h)' = SumFunctionOnSet(OfferedTo(h), CapSessions)
                      + Records(capQueue'[h]) + capThread'[h].written + capThread'[h].lost
      BY <3>2 DEF Held
    <3>9. Held(h)' <= Held(h) /\ Held(h) \in Int /\ Held(h)' \in Int
      BY <3>2, <3>3, <3>4, <3>5, <3>7, <3>8
    <3> QED BY <3>1, <3>6, <3>9
  <2>3. ~capMerged => Cardinality(HomeHosts') = 1
    BY DEF CaptureInv, CaptureLimit, HomeHosts
  <2> QED BY <2>1, <2>2, <2>3 DEF CaptureLimit
<1> QED BY <1>2, <1>4, <1>5 DEF CaptureInv

\* A step of session s of process k, and what it does to the books.
SessionMoves(s, k) ==
  /\ capHome[s] = k /\ capSession[s].at # "closed"
  /\ \A v \in CapSessions \ {s} : capSession'[v] = capSession[v]
  /\ \A h \in CapHosts \ {k} : capShared'[h] = capShared[h] /\ capQueue'[h] = capQueue[h]
  /\ UNCHANGED <<capHome, capMerged, capThread, capTask, capBatches, capLink, capWriter>>
  /\ \/ capQueue'[k] = capQueue[k]
     \/ capQueue'[k] = Append(capQueue[k], "record")

\* What session s puts and gives up arrives in the queue and in the shared
\* count of its process.
SessionPays(s, k) ==
  /\ PutBy'[s] - PutBy[s] = Records(capQueue'[k]) - Records(capQueue[k])
  /\ GivenUpBy'[s] - GivenUpBy[s] = capShared'[k].dropped - capShared[k].dropped

\* What session s takes into use is claimed first, and not beyond the limit.
SessionClaims(s, k) ==
  LET d == OfferedTo(k)'[s] - OfferedTo(k)[s] + Records(capQueue'[k]) - Records(capQueue[k])
  IN /\ d <= capShared'[k].claimed - capShared[k].claimed
     /\ d <= 0 \/ capShared'[k].claimed <= CapLimit

\* A session's step that pays and claims keeps the invariant.
LEMMA SessionStep ==
  ASSUME CaptureInv, NEW s \in CapSessions, NEW k, SessionMoves(s, k), CaptureTypes',
         SessionPays(s, k), Limited => SessionClaims(s, k)
  PROVE  CaptureInv'
<1>0. k \in CapHosts /\ k \in HomeHosts /\ capTask[k] = "run" /\ k \notin capWriter.ended
  <2>1. k \in CapHosts /\ k \in HomeHosts
    BY DEF CaptureInv, CaptureTypes, HomeHosts, SessionMoves
  <2>2. ~SessionsOver(k)
    BY DEF SessionsOver, SessionMoves
  <2>3. HostOrder(k)
    BY <2>1 DEF CaptureInv
  <2> QED BY <2>1, <2>2, <2>3 DEF HostOrder
<1>1. \A h \in CapHosts \ {k} : SameHost(h)
  BY DEF SameHost, SessionMoves
<1>2. \A h \in CapHosts : HostOrder(h)' /\ HostIdle(h)'
  <2>1. ASSUME NEW h \in CapHosts \ {k} PROVE HostOrder(h)' /\ HostIdle(h)'
    <3>1. SameHost(h) /\ HostOrder(h) /\ HostIdle(h) /\ h \in CapHosts
      BY <1>1 DEF CaptureInv
    <3>2. h # capHome[s] /\ HomeHosts' = HomeHosts /\ (SessionsOver(h) => SessionsOver(h)')
      BY DEF SessionsOver, HomeHosts, SessionMoves
    <3>3. HostOrder(h)'
      BY <3>1, <3>2 DEF HostOrder, SameHost, SessionMoves
    <3>4. HostIdle(h)'
      BY <3>1, <3>2 DEF HostIdle, SameHost, SessionMoves
    <3> QED BY <3>3, <3>4
  <2>2. HostOrder(k) /\ HostIdle(k) /\ HomeHosts' = HomeHosts
    BY <1>0 DEF CaptureInv, HomeHosts, SessionMoves
  <2>3. /\ capQueue[k] \in Seq({"record", "finish"})
        /\ \A i \in 1 .. Len(capQueue[k]) : capQueue[k][i] # "finish"
    BY <1>0, <2>2 DEF HostOrder, CaptureInv, CaptureTypes
  <2>4. \A i \in 1 .. Len(capQueue'[k]) : capQueue'[k][i] # "finish"
    <3>1. CASE capQueue'[k] = capQueue[k]
      BY <2>3, <3>1
    <3>2. CASE capQueue'[k] = Append(capQueue[k], "record")
      <4> DEFINE q == capQueue[k]
                 r == Append(capQueue[k], "record")
      <4>1. /\ Len(r) = Len(q) + 1 /\ (\A i \in 1 .. Len(q) : r[i] # "finish")
            /\ r[Len(q) + 1] = "record" /\ Len(q) \in Nat
        BY <2>3, RecordsAppend
      <4> HIDE DEF q, r
      <4>2. \A i \in 1 .. Len(r) : r[i] # "finish"
        BY <4>1
      <4> QED BY <3>2, <4>2 DEF r
    <3> QED BY <3>1, <3>2 DEF SessionMoves
  <2>5. HostOrder(k)'
    BY <1>0, <2>2, <2>4 DEF HostOrder, SessionMoves
  <2>7. capTask[k] = "run"
    BY <1>0
  <2>6. HostIdle(k)'
    BY <1>0, <2>2, <2>7 DEF HostIdle, SessionMoves
  <2> QED BY <2>1, <2>5, <2>6
<1>3. Numbers /\ Numbers'
  BY <1>2 DEF Numbers, CaptureInv, HostsOrder
<1>4. HostSumsFollow(k) /\ SessionSumsFollow(s)
  <2>1. capHome' = capHome /\ \A v \in CapSessions \ {s} : capSession'[v] = capSession[v]
    BY DEF SessionMoves
  <2> QED BY <1>0, <1>1, <1>3, <2>1, HostSums, SessionSums
<1>5. /\ Records(capQueue[k]) \in Nat /\ Records(capQueue'[k]) \in Nat
      /\ SeqSum(capBatches[k]) \in Nat /\ SeqSum(capLink[k]) \in Nat
      /\ capThread[k].batch \in Nat /\ capThread[k].written \in Nat /\ capThread[k].lost \in Nat
      /\ capShared[k].dropped \in Nat /\ capShared'[k].dropped \in Nat /\ Taken \in Int
      /\ capShared[k].claimed \in Int /\ capShared'[k].claimed \in Int
  BY <1>0, <1>3, NumbersBefore, NumbersAfter DEF BookNumbers, CaptureInv, CaptureTypes, ThreadRecords
<1>6. CarriedBy'[k] - CarriedBy[k] = Records(capQueue'[k]) - Records(capQueue[k])
  <2> DEFINE rest == capThread[k].batch + capThread[k].written + capThread[k].lost
                       + SeqSum(capBatches[k]) + SeqSum(capLink[k])
  <2>1. CarriedBy[k] = Records(capQueue[k]) + rest
    BY <1>0, <1>5 DEF CarriedBy
  <2>2. CarriedBy'[k] = Records(capQueue'[k]) + rest
    <3>1. capThread' = capThread /\ capBatches' = capBatches /\ capLink' = capLink
      BY DEF SessionMoves
    <3> QED BY <1>0, <1>5, <3>1 DEF CarriedBy
  <2>3. rest \in Nat
    BY <1>5
  <2> HIDE DEF rest
  <2> QED BY <1>5, <2>1, <2>2, <2>3
<1>7. /\ SharedBy'[k] - SharedBy[k] = capShared'[k].dropped - capShared[k].dropped
      /\ ToldBy' [k] = ToldBy[k] /\ Taken' = Taken
  BY <1>0 DEF SharedBy, ToldBy, Taken, SessionMoves
<1>8. CaptureBooks'
  <2> SUFFICES ASSUME capWriter.cut = {} PROVE CaptureBooks'
    BY DEF CaptureBooks, SessionMoves
  <2>1. SumFunctionOnSet(PutBy', CapSessions) = SumFunctionOnSet(CarriedBy', CapHosts) + Taken'
    <3>1. SumFunctionOnSet(PutBy, CapSessions) = SumFunctionOnSet(CarriedBy, CapHosts) + Taken
      BY DEF CaptureInv, CaptureBooks
    <3> QED BY <1>4, <1>5, <1>6, <1>7, <3>1 DEF HostSumsFollow, SessionSumsFollow, SessionPays
  <2>2. SumFunctionOnSet(GivenUpBy', CapSessions) = SumFunctionOnSet(SharedBy', CapHosts)
    <3>1. SumFunctionOnSet(GivenUpBy, CapSessions) = SumFunctionOnSet(SharedBy, CapHosts)
      BY DEF CaptureInv, CaptureBooks
    <3> QED BY <1>4, <1>5, <1>7, <3>1 DEF HostSumsFollow, SessionSumsFollow, SessionPays
  <2>3. capWriter'.dropped = SumFunctionOnSet(ToldBy', CapHosts)
    <3>1. capWriter.dropped = SumFunctionOnSet(ToldBy, CapHosts)
      BY DEF CaptureInv, CaptureBooks
    <3> QED BY <1>4, <1>7, <3>1 DEF HostSumsFollow, SessionMoves
  <2> QED BY <2>1, <2>2, <2>3 DEF CaptureBooks
<1>9. CaptureLimit'
  <2> SUFFICES ASSUME Limited PROVE CaptureLimit'
    BY DEF CaptureLimit, Limited
  <2>1. capMerged' => capWriter'.written + capWriter'.lost <= CapLimit
    BY DEF CaptureInv, CaptureLimit, SessionMoves
  <2>2. ASSUME ~capMerged, NEW h \in CapHosts
        PROVE  Held(h)' <= CapLimit /\ Held(h)' <= capShared'[h].claimed
    <3>1. Held(h) <= CapLimit /\ Held(h) <= capShared[h].claimed
      BY <2>2 DEF CaptureInv, CaptureLimit
    <3>2. CASE h = k
      <4> DEFINE a == SumFunctionOnSet(OfferedTo(k), CapSessions)
                 b == SumFunctionOnSet(OfferedTo(k)', CapSessions)
                 o == OfferedTo(k)[s]
                 p == OfferedTo(k)'[s]
      <4>1. a \in Int /\ b = a + (p - o) /\ o \in Int /\ p \in Int
        BY <1>0, <1>4 DEF SessionSumsFollow
      <4>2. Held(h) = a + Records(capQueue[k]) + capThread[k].written + capThread[k].lost
        BY <3>2 DEF Held
      <4>3. Held(h)' = b + Records(capQueue'[k]) + capThread[k].written + capThread[k].lost
        BY <3>2 DEF Held, SessionMoves
      <4>4. LET d == p - o + Records(capQueue'[k]) - Records(capQueue[k])
            IN /\ d <= capShared'[k].claimed - capShared[k].claimed
               /\ d <= 0 \/ capShared'[k].claimed <= CapLimit
        BY DEF SessionClaims
      <4> HIDE DEF a, b, o, p
      <4>5. CapLimit \in Nat
        BY CaptureAssumption
      <4>6. /\ Held(h)' <= CapLimit
            /\ Held(h)' <= capShared'[k].claimed
        BY <1>5, <3>1, <3>2, <4>1, <4>2, <4>3, <4>4, <4>5
      <4> QED BY <3>2, <4>6
    <3>3. CASE h # k
      <4>1. OfferedTo(h)' = OfferedTo(h)
        BY <3>3 DEF OfferedTo, SessionMoves
      <4>2. Held(h)' = Held(h) /\ capShared'[h] = capShared[h]
        BY <3>3, <4>1 DEF Held, SessionMoves
      <4> QED BY <3>1, <4>2
    <3> QED BY <3>2, <3>3
  <2>3. ~capMerged => Cardinality(HomeHosts') = 1
    BY DEF CaptureInv, CaptureLimit, HomeHosts, SessionMoves
  <2>4. capMerged' = capMerged
    BY DEF SessionMoves
  <2> QED BY <2>1, <2>2, <2>3, <2>4 DEF CaptureLimit
<1>10. WriterIdle'
  BY DEF CaptureInv, WriterIdle, SessionMoves
<1> QED BY <1>2, <1>8, <1>9, <1>10 DEF CaptureInv

\* What a session that has not closed reads of its process.
LEMMA SessionReads ==
  ASSUME CaptureInv, NEW s \in CapSessions, capSession[s].at # "closed", NEW k, k = capHome[s]
  PROVE  /\ k \in CapHosts /\ capSession[s].made \in Nat /\ capSession[s].dropped \in Nat
         /\ capSession[s].at \in {"new", "idle", "claim", "offer", "closed"}
         /\ capShared[k].claimed \in Int /\ capShared[k].dropped \in Nat
         /\ capQueue[k] \in Seq({"record", "finish"})
         /\ Append(capQueue[k], "record") \in Seq({"record", "finish"})
         /\ Records(capQueue[k]) \in Nat
         /\ Records(Append(capQueue[k], "record")) = Records(capQueue[k]) + 1
         /\ CapLimit \in Nat
<1>1. k \in CapHosts
  BY DEF CaptureInv, CaptureTypes
<1>2. capTask[k] = "run"
  <2>1. ~SessionsOver(k) /\ HostOrder(k)
    BY <1>1 DEF CaptureInv, SessionsOver
  <2>2. capTask[k] \in {"run", "finish", "rest", "over"}
    BY <1>1 DEF CaptureInv, CaptureTypes
  <2> QED BY <2>1, <2>2 DEF HostOrder
<1>3. capQueue[k] \in Seq({"record", "finish"})
  BY <1>1 DEF CaptureInv, CaptureTypes
<1>4. \A i \in 1 .. Len(capQueue[k]) : capQueue[k][i] # "finish"
  BY <1>1, <1>2 DEF CaptureInv, HostOrder
<1>5. /\ Append(capQueue[k], "record") \in Seq({"record", "finish"})
      /\ Records(capQueue[k]) = Len(capQueue[k]) /\ Len(capQueue[k]) \in Nat
      /\ Records(Append(capQueue[k], "record")) = Len(capQueue[k]) + 1
  <2> DEFINE q == capQueue[k]
  <2>1. q \in Seq({"record", "finish"}) /\ \A i \in 1 .. Len(q) : q[i] # "finish"
    BY <1>3, <1>4
  <2> HIDE DEF q
  <2>2. /\ Append(q, "record") \in Seq({"record", "finish"})
        /\ Records(q) = Len(q) /\ Len(q) \in Nat
        /\ Records(Append(q, "record")) = Len(q) + 1
    BY <2>1, RecordsAppend
  <2> QED BY <2>2 DEF q
<1>6. /\ capSession[s].made \in Nat /\ capSession[s].dropped \in Nat
      /\ capSession[s].at \in {"new", "idle", "claim", "offer", "closed"}
      /\ capShared[k].claimed \in Int /\ capShared[k].dropped \in Nat
  BY <1>1 DEF CaptureInv, CaptureTypes, CapSessionRecords
<1> QED BY <1>1, <1>3, <1>5, <1>6, CaptureAssumption

\* The terms of the books that belong to session s.
LEMMA SessionTerms ==
  ASSUME NEW s \in CapSessions
  PROVE  /\ PutBy[s] = capSession[s].made - capSession[s].dropped
                         - Weight(capSession[s].at, {"claim", "offer"})
         /\ GivenUpBy[s] = IF capSession[s].at = "closed" THEN capSession[s].dropped ELSE 0
         /\ OfferedTo(capHome[s])[s] = IF capSession[s].at = "offer" THEN 1 ELSE 0
         /\ PutBy'[s] = capSession'[s].made - capSession'[s].dropped
                          - Weight(capSession'[s].at, {"claim", "offer"})
         /\ GivenUpBy'[s] = IF capSession'[s].at = "closed" THEN capSession'[s].dropped ELSE 0
         /\ capHome' = capHome =>
              \A k : k = capHome[s] => OfferedTo(k)'[s] = IF capSession'[s].at = "offer" THEN 1 ELSE 0
<1>1. PutBy[s] = capSession[s].made - capSession[s].dropped
                   - Weight(capSession[s].at, {"claim", "offer"})
  BY DEF PutBy
<1>2. PutBy'[s] = capSession'[s].made - capSession'[s].dropped
                    - Weight(capSession'[s].at, {"claim", "offer"})
  BY DEF PutBy
<1>3. /\ GivenUpBy[s] = IF capSession[s].at = "closed" THEN capSession[s].dropped ELSE 0
      /\ GivenUpBy'[s] = IF capSession'[s].at = "closed" THEN capSession'[s].dropped ELSE 0
  BY DEF GivenUpBy
<1>4. OfferedTo(capHome[s])[s] = IF capSession[s].at = "offer" THEN 1 ELSE 0
  BY DEF OfferedTo
<1>5. ASSUME capHome' = capHome, NEW k, k = capHome[s]
      PROVE  OfferedTo(k)'[s] = IF capSession'[s].at = "offer" THEN 1 ELSE 0
  BY <1>5 DEF OfferedTo
<1> QED BY <1>1, <1>2, <1>3, <1>4, <1>5

\* CaptureHandle::record begins: a record is made.
LEMMA BeginsKeeps ==
  ASSUME CaptureInv, NEW s \in CapSessions, RecordBegins(s)
  PROVE  CaptureInv'
<1> DEFINE k == capHome[s]
<1>1. capSession[s].at \in {"new", "idle"} /\ capSession[s].at # "closed"
  BY DEF RecordBegins
<1>2. /\ k \in CapHosts /\ capSession[s].made \in Nat /\ capSession[s].dropped \in Nat
      /\ Records(capQueue[k]) \in Nat /\ capShared[k].claimed \in Int /\ capShared[k].dropped \in Nat
  BY <1>1, SessionReads
<1>3. /\ \A v \in CapSessions \ {s} : capSession'[v] = capSession[v]
      /\ capSession' \in [CapSessions -> CapSessionRecords]
      /\ capSession'[s].made = capSession[s].made + 1
      /\ \/ /\ capSession'[s].at = "idle"
            /\ capSession'[s].dropped = capSession[s].dropped + 1
         \/ /\ capSession'[s].at \in {"claim", "offer"}
            /\ capSession'[s].dropped = capSession[s].dropped
      /\ Limited => capSession'[s].at # "offer"
  <2> DEFINE full == Limited /\ capShared[k].claimed >= CapLimit
             new == [at |-> IF full THEN "idle" ELSE IF Limited THEN "claim" ELSE "offer",
                     made |-> capSession[s].made + 1,
                     dropped |-> capSession[s].dropped + IF full THEN 1 ELSE 0]
  <2>1. capSession' = [capSession EXCEPT ![s] = new]
    BY DEF RecordBegins
  <2>2. capSession'[s] = new
    BY <2>1 DEF CaptureInv, CaptureTypes
  <2>3. /\ new.made = capSession[s].made + 1
        /\ \/ new.at = "idle" /\ new.dropped = capSession[s].dropped + 1
           \/ new.at \in {"claim", "offer"} /\ new.dropped = capSession[s].dropped
        /\ (Limited => new.at # "offer")
    BY <1>2
  <2>4. new \in CapSessionRecords
    BY <1>2 DEF CapSessionRecords
  <2> HIDE DEF new
  <2>5. capSession \in [CapSessions -> CapSessionRecords]
    BY DEF CaptureInv, CaptureTypes
  <2>6. /\ \A v \in CapSessions \ {s} : capSession'[v] = capSession[v]
        /\ capSession' \in [CapSessions -> CapSessionRecords]
    BY <2>1, <2>4, <2>5
  <2> QED BY <2>2, <2>3, <2>6
<1>4. /\ UNCHANGED <<capHome, capMerged, capShared, capQueue, capThread, capTask,
                     capBatches, capLink, capWriter>>
  BY DEF RecordBegins
<1>5. CaptureTypes'
  BY <1>3, <1>4 DEF CaptureInv, CaptureTypes
<1>6. SessionMoves(s, k)
  BY <1>1, <1>3, <1>4 DEF SessionMoves
<1>7. SessionPays(s, k)
  <2>4. Weight(capSession[s].at, {"claim", "offer"}) = 0
    BY <1>1 DEF Weight
  <2>5. PutBy[s] = capSession[s].made - capSession[s].dropped
    BY <1>2, <2>4, SessionTerms
  <2>6. PutBy'[s] = capSession'[s].made - capSession'[s].dropped
                      - Weight(capSession'[s].at, {"claim", "offer"})
    BY SessionTerms
  <2>1. PutBy'[s] = PutBy[s]
    <3>1. CASE capSession'[s].at = "idle"
      <4>1. Weight(capSession'[s].at, {"claim", "offer"}) = 0 /\ capSession'[s].at \notin {"claim", "offer"}
        BY <3>1 DEF Weight
      <4> QED BY <1>2, <1>3, <2>5, <2>6, <4>1
    <3>2. CASE capSession'[s].at \in {"claim", "offer"}
      <4>1. Weight(capSession'[s].at, {"claim", "offer"}) = 1 /\ capSession'[s].at # "idle"
        BY <3>2 DEF Weight
      <4> QED BY <1>2, <1>3, <2>5, <2>6, <4>1
    <3> QED BY <1>3, <3>1, <3>2
  <2>2. GivenUpBy'[s] = GivenUpBy[s] /\ GivenUpBy[s] = 0
    BY <1>1, <1>3, SessionTerms
  <2>3. PutBy[s] \in Int
    BY <1>1, <1>2, SessionTerms DEF Weight
  <2> QED BY <1>2, <1>4, <2>1, <2>2, <2>3 DEF SessionPays
<1>8. Limited => SessionClaims(s, k)
  <2> SUFFICES ASSUME Limited PROVE SessionClaims(s, k)
    OBVIOUS
  <2>1. OfferedTo(k)[s] = 0
    BY <1>1, SessionTerms
  <2>2. OfferedTo(k)'[s] = 0
    BY <1>3, <1>4, SessionTerms
  <2> QED BY <1>2, <1>4, <2>1, <2>2 DEF SessionClaims
<1> HIDE DEF k
<1> QED BY <1>5, <1>6, <1>7, <1>8, SessionStep

\* Session s alone changes: where it is, and what it has dropped.
BecomesOnly(s, at, dropped) ==
  /\ capSession' \in [CapSessions -> CapSessionRecords]
  /\ \A v \in CapSessions \ {s} : capSession'[v] = capSession[v]
  /\ capSession'[s].at = at /\ capSession'[s].made = capSession[s].made
  /\ capSession'[s].dropped = dropped

\* What Drops does to the sessions.
LEMMA DropsFacts ==
  ASSUME CaptureInv, NEW s \in CapSessions, Drops(s)
  PROVE  BecomesOnly(s, "idle", capSession[s].dropped + 1)
<1> DEFINE new == [at |-> "idle", made |-> capSession[s].made, dropped |-> capSession[s].dropped + 1]
<1>1. capSession \in [CapSessions -> CapSessionRecords] /\ capSession[s] \in CapSessionRecords
  BY DEF CaptureInv, CaptureTypes
<1>2. capSession' = [capSession EXCEPT ![s] = new]
  BY DEF Drops
<1>3. new \in CapSessionRecords /\ new.at = "idle" /\ new.made = capSession[s].made
      /\ new.dropped = capSession[s].dropped + 1
  BY <1>1 DEF CapSessionRecords
<1> HIDE DEF new
<1> QED BY <1>1, <1>2, <1>3 DEF BecomesOnly

\* What Moves does to the sessions.
LEMMA MovesFacts ==
  ASSUME CaptureInv, NEW s \in CapSessions,
         NEW l \in {"new", "idle", "claim", "offer", "closed"}, Moves(s, l)
  PROVE  BecomesOnly(s, l, capSession[s].dropped)
<1> DEFINE new == [capSession[s] EXCEPT !.at = l]
<1>1. capSession \in [CapSessions -> CapSessionRecords] /\ capSession[s] \in CapSessionRecords
  BY DEF CaptureInv, CaptureTypes
<1>2. capSession' = [capSession EXCEPT ![s] = new]
  BY DEF Moves
<1>3. new \in CapSessionRecords /\ new.at = l /\ new.made = capSession[s].made
      /\ new.dropped = capSession[s].dropped
  BY <1>1 DEF CapSessionRecords
<1> HIDE DEF new
<1> QED BY <1>1, <1>2, <1>3 DEF BecomesOnly

\* The claim on the shared limit is granted or refused.
LEMMA ClaimsKeeps ==
  ASSUME CaptureInv, NEW s \in CapSessions, RecordClaims(s)
  PROVE  CaptureInv'
<1> DEFINE k == capHome[s]
<1>1. capSession[s].at = "claim" /\ capSession[s].at # "closed"
  BY DEF RecordClaims
<1>2. /\ k \in CapHosts /\ capSession[s].made \in Nat /\ capSession[s].dropped \in Nat
      /\ Records(capQueue[k]) \in Nat /\ capShared[k].claimed \in Int /\ capShared[k].dropped \in Nat
      /\ CapLimit \in Nat
  BY <1>1, SessionReads
<1>3. \/ capShared[k].claimed >= CapLimit /\ BecomesOnly(s, "idle", capSession[s].dropped + 1)
      \/ ~(capShared[k].claimed >= CapLimit) /\ BecomesOnly(s, "offer", capSession[s].dropped)
  BY DropsFacts, MovesFacts DEF RecordClaims
<1>4. UNCHANGED <<capHome, capMerged, capQueue, capThread, capTask, capBatches, capLink, capWriter>>
  BY DEF RecordClaims
<1>5. /\ capShared' \in [CapHosts -> [claimed : Int, dropped : Nat]]
      /\ capShared'[k].claimed = capShared[k].claimed + 1
      /\ capShared'[k].dropped = capShared[k].dropped
      /\ \A h \in CapHosts \ {k} : capShared'[h] = capShared[h]
  <2>1. capShared' = [capShared EXCEPT ![k] = [capShared[k] EXCEPT !.claimed = capShared[k].claimed + 1]]
    BY DEF RecordClaims
  <2>2. capShared \in [CapHosts -> [claimed : Int, dropped : Nat]]
    BY DEF CaptureInv, CaptureTypes
  <2> QED BY <1>2, <2>1, <2>2
<1>6. CaptureTypes'
  BY <1>3, <1>4, <1>5 DEF CaptureInv, CaptureTypes, BecomesOnly
<1>7. SessionMoves(s, k)
  BY <1>1, <1>3, <1>4, <1>5 DEF SessionMoves, BecomesOnly
<1>8. SessionPays(s, k)
  <2>1. PutBy[s] = capSession[s].made - capSession[s].dropped - 1
    <3>1. Weight(capSession[s].at, {"claim", "offer"}) = 1
      BY <1>1 DEF Weight
    <3> QED BY <3>1, SessionTerms
  <2>2. PutBy'[s] = capSession'[s].made - capSession'[s].dropped
                      - Weight(capSession'[s].at, {"claim", "offer"})
    BY SessionTerms
  <2>3. PutBy'[s] = PutBy[s]
    <3>1. CASE BecomesOnly(s, "idle", capSession[s].dropped + 1)
      <4>1. Weight(capSession'[s].at, {"claim", "offer"}) = 0
        BY <3>1 DEF Weight, BecomesOnly
      <4> QED BY <1>2, <2>1, <2>2, <3>1, <4>1 DEF BecomesOnly
    <3>2. CASE BecomesOnly(s, "offer", capSession[s].dropped)
      <4>1. Weight(capSession'[s].at, {"claim", "offer"}) = 1
        BY <3>2 DEF Weight, BecomesOnly
      <4> QED BY <1>2, <2>1, <2>2, <3>2, <4>1 DEF BecomesOnly
    <3> QED BY <1>3, <3>1, <3>2
  <2>4. GivenUpBy'[s] = 0 /\ GivenUpBy[s] = 0
    BY <1>1, <1>3, SessionTerms DEF BecomesOnly
  <2>5. PutBy[s] \in Int
    BY <1>2, <2>1
  <2> QED BY <1>2, <1>4, <1>5, <2>3, <2>4, <2>5 DEF SessionPays
<1>9. Limited => SessionClaims(s, k)
  <2>1. OfferedTo(k)[s] = 0
    BY <1>1, SessionTerms
  <2>2. OfferedTo(k)'[s] = IF capSession'[s].at = "offer" THEN 1 ELSE 0
    BY <1>4, SessionTerms
  <2>3. capQueue' = capQueue
    BY <1>4
  <2>4. CASE capShared[k].claimed >= CapLimit
    <3>1. OfferedTo(k)'[s] = 0
      BY <1>3, <2>2, <2>4 DEF BecomesOnly
    <3> QED BY <1>2, <1>5, <2>1, <2>3, <3>1 DEF SessionClaims
  <2>5. CASE ~(capShared[k].claimed >= CapLimit)
    <3>1. OfferedTo(k)'[s] = 1
      BY <1>3, <2>2, <2>5 DEF BecomesOnly
    <3> QED BY <1>2, <1>5, <2>1, <2>3, <2>5, <3>1 DEF SessionClaims
  <2> QED BY <2>4, <2>5
<1> HIDE DEF k
<1> QED BY <1>6, <1>7, <1>8, <1>9, SessionStep

\* try_send: the record is queued.
LEMMA QueuedKeeps ==
  ASSUME CaptureInv, NEW s \in CapSessions, RecordQueued(s)
  PROVE  CaptureInv'
<1> DEFINE k == capHome[s]
<1>1. capSession[s].at = "offer" /\ capSession[s].at # "closed"
  BY DEF RecordQueued
<1>2. /\ k \in CapHosts /\ capSession[s].made \in Nat /\ capSession[s].dropped \in Nat
      /\ Records(capQueue[k]) \in Nat /\ capShared[k].claimed \in Int /\ capShared[k].dropped \in Nat
      /\ Append(capQueue[k], "record") \in Seq({"record", "finish"})
      /\ Records(Append(capQueue[k], "record")) = Records(capQueue[k]) + 1
  BY <1>1, SessionReads
<1>3. BecomesOnly(s, "idle", capSession[s].dropped)
  BY MovesFacts DEF RecordQueued
<1>4. UNCHANGED <<capHome, capMerged, capShared, capThread, capTask, capBatches, capLink, capWriter>>
  BY DEF RecordQueued
<1>5. /\ capQueue' \in [CapHosts -> Seq({"record", "finish"})]
      /\ capQueue'[k] = Append(capQueue[k], "record")
      /\ \A h \in CapHosts \ {k} : capQueue'[h] = capQueue[h]
  <2>1. capQueue' = [capQueue EXCEPT ![k] = Append(capQueue[k], "record")]
    BY DEF RecordQueued
  <2>2. capQueue \in [CapHosts -> Seq({"record", "finish"})]
    BY DEF CaptureInv, CaptureTypes
  <2> QED BY <1>2, <2>1, <2>2
<1>6. CaptureTypes'
  BY <1>3, <1>4, <1>5 DEF CaptureInv, CaptureTypes, BecomesOnly
<1>7. SessionMoves(s, k)
  BY <1>1, <1>3, <1>4, <1>5 DEF SessionMoves, BecomesOnly
<1>8. SessionPays(s, k)
  <2>1. /\ Weight(capSession[s].at, {"claim", "offer"}) = 1
        /\ Weight(capSession'[s].at, {"claim", "offer"}) = 0
    BY <1>1, <1>3 DEF Weight, BecomesOnly
  <2>2. PutBy[s] = capSession[s].made - capSession[s].dropped - 1
    BY <2>1, SessionTerms
  <2>3. PutBy'[s] = capSession'[s].made - capSession'[s].dropped - 0
    BY <2>1, SessionTerms
  <2>4. GivenUpBy'[s] = 0 /\ GivenUpBy[s] = 0
    BY <1>1, <1>3, SessionTerms DEF BecomesOnly
  <2>5. PutBy'[s] - PutBy[s] = 1
    BY <1>2, <1>3, <2>2, <2>3 DEF BecomesOnly
  <2> QED BY <1>2, <1>4, <1>5, <2>4, <2>5 DEF SessionPays
<1>9. Limited => SessionClaims(s, k)
  <2>1. OfferedTo(k)[s] = 1
    BY <1>1, SessionTerms
  <2>2. OfferedTo(k)'[s] = 0
    BY <1>3, <1>4, SessionTerms DEF BecomesOnly
  <2> QED BY <1>2, <1>4, <1>5, <2>1, <2>2 DEF SessionClaims
<1> HIDE DEF k
<1> QED BY <1>6, <1>7, <1>8, <1>9, SessionStep

\* try_send: the queue is full, the record dropped and its claim returned.
LEMMA RefusedKeeps ==
  ASSUME CaptureInv, NEW s \in CapSessions, RecordRefused(s)
  PROVE  CaptureInv'
<1> DEFINE k == capHome[s]
           n == IF Limited THEN capShared[k].claimed - 1 ELSE capShared[k].claimed
<1>1. capSession[s].at = "offer" /\ capSession[s].at # "closed"
  BY DEF RecordRefused
<1>2. /\ k \in CapHosts /\ capSession[s].made \in Nat /\ capSession[s].dropped \in Nat
      /\ Records(capQueue[k]) \in Nat /\ capShared[k].claimed \in Int /\ capShared[k].dropped \in Nat
  BY <1>1, SessionReads
<1>3. BecomesOnly(s, "idle", capSession[s].dropped + 1)
  BY DropsFacts DEF RecordRefused
<1>4. UNCHANGED <<capHome, capMerged, capQueue, capThread, capTask, capBatches, capLink, capWriter>>
  BY DEF RecordRefused
<1>5. /\ capShared' \in [CapHosts -> [claimed : Int, dropped : Nat]]
      /\ capShared'[k].claimed = n
      /\ capShared'[k].dropped = capShared[k].dropped
      /\ \A h \in CapHosts \ {k} : capShared'[h] = capShared[h]
  <2>1. capShared' = [capShared EXCEPT ![k] = [capShared[k] EXCEPT !.claimed = n]]
    BY DEF RecordRefused
  <2>2. capShared \in [CapHosts -> [claimed : Int, dropped : Nat]]
    BY DEF CaptureInv, CaptureTypes
  <2>3. n \in Int
    BY <1>2
  <2> HIDE DEF n
  <2> QED BY <1>2, <2>1, <2>2, <2>3
<1>6. CaptureTypes'
  BY <1>3, <1>4, <1>5 DEF CaptureInv, CaptureTypes, BecomesOnly
<1>7. SessionMoves(s, k)
  BY <1>1, <1>3, <1>4, <1>5 DEF SessionMoves, BecomesOnly
<1>8. SessionPays(s, k)
  <2>1. /\ Weight(capSession[s].at, {"claim", "offer"}) = 1
        /\ Weight(capSession'[s].at, {"claim", "offer"}) = 0
    BY <1>1, <1>3 DEF Weight, BecomesOnly
  <2>2. PutBy[s] = capSession[s].made - capSession[s].dropped - 1
    BY <2>1, SessionTerms
  <2>3. PutBy'[s] = capSession'[s].made - capSession'[s].dropped - 0
    BY <2>1, SessionTerms
  <2>4. GivenUpBy'[s] = 0 /\ GivenUpBy[s] = 0
    BY <1>1, <1>3, SessionTerms DEF BecomesOnly
  <2>5. PutBy'[s] - PutBy[s] = 0
    BY <1>2, <1>3, <2>2, <2>3 DEF BecomesOnly
  <2> QED BY <1>2, <1>4, <1>5, <2>4, <2>5 DEF SessionPays
<1>9. Limited => SessionClaims(s, k)
  <2> SUFFICES ASSUME Limited PROVE SessionClaims(s, k)
    OBVIOUS
  <2>1. OfferedTo(k)[s] = 1
    BY <1>1, SessionTerms
  <2>2. OfferedTo(k)'[s] = 0
    BY <1>3, <1>4, SessionTerms DEF BecomesOnly
  <2>3. capShared'[k].claimed = capShared[k].claimed - 1
    BY <1>5
  <2> QED BY <1>2, <1>4, <2>1, <2>2, <2>3 DEF SessionClaims
<1> HIDE DEF k
<1> QED BY <1>6, <1>7, <1>8, <1>9, SessionStep

\* A session that ends adds its drops to the shared count.
LEMMA DroppedKeeps ==
  ASSUME CaptureInv, NEW s \in CapSessions, StreamDropped(s)
  PROVE  CaptureInv'
<1> DEFINE k == capHome[s]
<1>1. capSession[s].at \in {"new", "idle"} /\ capSession[s].at # "closed"
  BY DEF StreamDropped
<1>2. /\ k \in CapHosts /\ capSession[s].made \in Nat /\ capSession[s].dropped \in Nat
      /\ Records(capQueue[k]) \in Nat /\ capShared[k].claimed \in Int /\ capShared[k].dropped \in Nat
  BY <1>1, SessionReads
<1>3. BecomesOnly(s, "closed", capSession[s].dropped)
  BY MovesFacts DEF StreamDropped
<1>4. UNCHANGED <<capHome, capMerged, capQueue, capThread, capTask, capBatches, capLink, capWriter>>
  BY DEF StreamDropped
<1>5. /\ capShared' \in [CapHosts -> [claimed : Int, dropped : Nat]]
      /\ capShared'[k].claimed = capShared[k].claimed
      /\ capShared'[k].dropped = capShared[k].dropped + capSession[s].dropped
      /\ \A h \in CapHosts \ {k} : capShared'[h] = capShared[h]
  <2>1. capShared' = [capShared EXCEPT ![k] =
                        [capShared[k] EXCEPT !.dropped = capShared[k].dropped + capSession[s].dropped]]
    BY DEF StreamDropped
  <2>2. capShared \in [CapHosts -> [claimed : Int, dropped : Nat]]
    BY DEF CaptureInv, CaptureTypes
  <2> QED BY <1>2, <2>1, <2>2
<1>6. CaptureTypes'
  BY <1>3, <1>4, <1>5 DEF CaptureInv, CaptureTypes, BecomesOnly
<1>7. SessionMoves(s, k)
  BY <1>1, <1>3, <1>4, <1>5 DEF SessionMoves, BecomesOnly
<1>8. SessionPays(s, k)
  <2>1. /\ Weight(capSession[s].at, {"claim", "offer"}) = 0
        /\ Weight(capSession'[s].at, {"claim", "offer"}) = 0
    BY <1>1, <1>3 DEF Weight, BecomesOnly
  <2>2. PutBy[s] = capSession[s].made - capSession[s].dropped - 0
    BY <2>1, SessionTerms
  <2>3. PutBy'[s] = capSession'[s].made - capSession'[s].dropped - 0
    BY <2>1, SessionTerms
  <2>4. GivenUpBy'[s] = capSession[s].dropped /\ GivenUpBy[s] = 0
    BY <1>1, <1>3, SessionTerms DEF BecomesOnly
  <2>5. PutBy'[s] - PutBy[s] = 0
    BY <1>2, <1>3, <2>2, <2>3 DEF BecomesOnly
  <2> QED BY <1>2, <1>4, <1>5, <2>4, <2>5 DEF SessionPays
<1>9. Limited => SessionClaims(s, k)
  <2>1. OfferedTo(k)[s] = 0
    BY <1>1, SessionTerms
  <2>2. OfferedTo(k)'[s] = 0
    BY <1>3, <1>4, SessionTerms DEF BecomesOnly
  <2> QED BY <1>2, <1>4, <1>5, <2>1, <2>2 DEF SessionClaims
<1> HIDE DEF k
<1> QED BY <1>6, <1>7, <1>8, <1>9, SessionStep

\* Every step of the sessions keeps the invariant.
LEMMA SessionsKeep == CaptureInv /\ CaptureSessions => CaptureInv'
BY BeginsKeeps, ClaimsKeeps, QueuedKeeps, RefusedKeeps, DroppedKeeps DEF CaptureSessions

----------------------------------------------------------------------------
\* A step of process k that neither its sessions nor the coordinator take.
HostMoves(k) ==
  /\ UNCHANGED <<capHome, capMerged, capSession, capShared, capWriter>>
  /\ \A h \in CapHosts \ {k} :
       /\ capQueue'[h] = capQueue[h] /\ capThread'[h] = capThread[h] /\ capTask'[h] = capTask[h]
       /\ capBatches'[h] = capBatches[h] /\ capLink'[h] = capLink[h]

\* The records of process k that have not reached the coordinator.
CarriedFrom(k) ==
  Records(capQueue[k]) + capThread[k].batch + capThread[k].written + capThread[k].lost
    + SeqSum(capBatches[k]) + SeqSum(capLink[k])
\* The claims of process k in use outside its sessions.
HeldBy(k) == Records(capQueue[k]) + capThread[k].written + capThread[k].lost

\* A step of process k loses no record and takes no claim into use.
HostKeeps(k) ==
  /\ capWriter.cut = {} => CarriedFrom(k)' = CarriedFrom(k)
  /\ capWriter.cut = {} /\ k \in capWriter.ended => capThread'[k].lost = capThread[k].lost
  /\ ~capMerged => HeldBy(k)' <= HeldBy(k)

\* A step inside process k that keeps what it carries keeps the invariant.
LEMMA HostLocal ==
  ASSUME CaptureInv, NEW k \in CapHosts, HostMoves(k), CaptureTypes',
         HostOrder(k)', HostIdle(k)', HostKeeps(k)
  PROVE  CaptureInv'
<1>1. /\ \A h \in CapHosts \ {k} : SameHost(h)
      /\ capSession' = capSession /\ capHome' = capHome /\ capMerged' = capMerged
      /\ capShared' = capShared /\ capWriter' = capWriter
  BY DEF HostMoves, SameHost
<1>2. WriterIdle'
  BY <1>1 DEF CaptureInv, WriterIdle
<1>3. CarriedBy[k] = CarriedFrom(k) /\ CarriedBy'[k] = CarriedFrom(k)'
  BY DEF CarriedBy, CarriedFrom
<1>4. Taken' = Taken
  BY <1>1 DEF Taken
<1>5. capWriter.cut = {} => ToldBy'[k] = ToldBy[k]
  BY <1>1 DEF ToldBy, HostKeeps
<1>6. ToldBy[k] \in Int /\ capWriter.dropped \in Int
  <2>1. CaptureTypes /\ HostsOrder
    BY DEF CaptureInv, HostsOrder
  <2>2. ToldBy[k] \in Int
    BY <2>1, BookTypes DEF BookNumbers
  <2>3. capWriter.dropped \in Int
    BY <2>1 DEF CaptureTypes
  <2> QED BY <2>2, <2>3
<1>7. capWriter.cut = {} => /\ CarriedBy'[k] + Taken' = CarriedBy[k] + Taken
                            /\ capWriter'.dropped - capWriter.dropped = ToldBy'[k] - ToldBy[k]
  BY <1>1, <1>3, <1>4, <1>5, <1>6 DEF HostKeeps
<1>8. capMerged /\ Limited => capWriter'.written + capWriter'.lost <= CapLimit
  BY <1>1 DEF CaptureInv, CaptureLimit
<1>9. ~capMerged => Records(capQueue'[k]) + capThread'[k].written + capThread'[k].lost
                      <= Records(capQueue[k]) + capThread[k].written + capThread[k].lost
  BY DEF HeldBy, HostKeeps
<1> QED BY <1>1, <1>2, <1>7, <1>8, <1>9, HostStep

\* What the invariant says of one process.
LEMMA HostReads ==
  ASSUME CaptureInv, NEW k \in CapHosts
  PROVE  /\ HostOrder(k) /\ HostIdle(k)
         /\ capQueue[k] \in Seq({"record", "finish"}) /\ capThread[k] \in ThreadRecords
         /\ capTask[k] \in {"run", "finish", "rest", "over"}
         /\ capBatches[k] \in Seq(Nat \ {0}) /\ capBatches[k] \in Seq(Nat) /\ capLink[k] \in Seq(Nat)
         /\ capThread[k].at \in {"start", "run", "flush", "done"} /\ capThread[k].failed \in BOOLEAN
         /\ capThread[k].batch \in Nat /\ capThread[k].written \in Nat /\ capThread[k].lost \in Nat
         /\ Records(capQueue[k]) \in Nat /\ SeqSum(capBatches[k]) \in Nat /\ SeqSum(capLink[k]) \in Nat
         /\ CarriedFrom(k) \in Nat /\ HeldBy(k) \in Nat
<1>1. HostOrder(k) /\ HostIdle(k) /\ CaptureTypes /\ HostsOrder
  BY DEF CaptureInv, HostsOrder
<1>2. /\ capQueue[k] \in Seq({"record", "finish"}) /\ capThread[k] \in ThreadRecords
      /\ capTask[k] \in {"run", "finish", "rest", "over"}
      /\ capBatches[k] \in Seq(Nat \ {0}) /\ capLink[k] \in Seq(Nat)
  BY <1>1 DEF CaptureTypes
<1>3. capBatches[k] \in Seq(Nat)
  BY <1>2, SeqMonotonic
<1>4. /\ capThread[k].at \in {"start", "run", "flush", "done"} /\ capThread[k].failed \in BOOLEAN
      /\ capThread[k].batch \in Nat /\ capThread[k].written \in Nat /\ capThread[k].lost \in Nat
  BY <1>2 DEF ThreadRecords
<1>5. Records(capQueue[k]) \in Nat /\ SeqSum(capBatches[k]) \in Nat /\ SeqSum(capLink[k]) \in Nat
  BY <1>1, BookTypes DEF BookNumbers
<1>6. CarriedFrom(k) \in Nat /\ HeldBy(k) \in Nat
  BY <1>4, <1>5 DEF CarriedFrom, HeldBy
<1> QED BY <1>1, <1>2, <1>3, <1>4, <1>5, <1>6

\* The control task goes to finish() when the sessions are over, or has the
\* summary of a thread that ended.
LEMMA FinishKeeps ==
  ASSUME CaptureInv, NEW k \in CapHosts, QueueFinish(k) \/ SummaryMade(k)
  PROVE  CaptureInv'
<1>1. UNCHANGED <<capHome, capMerged, capSession, capShared, capQueue, capThread,
                  capBatches, capLink, capWriter>>
  BY DEF QueueFinish, SummaryMade
<1>2. \/ /\ k \in HomeHosts /\ SessionsOver(k) /\ capTask[k] = "run"
         /\ capTask' = [capTask EXCEPT ![k] = "finish"]
      \/ /\ ~capMerged /\ capTask[k] = "rest" /\ capThread[k].at = "done"
         /\ capTask' = [capTask EXCEPT ![k] = "over"]
  BY DEF QueueFinish, SummaryMade
<1>3. capTask \in [CapHosts -> {"run", "finish", "rest", "over"}]
  BY DEF CaptureInv, CaptureTypes
<1>4. capTask' \in [CapHosts -> {"run", "finish", "rest", "over"}]
  BY <1>2, <1>3
<1>5. CaptureTypes'
  BY <1>1, <1>4 DEF CaptureInv, CaptureTypes
<1>6. HostMoves(k)
  BY <1>1, <1>2, <1>3 DEF HostMoves
<1>7. HostOrder(k) /\ HostIdle(k)
  BY HostReads
<1>8. HomeHosts' = HomeHosts /\ (SessionsOver(k)' <=> SessionsOver(k))
  BY <1>1 DEF HomeHosts, SessionsOver
<1>9. \/ capTask[k] = "run" /\ capTask'[k] = "finish" /\ k \in HomeHosts /\ SessionsOver(k)
      \/ ~capMerged /\ capTask[k] = "rest" /\ capTask'[k] = "over" /\ capThread[k].at = "done"
  BY <1>2, <1>3
<1>10. HostOrder(k)'
  <2>1. CASE capTask[k] = "run" /\ capTask'[k] = "finish" /\ k \in HomeHosts /\ SessionsOver(k)
    BY <1>1, <1>7, <1>8, <2>1 DEF HostOrder
  <2>2. CASE ~capMerged /\ capTask[k] = "rest" /\ capTask'[k] = "over" /\ capThread[k].at = "done"
    BY <1>1, <1>7, <1>8, <2>2 DEF HostOrder, HostIdle
  <2> QED BY <1>9, <2>1, <2>2
<1>11. HostIdle(k)'
  BY <1>1, <1>7, <1>8 DEF HostIdle
<1>12. CarriedFrom(k)' = CarriedFrom(k) /\ HeldBy(k)' = HeldBy(k) /\ capThread' = capThread
  BY <1>1 DEF CarriedFrom, HeldBy
<1>13. HeldBy(k) \in Nat
  BY HostReads
<1> QED BY <1>5, <1>6, <1>10, <1>11, <1>12, <1>13, HostLocal DEF HostKeeps

\* finish() has queued its message behind the records.
LEMMA FinishQueuedKeeps ==
  ASSUME CaptureInv, NEW k \in CapHosts, FinishQueued(k)
  PROVE  CaptureInv'
<1> DEFINE q == capQueue[k]
           r == Append(capQueue[k], "finish")
<1>1. /\ UNCHANGED <<capHome, capMerged, capSession, capShared, capThread, capBatches, capLink, capWriter>>
      /\ capTask[k] = "finish"
  BY DEF FinishQueued
<1>2. /\ capTask \in [CapHosts -> {"run", "finish", "rest", "over"}]
      /\ capQueue \in [CapHosts -> Seq({"record", "finish"})]
  BY DEF CaptureInv, CaptureTypes
<1>3. HostOrder(k) /\ HostIdle(k) /\ q \in Seq({"record", "finish"}) /\ CarriedFrom(k) \in Nat
      /\ HeldBy(k) \in Nat
  BY HostReads
<1>4. \A i \in 1 .. Len(q) : q[i] # "finish"
  BY <1>1, <1>3 DEF HostOrder
<1>5. /\ r \in Seq({"record", "finish"}) /\ Len(r) = Len(q) + 1 /\ Len(q) \in Nat
      /\ (\A i \in 1 .. Len(q) : r[i] # "finish") /\ Records(r) = Records(q)
  BY <1>3, <1>4, RecordsAppend
<1>6. /\ capQueue' = [capQueue EXCEPT ![k] = r]
      /\ capTask' = [capTask EXCEPT ![k] = "rest"]
  BY DEF FinishQueued
<1> HIDE DEF r
<1>7. /\ capQueue' \in [CapHosts -> Seq({"record", "finish"})]
      /\ capTask' \in [CapHosts -> {"run", "finish", "rest", "over"}]
      /\ capQueue'[k] = r /\ capTask'[k] = "rest"
      /\ \A h \in CapHosts \ {k} : capQueue'[h] = capQueue[h] /\ capTask'[h] = capTask[h]
  BY <1>2, <1>5, <1>6
<1>8. CaptureTypes'
  BY <1>1, <1>7 DEF CaptureInv, CaptureTypes
<1>9. HostMoves(k)
  BY <1>1, <1>7 DEF HostMoves
<1>10. HomeHosts' = HomeHosts /\ (SessionsOver(k)' <=> SessionsOver(k))
  BY <1>1 DEF HomeHosts, SessionsOver
<1>11. HostOrder(k)'
  <2>1. \A i \in 1 .. Len(r) : r[i] = "finish" => i = Len(r)
    BY <1>5
  <2>2. /\ capThread[k].at \in {"start", "run"} /\ capTask[k] # "run" /\ k \in HomeHosts
        /\ SessionsOver(k)
    BY <1>1, <1>3 DEF HostOrder
  <2> QED BY <1>1, <1>3, <1>7, <1>10, <2>1, <2>2 DEF HostOrder
<1>12. HostIdle(k)'
  <2>1. k \in HomeHosts
    BY <1>1, <1>3 DEF HostOrder
  <2> QED BY <1>1, <1>3, <1>10, <2>1 DEF HostIdle
<1>13. CarriedFrom(k)' = CarriedFrom(k) /\ HeldBy(k)' = HeldBy(k) /\ capThread' = capThread
  BY <1>1, <1>5, <1>7 DEF CarriedFrom, HeldBy
<1> QED BY <1>3, <1>8, <1>9, <1>11, <1>12, <1>13, HostLocal DEF HostKeeps

\* A step of the thread that changes only where it is keeps the invariant.
LEMMA ThreadStepKeeps ==
  ASSUME CaptureInv, NEW k \in CapHosts, WriterHeader(k) \/ ForwardOver(k)
  PROVE  CaptureInv'
<1>1. /\ UNCHANGED <<capHome, capMerged, capSession, capShared, capQueue, capTask,
                     capBatches, capLink, capWriter>>
  BY DEF WriterHeader, ForwardOver
<1>2. capThread \in [CapHosts -> ThreadRecords]
  BY DEF CaptureInv, CaptureTypes
<1>3. PICK at \in {"run", "done"}, failed \in BOOLEAN :
        /\ capThread' = [capThread EXCEPT ![k] = [capThread[k] EXCEPT !.at = at, !.failed = failed]]
        /\ \/ at = "run" /\ capThread[k].at = "start" /\ ~capMerged
           \/ at = "done" /\ capThread[k].at = "flush" /\ capThread[k].batch = 0
  <2>1. CASE WriterHeader(k)
    BY <2>1 DEF WriterHeader
  <2>2. CASE ForwardOver(k)
    <3>1. capThread[k] \in ThreadRecords
      BY <1>2
    <3>2. /\ capThread[k].failed \in BOOLEAN
          /\ [capThread[k] EXCEPT !.at = "done"]
               = [capThread[k] EXCEPT !.at = "done", !.failed = capThread[k].failed]
      BY <3>1 DEF ThreadRecords
    <3> QED BY <2>2, <3>2 DEF ForwardOver
  <2> QED BY <2>1, <2>2
<1>4. HostOrder(k) /\ HostIdle(k) /\ capThread[k] \in ThreadRecords /\ HeldBy(k) \in Nat
  BY HostReads
<1>5. /\ capThread' \in [CapHosts -> ThreadRecords]
      /\ capThread'[k].at = at /\ capThread'[k].batch = capThread[k].batch
      /\ capThread'[k].written = capThread[k].written /\ capThread'[k].lost = capThread[k].lost
      /\ \A h \in CapHosts \ {k} : capThread'[h] = capThread[h]
  <2> DEFINE new == [capThread[k] EXCEPT !.at = at, !.failed = failed]
  <2>1. /\ new \in ThreadRecords /\ new.at = at /\ new.batch = capThread[k].batch
        /\ new.written = capThread[k].written /\ new.lost = capThread[k].lost
    BY <1>3, <1>4 DEF ThreadRecords
  <2> HIDE DEF new
  <2>2. capThread' = [capThread EXCEPT ![k] = new]
    BY <1>3 DEF new
  <2> QED BY <1>2, <2>1, <2>2
<1>6. CaptureTypes'
  BY <1>1, <1>5 DEF CaptureInv, CaptureTypes
<1>7. HostMoves(k)
  BY <1>1, <1>5 DEF HostMoves
<1>8. HomeHosts' = HomeHosts /\ (SessionsOver(k)' <=> SessionsOver(k))
  BY <1>1 DEF HomeHosts, SessionsOver
<1>9. HostOrder(k)'
  <2>1. CASE at = "run" /\ capThread[k].at = "start" /\ ~capMerged
    BY <1>1, <1>4, <1>5, <1>8, <2>1 DEF HostOrder
  <2>2. CASE at = "done" /\ capThread[k].at = "flush" /\ capThread[k].batch = 0
    BY <1>1, <1>4, <1>5, <1>8, <2>2 DEF HostOrder
  <2> QED BY <1>3, <2>1, <2>2
<1>10. HostIdle(k)'
  BY <1>1, <1>4, <1>5, <1>8 DEF HostIdle
<1>11. CarriedFrom(k)' = CarriedFrom(k) /\ HeldBy(k)' = HeldBy(k)
  BY <1>1, <1>5 DEF CarriedFrom, HeldBy
<1> QED BY <1>4, <1>5, <1>6, <1>7, <1>9, <1>10, <1>11, HostLocal DEF HostKeeps

\* What the thread of process k does with the message it takes.
ThreadTakes(k) ==
  LET old == capThread[k]
      new == capThread'[k]
  IN IF Head(capQueue[k]) = "finish"
     THEN /\ new.at = IF capMerged THEN "flush" ELSE "done"
          /\ new.batch = old.batch /\ new.written = old.written /\ new.lost = old.lost
     ELSE /\ new.at = old.at
          /\ \/ capMerged /\ new.batch = old.batch + 1 /\ new.written = old.written /\ new.lost = old.lost
             \/ ~capMerged /\ new.batch = old.batch /\ new.written = old.written + 1 /\ new.lost = old.lost
             \/ ~capMerged /\ new.batch = old.batch /\ new.written = old.written /\ new.lost = old.lost + 1

\* The writer thread of a single machine writes a record or ends.
LEMMA WriterTakes ==
  ASSUME CaptureInv, NEW k \in CapHosts, WriterRecord(k)
  PROVE  /\ ThreadTakes(k) /\ capThread' \in [CapHosts -> ThreadRecords]
         /\ \A h \in CapHosts \ {k} : capThread'[h] = capThread[h]
<1>1. capThread \in [CapHosts -> ThreadRecords] /\ capThread[k] \in ThreadRecords
  BY DEF CaptureInv, CaptureTypes
<1>2. CASE Head(capQueue[k]) = "finish"
  <2> DEFINE new == [capThread[k] EXCEPT !.at = "done"]
  <2>1. capThread' = [capThread EXCEPT ![k] = new]
    BY <1>2 DEF WriterRecord
  <2>2. /\ new \in ThreadRecords /\ new.at = "done" /\ new.batch = capThread[k].batch
        /\ new.written = capThread[k].written /\ new.lost = capThread[k].lost
    BY <1>1 DEF ThreadRecords
  <2> HIDE DEF new
  <2>3. capThread'[k] = new /\ ~capMerged
    BY <1>1, <2>1 DEF WriterRecord
  <2> QED BY <1>1, <1>2, <2>1, <2>2, <2>3 DEF ThreadTakes
<1>3. CASE Head(capQueue[k]) # "finish"
  <2>1. PICK out \in Written(capThread[k]) : capThread' = [capThread EXCEPT ![k] = out]
    BY <1>3 DEF WriterRecord
  <2>2. \/ out = [capThread[k] EXCEPT !.lost = capThread[k].lost + 1, !.failed = TRUE]
        \/ out = [capThread[k] EXCEPT !.written = capThread[k].written + 1]
    BY <2>1 DEF Written
  <2>3. /\ out \in ThreadRecords /\ out.at = capThread[k].at /\ out.batch = capThread[k].batch
        /\ \/ out.written = capThread[k].written + 1 /\ out.lost = capThread[k].lost
           \/ out.written = capThread[k].written /\ out.lost = capThread[k].lost + 1
    <3>1. CASE out = [capThread[k] EXCEPT !.lost = capThread[k].lost + 1, !.failed = TRUE]
      <4> DEFINE t == [capThread[k] EXCEPT !.lost = capThread[k].lost + 1]
      <4>1. /\ t \in ThreadRecords /\ t.at = capThread[k].at /\ t.batch = capThread[k].batch
            /\ t.written = capThread[k].written /\ t.lost = capThread[k].lost + 1
        BY <1>1 DEF ThreadRecords
      <4>2. out = [t EXCEPT !.failed = TRUE]
        BY <3>1
      <4> HIDE DEF t
      <4> QED BY <4>1, <4>2 DEF ThreadRecords
    <3>2. CASE out = [capThread[k] EXCEPT !.written = capThread[k].written + 1]
      BY <1>1, <3>2 DEF ThreadRecords
    <3> QED BY <2>2, <3>1, <3>2
  <2>4. capThread'[k] = out /\ ~capMerged
    BY <1>1, <2>1 DEF WriterRecord
  <2> QED BY <1>1, <1>3, <2>1, <2>3, <2>4 DEF ThreadTakes
<1> QED BY <1>2, <1>3

\* The forwarding thread of an agent takes a record into its batch.
LEMMA ForwarderTakes ==
  ASSUME CaptureInv, NEW k \in CapHosts, ForwardRecord(k)
  PROVE  /\ ThreadTakes(k) /\ capThread' \in [CapHosts -> ThreadRecords]
         /\ \A h \in CapHosts \ {k} : capThread'[h] = capThread[h]
<1>1. capThread \in [CapHosts -> ThreadRecords] /\ capThread[k] \in ThreadRecords /\ capMerged
  BY DEF CaptureInv, CaptureTypes, ForwardRecord
<1>2. CASE Head(capQueue[k]) = "finish"
  <2> DEFINE new == [capThread[k] EXCEPT !.at = "flush"]
  <2>1. capThread' = [capThread EXCEPT ![k] = new]
    BY <1>2 DEF ForwardRecord
  <2>2. /\ new \in ThreadRecords /\ new.at = "flush" /\ new.batch = capThread[k].batch
        /\ new.written = capThread[k].written /\ new.lost = capThread[k].lost
    BY <1>1 DEF ThreadRecords
  <2> HIDE DEF new
  <2>3. capThread'[k] = new
    BY <1>1, <2>1
  <2> QED BY <1>1, <1>2, <2>1, <2>2, <2>3 DEF ThreadTakes
<1>3. CASE Head(capQueue[k]) # "finish"
  <2> DEFINE new == [capThread[k] EXCEPT !.batch = capThread[k].batch + 1]
  <2>1. capThread' = [capThread EXCEPT ![k] = new]
    BY <1>3 DEF ForwardRecord
  <2>2. /\ new \in ThreadRecords /\ new.at = capThread[k].at /\ new.batch = capThread[k].batch + 1
        /\ new.written = capThread[k].written /\ new.lost = capThread[k].lost
    BY <1>1 DEF ThreadRecords
  <2> HIDE DEF new
  <2>3. capThread'[k] = new
    BY <1>1, <2>1
  <2> QED BY <1>1, <1>3, <2>1, <2>2, <2>3 DEF ThreadTakes
<1> QED BY <1>2, <1>3

\* Either thread keeps the invariant when it takes a message.
LEMMA TakesKeeps ==
  ASSUME CaptureInv, NEW k \in CapHosts, WriterRecord(k) \/ ForwardRecord(k)
  PROVE  CaptureInv'
<1> DEFINE q == capQueue[k]
           r == Tail(capQueue[k])
<1>1. /\ UNCHANGED <<capHome, capMerged, capSession, capShared, capTask, capBatches, capLink, capWriter>>
      /\ capThread[k].at \in {"start", "run"} /\ q # <<>>
      /\ capQueue' = [capQueue EXCEPT ![k] = r]
  BY DEF WriterRecord, ForwardRecord
<1>2. /\ ThreadTakes(k) /\ capThread' \in [CapHosts -> ThreadRecords]
      /\ \A h \in CapHosts \ {k} : capThread'[h] = capThread[h]
  BY WriterTakes, ForwarderTakes
<1>3. /\ HostOrder(k) /\ HostIdle(k) /\ q \in Seq({"record", "finish"}) /\ CarriedFrom(k) \in Nat
      /\ HeldBy(k) \in Nat /\ capTask[k] \in {"run", "finish", "rest", "over"}
  BY HostReads
<1>4. \A i \in 1 .. Len(q) : q[i] = "finish" => i = Len(q) /\ capTask[k] \in {"rest", "over"}
  BY <1>3 DEF HostOrder
<1>5. /\ r \in Seq({"record", "finish"}) /\ Len(r) = Len(q) - 1 /\ Len(q) \in Nat
      /\ \A i \in 1 .. Len(r) : r[i] = q[i + 1]
      /\ Head(q) = "finish" => r = <<>> /\ Records(r) = Records(q)
      /\ Head(q) # "finish" => Records(r) = Records(q) - 1
      /\ Records(q) \in Nat
  BY <1>1, <1>3, <1>4, RecordsFacts, LenProperties
<1>16. Records(q) \in Nat
  BY <1>5
<1>6. Head(q) = "finish" => capTask[k] \in {"rest", "over"}
  <2>1. Head(q) = q[1] /\ 1 \in 1 .. Len(q)
    BY <1>1, <1>3, EmptySeq, LenProperties
  <2> QED BY <1>4, <2>1
<1>7. k \in HomeHosts /\ ~(capTask[k] = "over" /\ k \notin capWriter.cut)
  BY <1>1, <1>3 DEF HostOrder, HostIdle
<1> HIDE DEF r, q
<1>8. /\ capQueue' \in [CapHosts -> Seq({"record", "finish"})] /\ capQueue'[k] = r
      /\ \A h \in CapHosts \ {k} : capQueue'[h] = capQueue[h]
  <2>1. capQueue \in [CapHosts -> Seq({"record", "finish"})]
    BY DEF CaptureInv, CaptureTypes
  <2> QED BY <1>1, <1>5, <2>1
<1>9. CaptureTypes'
  BY <1>1, <1>2, <1>8 DEF CaptureInv, CaptureTypes
<1>10. HostMoves(k)
  BY <1>1, <1>2, <1>8 DEF HostMoves
<1>11. HomeHosts' = HomeHosts /\ (SessionsOver(k)' <=> SessionsOver(k))
  BY <1>1 DEF HomeHosts, SessionsOver
<1>12. HostOrder(k)'
  <2>1. \A i \in 1 .. Len(r) : r[i] = "finish" => i = Len(r) /\ capTask[k] \in {"rest", "over"}
    BY <1>4, <1>5
  <2>2. /\ capTask[k] \in {"run", "finish"} => capThread'[k].at \in {"start", "run"}
        /\ capThread'[k].at \in {"flush", "done"} => r = <<>>
        /\ capThread'[k].at = "done" => capThread'[k].batch = 0
    <3>1. CASE Head(q) = "finish"
      BY <1>2, <1>3, <1>5, <1>6, <3>1 DEF ThreadTakes, HostIdle, q
    <3>2. CASE Head(q) # "finish"
      BY <1>1, <1>2, <3>2 DEF ThreadTakes, q
    <3> QED BY <3>1, <3>2
  <2> QED BY <1>1, <1>3, <1>7, <1>8, <1>11, <2>1, <2>2 DEF HostOrder
<1>13. HostIdle(k)'
  <2>1. /\ capMerged => capThread'[k].written = 0
        /\ ~capMerged => capThread'[k].batch = 0
    BY <1>2, <1>3 DEF ThreadTakes, HostIdle
  <2> QED BY <1>1, <1>3, <1>7, <1>11, <2>1 DEF HostIdle
<1>14. CarriedFrom(k)' = CarriedFrom(k) /\ (~capMerged => HeldBy(k)' <= HeldBy(k))
  <2>1. /\ capThread[k].batch \in Nat /\ capThread[k].written \in Nat /\ capThread[k].lost \in Nat
        /\ SeqSum(capBatches[k]) \in Nat /\ SeqSum(capLink[k]) \in Nat
    BY HostReads
  <2>2. /\ CarriedFrom(k) = Records(q) + capThread[k].batch + capThread[k].written + capThread[k].lost
                          + SeqSum(capBatches[k]) + SeqSum(capLink[k])
        /\ HeldBy(k) = Records(q) + capThread[k].written + capThread[k].lost
    BY DEF CarriedFrom, HeldBy, q
  <2>3. /\ CarriedFrom(k)' = Records(r) + capThread'[k].batch + capThread'[k].written + capThread'[k].lost
                           + SeqSum(capBatches[k]) + SeqSum(capLink[k])
        /\ HeldBy(k)' = Records(r) + capThread'[k].written + capThread'[k].lost
    BY <1>1, <1>8 DEF CarriedFrom, HeldBy
  <2>4. CASE Head(q) = "finish"
    BY <1>2, <1>5, <2>1, <2>2, <2>3, <2>4 DEF ThreadTakes, q
  <2>5. CASE Head(q) # "finish"
    <3>1. Records(r) = Records(q) - 1
      BY <1>5, <2>5
    <3>2. \/ /\ capMerged /\ capThread'[k].batch = capThread[k].batch + 1
             /\ capThread'[k].written = capThread[k].written /\ capThread'[k].lost = capThread[k].lost
          \/ /\ ~capMerged /\ capThread'[k].batch = capThread[k].batch
             /\ \/ capThread'[k].written = capThread[k].written + 1 /\ capThread'[k].lost = capThread[k].lost
                \/ capThread'[k].written = capThread[k].written /\ capThread'[k].lost = capThread[k].lost + 1
      BY <1>2, <2>5 DEF ThreadTakes, q
    <3> DEFINE b == capThread'[k].batch
               w == capThread'[k].written
               l == capThread'[k].lost
               x == SeqSum(capBatches[k])
               y == SeqSum(capLink[k])
    <3>3. /\ CarriedFrom(k)' = Records(r) + b + w + l + x + y /\ HeldBy(k)' = Records(r) + w + l
          /\ x \in Nat /\ y \in Nat
      BY <2>1, <2>3
    <3>4. CASE capMerged
      <4>1. b = capThread[k].batch + 1 /\ w = capThread[k].written /\ l = capThread[k].lost
        BY <3>2, <3>4
      <4> HIDE DEF b, w, l
      <4> QED BY <1>16, <2>1, <2>2, <3>1, <3>3, <3>4, <4>1
    <3>5. CASE ~capMerged
      <4>1. /\ b = capThread[k].batch /\ w \in Nat /\ l \in Nat
            /\ w + l = capThread[k].written + capThread[k].lost + 1
        BY <2>1, <3>2, <3>5
      <4> HIDE DEF b, w, l, x, y
      <4>2. /\ CarriedFrom(k) = Records(q) + capThread[k].batch + capThread[k].written + capThread[k].lost + x + y
        BY <2>2 DEF x, y
      <4> QED BY <1>16, <2>1, <2>2, <3>1, <3>3, <4>1, <4>2
    <3> QED BY <3>4, <3>5
  <2> QED BY <2>4, <2>5
<1>15. capWriter.cut = {} => k \notin capWriter.ended
  BY <1>3, <1>7 DEF HostOrder
<1> QED BY <1>9, <1>10, <1>12, <1>13, <1>14, <1>15, HostLocal DEF HostKeeps

\* The forwarding thread hands its batch over, or loses it.
LEMMA BatchSentKeeps ==
  ASSUME CaptureInv, NEW k \in CapHosts, ForwardBatchSent(k)
  PROVE  CaptureInv'
<1> DEFINE n == capThread[k].batch
<1>1. /\ UNCHANGED <<capHome, capMerged, capSession, capShared, capQueue, capTask, capLink, capWriter>>
      /\ capMerged /\ n > 0
  BY DEF ForwardBatchSent
<1>2. /\ HostOrder(k) /\ HostIdle(k) /\ capThread[k] \in ThreadRecords /\ n \in Nat
      /\ capThread[k].written \in Nat /\ capThread[k].lost \in Nat
      /\ capBatches[k] \in Seq(Nat) /\ capBatches[k] \in Seq(Nat \ {0})
      /\ Records(capQueue[k]) \in Nat /\ SeqSum(capBatches[k]) \in Nat /\ SeqSum(capLink[k]) \in Nat
  BY HostReads
<1>3. capThread \in [CapHosts -> ThreadRecords] /\ capBatches \in [CapHosts -> Seq(Nat \ {0})]
  BY DEF CaptureInv, CaptureTypes
<1>4. \/ /\ capTask[k] # "over"
         /\ capBatches' = [capBatches EXCEPT ![k] = Append(capBatches[k], n)]
         /\ capThread' = [capThread EXCEPT ![k] = [capThread[k] EXCEPT !.batch = 0]]
      \/ /\ capTask[k] = "over" /\ capBatches' = capBatches
         /\ capThread' = [capThread EXCEPT ![k] =
                            [capThread[k] EXCEPT !.lost = capThread[k].lost + n, !.batch = 0]]
  BY DEF ForwardBatchSent
<1>5. PICK l \in {capThread[k].lost, capThread[k].lost + n} :
        /\ capThread' \in [CapHosts -> ThreadRecords] /\ capBatches' \in [CapHosts -> Seq(Nat \ {0})]
        /\ capThread'[k].at = capThread[k].at /\ capThread'[k].batch = 0
        /\ capThread'[k].written = capThread[k].written /\ capThread'[k].lost = l
        /\ \/ /\ capTask[k] # "over" /\ l = capThread[k].lost
              /\ capBatches'[k] = Append(capBatches[k], n)
           \/ capTask[k] = "over" /\ capBatches'[k] = capBatches[k] /\ l = capThread[k].lost + n
        /\ \A h \in CapHosts \ {k} : capThread'[h] = capThread[h] /\ capBatches'[h] = capBatches[h]
  <2>1. CASE capTask[k] # "over"
    <3> DEFINE new == [capThread[k] EXCEPT !.batch = 0]
               sent == Append(capBatches[k], n)
    <3>1. /\ new \in ThreadRecords /\ new.at = capThread[k].at /\ new.batch = 0
          /\ new.written = capThread[k].written /\ new.lost = capThread[k].lost
      BY <1>2 DEF ThreadRecords
    <3>2. sent \in Seq(Nat \ {0})
      BY <1>1, <1>2, AppendProperties
    <3>3. capBatches' = [capBatches EXCEPT ![k] = sent] /\ capThread' = [capThread EXCEPT ![k] = new]
      BY <1>4, <2>1
    <3> HIDE DEF new, sent
    <3>4. /\ capThread' \in [CapHosts -> ThreadRecords] /\ capBatches' \in [CapHosts -> Seq(Nat \ {0})]
          /\ capThread'[k] = new /\ capBatches'[k] = sent
          /\ \A h \in CapHosts \ {k} : capThread'[h] = capThread[h] /\ capBatches'[h] = capBatches[h]
      BY <1>3, <3>1, <3>2, <3>3
    <3> QED BY <2>1, <3>1, <3>4 DEF sent
  <2>2. CASE capTask[k] = "over"
    <3> DEFINE new == [capThread[k] EXCEPT !.lost = capThread[k].lost + n, !.batch = 0]
    <3>1. /\ new \in ThreadRecords /\ new.at = capThread[k].at /\ new.batch = 0
          /\ new.written = capThread[k].written /\ new.lost = capThread[k].lost + n
      <4> DEFINE m == capThread[k].lost + n
                 t == [capThread[k] EXCEPT !.lost = m]
      <4>1. m \in Nat /\ capThread[k] \in ThreadRecords
        BY <1>2
      <4> HIDE DEF m
      <4>2. /\ t \in ThreadRecords /\ t.at = capThread[k].at
            /\ t.written = capThread[k].written /\ t.lost = m
        BY <4>1 DEF ThreadRecords
      <4>3. new = [t EXCEPT !.batch = 0]
        BY DEF m
      <4> HIDE DEF t, new
      <4>4. /\ new \in ThreadRecords /\ new.at = t.at /\ new.batch = 0
            /\ new.written = t.written /\ new.lost = t.lost
        BY <4>2, <4>3 DEF ThreadRecords
      <4> QED BY <4>2, <4>4 DEF m
    <3>3. capBatches' = capBatches /\ capThread' = [capThread EXCEPT ![k] = new]
      BY <1>4, <2>2
    <3> HIDE DEF new
    <3>4. /\ capThread' \in [CapHosts -> ThreadRecords] /\ capBatches' \in [CapHosts -> Seq(Nat \ {0})]
          /\ capThread'[k] = new /\ capBatches'[k] = capBatches[k]
          /\ \A h \in CapHosts \ {k} : capThread'[h] = capThread[h] /\ capBatches'[h] = capBatches[h]
      BY <1>3, <3>1, <3>3
    <3> QED BY <2>2, <3>1, <3>4
  <2> QED BY <2>1, <2>2
<1>6. CaptureTypes'
  BY <1>1, <1>5 DEF CaptureInv, CaptureTypes
<1>7. HostMoves(k)
  BY <1>1, <1>5 DEF HostMoves
<1>8. HomeHosts' = HomeHosts /\ (SessionsOver(k)' <=> SessionsOver(k))
  BY <1>1 DEF HomeHosts, SessionsOver
<1>9. k \in HomeHosts /\ (capTask[k] = "over" => k \in capWriter.cut)
  BY <1>1, <1>2 DEF HostIdle, HostOrder
<1>10. HostOrder(k)'
  BY <1>1, <1>2, <1>5, <1>8, <1>9 DEF HostOrder
<1>11. HostIdle(k)'
  BY <1>1, <1>2, <1>5, <1>8, <1>9 DEF HostIdle
<1>12. CarriedFrom(k)' = CarriedFrom(k)
  <2>1. CarriedFrom(k) = Records(capQueue[k]) + n + capThread[k].written + capThread[k].lost
                       + SeqSum(capBatches[k]) + SeqSum(capLink[k])
    BY DEF CarriedFrom
  <2>2. CarriedFrom(k)' = Records(capQueue[k]) + 0 + capThread[k].written + l
                        + SeqSum(capBatches'[k]) + SeqSum(capLink[k])
    BY <1>1, <1>5 DEF CarriedFrom
  <2>3. SeqSum(Append(capBatches[k], n)) = SeqSum(capBatches[k]) + n
    BY <1>2, SeqSumAppend
  <2>4. l + SeqSum(capBatches'[k]) = capThread[k].lost + n + SeqSum(capBatches[k])
        /\ l \in Nat /\ SeqSum(capBatches'[k]) \in Nat
    <3>1. CASE capTask[k] # "over"
      <4>1. l = capThread[k].lost /\ capBatches'[k] = Append(capBatches[k], n)
        BY <1>5, <3>1
      <4>2. capThread[k].lost \in Nat /\ n \in Nat /\ SeqSum(capBatches[k]) \in Nat
        BY <1>2
      <4> HIDE DEF n
      <4> QED BY <2>3, <4>1, <4>2
    <3>2. CASE capTask[k] = "over"
      <4>1. l = capThread[k].lost + n /\ capBatches'[k] = capBatches[k]
        BY <1>5, <3>2
      <4>2. capThread[k].lost \in Nat /\ n \in Nat /\ SeqSum(capBatches[k]) \in Nat
        BY <1>2
      <4> HIDE DEF n
      <4> QED BY <4>1, <4>2
    <3> QED BY <3>1, <3>2
  <2> DEFINE x == SeqSum(capBatches'[k])
             y == SeqSum(capBatches[k])
  <2> HIDE DEF x, y, n
  <2>5. /\ CarriedFrom(k)' = Records(capQueue[k]) + 0 + capThread[k].written + l + x + SeqSum(capLink[k])
        /\ CarriedFrom(k) = Records(capQueue[k]) + n + capThread[k].written + capThread[k].lost
                           + y + SeqSum(capLink[k])
        /\ l + x = capThread[k].lost + n + y /\ l \in Nat /\ x \in Nat /\ y \in Nat
    BY <1>2, <2>1, <2>2, <2>4 DEF x, y
  <2>6. /\ Records(capQueue[k]) \in Nat /\ n \in Nat /\ capThread[k].written \in Nat
        /\ capThread[k].lost \in Nat /\ SeqSum(capLink[k]) \in Nat
    BY <1>2
  <2> QED BY <2>5, <2>6
<1>13. capWriter.cut = {} => capThread'[k].lost = capThread[k].lost
  BY <1>5, <1>9
<1> QED BY <1>1, <1>6, <1>7, <1>10, <1>11, <1>12, <1>13, HostLocal DEF HostKeeps

\* A message sent before the result leaves the result last.
LEMMA LinkAppend ==
  ASSUME NEW q \in Seq(Nat), NEW n \in Nat, \A i \in 1 .. Len(q) : q[i] # Result
  PROVE  /\ Append(q, n) \in Seq(Nat) /\ Append(q, n) # <<>>
         /\ \A i \in 1 .. Len(Append(q, n)) : Append(q, n)[i] = Result => i = Len(Append(q, n)) /\ n = Result
         /\ SeqSum(Append(q, n)) = SeqSum(q) + n
<1> DEFINE r == Append(q, n)
<1>1. /\ r \in Seq(Nat) /\ r # <<>> /\ Len(r) = Len(q) + 1 /\ Len(q) \in Nat
      /\ (\A i \in 1 .. Len(q) : r[i] = q[i]) /\ r[Len(q) + 1] = n
  BY AppendProperties, LenProperties
<1>2. SeqSum(r) = SeqSum(q) + n
  BY SeqSumAppend
<1> HIDE DEF r
<1>3. \A i \in 1 .. Len(r) : r[i] = Result => i = Len(r) /\ n = Result
  <2> SUFFICES ASSUME NEW i \in 1 .. Len(r), r[i] = Result PROVE i = Len(r) /\ n = Result
    OBVIOUS
  <2>1. Len(q) \in Nat /\ Len(r) = Len(q) + 1
    BY <1>1
  <2>2. i \in 1 .. Len(q) \/ i = Len(q) + 1
    BY <2>1
  <2>3. i \notin 1 .. Len(q)
    BY <1>1
  <2> QED BY <1>1, <2>2, <2>3
<1> QED BY <1>1, <1>2, <1>3 DEF r

\* The agent's control task sends a batch to the coordinator.
LEMMA TaskForwardsKeeps ==
  ASSUME CaptureInv, NEW k \in CapHosts, TaskForwards(k)
  PROVE  CaptureInv'
<1> DEFINE b == capBatches[k]
           n == Head(b)
           link == Append(capLink[k], n)
<1>1. /\ UNCHANGED <<capHome, capMerged, capSession, capShared, capQueue, capThread, capTask, capWriter>>
      /\ capTask[k] \in {"run", "finish", "rest"} /\ b # <<>>
      /\ capBatches' = [capBatches EXCEPT ![k] = Tail(b)]
      /\ capLink' = [capLink EXCEPT ![k] = link]
  BY DEF TaskForwards
<1>2. /\ HostOrder(k) /\ HostIdle(k) /\ b \in Seq(Nat) /\ b \in Seq(Nat \ {0})
      /\ capLink[k] \in Seq(Nat) /\ SeqSum(capLink[k]) \in Nat /\ SeqSum(b) \in Nat
      /\ Records(capQueue[k]) \in Nat /\ HeldBy(k) \in Nat
      /\ capThread[k].batch \in Nat /\ capThread[k].written \in Nat /\ capThread[k].lost \in Nat
  BY HostReads
<1>3. capBatches \in [CapHosts -> Seq(Nat \ {0})] /\ capLink \in [CapHosts -> Seq(Nat)]
  BY DEF CaptureInv, CaptureTypes
<1>4. /\ Tail(b) \in Seq(Nat \ {0}) /\ Tail(b) \in Seq(Nat) /\ n \in Nat \ {0} /\ n \in Nat
      /\ SeqSum(b) = n + SeqSum(Tail(b)) /\ SeqSum(Tail(b)) \in Nat
  <2>1. Tail(b) \in Seq(Nat \ {0}) /\ n \in Nat \ {0}
    BY <1>1, <1>2, HeadTailProperties
  <2>2. Tail(b) \in Seq(Nat)
    BY <1>1, <1>2, HeadTailProperties
  <2>3. SeqSum(b) = n + SeqSum(Tail(b))
    BY <1>1, <1>2, SeqSumTail
  <2> QED BY <2>1, <2>2, <2>3, SeqSumFacts
<1>5. \A i \in 1 .. Len(capLink[k]) : capLink[k][i] # Result
  BY <1>1, <1>2 DEF HostOrder
<1>6. /\ link \in Seq(Nat) /\ link # <<>> /\ SeqSum(link) = SeqSum(capLink[k]) + n
      /\ \A i \in 1 .. Len(link) : link[i] # Result
  <2>1. \A i \in 1 .. Len(link) : link[i] = Result => i = Len(link) /\ n = Result
    BY <1>2, <1>4, <1>5, LinkAppend
  <2>2. n # Result
    BY <1>4 DEF Result
  <2> QED BY <1>2, <1>4, <1>5, <2>1, <2>2, LinkAppend
<1> HIDE DEF b, n, link
<1>7. /\ capBatches' \in [CapHosts -> Seq(Nat \ {0})] /\ capLink' \in [CapHosts -> Seq(Nat)]
      /\ capBatches'[k] = Tail(b) /\ capLink'[k] = link
      /\ \A h \in CapHosts \ {k} : capBatches'[h] = capBatches[h] /\ capLink'[h] = capLink[h]
  BY <1>1, <1>3, <1>4, <1>6
<1>8. CaptureTypes'
  BY <1>1, <1>7 DEF CaptureInv, CaptureTypes
<1>9. HostMoves(k)
  BY <1>1, <1>7 DEF HostMoves
<1>10. HomeHosts' = HomeHosts /\ (SessionsOver(k)' <=> SessionsOver(k))
  BY <1>1 DEF HomeHosts, SessionsOver
<1>11. k \in HomeHosts /\ capMerged
  BY <1>1, <1>2 DEF HostIdle, b
<1>12. HostOrder(k)'
  BY <1>1, <1>2, <1>6, <1>7, <1>10 DEF HostOrder
<1>13. HostIdle(k)'
  BY <1>1, <1>2, <1>10, <1>11 DEF HostIdle
<1>14. CarriedFrom(k)' = CarriedFrom(k)
  <2> DEFINE a == Records(capQueue[k]) + capThread[k].batch + capThread[k].written + capThread[k].lost
  <2>1. a \in Nat
    <3>1. /\ Records(capQueue[k]) \in Nat /\ capThread[k].batch \in Nat
          /\ capThread[k].written \in Nat /\ capThread[k].lost \in Nat
      BY <1>2
    <3> QED BY <3>1
  <2>2. CarriedFrom(k) = a + SeqSum(b) + SeqSum(capLink[k])
    BY DEF CarriedFrom, b
  <2>3. CarriedFrom(k)' = a + SeqSum(Tail(b)) + SeqSum(link)
    BY <1>1, <1>7 DEF CarriedFrom
  <2> HIDE DEF a
  <2>4. /\ SeqSum(b) = n + SeqSum(Tail(b)) /\ SeqSum(link) = SeqSum(capLink[k]) + n
        /\ SeqSum(Tail(b)) \in Nat /\ SeqSum(capLink[k]) \in Nat /\ n \in Nat
    BY <1>2, <1>4, <1>6
  <2> QED BY <2>1, <2>2, <2>3, <2>4
<1>15. HeldBy(k)' = HeldBy(k) /\ capThread' = capThread
  BY <1>1 DEF HeldBy
<1> QED BY <1>2, <1>8, <1>9, <1>12, <1>13, <1>14, <1>15, HostLocal DEF HostKeeps

\* The agent's control task sends the result, the last of its messages.
LEMMA TaskResultKeeps ==
  ASSUME CaptureInv, NEW k \in CapHosts, TaskResult(k)
  PROVE  CaptureInv'
<1> DEFINE link == Append(capLink[k], Result)
<1>1. /\ UNCHANGED <<capHome, capMerged, capSession, capShared, capQueue, capThread, capBatches, capWriter>>
      /\ capMerged /\ capTask[k] = "rest" /\ capThread[k].at = "done" /\ capBatches[k] = <<>>
      /\ capTask' = [capTask EXCEPT ![k] = "over"]
      /\ capLink' = [capLink EXCEPT ![k] = link]
  BY DEF TaskResult
<1>2. /\ HostOrder(k) /\ HostIdle(k) /\ capLink[k] \in Seq(Nat) /\ SeqSum(capLink[k]) \in Nat
      /\ HeldBy(k) \in Nat
  BY HostReads
<1>3. /\ capTask \in [CapHosts -> {"run", "finish", "rest", "over"}] /\ capLink \in [CapHosts -> Seq(Nat)]
  BY DEF CaptureInv, CaptureTypes
<1>4. \A i \in 1 .. Len(capLink[k]) : capLink[k][i] # Result
  BY <1>1, <1>2 DEF HostOrder
<1>5. /\ link \in Seq(Nat) /\ SeqSum(link) = SeqSum(capLink[k])
      /\ \A i \in 1 .. Len(link) : link[i] = Result => i = Len(link)
  <2>1. Result \in Nat /\ SeqSum(capLink[k]) + Result = SeqSum(capLink[k])
    BY <1>2 DEF Result
  <2>2. /\ link \in Seq(Nat) /\ SeqSum(link) = SeqSum(capLink[k]) + Result
    BY <1>2, <1>4, <2>1, LinkAppend
  <2>3. \A i \in 1 .. Len(link) : link[i] = Result => i = Len(link)
    BY <1>2, <1>4, <2>1, LinkAppend
  <2> QED BY <2>1, <2>2, <2>3
<1> HIDE DEF link
<1>6. /\ capTask' \in [CapHosts -> {"run", "finish", "rest", "over"}] /\ capLink' \in [CapHosts -> Seq(Nat)]
      /\ capTask'[k] = "over" /\ capLink'[k] = link
      /\ \A h \in CapHosts \ {k} : capTask'[h] = capTask[h] /\ capLink'[h] = capLink[h]
  BY <1>1, <1>3, <1>5
<1>7. CaptureTypes'
  BY <1>1, <1>6 DEF CaptureInv, CaptureTypes
<1>8. HostMoves(k)
  BY <1>1, <1>6 DEF HostMoves
<1>9. HomeHosts' = HomeHosts /\ (SessionsOver(k)' <=> SessionsOver(k))
  BY <1>1 DEF HomeHosts, SessionsOver
<1>10. k \in HomeHosts /\ SessionsOver(k) /\ k \notin capWriter.ended
  BY <1>1, <1>2 DEF HostOrder
<1>11. HostOrder(k)'
  BY <1>1, <1>2, <1>5, <1>6, <1>9, <1>10 DEF HostOrder
<1>12. HostIdle(k)'
  BY <1>1, <1>2, <1>9, <1>10 DEF HostIdle
<1>13. CarriedFrom(k)' = CarriedFrom(k) /\ HeldBy(k)' = HeldBy(k) /\ capThread' = capThread
  BY <1>1, <1>5, <1>6 DEF HeldBy, CarriedFrom
<1> QED BY <1>2, <1>7, <1>8, <1>11, <1>12, <1>13, HostLocal DEF HostKeeps

\* The types of the coordinator's side.
WriterRecords == [queue : Seq(Nat \ {0}), ended : SUBSET CapHosts, cut : SUBSET CapHosts,
                  written : Nat, lost : Nat, over : Nat, failed : BOOLEAN, dropped : Nat]

\* The coordinator takes a batch or a result from an agent.
LEMMA CoordinatorKeeps ==
  ASSUME CaptureInv, NEW k \in CapHosts, CoordinatorTakes(k)
  PROVE  CaptureInv'
<1> DEFINE q == capLink[k]
           n == Head(q)
           gone == capShared[k].dropped + capThread[k].lost
<1>1. /\ UNCHANGED <<capHome, capMerged, capSession, capShared, capQueue, capThread, capTask, capBatches>>
      /\ q # <<>> /\ capLink' = [capLink EXCEPT ![k] = Tail(q)]
  BY DEF CoordinatorTakes
<1>2. /\ HostOrder(k) /\ HostIdle(k) /\ q \in Seq(Nat) /\ SeqSum(q) \in Nat
      /\ Records(capQueue[k]) \in Nat /\ SeqSum(capBatches[k]) \in Nat /\ HeldBy(k) \in Nat
      /\ capThread[k].batch \in Nat /\ capThread[k].written \in Nat /\ capThread[k].lost \in Nat
  BY HostReads
<1>3. /\ Tail(q) \in Seq(Nat) /\ n \in Nat /\ SeqSum(q) = n + SeqSum(Tail(q)) /\ SeqSum(Tail(q)) \in Nat
      /\ Len(Tail(q)) = Len(q) - 1 /\ Len(q) \in Nat /\ n = q[1] /\ 1 \in 1 .. Len(q)
      /\ \A i \in 1 .. Len(Tail(q)) : Tail(q)[i] = q[i + 1]
  <2>1. /\ Tail(q) \in Seq(Nat) /\ n \in Nat /\ Len(Tail(q)) = Len(q) - 1
        /\ \A i \in 1 .. Len(Tail(q)) : Tail(q)[i] = q[i + 1]
    BY <1>1, <1>2, HeadTailProperties
  <2>2. Len(q) \in Nat /\ n = q[1] /\ 1 \in 1 .. Len(q)
    BY <1>1, <1>2, LenProperties, EmptySeq
  <2>3. SeqSum(q) = n + SeqSum(Tail(q)) /\ SeqSum(Tail(q)) \in Nat
    BY <1>1, <1>2, <2>1, SeqSumTail, SeqSumFacts
  <2> QED BY <2>1, <2>2, <2>3
<1>4. /\ capMerged /\ k \in HomeHosts /\ k \notin capWriter.ended /\ k \notin capWriter.cut
  BY <1>1, <1>2 DEF HostIdle, HostOrder, CaptureInv, WriterIdle
<1>5. capLink \in [CapHosts -> Seq(Nat)] /\ capWriter \in WriterRecords /\ capShared[k].dropped \in Nat
      /\ gone \in Nat
  <2>1. capLink \in [CapHosts -> Seq(Nat)] /\ capWriter \in WriterRecords /\ capShared[k].dropped \in Nat
    BY DEF CaptureInv, CaptureTypes, WriterRecords
  <2>2. capThread[k].lost \in Nat /\ capShared[k].dropped \in Nat
    BY <1>2, <2>1
  <2>3. gone \in Nat
    BY <2>2
  <2> QED BY <2>1, <2>3
<1>6. /\ capLink' \in [CapHosts -> Seq(Nat)] /\ capLink'[k] = Tail(q)
      /\ \A h \in CapHosts \ {k} : capLink'[h] = capLink[h]
  BY <1>1, <1>3, <1>5
<1>7. /\ capWriter' \in WriterRecords /\ capWriter'.cut = capWriter.cut
      /\ capWriter'.written = capWriter.written /\ capWriter'.lost = capWriter.lost
      /\ capWriter'.over = capWriter.over
      /\ \/ /\ n = Result /\ capWriter'.ended = capWriter.ended \cup {k}
            /\ capWriter'.queue = capWriter.queue /\ capWriter'.dropped = capWriter.dropped + gone
         \/ /\ n # Result /\ capWriter'.ended = capWriter.ended
            /\ capWriter'.queue = Append(capWriter.queue, n) /\ capWriter'.dropped = capWriter.dropped
  <2>1. CASE n = Result
    <3> DEFINE e == capWriter.ended \cup {k}
               d == capWriter.dropped + capShared[k].dropped + capThread[k].lost
    <3>1. capWriter' = [capWriter EXCEPT !.ended = e, !.dropped = d]
      BY <2>1 DEF CoordinatorTakes
    <3>2. capWriter.dropped \in Nat /\ capWriter.ended \in SUBSET CapHosts
      BY <1>5 DEF WriterRecords
    <3>3. d \in Nat /\ d = capWriter.dropped + gone /\ e \in SUBSET CapHosts
      <4>1. capThread[k].lost \in Nat /\ capShared[k].dropped \in Nat
        BY <1>2, <1>5
      <4> QED BY <3>2, <4>1
    <3> HIDE DEF e, d, gone
    <3>4. /\ capWriter' \in WriterRecords /\ capWriter'.cut = capWriter.cut
          /\ capWriter'.written = capWriter.written /\ capWriter'.lost = capWriter.lost
          /\ capWriter'.over = capWriter.over /\ capWriter'.ended = e /\ capWriter'.dropped = d
          /\ capWriter'.queue = capWriter.queue
      BY <1>5, <3>1, <3>3 DEF WriterRecords
    <3> QED BY <2>1, <3>3, <3>4 DEF e
  <2>2. CASE n # Result
    <3> DEFINE w == Append(capWriter.queue, n)
    <3>1. capWriter' = [capWriter EXCEPT !.queue = w]
      BY <2>2 DEF CoordinatorTakes
    <3>2. capWriter.queue \in Seq(Nat \ {0}) /\ n \in Nat \ {0}
      BY <1>3, <1>5, <2>2 DEF WriterRecords, Result
    <3>3. w \in Seq(Nat \ {0})
      BY <3>2, AppendProperties
    <3> HIDE DEF w, n, gone
    <3>4. /\ capWriter' \in WriterRecords /\ capWriter'.cut = capWriter.cut
          /\ capWriter'.written = capWriter.written /\ capWriter'.lost = capWriter.lost
          /\ capWriter'.over = capWriter.over /\ capWriter'.ended = capWriter.ended
          /\ capWriter'.dropped = capWriter.dropped /\ capWriter'.queue = w
      BY <1>5, <3>1, <3>3 DEF WriterRecords
    <3> QED BY <2>2, <3>4 DEF w
  <2> QED BY <2>1, <2>2
<1> HIDE DEF q, n, gone
<1>8. CaptureTypes'
  BY <1>1, <1>6, <1>7 DEF CaptureInv, CaptureTypes, WriterRecords
<1>9. WriterIdle'
  BY <1>1, <1>4, <1>7 DEF CaptureInv, WriterIdle
<1>10. \A h \in CapHosts \ {k} : SameHost(h)
  BY <1>1, <1>6, <1>7 DEF SameHost
<1>11. HomeHosts' = HomeHosts /\ (SessionsOver(k)' <=> SessionsOver(k))
  BY <1>1 DEF HomeHosts, SessionsOver
<1>12. HostOrder(k)'
  <2>1. \A i \in 1 .. Len(q) : q[i] = Result => i = Len(q) /\ capTask[k] = "over"
    BY <1>2 DEF HostOrder, q
  <2>2. \A i \in 1 .. Len(Tail(q)) : Tail(q)[i] = Result => i = Len(Tail(q)) /\ capTask[k] = "over"
    <3> SUFFICES ASSUME NEW i \in 1 .. Len(Tail(q)), Tail(q)[i] = Result
                 PROVE  i = Len(Tail(q)) /\ capTask[k] = "over"
      OBVIOUS
    <3>1. Tail(q)[i] = q[i + 1] /\ Len(Tail(q)) = Len(q) - 1 /\ Len(q) \in Nat
      BY <1>3
    <3>2. i + 1 \in 1 .. Len(q) /\ q[i + 1] = Result
      BY <3>1
    <3> QED BY <2>1, <3>1, <3>2
  <2>3. n = Result => Tail(q) = <<>> /\ capTask[k] = "over"
    <3> SUFFICES ASSUME n = Result PROVE Tail(q) = <<>> /\ capTask[k] = "over"
      OBVIOUS
    <3>1. Len(q) = 1 /\ capTask[k] = "over"
      BY <1>3, <2>1
    <3>2. Len(Tail(q)) = 0
      BY <1>3, <3>1
    <3> QED BY <1>3, <3>1, <3>2, EmptySeq
  <2>4. k \in capWriter'.ended => capTask[k] = "over" /\ Tail(q) = <<>>
    BY <1>4, <1>7, <2>3
  <2> QED BY <1>1, <1>2, <1>4, <1>6, <1>7, <1>11, <2>2, <2>4 DEF HostOrder
<1>13. HostIdle(k)'
  BY <1>1, <1>2, <1>4, <1>11 DEF HostIdle
<1>14. CarriedBy'[k] + Taken' = CarriedBy[k] + Taken
  <2> DEFINE a == Records(capQueue[k]) + capThread[k].batch + capThread[k].written
                    + capThread[k].lost + SeqSum(capBatches[k])
             c == capWriter.written + capWriter.lost + capWriter.over
  <2>1. a \in Nat /\ CarriedBy[k] = a + SeqSum(q) /\ CarriedBy'[k] = a + SeqSum(Tail(q))
    <3>1. a \in Nat
      <4>1. /\ Records(capQueue[k]) \in Nat /\ capThread[k].batch \in Nat
            /\ capThread[k].written \in Nat /\ capThread[k].lost \in Nat /\ SeqSum(capBatches[k]) \in Nat
        BY <1>2
      <4> QED BY <4>1
    <3>2. CarriedBy[k] = a + SeqSum(q)
      BY DEF CarriedBy, q
    <3>3. CarriedBy'[k] = a + SeqSum(Tail(q))
      BY <1>1, <1>6 DEF CarriedBy
    <3> QED BY <3>1, <3>2, <3>3
  <2>2. /\ capWriter.written \in Nat /\ capWriter.lost \in Nat /\ capWriter.over \in Nat
        /\ capWriter.queue \in Seq(Nat \ {0})
    BY <1>5 DEF WriterRecords
  <2>3. capWriter.queue \in Seq(Nat)
    BY <2>2, SeqMonotonic
  <2>4. SeqSum(capWriter.queue) \in Nat
    BY <2>3, SeqSumFacts
  <2>5. c \in Nat /\ Taken = SeqSum(capWriter.queue) + c
    BY <2>2, <2>4 DEF Taken
  <2>6. SeqSum(capWriter'.queue) = SeqSum(capWriter.queue) + n
    <3>1. CASE n = Result
      <4>1. capWriter'.queue = capWriter.queue
        BY <1>7, <3>1
      <4>2. n = 0
        BY <3>1 DEF Result
      <4> QED BY <2>4, <4>1, <4>2
    <3>2. CASE n # Result
      <4>1. capWriter'.queue = Append(capWriter.queue, n) /\ n \in Nat
        BY <1>3, <1>7, <3>2
      <4> QED BY <2>3, <4>1, SeqSumAppend
    <3> QED BY <3>1, <3>2
  <2>7. Taken' = SeqSum(capWriter'.queue) + capWriter.written + capWriter.lost + capWriter.over
    BY <1>7 DEF Taken
  <2>8. Taken' = SeqSum(capWriter.queue) + n + c
    <3>1. /\ n \in Nat /\ capWriter.written \in Nat /\ capWriter.lost \in Nat /\ capWriter.over \in Nat
      BY <1>3, <2>2
    <3> QED BY <2>4, <2>6, <2>7, <3>1
  <2>9. n \in Nat /\ SeqSum(q) = n + SeqSum(Tail(q)) /\ SeqSum(Tail(q)) \in Nat
    BY <1>3
  <2> HIDE DEF a, c
  <2> QED BY <2>1, <2>4, <2>5, <2>8, <2>9
<1>15. capWriter'.dropped - capWriter.dropped = ToldBy'[k] - ToldBy[k]
  <2>1. ToldBy[k] = 0
    BY <1>4 DEF ToldBy
  <2>2. capWriter.dropped \in Nat
    BY <1>5 DEF WriterRecords
  <2>3. CASE n = Result
    <3>1. k \in capWriter'.ended /\ capWriter'.dropped = capWriter.dropped + gone
      BY <1>7, <2>3
    <3>2. ToldBy'[k] = gone
      BY <1>1, <3>1 DEF ToldBy, gone
    <3>3. gone \in Nat
      BY <1>5
    <3> QED BY <2>1, <2>2, <3>1, <3>2, <3>3
  <2>4. CASE n # Result
    <3>1. k \notin capWriter'.ended /\ capWriter'.dropped = capWriter.dropped
      BY <1>4, <1>7, <2>4
    <3>2. ToldBy'[k] = 0
      BY <3>1 DEF ToldBy
    <3> QED BY <2>1, <2>2, <3>1, <3>2
  <2> QED BY <2>3, <2>4
<1>16. capMerged /\ Limited => capWriter'.written + capWriter'.lost <= CapLimit
  BY <1>7 DEF CaptureInv, CaptureLimit
<1> QED BY <1>1, <1>4, <1>7, <1>8, <1>9, <1>10, <1>12, <1>13, <1>14, <1>15, <1>16, HostStep

\* The coordinator's queue after one record of its first batch is taken.
LEMMA QueueLess ==
  ASSUME NEW q \in Seq(Nat \ {0}), q # <<>>, NEW r,
         r = IF Head(q) = 1 THEN Tail(q) ELSE [q EXCEPT ![1] = q[1] - 1]
  PROVE  r \in Seq(Nat \ {0}) /\ SeqSum(r) = SeqSum(q) - 1
<1>1. /\ q \in Seq(Nat) /\ Len(q) \in Nat \ {0} /\ Head(q) = q[1] /\ q[1] \in Nat \ {0}
  BY SeqMonotonic, LenProperties, EmptySeq
<1>2. CASE Head(q) = 1
  <2>1. Tail(q) \in Seq(Nat \ {0}) /\ Tail(q) \in Seq(Nat)
    BY <1>1, HeadTailProperties
  <2>2. SeqSum(q) = 1 + SeqSum(Tail(q)) /\ SeqSum(Tail(q)) \in Nat
    BY <1>1, <1>2, <2>1, SeqSumTail, SeqSumFacts
  <2> QED BY <1>2, <2>1, <2>2
<1>3. CASE Head(q) # 1
  <2>1. q[1] > 0 /\ q[1] - 1 \in Nat \ {0} /\ 1 \in 1 .. Len(q)
    BY <1>1, <1>3
  <2>2. r = [q EXCEPT ![1] = q[1] - 1]
    BY <1>3
  <2>3. SeqSum(r) = SeqSum(q) - 1
    BY <1>1, <2>1, <2>2, SeqSumLess
  <2>4. r \in Seq(Nat \ {0})
    <3> DEFINE P == Nat \ {0}
               e == q[1] - 1
               x == 1
    <3>1. q \in Seq(P) /\ x \in 1 .. Len(q) /\ e \in P
      BY <2>1
    <3> HIDE DEF P, e, x
    <3>2. [q EXCEPT ![x] = e] \in Seq(P)
      BY <3>1, ExceptSeq
    <3> QED BY <2>2, <3>2 DEF P, e, x
  <2> QED BY <2>3, <2>4
<1> QED BY <1>2, <1>3

\* The merged writer writes a record, or counts it as lost or over the limit.
LEMMA MergedKeeps == ASSUME CaptureInv, MergedRecord PROVE CaptureInv'
<1> DEFINE q == capWriter.queue
           r == IF Head(q) = 1 THEN Tail(q) ELSE [q EXCEPT ![1] = q[1] - 1]
           w == [capWriter EXCEPT !.queue = r]
<1>1. /\ UNCHANGED <<capHome, capMerged, capSession, capShared, capQueue, capThread,
                     capTask, capBatches, capLink>>
      /\ q # <<>>
  BY DEF MergedRecord
<1>2. capWriter \in WriterRecords /\ q \in Seq(Nat \ {0}) /\ q \in Seq(Nat)
  <2>1. capWriter \in WriterRecords
    BY DEF CaptureInv, CaptureTypes, WriterRecords
  <2>2. q \in Seq(Nat \ {0})
    BY <2>1 DEF WriterRecords
  <2> QED BY <2>1, <2>2, SeqMonotonic
<1>3. r \in Seq(Nat \ {0}) /\ SeqSum(r) = SeqSum(q) - 1 /\ SeqSum(q) \in Nat
  BY <1>1, <1>2, QueueLess, SeqSumFacts
<1>4. \/ Limited /\ w.written + w.lost >= CapLimit /\ capWriter' = [w EXCEPT !.over = w.over + 1]
      \/ /\ ~(Limited /\ w.written + w.lost >= CapLimit)
         /\ \E out \in Written(w) : capWriter' = out
  BY DEF MergedRecord
<1> HIDE DEF r
<1>5. /\ w \in WriterRecords /\ w.queue = r /\ w.written = capWriter.written /\ w.lost = capWriter.lost
      /\ w.over = capWriter.over /\ w.ended = capWriter.ended /\ w.cut = capWriter.cut
      /\ w.dropped = capWriter.dropped
  BY <1>2, <1>3 DEF WriterRecords
<1>6. capWriter.written \in Nat /\ capWriter.lost \in Nat /\ capWriter.over \in Nat /\ CapLimit \in Nat
  BY <1>2, CaptureAssumption DEF WriterRecords
<1> HIDE DEF w, q
<1>7. /\ capWriter' \in WriterRecords /\ capWriter'.queue = r /\ capWriter'.ended = capWriter.ended
      /\ capWriter'.cut = capWriter.cut /\ capWriter'.dropped = capWriter.dropped
      /\ \/ /\ capWriter'.over = capWriter.over + 1 /\ capWriter'.written = capWriter.written
            /\ capWriter'.lost = capWriter.lost
         \/ /\ capWriter'.over = capWriter.over /\ capWriter'.written = capWriter.written
            /\ capWriter'.lost = capWriter.lost + 1
            /\ Limited => capWriter.written + capWriter.lost < CapLimit
         \/ /\ capWriter'.over = capWriter.over /\ capWriter'.written = capWriter.written + 1
            /\ capWriter'.lost = capWriter.lost
            /\ Limited => capWriter.written + capWriter.lost < CapLimit
  <2>1. CASE Limited /\ w.written + w.lost >= CapLimit /\ capWriter' = [w EXCEPT !.over = w.over + 1]
    <3> DEFINE n == w.over + 1
    <3>1. n \in Nat /\ n = capWriter.over + 1
      BY <1>5, <1>6
    <3> HIDE DEF n
    <3>2. capWriter' = [w EXCEPT !.over = n]
      BY <2>1 DEF n
    <3>3. /\ capWriter' \in WriterRecords /\ capWriter'.queue = w.queue /\ capWriter'.ended = w.ended
          /\ capWriter'.cut = w.cut /\ capWriter'.dropped = w.dropped /\ capWriter'.over = n
          /\ capWriter'.written = w.written /\ capWriter'.lost = w.lost
      BY <1>5, <3>1, <3>2 DEF WriterRecords
    <3> QED BY <1>5, <3>1, <3>3
  <2>2. CASE /\ ~(Limited /\ w.written + w.lost >= CapLimit)
             /\ \E out \in Written(w) : capWriter' = out
    <3>1. Limited => capWriter.written + capWriter.lost < CapLimit
      BY <1>5, <1>6, <2>2
    <3>2. \/ capWriter' = [w EXCEPT !.lost = w.lost + 1, !.failed = TRUE]
          \/ capWriter' = [w EXCEPT !.written = w.written + 1]
      BY <2>2 DEF Written
    <3>3. CASE capWriter' = [w EXCEPT !.lost = w.lost + 1, !.failed = TRUE]
      <4> DEFINE n == w.lost + 1
                 t == [w EXCEPT !.lost = n]
      <4>1. n \in Nat /\ n = capWriter.lost + 1 /\ capWriter' = [t EXCEPT !.failed = TRUE]
        BY <1>5, <1>6, <3>3
      <4> HIDE DEF n
      <4>2. /\ t \in WriterRecords /\ t.queue = w.queue /\ t.ended = w.ended
            /\ t.cut = w.cut /\ t.dropped = w.dropped /\ t.over = w.over
            /\ t.written = w.written /\ t.lost = n
        BY <1>5, <4>1 DEF WriterRecords
      <4> HIDE DEF t
      <4>3. /\ capWriter' \in WriterRecords /\ capWriter'.queue = t.queue /\ capWriter'.ended = t.ended
            /\ capWriter'.cut = t.cut /\ capWriter'.dropped = t.dropped /\ capWriter'.over = t.over
            /\ capWriter'.written = t.written /\ capWriter'.lost = t.lost
        BY <4>1, <4>2 DEF WriterRecords
      <4> QED BY <1>5, <3>1, <4>1, <4>2, <4>3
    <3>4. CASE capWriter' = [w EXCEPT !.written = w.written + 1]
      <4> DEFINE n == w.written + 1
      <4>1. n \in Nat /\ n = capWriter.written + 1 /\ capWriter' = [w EXCEPT !.written = n]
        BY <1>5, <1>6, <3>4
      <4> HIDE DEF n
      <4>2. /\ capWriter' \in WriterRecords /\ capWriter'.queue = w.queue /\ capWriter'.ended = w.ended
            /\ capWriter'.cut = w.cut /\ capWriter'.dropped = w.dropped /\ capWriter'.over = w.over
            /\ capWriter'.written = n /\ capWriter'.lost = w.lost
        BY <1>5, <4>1 DEF WriterRecords
      <4> QED BY <1>5, <3>1, <4>1, <4>2
    <3> QED BY <3>2, <3>3, <3>4
  <2> QED BY <1>4, <2>1, <2>2
<1>8. capMerged
  BY <1>1 DEF CaptureInv, WriterIdle, q
<1>9. CaptureTypes'
  BY <1>1, <1>7 DEF CaptureInv, CaptureTypes, WriterRecords
<1>10. WriterIdle'
  BY <1>1, <1>7, <1>8 DEF CaptureInv, WriterIdle
<1>11. \A h \in CapHosts : HostOrder(h)' /\ HostIdle(h)'
  <2> SUFFICES ASSUME NEW h \in CapHosts PROVE HostOrder(h)' /\ HostIdle(h)'
    OBVIOUS
  <2>1. SameHost(h) /\ ClosedStay
    BY <1>1, <1>7 DEF SameHost, ClosedStay
  <2> QED BY <2>1, HostFrame DEF CaptureInv
<1>12. Taken' = Taken
  <2> DEFINE b == SeqSum(r)
             c == SeqSum(q)
             o == capWriter'.over
             v == capWriter'.written
             l == capWriter'.lost
  <2>1. Taken = c + capWriter.written + capWriter.lost + capWriter.over
    BY DEF Taken, q
  <2>2. Taken' = b + v + l + o
    BY <1>7 DEF Taken
  <2>3. c \in Nat /\ b = c - 1
    BY <1>3
  <2>4. v \in Nat /\ l \in Nat /\ o \in Nat /\ v + l + o = capWriter.written + capWriter.lost + capWriter.over + 1
    BY <1>6, <1>7
  <2> HIDE DEF b, c, o, v, l
  <2> QED BY <1>6, <2>1, <2>2, <2>3, <2>4
<1>13. CaptureBooks'
  <2>1. PutBy' = PutBy /\ CarriedBy' = CarriedBy /\ GivenUpBy' = GivenUpBy /\ SharedBy' = SharedBy
    BY <1>1 DEF PutBy, CarriedBy, GivenUpBy, SharedBy
  <2>2. ToldBy' = ToldBy /\ capWriter'.cut = capWriter.cut /\ capWriter'.dropped = capWriter.dropped
    BY <1>1, <1>7 DEF ToldBy
  <2> QED BY <1>12, <2>1, <2>2 DEF CaptureInv, CaptureBooks
<1>14. CaptureLimit'
  <2>1. Limited => capWriter'.written + capWriter'.lost <= CapLimit
    <3> SUFFICES ASSUME Limited PROVE capWriter'.written + capWriter'.lost <= CapLimit
      OBVIOUS
    <3>1. capWriter.written + capWriter.lost <= CapLimit
      BY <1>8 DEF CaptureInv, CaptureLimit
    <3> QED BY <1>6, <1>7, <3>1
  <2> QED BY <1>1, <1>8, <2>1 DEF CaptureLimit
<1> QED BY <1>9, <1>10, <1>11, <1>13, <1>14 DEF CaptureInv

\* An agent is cut off: from here on the books need not balance.
LEMMA CutKeeps == ASSUME CaptureInv, NEW k \in CapHosts, AgentCut(k) PROVE CaptureInv'
<1>1. /\ UNCHANGED <<capHome, capMerged, capShared, capQueue, capThread, capBatches>>
      /\ capMerged /\ k \in HomeHosts
      /\ capLink' = [capLink EXCEPT ![k] = <<>>] /\ capTask' = [capTask EXCEPT ![k] = "over"]
      /\ capSession' = [s \in CapSessions |->
           IF capHome[s] = k THEN [capSession[s] EXCEPT !.at = "closed"] ELSE capSession[s]]
      /\ capWriter' = [capWriter EXCEPT !.ended = capWriter.ended \cup {k}, !.cut = capWriter.cut \cup {k}]
  BY DEF AgentCut
<1>2. /\ capTask \in [CapHosts -> {"run", "finish", "rest", "over"}] /\ capLink \in [CapHosts -> Seq(Nat)]
      /\ capSession \in [CapSessions -> CapSessionRecords] /\ capWriter \in WriterRecords
  BY DEF CaptureInv, CaptureTypes, WriterRecords
<1>3. /\ capTask' \in [CapHosts -> {"run", "finish", "rest", "over"}] /\ capLink' \in [CapHosts -> Seq(Nat)]
      /\ capTask'[k] = "over" /\ capLink'[k] = <<>>
      /\ \A h \in CapHosts \ {k} : capTask'[h] = capTask[h] /\ capLink'[h] = capLink[h]
  <2>1. <<>> \in Seq(Nat)
    BY EmptySeq
  <2> QED BY <1>1, <1>2, <2>1
<1>4. /\ capSession' \in [CapSessions -> CapSessionRecords]
      /\ \A s \in CapSessions : (capHome[s] = k \/ capSession[s].at = "closed") => capSession'[s].at = "closed"
  <2> SUFFICES ASSUME NEW s \in CapSessions
               PROVE  /\ capSession'[s] \in CapSessionRecords
                      /\ (capHome[s] = k \/ capSession[s].at = "closed") => capSession'[s].at = "closed"
    BY <1>1
  <2>1. [capSession[s] EXCEPT !.at = "closed"] \in CapSessionRecords
        /\ [capSession[s] EXCEPT !.at = "closed"].at = "closed"
    BY <1>2 DEF CapSessionRecords
  <2>2. CASE capHome[s] = k
    BY <1>1, <2>1, <2>2
  <2>3. CASE capHome[s] # k
    BY <1>1, <1>2, <2>3
  <2> QED BY <2>2, <2>3
<1>5. /\ capWriter' \in WriterRecords /\ capWriter'.ended = capWriter.ended \cup {k}
      /\ capWriter'.cut = capWriter.cut \cup {k} /\ capWriter'.written = capWriter.written
      /\ capWriter'.lost = capWriter.lost
  <2> DEFINE e == capWriter.ended \cup {k}
             c == capWriter.cut \cup {k}
             t == [capWriter EXCEPT !.ended = e]
  <2>1. e \in SUBSET CapHosts /\ c \in SUBSET CapHosts
    BY <1>2 DEF WriterRecords
  <2>2. capWriter' = [t EXCEPT !.cut = c]
    BY <1>1
  <2> HIDE DEF e, c
  <2>3. t \in WriterRecords /\ t.ended = e /\ t.written = capWriter.written /\ t.lost = capWriter.lost
    BY <1>2, <2>1 DEF WriterRecords
  <2> HIDE DEF t
  <2>4. /\ capWriter' \in WriterRecords /\ capWriter'.ended = t.ended /\ capWriter'.cut = c
        /\ capWriter'.written = t.written /\ capWriter'.lost = t.lost
    BY <2>1, <2>2, <2>3 DEF WriterRecords
  <2> QED BY <2>3, <2>4 DEF e, c
<1>6. CaptureTypes'
  BY <1>1, <1>3, <1>4, <1>5 DEF CaptureInv, CaptureTypes, WriterRecords
<1>7. WriterIdle'
  BY <1>1, <1>5 DEF CaptureInv, WriterIdle
<1>8. \A h \in CapHosts : HostOrder(h)' /\ HostIdle(h)'
  <2>1. ASSUME NEW h \in CapHosts \ {k} PROVE HostOrder(h)' /\ HostIdle(h)'
    <3>1. SameHost(h) /\ ClosedStay
      BY <1>1, <1>3, <1>4, <1>5 DEF SameHost, ClosedStay
    <3> QED BY <3>1, HostFrame DEF CaptureInv
  <2>2. HomeHosts' = HomeHosts /\ SessionsOver(k)'
    BY <1>1, <1>4 DEF HomeHosts, SessionsOver
  <2>3. HostOrder(k) /\ HostIdle(k)
    BY DEF CaptureInv
  <2>4. HostOrder(k)'
    BY <1>1, <1>3, <1>5, <2>2, <2>3 DEF HostOrder
  <2>5. HostIdle(k)'
    BY <1>1, <2>2, <2>3 DEF HostIdle
  <2> QED BY <2>1, <2>4, <2>5
<1>9. CaptureBooks'
  BY <1>5 DEF CaptureBooks
<1>10. CaptureLimit'
  BY <1>1, <1>5 DEF CaptureInv, CaptureLimit
<1> QED BY <1>6, <1>7, <1>8, <1>9, <1>10 DEF CaptureInv

\* The invariant holds when a run begins.
LEMMA CaptureStarts == CaptureInit => CaptureInv
<1> SUFFICES ASSUME CaptureInit PROVE CaptureInv
  OBVIOUS
<1>1. /\ capMerged \in BOOLEAN /\ capHome \in [CapSessions -> CapHosts]
      /\ (~capMerged => Cardinality(HomeHosts) = 1)
      /\ capSession = [s \in CapSessions |-> [at |-> "new", made |-> 0, dropped |-> 0]]
      /\ capShared = [h \in CapHosts |-> [claimed |-> 0, dropped |-> 0]]
      /\ capQueue = [h \in CapHosts |-> <<>>]
      /\ capThread = [h \in CapHosts |->
           [at |-> "start", batch |-> 0, written |-> 0, lost |-> 0, failed |-> FALSE]]
      /\ capTask = [h \in CapHosts |-> "run"]
      /\ capBatches = [h \in CapHosts |-> <<>>] /\ capLink = [h \in CapHosts |-> <<>>]
      /\ capWriter = [queue |-> <<>>, ended |-> {}, cut |-> {}, written |-> 0, lost |-> 0, over |-> 0,
                      failed |-> FALSE, dropped |-> 0]
  BY CaptureAssumption DEF CaptureInit
<1>2. /\ <<>> \in Seq({"record", "finish"}) /\ <<>> \in Seq(Nat) /\ <<>> \in Seq(Nat \ {0})
      /\ Len(<<>>) = 0
  OBVIOUS
<1>3. CaptureTypes
  BY <1>1, <1>2 DEF CaptureTypes, CapSessionRecords, ThreadRecords
<1>4. WriterIdle
  BY <1>1 DEF WriterIdle
<1>5. \A h \in CapHosts : HostOrder(h) /\ HostIdle(h)
  <2> SUFFICES ASSUME NEW h \in CapHosts PROVE HostOrder(h) /\ HostIdle(h)
    OBVIOUS
  <2>1. /\ capQueue[h] = <<>> /\ capBatches[h] = <<>> /\ capLink[h] = <<>> /\ capTask[h] = "run"
        /\ capThread[h].at = "start" /\ capThread[h].batch = 0 /\ capThread[h].written = 0
        /\ capThread[h].lost = 0 /\ capShared[h].dropped = 0 /\ capWriter.ended = {}
    BY <1>1
  <2>2. HostOrder(h)
    BY <1>2, <2>1 DEF HostOrder
  <2>3. HostIdle(h)
    BY <2>1 DEF HostIdle
  <2> QED BY <2>2, <2>3
<1>6. Numbers
  BY <1>3, <1>5 DEF Numbers, HostsOrder
<1>7. SeqSum(<<>>) = 0 /\ Records(<<>>) = 0
  <2>1. SeqSum(<<>>) = 0
    BY <1>2, SeqSumFacts
  <2>2. Records(<<>>) = 0
    BY <1>2 DEF Records
  <2> QED BY <2>1, <2>2
<1>8. IsFiniteSet(CapHosts) /\ IsFiniteSet(CapSessions)
  BY CaptureAssumption
<1>9. /\ PutBy \in [CapSessions -> Int] /\ CarriedBy \in [CapHosts -> Int]
      /\ GivenUpBy \in [CapSessions -> Int] /\ SharedBy \in [CapHosts -> Int] /\ ToldBy \in [CapHosts -> Int]
      /\ \A h \in CapHosts : OfferedTo(h) \in [CapSessions -> Int]
  BY <1>6, NumbersBefore DEF BookNumbers
<1>10. /\ \A s \in CapSessions : capSession[s].at = "new" /\ capSession[s].made = 0 /\ capSession[s].dropped = 0
       /\ \A h \in CapHosts :
            /\ capQueue[h] = <<>> /\ capBatches[h] = <<>> /\ capLink[h] = <<>>
            /\ capThread[h].batch = 0 /\ capThread[h].written = 0 /\ capThread[h].lost = 0
            /\ capShared[h].dropped = 0 /\ capShared[h].claimed = 0
  BY <1>1
<1>11. /\ capWriter.queue = <<>> /\ capWriter.ended = {} /\ capWriter.written = 0 /\ capWriter.lost = 0
       /\ capWriter.over = 0 /\ capWriter.dropped = 0
  BY <1>1
<1>12. SumFunctionOnSet(PutBy, CapSessions) = 0
  <2>1. \A s \in CapSessions : PutBy[s] = 0
    BY <1>10 DEF PutBy, Weight
  <2> QED BY <1>8, <1>9, <2>1, SumZero
<1>13. SumFunctionOnSet(CarriedBy, CapHosts) = 0
  <2>1. \A h \in CapHosts : CarriedBy[h] = 0
    BY <1>7, <1>10 DEF CarriedBy
  <2> QED BY <1>8, <1>9, <2>1, SumZero
<1>14. SumFunctionOnSet(GivenUpBy, CapSessions) = 0
  <2>1. \A s \in CapSessions : GivenUpBy[s] = 0
    BY <1>10 DEF GivenUpBy
  <2> QED BY <1>8, <1>9, <2>1, SumZero
<1>15. SumFunctionOnSet(SharedBy, CapHosts) = 0
  <2>1. \A h \in CapHosts : SharedBy[h] = 0
    BY <1>10 DEF SharedBy
  <2> QED BY <1>8, <1>9, <2>1, SumZero
<1>16. SumFunctionOnSet(ToldBy, CapHosts) = 0
  <2>1. \A h \in CapHosts : ToldBy[h] = 0
    BY <1>11 DEF ToldBy
  <2> QED BY <1>8, <1>9, <2>1, SumZero
<1>17. Taken = 0
  BY <1>7, <1>11 DEF Taken
<1>18. CaptureBooks
  BY <1>11, <1>12, <1>13, <1>14, <1>15, <1>16, <1>17 DEF CaptureBooks
<1>19. CaptureLimit
  <2>1. CapLimit \in Nat
    BY CaptureAssumption
  <2>2. ASSUME NEW h \in CapHosts PROVE Held(h) = 0
    <3>1. OfferedTo(h) \in [CapSessions -> Int] /\ \A s \in CapSessions : OfferedTo(h)[s] = 0
      BY <1>9, <1>10 DEF OfferedTo
    <3>2. SumFunctionOnSet(OfferedTo(h), CapSessions) = 0
      BY <1>8, <3>1, SumZero
    <3> QED BY <1>7, <1>10, <3>2 DEF Held
  <2> QED BY <1>1, <1>10, <1>11, <2>1, <2>2 DEF CaptureLimit
<1> QED BY <1>3, <1>4, <1>5, <1>18, <1>19 DEF CaptureInv

\* A step of another part of the system keeps the invariant.
LEMMA CaptureStays == CaptureInv /\ UNCHANGED captureVars => CaptureInv'
<1> SUFFICES ASSUME CaptureInv, UNCHANGED captureVars PROVE CaptureInv'
  OBVIOUS
<1>1. UNCHANGED <<capHome, capMerged, capSession, capShared, capQueue, capThread,
                  capTask, capBatches, capLink, capWriter>>
  BY DEF captureVars
<1>2. CaptureTypes' /\ WriterIdle'
  BY <1>1 DEF CaptureInv, CaptureTypes, WriterIdle
<1>3. \A h \in CapHosts : HostOrder(h)' /\ HostIdle(h)'
  <2> SUFFICES ASSUME NEW h \in CapHosts PROVE HostOrder(h)' /\ HostIdle(h)'
    OBVIOUS
  <2>1. SameHost(h) /\ ClosedStay
    BY <1>1 DEF SameHost, ClosedStay
  <2> QED BY <2>1, HostFrame DEF CaptureInv
<1>4. CaptureBooks'
  <2>1. /\ PutBy' = PutBy /\ CarriedBy' = CarriedBy /\ GivenUpBy' = GivenUpBy /\ SharedBy' = SharedBy
        /\ ToldBy' = ToldBy /\ Taken' = Taken /\ capWriter' = capWriter
    BY <1>1 DEF PutBy, CarriedBy, GivenUpBy, SharedBy, ToldBy, Taken
  <2> QED BY <2>1 DEF CaptureInv, CaptureBooks
<1>5. CaptureLimit'
  <2>1. /\ HomeHosts' = HomeHosts
        /\ \A h \in CapHosts : OfferedTo(h)' = OfferedTo(h)
    BY <1>1 DEF HomeHosts, OfferedTo
  <2>2. \A h \in CapHosts : Held(h)' = Held(h)
    BY <1>1, <2>1 DEF Held
  <2> QED BY <1>1, <2>1, <2>2 DEF CaptureInv, CaptureLimit
<1> QED BY <1>2, <1>3, <1>4, <1>5 DEF CaptureInv

\* Every step of the capture keeps the invariant.
LEMMA CaptureKeeps == CaptureInv /\ [CaptureNext]_captureVars => CaptureInv'
<1> SUFFICES ASSUME CaptureInv, [CaptureNext]_captureVars PROVE CaptureInv'
  OBVIOUS
<1>1. CASE CaptureSessions
  BY <1>1, SessionsKeep
<1>2. CASE CaptureThreads
  BY <1>2, ThreadStepKeeps, TakesKeeps, BatchSentKeeps DEF CaptureThreads
<1>3. CASE CaptureTasks
  BY <1>3, FinishKeeps, FinishQueuedKeeps, TaskForwardsKeeps, TaskResultKeeps, CoordinatorKeeps
     DEF CaptureTasks
<1>4. CASE MergedRecord
  BY <1>4, MergedKeeps
<1>5. CASE \E h \in CapHosts : AgentCut(h)
  BY <1>5, CutKeeps
<1>6. CASE UNCHANGED captureVars
  BY <1>6, CaptureStays
<1> QED BY <1>1, <1>2, <1>3, <1>4, <1>5, <1>6 DEF CaptureNext, CaptureTerminated

----------------------------------------------------------------------------
\* The figures of the summary, as sums.
MadeBy == [s \in CapSessions |-> capSession[s].made]
WrittenBy == [h \in HomeHosts |-> capThread[h].written]
DroppedBy == [h \in HomeHosts |-> capShared[h].dropped + capThread[h].lost]
\* The figures of a single machine, named.
FileWritten == MapThenSumSet(LAMBDA h : capThread[h].written, HomeHosts)
FileDropped == MapThenSumSet(LAMBDA h : capShared[h].dropped + capThread[h].lost, HomeHosts)

\* FramesMade adds up what the sessions made.
LEMMA MadeSum ==
  ASSUME CaptureTypes
  PROVE  MadeBy \in [CapSessions -> Int] /\ FramesMade = SumFunctionOnSet(MadeBy, CapSessions)
<1> DEFINE S == CapSessions
           f == MadeBy
           Is(g) == g = [s \in SUBSET S |->
                           IF s = {} THEN 0 ELSE capSession[Pick(s)].made + g[s \ {Pick(s)}]]
           c == CHOOSE h : Is(h)
<1>1. IsFiniteSet(S) /\ f \in [S -> Int]
  <2>1. IsFiniteSet(S)
    BY CaptureAssumption
  <2>2. f \in [S -> Int]
    BY DEF CaptureTypes, CapSessionRecords, MadeBy
  <2> QED BY <2>1, <2>2
<1>2. PICK g \in [SUBSET S -> Int] : \A s \in SUBSET S : Adds(g, f, s)
  BY <1>1, SumExists
<1>3. \A s \in SUBSET S : s # {} => f[Pick(s)] = capSession[Pick(s)].made
  <2>1. \A s \in SUBSET S : s # {} => Pick(s) \in S
    BY <1>1, PickFacts
  <2> QED BY <2>1 DEF MadeBy
<1>4. Is(g)
  <2> HIDE DEF f
  <2> QED BY <1>2, <1>3 DEF Adds
<1>5. FramesMade = c[S]
  BY DEF FramesMade, MapThenSumSet, MapThenFoldSet, Pick
<1>6. Is(c)
  <2> HIDE DEF Is
  <2> QED BY <1>4
<1>7. \A s \in SUBSET S : Adds(c, f, s)
  <2> HIDE DEF c, f
  <2> QED BY <1>3, <1>6 DEF Adds
<1> HIDE DEF c, f, S
<1>8. c[S] = SumFunctionOnSet(f, S)
  BY <1>1, <1>7, SumUnique
<1> QED BY <1>1, <1>5, <1>8 DEF S, f

\* The same for what the processes wrote.
LEMMA WrittenSum ==
  ASSUME CaptureTypes
  PROVE  WrittenBy \in [HomeHosts -> Int] /\ FileWritten = SumFunctionOnSet(WrittenBy, HomeHosts)
<1> DEFINE S == HomeHosts
           f == WrittenBy
           Is(g) == g = [s \in SUBSET S |->
                           IF s = {} THEN 0 ELSE capThread[Pick(s)].written + g[s \ {Pick(s)}]]
           c == CHOOSE h : Is(h)
<1>1. IsFiniteSet(S) /\ f \in [S -> Int]
  <2>1. IsFiniteSet(CapHosts) /\ HomeHosts \in SUBSET CapHosts
    BY CaptureAssumption DEF CaptureTypes, HomeHosts
  <2>2. IsFiniteSet(S)
    BY <2>1, FS_Subset
  <2>3. \A h \in HomeHosts : capThread[h].written \in Int
    BY <2>1 DEF CaptureTypes, ThreadRecords
  <2> QED BY <2>2, <2>3 DEF WrittenBy
<1>2. PICK g \in [SUBSET S -> Int] : \A s \in SUBSET S : Adds(g, f, s)
  BY <1>1, SumExists
<1>3. \A s \in SUBSET S : s # {} => f[Pick(s)] = capThread[Pick(s)].written
  <2>1. \A s \in SUBSET S : s # {} => Pick(s) \in S
    BY <1>1, PickFacts
  <2> QED BY <2>1 DEF WrittenBy
<1>4. Is(g)
  <2> HIDE DEF f
  <2> QED BY <1>2, <1>3 DEF Adds
<1>5. FileWritten = c[S]
  BY DEF FileWritten, MapThenSumSet, MapThenFoldSet, Pick
<1>6. Is(c)
  <2> HIDE DEF Is
  <2> QED BY <1>4
<1>7. \A s \in SUBSET S : Adds(c, f, s)
  <2> HIDE DEF c, f
  <2> QED BY <1>3, <1>6 DEF Adds
<1> HIDE DEF c, f, S
<1>8. c[S] = SumFunctionOnSet(f, S)
  BY <1>1, <1>7, SumUnique
<1> QED BY <1>1, <1>5, <1>8 DEF S, f

\* The same for what the processes dropped.
LEMMA DroppedSum ==
  ASSUME CaptureTypes
  PROVE  DroppedBy \in [HomeHosts -> Int] /\ FileDropped = SumFunctionOnSet(DroppedBy, HomeHosts)
<1> DEFINE S == HomeHosts
           f == DroppedBy
           Is(g) == g = [s \in SUBSET S |->
                           IF s = {} THEN 0 ELSE (capShared[Pick(s)].dropped + capThread[Pick(s)].lost) + g[s \ {Pick(s)}]]
           c == CHOOSE h : Is(h)
<1>1. IsFiniteSet(S) /\ f \in [S -> Int]
  <2>1. IsFiniteSet(CapHosts) /\ HomeHosts \in SUBSET CapHosts
    BY CaptureAssumption DEF CaptureTypes, HomeHosts
  <2>2. IsFiniteSet(S)
    BY <2>1, FS_Subset
  <2>3. \A h \in HomeHosts : capShared[h].dropped + capThread[h].lost \in Int
    BY <2>1 DEF CaptureTypes, ThreadRecords
  <2> QED BY <2>2, <2>3 DEF DroppedBy
<1>2. PICK g \in [SUBSET S -> Int] : \A s \in SUBSET S : Adds(g, f, s)
  BY <1>1, SumExists
<1>3. \A s \in SUBSET S : s # {} => f[Pick(s)] = (capShared[Pick(s)].dropped + capThread[Pick(s)].lost)
  <2>1. \A s \in SUBSET S : s # {} => Pick(s) \in S
    BY <1>1, PickFacts
  <2> QED BY <2>1 DEF DroppedBy
<1>4. Is(g)
  <2> HIDE DEF f
  <2> QED BY <1>2, <1>3 DEF Adds
<1>5. FileDropped = c[S]
  BY DEF FileDropped, MapThenSumSet, MapThenFoldSet, Pick
<1>6. Is(c)
  <2> HIDE DEF Is
  <2> QED BY <1>4
<1>7. \A s \in SUBSET S : Adds(c, f, s)
  <2> HIDE DEF c, f
  <2> QED BY <1>3, <1>6 DEF Adds
<1> HIDE DEF c, f, S
<1>8. c[S] = SumFunctionOnSet(f, S)
  BY <1>1, <1>7, SumUnique
<1> QED BY <1>1, <1>5, <1>8 DEF S, f

\* The sum over one element.
LEMMA SumOne ==
  ASSUME NEW x, NEW f \in [{x} -> Int]
  PROVE  SumFunctionOnSet(f, {x}) = f[x]
<1>1. IsFiniteSet({x})
  BY FS_Singleton
<1>2. PICK g \in [SUBSET {x} -> Int] :
        (\A s \in SUBSET {x} : Adds(g, f, s)) /\ SumFunctionOnSet(f, {x}) = g[{x}]
  BY <1>1, SumDef
<1>3. Pick({x}) = x
  BY DEF Pick
<1>4. Adds(g, f, {x}) /\ Adds(g, f, {})
  BY <1>2
<1>5. g[{}] = 0 /\ {x} \ {x} = {} /\ {x} # {}
  BY <1>4 DEF Adds
<1>6. g[{x}] = f[x] + 0
  BY <1>3, <1>4, <1>5 DEF Adds
<1> QED BY <1>2, <1>6

\* No more than the limit is ever written.
LEMMA LimitIsKept == CaptureInv /\ Limited => FramesWritten <= CapLimit
<1> SUFFICES ASSUME CaptureInv, Limited PROVE FramesWritten <= CapLimit
  OBVIOUS
<1>1. CASE capMerged
  <2>1. /\ capWriter.written \in Nat /\ capWriter.lost \in Nat /\ CapLimit \in Nat
    BY CaptureAssumption DEF CaptureInv, CaptureTypes
  <2>2. capWriter.written + capWriter.lost <= CapLimit
    BY <1>1 DEF CaptureInv, CaptureLimit
  <2> QED BY <1>1, <2>1, <2>2 DEF FramesWritten
<1>2. CASE ~capMerged
  <2>1. FramesWritten = FileWritten
    BY <1>2 DEF FramesWritten, FileWritten
  <2>2. /\ WrittenBy \in [HomeHosts -> Int] /\ FileWritten = SumFunctionOnSet(WrittenBy, HomeHosts)
        /\ HomeHosts \in SUBSET CapHosts
    BY WrittenSum DEF CaptureInv, CaptureTypes, HomeHosts
  <2>3. IsFiniteSet(HomeHosts) /\ Cardinality(HomeHosts) = 1
    BY <1>2, <2>2, CaptureAssumption, FS_Subset DEF CaptureInv, CaptureLimit
  <2>4. PICK h : HomeHosts = {h}
    BY <2>3, FS_Singleton
  <2>5. SumFunctionOnSet(WrittenBy, {h}) = WrittenBy[h]
    BY <2>2, <2>4, SumOne
  <2>6. WrittenBy[h] = capThread[h].written /\ h \in CapHosts
    BY <2>2, <2>4 DEF WrittenBy
  <2>7. Held(h) <= CapLimit
    BY <1>2, <2>6 DEF CaptureInv, CaptureLimit
  <2>8. /\ Records(capQueue[h]) \in Nat /\ capThread[h].written \in Nat /\ capThread[h].lost \in Nat
    BY <2>6, HostReads
  <2>9. SumFunctionOnSet(OfferedTo(h), CapSessions) \in Nat /\ CapLimit \in Nat
    BY <2>6, OfferedNumber, CaptureAssumption
  <2>10. capThread[h].written <= CapLimit
    BY <2>7, <2>8, <2>9 DEF Held
  <2> QED BY <2>1, <2>2, <2>4, <2>5, <2>6, <2>10
<1> QED BY <1>1, <1>2

\* A process whose work is over holds only what it wrote or lost.
LEMMA HostEmptied ==
  ASSUME CaptureInv, CaptureOver, capWriter.cut = {}, NEW h \in CapHosts
  PROVE  /\ h \in HomeHosts => capTask[h] = "over"
         /\ CarriedBy[h] = capThread[h].written + capThread[h].lost
         /\ h \notin HomeHosts => /\ capThread[h].written = 0 /\ capThread[h].lost = 0
                                  /\ capShared[h].dropped = 0
<1>1. HostOrder(h) /\ HostIdle(h) /\ capThread[h].written \in Nat /\ capThread[h].lost \in Nat
  BY HostReads
<1>2. h \in HomeHosts => capTask[h] = "over"
  BY <1>1 DEF CaptureOver, HostOrder
<1>3. capLink[h] = <<>> /\ capBatches[h] = <<>> /\ capQueue[h] = <<>> /\ capThread[h].batch = 0
  <2>1. CASE h \in HomeHosts
    <3>1. capTask[h] = "over" /\ h \notin capWriter.cut
      BY <1>2, <2>1
    <3>2. capThread[h].at = "done" /\ capBatches[h] = <<>>
      BY <1>1, <3>1 DEF HostOrder
    <3>3. capQueue[h] = <<>> /\ capThread[h].batch = 0
      BY <1>1, <3>2 DEF HostOrder
    <3>4. capLink[h] = <<>>
      BY <1>1, <2>1 DEF CaptureOver, HostOrder, HostIdle
    <3> QED BY <3>2, <3>3, <3>4
  <2>2. CASE h \notin HomeHosts
    BY <1>1, <2>2 DEF HostIdle
  <2> QED BY <2>1, <2>2
<1>4. SeqSum(<<>>) = 0 /\ Records(<<>>) = 0
  <2>1. <<>> \in Seq(Nat) /\ Len(<<>>) = 0
    OBVIOUS
  <2>2. SeqSum(<<>>) = 0
    BY <2>1, SeqSumFacts
  <2> QED BY <2>1, <2>2 DEF Records
<1>5. CarriedBy[h] = 0 + 0 + capThread[h].written + capThread[h].lost + 0 + 0
  BY <1>3, <1>4 DEF CarriedBy
<1>6. CarriedBy[h] = capThread[h].written + capThread[h].lost
  BY <1>1, <1>5
<1>7. h \notin HomeHosts => /\ capThread[h].written = 0 /\ capThread[h].lost = 0
                            /\ capShared[h].dropped = 0
  BY <1>1 DEF HostIdle
<1> QED BY <1>2, <1>6, <1>7

\* What process h wrote, lost or dropped, once it holds nothing else.
AccountedBy == [h \in CapHosts |-> CarriedBy[h] + SharedBy[h]]

\* The sums of what is carried and dropped add up.
LEMMA AccountedSum ==
  ASSUME CaptureInv
  PROVE  /\ AccountedBy \in [CapHosts -> Int]
         /\ SumFunctionOnSet(AccountedBy, CapHosts)
              = SumFunctionOnSet(CarriedBy, CapHosts) + SumFunctionOnSet(SharedBy, CapHosts)
         /\ SumFunctionOnSet(CarriedBy, CapHosts) \in Int /\ SumFunctionOnSet(SharedBy, CapHosts) \in Int
<1>1. CaptureTypes /\ HostsOrder /\ IsFiniteSet(CapHosts)
  BY CaptureAssumption DEF CaptureInv, HostsOrder
<1>2. CarriedBy \in [CapHosts -> Int] /\ SharedBy \in [CapHosts -> Int]
  BY <1>1, BookTypes DEF BookNumbers
<1>3. AccountedBy \in [CapHosts -> Int] /\ \A h \in CapHosts : AccountedBy[h] = CarriedBy[h] + SharedBy[h]
  BY <1>2 DEF AccountedBy
<1> QED BY <1>1, <1>2, <1>3, SumAdd

\* When the summary is complete, every record made is carried, taken or
\* dropped.
LEMMA EndBooks ==
  ASSUME CaptureInv, CaptureOver, capWriter.cut = {}
  PROVE  /\ FramesMade = SumFunctionOnSet(CarriedBy, CapHosts) + Taken + SumFunctionOnSet(SharedBy, CapHosts)
         /\ SumFunctionOnSet(CarriedBy, CapHosts) \in Int /\ SumFunctionOnSet(SharedBy, CapHosts) \in Int
         /\ Taken \in Int
<1>1. CaptureTypes /\ HostsOrder /\ IsFiniteSet(CapSessions) /\ IsFiniteSet(CapHosts)
  BY CaptureAssumption DEF CaptureInv, HostsOrder
<1>2. /\ PutBy \in [CapSessions -> Int] /\ GivenUpBy \in [CapSessions -> Int]
      /\ CarriedBy \in [CapHosts -> Int] /\ SharedBy \in [CapHosts -> Int] /\ Taken \in Int
  BY <1>1, BookTypes DEF BookNumbers
<1>3. MadeBy \in [CapSessions -> Int] /\ FramesMade = SumFunctionOnSet(MadeBy, CapSessions)
  BY <1>1, MadeSum
<1>4. \A s \in CapSessions : MadeBy[s] = PutBy[s] + GivenUpBy[s]
  <2> SUFFICES ASSUME NEW s \in CapSessions PROVE MadeBy[s] = PutBy[s] + GivenUpBy[s]
    OBVIOUS
  <2>1. capHome[s] \in CapHosts /\ capHome[s] \in HomeHosts
    BY <1>1 DEF CaptureTypes, HomeHosts
  <2>2. capTask[capHome[s]] = "over"
    BY <2>1, HostEmptied
  <2>3. capSession[s].at = "closed"
    <3>1. SessionsOver(capHome[s])
      BY <1>1, <2>1, <2>2 DEF HostsOrder, HostOrder
    <3> QED BY <3>1 DEF SessionsOver
  <2>4. capSession[s].made \in Nat /\ capSession[s].dropped \in Nat
    BY <1>1 DEF CaptureTypes, CapSessionRecords
  <2>5. Weight(capSession[s].at, {"claim", "offer"}) = 0
    BY <2>3 DEF Weight
  <2>6. PutBy[s] = capSession[s].made - capSession[s].dropped - 0 /\ GivenUpBy[s] = capSession[s].dropped
    BY <2>3, <2>5, SessionTerms
  <2>7. MadeBy[s] = capSession[s].made
    BY DEF MadeBy
  <2> QED BY <2>4, <2>6, <2>7
<1>5. /\ SumFunctionOnSet(PutBy, CapSessions) \in Int /\ SumFunctionOnSet(GivenUpBy, CapSessions) \in Int
      /\ SumFunctionOnSet(MadeBy, CapSessions)
           = SumFunctionOnSet(PutBy, CapSessions) + SumFunctionOnSet(GivenUpBy, CapSessions)
  BY <1>1, <1>2, <1>3, <1>4, SumAdd
<1>6. /\ SumFunctionOnSet(PutBy, CapSessions) = SumFunctionOnSet(CarriedBy, CapHosts) + Taken
      /\ SumFunctionOnSet(GivenUpBy, CapSessions) = SumFunctionOnSet(SharedBy, CapHosts)
  BY DEF CaptureInv, CaptureBooks
<1>7. SumFunctionOnSet(CarriedBy, CapHosts) \in Int /\ SumFunctionOnSet(SharedBy, CapHosts) \in Int
  BY AccountedSum
<1> QED BY <1>2, <1>3, <1>5, <1>6, <1>7

\* The summary adds up: no record is counted twice and none is missing.
LEMMA SummaryAddsUp ==
  CaptureInv /\ CaptureOver /\ capWriter.cut = {} => FramesWritten + FramesDropped = FramesMade
<1> SUFFICES ASSUME CaptureInv, CaptureOver, capWriter.cut = {}
             PROVE  FramesWritten + FramesDropped = FramesMade
  OBVIOUS
<1>1. /\ FramesMade = SumFunctionOnSet(CarriedBy, CapHosts) + Taken + SumFunctionOnSet(SharedBy, CapHosts)
      /\ SumFunctionOnSet(CarriedBy, CapHosts) \in Int /\ SumFunctionOnSet(SharedBy, CapHosts) \in Int
      /\ Taken \in Int
  BY EndBooks
<1>2. /\ AccountedBy \in [CapHosts -> Int]
      /\ SumFunctionOnSet(AccountedBy, CapHosts)
           = SumFunctionOnSet(CarriedBy, CapHosts) + SumFunctionOnSet(SharedBy, CapHosts)
  BY AccountedSum
<1>3. FramesMade = SumFunctionOnSet(AccountedBy, CapHosts) + Taken
      /\ SumFunctionOnSet(AccountedBy, CapHosts) \in Int
  BY <1>1, <1>2
<1>4. \A h \in CapHosts : /\ SharedBy[h] = capShared[h].dropped /\ capShared[h].dropped \in Nat
                           /\ capThread[h].written \in Nat /\ capThread[h].lost \in Nat
  BY DEF SharedBy, CaptureInv, CaptureTypes, ThreadRecords
<1>5. \A h \in CapHosts :
        /\ AccountedBy[h] = capThread[h].written + (capShared[h].dropped + capThread[h].lost)
        /\ h \notin HomeHosts => AccountedBy[h] = 0
  <2> SUFFICES ASSUME NEW h \in CapHosts
               PROVE  /\ AccountedBy[h] = capThread[h].written + (capShared[h].dropped + capThread[h].lost)
                      /\ h \notin HomeHosts => AccountedBy[h] = 0
    OBVIOUS
  <2>1. AccountedBy[h] = CarriedBy[h] + SharedBy[h]
    BY DEF AccountedBy
  <2>2. /\ CarriedBy[h] = capThread[h].written + capThread[h].lost
        /\ h \notin HomeHosts => /\ capThread[h].written = 0 /\ capThread[h].lost = 0
                                 /\ capShared[h].dropped = 0
    BY HostEmptied
  <2> QED BY <1>4, <2>1, <2>2
<1>6. IsFiniteSet(CapHosts) /\ HomeHosts \in SUBSET CapHosts /\ IsFiniteSet(HomeHosts)
  <2>1. IsFiniteSet(CapHosts) /\ HomeHosts \in SUBSET CapHosts
    BY CaptureAssumption DEF CaptureInv, CaptureTypes, HomeHosts
  <2> QED BY <2>1, FS_Subset
<1>7. CASE capMerged
  <2>1. ToldBy = AccountedBy
    <3>1. \A h \in CapHosts : capThread[h].written = 0
      BY <1>7, HostReads DEF HostIdle
    <3>2. capWriter.ended = HomeHosts
      BY <1>7 DEF CaptureOver
    <3>3. \A h \in CapHosts : ToldBy[h] = AccountedBy[h]
      <4> SUFFICES ASSUME NEW h \in CapHosts PROVE ToldBy[h] = AccountedBy[h]
        OBVIOUS
      <4>1. CASE h \in HomeHosts
        <5>1. ToldBy[h] = capShared[h].dropped + capThread[h].lost
          BY <3>2, <4>1 DEF ToldBy
        <5> QED BY <1>4, <1>5, <3>1, <5>1
      <4>2. CASE h \notin HomeHosts
        <5>1. ToldBy[h] = 0
          BY <3>2, <4>2 DEF ToldBy
        <5> QED BY <1>5, <4>2, <5>1
      <4> QED BY <4>1, <4>2
    <3> QED BY <3>3 DEF ToldBy, AccountedBy
  <2>2. capWriter.dropped = SumFunctionOnSet(AccountedBy, CapHosts)
    BY <2>1 DEF CaptureInv, CaptureBooks
  <2>3. /\ capWriter.written \in Nat /\ capWriter.lost \in Nat /\ capWriter.over \in Nat
    BY DEF CaptureInv, CaptureTypes
  <2>4. Taken = 0 + capWriter.written + capWriter.lost + capWriter.over
    <3>1. SeqSum(<<>>) = 0
      <4>1. <<>> \in Seq(Nat)
        OBVIOUS
      <4> QED BY <4>1, SeqSumFacts
    <3> QED BY <1>7, <3>1 DEF Taken, CaptureOver
  <2>5. FramesWritten = capWriter.written
        /\ FramesDropped = capWriter.dropped + capWriter.lost + capWriter.over
    BY <1>7 DEF FramesWritten, FramesDropped
  <2> QED BY <1>3, <2>2, <2>3, <2>4, <2>5
<1>8. CASE ~capMerged
  <2>1. FramesWritten = FileWritten /\ FramesDropped = FileDropped
    BY <1>8 DEF FramesWritten, FramesDropped, FileWritten, FileDropped
  <2>2. /\ WrittenBy \in [HomeHosts -> Int] /\ FileWritten = SumFunctionOnSet(WrittenBy, HomeHosts)
        /\ DroppedBy \in [HomeHosts -> Int] /\ FileDropped = SumFunctionOnSet(DroppedBy, HomeHosts)
    BY WrittenSum, DroppedSum DEF CaptureInv
  <2> DEFINE both == [h \in HomeHosts |-> AccountedBy[h]]
  <2>3. both \in [HomeHosts -> Int] /\ \A h \in HomeHosts : both[h] = AccountedBy[h]
    BY <1>2, <1>6
  <2>4. \A h \in HomeHosts : both[h] = WrittenBy[h] + DroppedBy[h]
    BY <1>5, <1>6, <2>3 DEF WrittenBy, DroppedBy
  <2> HIDE DEF both
  <2>5. SumFunctionOnSet(both, HomeHosts) = FileWritten + FileDropped
    BY <1>6, <2>2, <2>3, <2>4, SumAdd
  <2>6. \A h \in CapHosts \ HomeHosts : AccountedBy[h] = 0
    BY <1>5
  <2>7. SumFunctionOnSet(AccountedBy, CapHosts) = SumFunctionOnSet(both, HomeHosts)
    BY <1>2, <1>6, <2>3, <2>6, SumOfPart
  <2>8. Taken = 0
    <3>1. SeqSum(<<>>) = 0
      <4>1. <<>> \in Seq(Nat)
        OBVIOUS
      <4> QED BY <4>1, SeqSumFacts
    <3> QED BY <1>8, <3>1 DEF Taken, CaptureInv, WriterIdle
  <2> QED BY <1>3, <2>1, <2>5, <2>7, <2>8
<1> QED BY <1>7, <1>8

\* METHODOLOGY.md, section 11.1, of --capture (src/capture.rs): whatever
\* sessions, threads and agents race for it, no more than the limit is
\* written; and a summary that is complete, with no agent cut off, counts
\* every record the sessions made as written or dropped, once.
THEOREM CaptureIsExact == CaptureSpec => []CaptureExact
<1>1. CaptureInv => CaptureExact
  BY LimitIsKept, SummaryAddsUp DEF CaptureExact
<1> QED BY <1>1, CaptureStarts, CaptureKeeps, PTL DEF CaptureSpec

----------------------------------------------------------------------------
(* The mock server (src/mock.rs, src/mock/rules.rs).  The inductive        *)
(* invariant says that what a session has sent, followed by what its queue *)
(* still promises, is all that its input has asked for.                    *)

\* g takes the steps F[1] .. F[m] from v on.
Recursion(g, V, v, m, F) ==
  g \in [0 .. m -> V] /\ g[0] = v /\ \A i \in 1 .. m : g[i] = F[i][g[i - 1]]

\* A recursion over 1 .. n whose steps stay in V defines a function.
LEMMA RecursionExists ==
  ASSUME NEW V, NEW v \in V, NEW m \in Nat, NEW F \in [1 .. m -> [V -> V]]
  PROVE  \E g : Recursion(g, V, v, m, F)
<1> DEFINE Good(g, n) == g[0] = v /\ \A i \in 1 .. n : g[i] = F[i][g[i - 1]]
           T == {n \in Nat : n <= m => \E g \in [0 .. n -> V] : Good(g, n)}
<1>1. 0 \in T
  <2> DEFINE g == [i \in 0 .. 0 |-> v]
  <2>1. g \in [0 .. 0 -> V] /\ Good(g, 0)
    OBVIOUS
  <2> QED BY <2>1
<1>2. ASSUME NEW n \in T PROVE n + 1 \in T
  <2>1. SUFFICES ASSUME n + 1 <= m PROVE \E g \in [0 .. (n + 1) -> V] : Good(g, n + 1)
    OBVIOUS
  <2>2. n \in Nat /\ n <= m
    BY <2>1
  <2>3. PICK g \in [0 .. n -> V] : Good(g, n)
    BY <1>2, <2>2
  <2> DEFINE h == [i \in 0 .. (n + 1) |-> IF i = n + 1 THEN F[n + 1][g[n]] ELSE g[i]]
  <2>4. n + 1 \in 1 .. m /\ n \in 0 .. n /\ g[n] \in V /\ F[n + 1] \in [V -> V]
    BY <2>1, <2>2, <2>3
  <2>5. F[n + 1][g[n]] \in V
    BY <2>4
  <2>6. \A i \in 0 .. (n + 1) : i # n + 1 => i \in 0 .. n
    BY <2>2
  <2>7. h \in [0 .. (n + 1) -> V]
    BY <2>3, <2>5, <2>6
  <2>8. h[n + 1] = F[n + 1][g[n]] /\ \A i \in 0 .. n : h[i] = g[i]
    BY <2>2
  <2> HIDE DEF h
  <2>9. \A i \in 1 .. (n + 1) : h[i] = F[i][h[i - 1]]
    <3> SUFFICES ASSUME NEW i \in 1 .. (n + 1) PROVE h[i] = F[i][h[i - 1]]
      OBVIOUS
    <3>1. CASE i = n + 1
      <4>1. i - 1 = n /\ h[n] = g[n]
        BY <2>2, <2>4, <2>8, <3>1
      <4> QED BY <2>8, <3>1, <4>1
    <3>2. CASE i # n + 1
      <4>1. i \in 1 .. n /\ i \in 0 .. n /\ i - 1 \in 0 .. n
        BY <2>2, <3>2
      <4> QED BY <2>3, <2>8, <4>1
    <3> QED BY <3>1, <3>2
  <2>10. h[0] = v
    BY <2>2, <2>3, <2>8
  <2> QED BY <2>7, <2>9, <2>10
<1>3. T = Nat
  <2> HIDE DEF T
  <2>1. T \in SUBSET Nat
    BY DEF T
  <2> QED BY <1>1, <1>2, <2>1, AllNumbers
<1>4. \E g \in [0 .. m -> V] : Good(g, m)
  BY <1>3
<1> QED BY <1>4 DEF Recursion

----------------------------------------------------------------------------
(* The mock server (src/mock.rs).                                          *)

MockSpec == MockInit /\ [][MockNext]_mockVars

\* What is queued, and a connection's task.
Items == [k : {"frame", "control", "close"}, n : Nat]
\* The task of a connection.
ConnRecords ==
  [at : {"new", "reject", "shake", "open", "stall", "drain", "gone"}, queue : Seq(Items),
   received : Nat, replies : Nat, pong : BOOLEAN, log : Seq(ClientFrames), sent : Seq(Items)]

\* A session the active count has.
Serving == {"open", "stall", "drain"}

\* What every input asks for.
AskedFor == [log \in Seq(ClientFrames) |-> Asked(log)]

\* What a session has sent and what its queue promises are together what its
\* input asks for.
Continues(r, asked) ==
  LET p == Promised(asked[r.log])
  IN p.frames = r.sent \o Promised(r.queue).frames /\ p.over = Promised(r.queue).over

\* The counts of a connection; close-after; and what it sent is the beginning
\* of what it owes, its queue the rest as long as it is open.
ConnOK(r, asked, mode) ==
  /\ r.received = Len(r.log) /\ r.replies = Len(r.sent)
  /\ r.at \in {"new", "reject", "shake"} => r.log = <<>> /\ r.sent = <<>>
  /\ CloseAfter # 0 => /\ Len(r.sent) <= CloseAfter
                       /\ r.at \in {"open", "stall"} => Len(r.sent) < CloseAfter
  /\ mode # "replay" => /\ r.at \in {"open", "stall"} => Continues(r, asked)
                        /\ IsPrefix(r.sent, Promised(asked[r.log]).frames)

\* The configurations.
MockModes ==
  /\ mockMode \in {"echo", "rules", "replay", "socketio"}
  /\ mockUnmatched \in {"echo", "ignore"}

\* Types.
MockTypes ==
  /\ MockModes
  /\ mockConn \in [MockConns -> ConnRecords]
  /\ mockCounters \in [accepted : Nat, rejected : Nat, active : Int, received : Int, sent : Int]

\* What the counters add up, by connection.
SentBy == [c \in MockConns |-> Len(mockConn[c].sent)]
ReceivedBy == [c \in MockConns |-> Len(mockConn[c].log)]
ServedBy == [c \in MockConns |-> Weight(mockConn[c].at, Serving)]

\* The counters are those of the connections.
MockBooks ==
  /\ mockCounters.sent = SumFunctionOnSet(SentBy, MockConns)
  /\ mockCounters.received = SumFunctionOnSet(ReceivedBy, MockConns)
  /\ mockCounters.active = SumFunctionOnSet(ServedBy, MockConns)

\* The inductive invariant.
MockInv ==
  /\ MockTypes
  /\ \A c \in MockConns : ConnOK(mockConn[c], AskedFor, mockMode)
  /\ MockBooks
----------------------------------------------------------------------------
\* What a queue may promise, and what an empty one does.
Promises == [frames : Seq(Items), over : BOOLEAN]
NoPromise == [frames |-> <<>>, over |-> FALSE]

\* What an item adds to a promise, as cases.
LEMMA PromiseFacts ==
  ASSUME NEW p \in Promises, NEW e \in Items
  PROVE  /\ Promise(p, e) \in Promises
         /\ p.over => Promise(p, e) = p
         /\ e.k = "control" => Promise(p, e) = p
         /\ ~p.over /\ e.k = "close" => Promise(p, e) = [frames |-> p.frames, over |-> TRUE]
         /\ ~p.over /\ e.k = "frame" => Promise(p, e) = [frames |-> Append(p.frames, e), over |-> FALSE]
<1>1. p.frames \in Seq(Items) /\ p.over \in BOOLEAN /\ e.k \in {"frame", "control", "close"}
  BY DEF Promises, Items
<1>2. p.over => Promise(p, e) = p
  BY <1>1 DEF Promise
<1>3. e.k = "control" => Promise(p, e) = p
  BY <1>1 DEF Promise
<1>4. ~p.over /\ e.k = "close" => Promise(p, e) = [frames |-> p.frames, over |-> TRUE]
  BY <1>1 DEF Promise
<1>5. ~p.over /\ e.k = "frame" => Promise(p, e) = [frames |-> Append(p.frames, e), over |-> FALSE]
  BY <1>1 DEF Promise
<1>6. Append(p.frames, e) \in Seq(Items)
  BY <1>1, AppendProperties
<1>8. /\ [frames |-> p.frames, over |-> TRUE] \in Promises
      /\ [frames |-> Append(p.frames, e), over |-> FALSE] \in Promises
  <2>1. \A f \in Seq(Items) : \A b \in BOOLEAN : [frames |-> f, over |-> b] \in Promises
    BY DEF Promises
  <2> QED BY <1>1, <1>6, <2>1
<1>7. Promise(p, e) \in Promises
  <2>1. CASE p.over \/ e.k = "control"
    BY <1>2, <1>3, <2>1
  <2>2. CASE ~p.over /\ e.k = "close"
    BY <1>4, <1>8, <2>2
  <2>3. CASE ~p.over /\ e.k = "frame"
    BY <1>5, <1>8, <2>3
  <2> QED BY <1>1, <2>1, <2>2, <2>3
<1> QED BY <1>2, <1>3, <1>4, <1>5, <1>7

\* g[n] is what the first n items promise.
UpTo(g, q) ==
  /\ g \in [0 .. Len(q) -> Promises] /\ g[0] = NoPromise
  /\ \A i \in 1 .. Len(q) : g[i] = Promise(g[i - 1], q[i])

\* Promised is what its recursion says.
LEMMA PromisedDef ==
  ASSUME NEW q \in Seq(Items)
  PROVE  \E g : UpTo(g, q) /\ Promised(q) = g[Len(q)]
<1> DEFINE m == Len(q)
           Is(g) == g = [n \in 0 .. m |-> IF n = 0 THEN NoPromise ELSE Promise(g[n - 1], q[n])]
           c == CHOOSE f : Is(f)
           F == [i \in 1 .. m |-> [p \in Promises |-> Promise(p, q[i])]]
<1>1. m \in Nat /\ \A i \in 1 .. m : q[i] \in Items
  BY LenProperties
<1>2. NoPromise \in Promises
  <2>1. <<>> \in Seq(Items)
    OBVIOUS
  <2> QED BY <2>1 DEF NoPromise, Promises
<1>3. F \in [1 .. m -> [Promises -> Promises]]
      /\ \A i \in 1 .. m : \A p \in Promises : F[i][p] = Promise(p, q[i])
  BY <1>1, PromiseFacts
<1>16. PICK g : Recursion(g, Promises, NoPromise, m, F)
  <2>1. m \in Nat
    BY <1>1
  <2>2. F \in [1 .. m -> [Promises -> Promises]]
    BY <1>3
  <2> HIDE DEF F, m
  <2> QED BY <1>2, <2>1, <2>2, RecursionExists
<1>4. /\ g \in [0 .. m -> Promises] /\ g[0] = NoPromise
      /\ \A i \in 1 .. m : g[i] = F[i][g[i - 1]]
  BY <1>16 DEF Recursion
<1>5. \A i \in 1 .. m : i - 1 \in 0 .. m /\ g[i - 1] \in Promises /\ i # 0
  BY <1>1, <1>4
<1>6. \A i \in 1 .. m : g[i] = Promise(g[i - 1], q[i])
  BY <1>3, <1>4, <1>5
<1> HIDE DEF F
<1>7. Is(g)
  <2>1. \A n \in 0 .. m : g[n] = IF n = 0 THEN NoPromise ELSE Promise(g[n - 1], q[n])
    <3> SUFFICES ASSUME NEW n \in 0 .. m
                 PROVE  g[n] = IF n = 0 THEN NoPromise ELSE Promise(g[n - 1], q[n])
      OBVIOUS
    <3>1. n = 0 \/ n \in 1 .. m
      BY <1>1
    <3> QED BY <1>4, <1>5, <1>6, <3>1
  <2> QED BY <1>4, <2>1
<1>8. Is(c)
  <2> HIDE DEF Is
  <2> QED BY <1>7
<1>9. Promised(q) = c[m]
  BY DEF Promised, NoPromise
<1> HIDE DEF c
<1>10. /\ \A n \in 0 .. m : c[n] = IF n = 0 THEN NoPromise ELSE Promise(c[n - 1], q[n])
  BY <1>8
<1> DEFINE T == {n \in Nat : n <= m => c[n] = g[n]}
<1> HIDE DEF Is, m
<1>11. 0 \in T
  <2>1. 0 \in 0 .. m
    BY <1>1
  <2> QED BY <1>4, <1>10, <2>1
<1>12. ASSUME NEW n \in T PROVE n + 1 \in T
  <2>1. SUFFICES ASSUME n + 1 <= m PROVE c[n + 1] = g[n + 1]
    OBVIOUS
  <2>2. n + 1 \in 0 .. m /\ n + 1 \in 1 .. m /\ n + 1 # 0 /\ (n + 1) - 1 = n /\ c[n] = g[n]
    BY <1>1, <2>1
  <2>3. c[n + 1] = Promise(c[n], q[n + 1])
    BY <1>10, <2>2
  <2>4. g[n + 1] = Promise(g[n], q[n + 1])
    BY <1>6, <2>2
  <2> QED BY <2>2, <2>3, <2>4
<1>13. T = Nat
  <2> HIDE DEF T
  <2>1. T \in SUBSET Nat
    BY DEF T
  <2> QED BY <1>11, <1>12, <2>1, AllNumbers
<1>14. c[m] = g[m]
  BY <1>1, <1>13
<1> QED BY <1>4, <1>6, <1>9, <1>14 DEF UpTo, m

\* Appending to the second of two sequences.
LEMMA ConcatAppend ==
  ASSUME NEW S, NEW s \in Seq(S), NEW t \in Seq(S), NEW e \in S
  PROVE  s \o Append(t, e) = Append(s \o t, e)
<1> DEFINE u == <<e>>
<1>1. u \in Seq(S)
  OBVIOUS
<1>2. s \o t \in Seq(S)
  BY ConcatProperties
<1>3. Append(t, e) = t \o u /\ Append(s \o t, e) = (s \o t) \o u
  BY <1>2, AppendIsConcat
<1> HIDE DEF u
<1>4. (s \o t) \o u = s \o (t \o u)
  BY <1>1, ConcatAssociative
<1> QED BY <1>3, <1>4

\* What items promise together with what was promised before them.
Join(p, r) == IF p.over THEN p ELSE [frames |-> p.frames \o r.frames, over |-> r.over]

\* A promise joined with the next item's.
LEMMA JoinStep ==
  ASSUME NEW p \in Promises, NEW r \in Promises, NEW e \in Items
  PROVE  Join(p, Promise(r, e)) = Promise(Join(p, r), e)
<1>1. p.frames \in Seq(Items) /\ r.frames \in Seq(Items) /\ p.over \in BOOLEAN /\ r.over \in BOOLEAN
  BY DEF Promises
<1> DEFINE j == Join(p, r)
<1>2. j \in Promises
  <2>1. p.frames \o r.frames \in Seq(Items)
    BY <1>1, ConcatProperties
  <2>2. \A f \in Seq(Items) : \A b \in BOOLEAN : [frames |-> f, over |-> b] \in Promises
    BY DEF Promises
  <2>3. [frames |-> p.frames \o r.frames, over |-> r.over] \in Promises
    BY <1>1, <2>1, <2>2
  <2> QED BY <2>3 DEF Join
<1>3. CASE p.over
  <2>1. j = p /\ Join(p, Promise(r, e)) = p
    BY <1>3 DEF Join
  <2> QED BY <1>3, <2>1, PromiseFacts
<1>4. CASE ~p.over
  <2>1. j = [frames |-> p.frames \o r.frames, over |-> r.over]
    BY <1>4 DEF Join
  <2>2. j.frames = p.frames \o r.frames /\ j.over = r.over
    <3> DEFINE x == p.frames \o r.frames
               y == r.over
    <3>1. j = [frames |-> x, over |-> y]
      BY <2>1
    <3> HIDE DEF x, y, j
    <3>2. j.frames = x /\ j.over = y
      BY <3>1
    <3> QED BY <3>2 DEF x, y
  <2>3. CASE r.over \/ e.k = "control"
    <3>1. Promise(r, e) = r
      BY <2>3, PromiseFacts
    <3>2. Promise(j, e) = j
      <4> HIDE DEF j
      <4> QED BY <1>2, <2>2, <2>3, PromiseFacts
    <3> QED BY <3>1, <3>2
  <2>4. CASE ~r.over /\ e.k = "close"
    <3>1. Promise(r, e) = [frames |-> r.frames, over |-> TRUE]
      BY <2>4, PromiseFacts
    <3>2. Promise(j, e) = [frames |-> j.frames, over |-> TRUE]
      <4> HIDE DEF j
      <4> QED BY <1>2, <2>2, <2>4, PromiseFacts
    <3>3. Join(p, Promise(r, e)) = [frames |-> p.frames \o r.frames, over |-> TRUE]
      BY <1>4, <3>1 DEF Join
    <3> QED BY <2>2, <3>2, <3>3
  <2>5. CASE ~r.over /\ e.k = "frame"
    <3>1. Promise(r, e) = [frames |-> Append(r.frames, e), over |-> FALSE]
      BY <2>5, PromiseFacts
    <3>2. Promise(j, e) = [frames |-> Append(j.frames, e), over |-> FALSE]
      <4> HIDE DEF j
      <4> QED BY <1>2, <2>2, <2>5, PromiseFacts
    <3>3. Join(p, Promise(r, e)) = [frames |-> p.frames \o Append(r.frames, e), over |-> FALSE]
      BY <1>4, <3>1 DEF Join
    <3>4. p.frames \o Append(r.frames, e) = Append(p.frames \o r.frames, e)
      <4> DEFINE x == p.frames
                 y == r.frames
      <4>1. x \in Seq(Items) /\ y \in Seq(Items)
        BY <1>1
      <4> HIDE DEF x, y
      <4>2. x \o Append(y, e) = Append(x \o y, e)
        BY <4>1, ConcatAppend
      <4> QED BY <4>2 DEF x, y
    <3> QED BY <2>2, <3>2, <3>3, <3>4
  <2> QED BY <2>3, <2>4, <2>5 DEF Items
<1> QED BY <1>3, <1>4 DEF Promises

\* What items promise is a promise, and items promise one after the other.
LEMMA PromisedJoin ==
  ASSUME NEW s \in Seq(Items), NEW t \in Seq(Items)
  PROVE  /\ Promised(s) \in Promises
         /\ Promised(s \o t) = Join(Promised(s), Promised(t))
<1> DEFINE st == s \o t
           a == Len(s)
           b == Len(t)
<1>1. /\ st \in Seq(Items) /\ Len(st) = a + b /\ a \in Nat /\ b \in Nat
      /\ (\A i \in 1 .. a : st[i] = s[i]) /\ \A i \in 1 .. b : st[a + i] = t[i] /\ t[i] \in Items
  BY ConcatProperties, LenProperties
<1>2. PICK g : UpTo(g, s) /\ Promised(s) = g[a]
  BY PromisedDef
<1>3. PICK h : UpTo(h, t) /\ Promised(t) = h[b]
  BY PromisedDef
<1>4. PICK f : UpTo(f, st) /\ Promised(st) = f[a + b]
  BY <1>1, PromisedDef
<1>5. /\ g \in [0 .. a -> Promises] /\ g[0] = NoPromise
      /\ \A i \in 1 .. a : g[i] = Promise(g[i - 1], s[i])
  BY <1>2 DEF UpTo
<1>6. /\ h \in [0 .. b -> Promises] /\ h[0] = NoPromise
      /\ \A i \in 1 .. b : h[i] = Promise(h[i - 1], t[i])
  BY <1>3 DEF UpTo
<1>7. /\ f[0] = NoPromise
      /\ \A i \in 1 .. (a + b) : f[i] = Promise(f[i - 1], st[i])
  BY <1>1, <1>4 DEF UpTo
<1> HIDE DEF st, a, b
<1> DEFINE S == {n \in Nat : n <= a => f[n] = g[n]}
           T == {n \in Nat : n <= b => f[a + n] = Join(g[a], h[n])}
<1>8. 0 \in S
  BY <1>5, <1>7
<1>9. ASSUME NEW n \in S PROVE n + 1 \in S
  <2>1. SUFFICES ASSUME n + 1 <= a PROVE f[n + 1] = g[n + 1]
    OBVIOUS
  <2>2. n + 1 \in 1 .. a /\ n + 1 \in 1 .. (a + b) /\ (n + 1) - 1 = n /\ f[n] = g[n]
    BY <1>1, <2>1
  <2>3. f[n + 1] = Promise(f[n], st[n + 1])
    BY <1>7, <2>2
  <2>4. g[n + 1] = Promise(g[n], s[n + 1])
    BY <1>5, <2>2
  <2>5. st[n + 1] = s[n + 1]
    BY <1>1, <2>2
  <2> QED BY <2>2, <2>3, <2>4, <2>5
<1>10. S = Nat
  <2> HIDE DEF S
  <2>1. S \in SUBSET Nat
    BY DEF S
  <2> QED BY <1>8, <1>9, <2>1, AllNumbers
<1>11. f[a] = g[a] /\ g[a] \in Promises
  BY <1>1, <1>5, <1>10
<1>12. 0 \in T
  <2>1. a + 0 = a
    BY <1>1
  <2>2. Join(g[a], NoPromise) = g[a]
    <3>1. g[a].frames \in Seq(Items) /\ g[a].over \in BOOLEAN
          /\ g[a] = [frames |-> g[a].frames, over |-> g[a].over]
      BY <1>11 DEF Promises
    <3>2. g[a].frames \o <<>> = g[a].frames
      BY <3>1
    <3> QED BY <3>1, <3>2 DEF Join, NoPromise
  <2> QED BY <1>6, <1>11, <2>1, <2>2
<1>13. ASSUME NEW n \in T PROVE n + 1 \in T
  <2>1. SUFFICES ASSUME n + 1 <= b PROVE f[a + (n + 1)] = Join(g[a], h[n + 1])
    OBVIOUS
  <2>2. /\ n + 1 \in 1 .. b /\ a + (n + 1) \in 1 .. (a + b) /\ (n + 1) - 1 = n /\ n \in 0 .. b
        /\ (a + (n + 1)) - 1 = a + n /\ f[a + n] = Join(g[a], h[n])
    BY <1>1, <2>1
  <2>3. f[a + (n + 1)] = Promise(f[a + n], t[n + 1])
    <3>1. st[a + (n + 1)] = t[n + 1]
      BY <1>1, <2>2
    <3> QED BY <1>7, <2>2, <3>1
  <2>4. h[n + 1] = Promise(h[n], t[n + 1]) /\ h[n] \in Promises /\ t[n + 1] \in Items
    BY <1>1, <1>6, <2>2
  <2>5. Join(g[a], Promise(h[n], t[n + 1])) = Promise(Join(g[a], h[n]), t[n + 1])
    BY <1>11, <2>4, JoinStep
  <2> QED BY <2>2, <2>3, <2>4, <2>5
<1>14. T = Nat
  <2> HIDE DEF T
  <2>1. T \in SUBSET Nat
    BY DEF T
  <2> QED BY <1>12, <1>13, <2>1, AllNumbers
<1>15. f[a + b] = Join(g[a], h[b])
  <2>1. b \in T
    <3> HIDE DEF T
    <3> QED BY <1>1, <1>14
  <2>2. b <= b
    BY <1>1
  <2> QED BY <2>1, <2>2
<1> QED BY <1>2, <1>3, <1>4, <1>11, <1>15 DEF st

\* What the first item of a queue promises.
LEMMA PromisedFirst ==
  ASSUME NEW q \in Seq(Items), q # <<>>
  PROVE  /\ Head(q) \in Items /\ Tail(q) \in Seq(Items)
         /\ Head(q).k = "control" => Promised(q) = Promised(Tail(q))
         /\ Head(q).k = "close" => Promised(q).frames = <<>>
         /\ Head(q).k = "frame" =>
              /\ Promised(q).frames = <<Head(q)>> \o Promised(Tail(q)).frames
              /\ Promised(q).over = Promised(Tail(q)).over
<1> DEFINE e == Head(q)
           t == Tail(q)
           s == <<e>>
<1>1. e \in Items /\ t \in Seq(Items) /\ q = s \o t
  BY HeadTailProperties
<1>2. s \in Seq(Items) /\ Len(s) = 1 /\ s[1] = e
  BY <1>1
<1> HIDE DEF e, t
<1>3. Promised(t) \in Promises
  BY <1>1, PromisedJoin
<1>4. Promised(t).frames \in Seq(Items) /\ Promised(t).over \in BOOLEAN
      /\ Promised(t) = [frames |-> Promised(t).frames, over |-> Promised(t).over]
  BY <1>3 DEF Promises
<1>5. Promised(s) = Promise(NoPromise, e)
  <2> HIDE DEF s
  <2>1. PICK g : UpTo(g, s) /\ Promised(s) = g[1]
    BY <1>2, PromisedDef
  <2>2. 1 \in 1 .. Len(s) /\ 1 - 1 = 0
    BY <1>2
  <2>3. g[0] = NoPromise /\ g[1] = Promise(g[1 - 1], s[1])
    BY <2>1, <2>2 DEF UpTo
  <2> QED BY <1>2, <2>1, <2>2, <2>3
<1>6. NoPromise \in Promises /\ NoPromise.frames = <<>> /\ NoPromise.over = FALSE
  <2>1. <<>> \in Seq(Items)
    OBVIOUS
  <2> QED BY <2>1 DEF NoPromise, Promises
<1>7. Promised(q) = Join(Promise(NoPromise, e), Promised(t))
  <2> HIDE DEF s
  <2> QED BY <1>1, <1>2, <1>5, PromisedJoin
<1>8. CASE e.k = "control"
  <2>1. Promise(NoPromise, e) = NoPromise
    BY <1>1, <1>6, <1>8, PromiseFacts
  <2>2. <<>> \o Promised(t).frames = Promised(t).frames
    BY <1>4
  <2>3. Promised(q) = Promised(t)
    BY <1>4, <1>6, <1>7, <2>1, <2>2 DEF Join
  <2> QED BY <1>1, <1>8, <2>3 DEF e, t
<1>9. CASE e.k = "close"
  <2>1. Promise(NoPromise, e) = [frames |-> <<>>, over |-> TRUE]
    BY <1>1, <1>6, <1>9, PromiseFacts
  <2>2. Promised(q) = [frames |-> <<>>, over |-> TRUE]
    BY <1>7, <2>1 DEF Join
  <2>3. Promised(q).frames = <<>>
    BY <2>2
  <2> QED BY <1>1, <1>9, <2>3 DEF e, t
<1>10. CASE e.k = "frame"
  <2>1. Promise(NoPromise, e) = [frames |-> Append(<<>>, e), over |-> FALSE]
    BY <1>1, <1>6, <1>10, PromiseFacts
  <2>2. Append(<<>>, e) = <<e>>
    OBVIOUS
  <2>3. Promised(q) = [frames |-> <<e>> \o Promised(t).frames, over |-> Promised(t).over]
    BY <1>7, <2>1, <2>2 DEF Join
  <2>4. Promised(q).frames = <<e>> \o Promised(t).frames /\ Promised(q).over = Promised(t).over
    BY <2>3
  <2> QED BY <1>1, <1>10, <2>4 DEF e, t
<1> QED BY <1>1, <1>8, <1>9, <1>10 DEF Items, e, t

----------------------------------------------------------------------------
\* Every frame asks for a sequence of items.
LEMMA RepliesType ==
  MockModes => \A f \in ClientFrames : \A n \in Nat : QueueReplies(f, n) \in Seq(Items)
<1> SUFFICES ASSUME MockModes, NEW f \in ClientFrames, NEW n \in Nat
             PROVE  QueueReplies(f, n) \in Seq(Items)
  OBVIOUS
<1>1. Reply(n) \in Items /\ Control(n) \in Items /\ Closing(n) \in Items
  BY DEF Reply, Control, Closing, Items
<1>2. /\ <<>> \in Seq(Items) /\ <<Reply(n)>> \in Seq(Items) /\ <<Closing(n)>> \in Seq(Items)
      /\ <<Reply(n), Control(n)>> \in Seq(Items)
  BY <1>1
<1>3. \A m \in Nat : Times(Reply(n), m) \in Seq(Items)
  <2> SUFFICES ASSUME NEW m \in Nat PROVE Times(Reply(n), m) \in Seq(Items)
    OBVIOUS
  <2> DEFINE x == Reply(n)
  <2>1. x \in Items
    BY <1>1
  <2> HIDE DEF x
  <2>2. [i \in 1 .. m |-> x] \in Seq(Items)
    BY <2>1
  <2> QED BY <2>2 DEF Times, x
<1>4. Decide(f, n) \in Seq(Items)
  <2> DEFINE fits == {i \in DOMAIN MockRules : /\ n >= MockRules[i].after
                                               /\ MockRules[i].matcher \in {"any", f}}
             rule == MockRules[Min(fits)]
             last == IF rule.close THEN <<Closing(n)>> ELSE <<>>
  <2>1. Decide(f, n) = IF fits # {} THEN Times(Reply(n), rule.replies) \o last
                       ELSE IF mockUnmatched = "echo" THEN <<Reply(n)>> ELSE <<>>
    BY DEF Decide
  <2>2. CASE fits = {}
    BY <1>2, <2>1, <2>2
  <2>3. CASE fits # {}
    <3>1. /\ fits \in SUBSET Nat
          /\ \A i \in fits : MockRules[i].replies \in Nat /\ MockRules[i].close \in BOOLEAN
      <4> DEFINE R == [matcher : ClientFrames \cup {"any"}, after : Nat \ {0},
                       replies : Nat, close : BOOLEAN]
      <4>1. MockRules \in Seq(R)
        BY MockAssumption
      <4>2. \A r \in R : r.replies \in Nat /\ r.close \in BOOLEAN
        OBVIOUS
      <4> HIDE DEF R
      <4>3. DOMAIN MockRules \in SUBSET Nat /\ \A i \in DOMAIN MockRules : MockRules[i] \in R
        BY <4>1, LenProperties
      <4> QED BY <4>2, <4>3
    <3> HIDE DEF fits
    <3>2. \E i \in fits : \A j \in fits : i <= j
      BY <2>3, <3>1, LeastNumber
    <3>3. Min(fits) \in fits
      BY <3>2 DEF Min
    <3>4. rule.replies \in Nat
      BY <3>1, <3>3
    <3> HIDE DEF rule
    <3>5. Times(Reply(n), rule.replies) \in Seq(Items)
      BY <1>3, <3>4
    <3>6. last \in Seq(Items)
      BY <1>2
    <3> HIDE DEF last
    <3>7. Times(Reply(n), rule.replies) \o last \in Seq(Items)
      BY <3>5, <3>6, ConcatProperties
    <3> QED BY <2>1, <2>3, <3>7
  <2> QED BY <2>2, <2>3
<1>5. CASE mockMode = "echo"
  BY <1>2, <1>5 DEF QueueReplies
<1>6. CASE mockMode = "rules"
  BY <1>4, <1>6 DEF QueueReplies
<1>7. CASE mockMode = "replay"
  BY <1>2, <1>7 DEF QueueReplies
<1>8. CASE mockMode = "socketio"
  BY <1>2, <1>8 DEF QueueReplies
<1> QED BY <1>5, <1>6, <1>7, <1>8 DEF MockModes

\* g[n] is what the first n frames ask for.
Asks(g, log) ==
  /\ g \in [0 .. Len(log) -> Seq(Items)] /\ g[0] = <<>>
  /\ \A i \in 1 .. Len(log) : g[i] = g[i - 1] \o QueueReplies(log[i], i)

\* Asked is what its recursion says.
LEMMA AskedDef ==
  MockModes => \A log \in Seq(ClientFrames) : \E g : Asks(g, log) /\ Asked(log) = g[Len(log)]
<1> SUFFICES ASSUME MockModes, NEW log \in Seq(ClientFrames)
             PROVE  \E g : Asks(g, log) /\ Asked(log) = g[Len(log)]
  OBVIOUS
<1> DEFINE m == Len(log)
           V == Seq(Items)
           empty == <<>>
           Of(i) == QueueReplies(log[i], i)
           Is(g) == g = [n \in 0 .. m |-> IF n = 0 THEN empty ELSE g[n - 1] \o Of(n)]
           c == CHOOSE f : Is(f)
           F == [i \in 1 .. m |-> [x \in V |-> x \o Of(i)]]
<1>1. m \in Nat /\ \A i \in 1 .. m : Of(i) \in V
  <2>1. m \in Nat /\ \A i \in 1 .. m : log[i] \in ClientFrames /\ i \in Nat
    BY LenProperties
  <2> QED BY <2>1, RepliesType
<1>2. empty \in V
  OBVIOUS
<1>17. Asked(log) = c[m]
  BY DEF Asked
<1> HIDE DEF Of, empty
<1>3. F \in [1 .. m -> [V -> V]]
      /\ \A i \in 1 .. m : \A x \in V : F[i][x] = x \o Of(i)
  <2>1. \A i \in 1 .. m : \A x \in V : x \o Of(i) \in V
    BY <1>1, ConcatProperties
  <2> HIDE DEF V
  <2> QED BY <2>1
<1>16. PICK g : Recursion(g, V, empty, m, F)
  <2>1. m \in Nat
    BY <1>1
  <2>2. F \in [1 .. m -> [V -> V]]
    BY <1>3
  <2> HIDE DEF F, m, V
  <2> QED BY <1>2, <2>1, <2>2, RecursionExists
<1> HIDE DEF V
<1>4. /\ g \in [0 .. m -> V] /\ g[0] = empty
      /\ \A i \in 1 .. m : g[i] = F[i][g[i - 1]]
  BY <1>16 DEF Recursion
<1>5. \A i \in 1 .. m : i - 1 \in 0 .. m /\ g[i - 1] \in V /\ i # 0
  <2>1. m \in Nat /\ g \in [0 .. m -> V]
    BY <1>1, <1>4
  <2> HIDE DEF m, F
  <2> QED BY <2>1
<1>6. \A i \in 1 .. m : g[i] = g[i - 1] \o Of(i)
  <2> HIDE DEF F
  <2> QED BY <1>3, <1>4, <1>5
<1> HIDE DEF F
<1>7. Is(g)
  <2>1. \A n \in 0 .. m : g[n] = IF n = 0 THEN empty ELSE g[n - 1] \o Of(n)
    <3> SUFFICES ASSUME NEW n \in 0 .. m
                 PROVE  g[n] = IF n = 0 THEN empty ELSE g[n - 1] \o Of(n)
      OBVIOUS
    <3>1. n = 0 \/ n \in 1 .. m
      BY <1>1
    <3> QED BY <1>4, <1>5, <1>6, <3>1
  <2> QED BY <1>4, <2>1
<1>8. Is(c)
  <2> HIDE DEF Is
  <2> QED BY <1>7
<1> HIDE DEF c
<1>10. /\ \A n \in 0 .. m : c[n] = IF n = 0 THEN empty ELSE c[n - 1] \o Of(n)
  BY <1>8
<1> DEFINE T == {n \in Nat : n <= m => c[n] = g[n]}
<1> HIDE DEF Is, m
<1>11. 0 \in T
  <2>1. 0 \in 0 .. m
    BY <1>1
  <2> QED BY <1>4, <1>10, <2>1
<1>12. ASSUME NEW n \in T PROVE n + 1 \in T
  <2>1. SUFFICES ASSUME n + 1 <= m PROVE c[n + 1] = g[n + 1]
    OBVIOUS
  <2>5. n \in Nat /\ m \in Nat
    BY <1>1
  <2>2. n + 1 \in 0 .. m /\ n + 1 \in 1 .. m /\ n + 1 # 0 /\ (n + 1) - 1 = n /\ n <= m
    BY <2>1, <2>5
  <2>3. c[n + 1] = c[n] \o Of(n + 1)
    BY <1>10, <2>2
  <2>4. g[n + 1] = g[n] \o Of(n + 1)
    BY <1>6, <2>2
  <2> QED BY <2>2, <2>3, <2>4
<1>13. T = Nat
  <2> HIDE DEF T
  <2>1. T \in SUBSET Nat
    BY DEF T
  <2> QED BY <1>11, <1>12, <2>1, AllNumbers
<1>14. c[m] = g[m]
  <2>1. m \in T
    <3> HIDE DEF T
    <3> QED BY <1>1, <1>13
  <2>2. m <= m
    BY <1>1
  <2> QED BY <2>1, <2>2
<1> QED BY <1>4, <1>6, <1>17, <1>14 DEF Asks, m, V, Of, empty

\* What a longer input asks for begins with what the shorter one does.
LEMMA AsksAgree ==
  ASSUME NEW log \in Seq(ClientFrames), NEW more \in Seq(ClientFrames), Len(log) <= Len(more),
         \A i \in 1 .. Len(log) : more[i] = log[i],
         NEW g, NEW h, Asks(g, log), Asks(h, more)
  PROVE  \A i \in 0 .. Len(log) : g[i] = h[i]
<1> DEFINE m == Len(log)
           Of(i) == QueueReplies(log[i], i)
           T == {n \in Nat : n <= m => g[n] = h[n]}
<1>1. m \in Nat /\ Len(more) \in Nat /\ m <= Len(more)
  BY LenProperties
<1>2. g[0] = <<>> /\ \A i \in 1 .. m : g[i] = g[i - 1] \o Of(i)
  BY DEF Asks
<1>3. h[0] = <<>> /\ \A i \in 1 .. m : h[i] = h[i - 1] \o Of(i)
  <2>1. \A i \in 1 .. m : i \in 1 .. Len(more)
    BY <1>1
  <2> QED BY <2>1 DEF Asks
<1> HIDE DEF m, Of
<1>4. 0 \in T
  BY <1>2, <1>3
<1>5. ASSUME NEW n \in T PROVE n + 1 \in T
  <2>1. SUFFICES ASSUME n + 1 <= m PROVE g[n + 1] = h[n + 1]
    OBVIOUS
  <2>2. n \in Nat /\ m \in Nat
    BY <1>1
  <2>3. n + 1 \in 1 .. m /\ (n + 1) - 1 = n /\ n <= m
    BY <2>1, <2>2
  <2>4. g[n + 1] = g[n] \o Of(n + 1) /\ h[n + 1] = h[n] \o Of(n + 1)
    BY <1>2, <1>3, <2>3
  <2> QED BY <2>3, <2>4
<1>6. T = Nat
  <2> HIDE DEF T
  <2>1. T \in SUBSET Nat
    BY DEF T
  <2> QED BY <1>4, <1>5, <2>1, AllNumbers
<1>7. \A i \in 0 .. m : i \in Nat /\ i <= m
  BY <1>1
<1> QED BY <1>6, <1>7 DEF m

\* One more frame asks for its own replies after the others.
LEMMA AskedMore ==
  ASSUME MockModes, NEW log \in Seq(ClientFrames), NEW f \in ClientFrames
  PROVE  /\ Asked(log) \in Seq(Items) /\ QueueReplies(f, Len(log) + 1) \in Seq(Items)
         /\ Asked(Append(log, f)) = Asked(log) \o QueueReplies(f, Len(log) + 1)
<1> DEFINE more == Append(log, f)
           m == Len(log)
<1>1. /\ more \in Seq(ClientFrames) /\ Len(more) = m + 1 /\ m \in Nat
      /\ (\A i \in 1 .. m : more[i] = log[i]) /\ more[m + 1] = f
  BY AppendProperties, LenProperties
<1>2. PICK g : Asks(g, log) /\ Asked(log) = g[m]
  BY AskedDef
<1> HIDE DEF more
<1>3. PICK h : Asks(h, more) /\ Asked(more) = h[m + 1]
  BY <1>1, AskedDef
<1>4. m \in 0 .. m /\ m + 1 \in 1 .. Len(more) /\ (m + 1) - 1 = m /\ m <= m + 1 /\ m + 1 \in Nat
  BY <1>1
<1>5. g[m] = h[m]
  <2>1. m <= Len(more)
    BY <1>1, <1>4
  <2>2. \A i \in 1 .. m : more[i] = log[i]
    BY <1>1
  <2>3. \A i \in 0 .. m : g[i] = h[i]
    BY <1>1, <1>2, <1>3, <2>1, <2>2, AsksAgree
  <2> QED BY <1>4, <2>3
<1>6. h[m + 1] = h[m] \o QueueReplies(f, m + 1)
  <2>1. h[m + 1] = h[(m + 1) - 1] \o QueueReplies(more[m + 1], m + 1)
    BY <1>3, <1>4 DEF Asks
  <2> QED BY <1>1, <1>4, <2>1
<1>7. g[m] \in Seq(Items)
  BY <1>2, <1>4 DEF Asks
<1>8. QueueReplies(f, m + 1) \in Seq(Items)
  BY <1>4, RepliesType
<1> QED BY <1>2, <1>3, <1>5, <1>6, <1>7, <1>8 DEF more

\* No input asks for nothing.
LEMMA AskedNothing ==
  ASSUME MockModes
  PROVE  Asked(<<>>) = <<>>
<1>1. <<>> \in Seq(ClientFrames) /\ Len(<<>>) = 0
  OBVIOUS
<1>2. PICK g : Asks(g, <<>>) /\ Asked(<<>>) = g[Len(<<>>)]
  BY <1>1, AskedDef
<1> QED BY <1>1, <1>2 DEF Asks

\* The same of the next state.
LEMMA AskedDefAfter ==
  MockModes' => \A log \in Seq(ClientFrames) : \E g : Asks(g, log)' /\ Asked(log)' = g[Len(log)]
<1>1. (MockModes => \A log \in Seq(ClientFrames) : \E g : Asks(g, log) /\ Asked(log) = g[Len(log)])'
  BY AskedDef, PTL
<1> QED BY <1>1

\* The mode and the rules do not change, and what an input asks for neither.
LEMMA AskedStays ==
  ASSUME MockModes, mockMode' = mockMode, mockUnmatched' = mockUnmatched,
         NEW log \in Seq(ClientFrames)
  PROVE  Asked(log)' = Asked(log)
<1>1. MockModes'
  BY DEF MockModes
<1>2. PICK g : Asks(g, log) /\ Asked(log) = g[Len(log)]
  BY AskedDef
<1>3. PICK h : Asks(h, log)' /\ Asked(log)' = h[Len(log)]
  BY <1>1, AskedDefAfter
<1>4. \A i \in 1 .. Len(log) : QueueReplies(log[i], i)' = QueueReplies(log[i], i)
  BY DEF QueueReplies, Decide
<1>5. Asks(h, log)
  BY <1>3, <1>4 DEF Asks
<1>6. Len(log) \in Nat /\ Len(log) \in 0 .. Len(log) /\ Len(log) <= Len(log)
  <2>1. Len(log) \in Nat
    BY LenProperties
  <2> QED BY <2>1
<1>7. \A i \in 0 .. Len(log) : g[i] = h[i]
  BY <1>2, <1>5, <1>6, AsksAgree
<1> QED BY <1>2, <1>3, <1>6, <1>7

----------------------------------------------------------------------------
\* What was sent is a beginning of itself and more.
LEMMA PrefixOfConcat ==
  ASSUME NEW S, NEW s \in Seq(S), NEW t \in Seq(S)
  PROVE  IsPrefix(s, s \o t)
<1>1. Len(s) \in Nat /\ Len(t) \in Nat /\ Len(s \o t) = Len(s) + Len(t)
  BY LenProperties, ConcatProperties
<1>2. SubSeq(s, 1, Len(s)) = SubSeq(s \o t, 1, Len(s))
  <2>1. CASE Len(s) = 0
    <3>1. 1 \in Int /\ Len(s) \in Int /\ Len(s) < 1
      BY <1>1, <2>1
    <3> DEFINE n == Len(s)
               u == s \o t
    <3>2. SubSeq(s, 1, n) = <<>>
      <4> HIDE DEF n
      <4> QED BY <3>1, SubSeqEmpty DEF n
    <3>3. SubSeq(u, 1, n) = <<>>
      <4> HIDE DEF n, u
      <4> QED BY <3>1, SubSeqEmpty DEF n
    <3> QED BY <3>2, <3>3
  <2>2. CASE Len(s) # 0
    <3>1. 1 \in 1 .. Len(s) /\ Len(s) \in 1 .. Len(s)
      BY <1>1, <2>2
    <3> QED BY <3>1, SubSeqOfConcat1
  <2> QED BY <2>1, <2>2
<1>3. Len(s) <= Len(s \o t)
  BY <1>1
<1> QED BY <1>2, <1>3 DEF IsPrefix

\* Nothing is a beginning of everything.
LEMMA PrefixNothing ==
  ASSUME NEW S, NEW t \in Seq(S)
  PROVE  IsPrefix(<<>>, t)
<1>1. <<>> \in Seq(S) /\ <<>> \o t = t
  BY ConcatEmptySeq
<1>2. IsPrefix(<<>>, <<>> \o t)
  BY <1>1, PrefixOfConcat
<1> QED BY <1>1, <1>2

\* What joins the promise of a queue joins what is owed.
LEMMA JoinContinues ==
  ASSUME NEW p \in Promises, NEW q \in Promises, NEW x \in Promises, NEW sent \in Seq(Items),
         p.frames = sent \o q.frames, p.over = q.over
  PROVE  /\ Join(p, x).frames = sent \o Join(q, x).frames
         /\ Join(p, x).over = Join(q, x).over
<1>1. q.frames \in Seq(Items) /\ x.frames \in Seq(Items)
  BY DEF Promises
<1>2. CASE p.over
  BY <1>2 DEF Join
<1>3. CASE ~p.over
  <2> DEFINE y == q.frames
             z == x.frames
             o == x.over
  <2>1. /\ Join(p, x) = [frames |-> (sent \o y) \o z, over |-> o]
        /\ Join(q, x) = [frames |-> y \o z, over |-> o]
    BY <1>3 DEF Join
  <2>2. y \in Seq(Items) /\ z \in Seq(Items)
    BY <1>1
  <2> HIDE DEF y, z, o
  <2>3. (sent \o y) \o z = sent \o (y \o z)
    BY <2>2, ConcatAssociative
  <2>4. /\ Join(p, x).frames = (sent \o y) \o z /\ Join(p, x).over = o
    BY <2>1
  <2>5. Join(q, x).frames = y \o z /\ Join(q, x).over = o
    BY <2>1
  <2> QED BY <2>3, <2>4, <2>5
<1> QED BY <1>2, <1>3 DEF Promises

\* The fields of a connection.
LEMMA ConnFields ==
  ASSUME NEW r \in ConnRecords
  PROVE  /\ r.at \in {"new", "reject", "shake", "open", "stall", "drain", "gone"}
         /\ r.queue \in Seq(Items) /\ r.received \in Nat /\ r.replies \in Nat
         /\ r.pong \in BOOLEAN /\ r.log \in Seq(ClientFrames) /\ r.sent \in Seq(Items)
         /\ Len(r.sent) \in Nat /\ Len(r.log) \in Nat
<1>1. /\ r.at \in {"new", "reject", "shake", "open", "stall", "drain", "gone"}
      /\ r.queue \in Seq(Items) /\ r.received \in Nat /\ r.replies \in Nat
      /\ r.pong \in BOOLEAN /\ r.log \in Seq(ClientFrames) /\ r.sent \in Seq(Items)
  BY DEF ConnRecords
<1>2. Len(r.sent) \in Nat /\ Len(r.log) \in Nat
  BY <1>1, LenProperties
<1> QED BY <1>1, <1>2

\* What is owed begins with what was sent.
LEMMA ContinuesPrefix ==
  ASSUME NEW r \in ConnRecords, NEW asked, Continues(r, asked)
  PROVE  IsPrefix(r.sent, Promised(asked[r.log]).frames)
<1> DEFINE s == r.sent
           q == r.queue
           t == Promised(q).frames
<1>1. s \in Seq(Items) /\ q \in Seq(Items)
  BY ConnFields
<1>2. t \in Seq(Items)
  <2> HIDE DEF q
  <2>1. Promised(q) \in Promises
    BY <1>1, PromisedJoin
  <2> QED BY <2>1 DEF Promises
<1>3. Promised(asked[r.log]).frames = s \o t
  BY DEF Continues
<1> HIDE DEF s, t
<1>4. IsPrefix(s, s \o t)
  BY <1>1, <1>2, PrefixOfConcat
<1> QED BY <1>3, <1>4 DEF s

----------------------------------------------------------------------------
\* Nothing promises nothing, and joins without a change.
LEMMA PromisedNothing ==
  /\ <<>> \in Seq(Items) /\ Promised(<<>>) = NoPromise
  /\ \A p \in Promises : Join(p, NoPromise) = p
<1>1. <<>> \in Seq(Items) /\ Len(<<>>) = 0
  OBVIOUS
<1>2. PICK g : UpTo(g, <<>>) /\ Promised(<<>>) = g[Len(<<>>)]
  BY <1>1, PromisedDef
<1>3. Promised(<<>>) = NoPromise
  BY <1>1, <1>2 DEF UpTo
<1>4. ASSUME NEW p \in Promises PROVE Join(p, NoPromise) = p
  <2>1. p.frames \in Seq(Items) /\ p.over \in BOOLEAN /\ p = [frames |-> p.frames, over |-> p.over]
    BY DEF Promises
  <2>2. p.frames \o <<>> = p.frames
    BY <2>1
  <2> QED BY <2>1, <2>2 DEF Join, NoPromise
<1> QED BY <1>1, <1>3, <1>4

\* A protocol frame promises nothing.
LEMMA PromisedControl ==
  ASSUME NEW q \in Seq(Items), NEW n \in Nat
  PROVE  /\ Append(q, Control(n)) \in Seq(Items)
         /\ Promised(Append(q, Control(n))) = Promised(q)
         /\ <<Control(n)>> \in Seq(Items) /\ Promised(<<Control(n)>>) = NoPromise
<1> DEFINE e == Control(n)
           u == <<e>>
<1>1. e \in Items /\ e.k = "control"
  BY DEF Control, Items
<1> HIDE DEF e
<1>2. u \in Seq(Items) /\ u # <<>> /\ Head(u) = e /\ Tail(u) = <<>>
  BY <1>1
<1>3. Append(q, e) \in Seq(Items) /\ Append(q, e) = q \o u
  BY <1>1, AppendProperties, AppendIsConcat
<1> HIDE DEF u
<1>4. Promised(u) = NoPromise
  <2>1. Promised(u) = Promised(Tail(u))
    BY <1>1, <1>2, PromisedFirst
  <2> QED BY <1>2, <2>1, PromisedNothing
<1>5. Promised(q \o u) = Join(Promised(q), NoPromise) /\ Promised(q) \in Promises
  BY <1>2, <1>4, PromisedJoin
<1>6. Promised(q \o u) = Promised(q)
  BY <1>5, PromisedNothing
<1> QED BY <1>2, <1>3, <1>4, <1>6 DEF e, u

\* What the function of inputs says.
LEMMA AskedForFacts ==
  ASSUME MockModes
  PROVE  /\ AskedFor[<<>>] = <<>>
         /\ \A log \in Seq(ClientFrames) : AskedFor[log] = Asked(log) /\ AskedFor[log] \in Seq(Items)
<1>1. \A log \in Seq(ClientFrames) : AskedFor[log] = Asked(log)
  BY DEF AskedFor
<1>2. \A log \in Seq(ClientFrames) : Asked(log) \in Seq(Items)
  <2> SUFFICES ASSUME NEW log \in Seq(ClientFrames) PROVE Asked(log) \in Seq(Items)
    OBVIOUS
  <2>1. PICK g : Asks(g, log) /\ Asked(log) = g[Len(log)]
    BY AskedDef
  <2>2. Len(log) \in 0 .. Len(log)
    BY LenProperties
  <2> QED BY <2>1, <2>2 DEF Asks
<1>3. <<>> \in Seq(ClientFrames)
  OBVIOUS
<1> QED BY <1>1, <1>2, <1>3, AskedNothing

\* A step that sends and receives no data frame.
LEMMA QuietOK ==
  ASSUME NEW asked, NEW mode, NEW r \in ConnRecords, NEW s \in ConnRecords, ConnOK(r, asked, mode),
         s.sent = r.sent, s.log = r.log, s.received = r.received, s.replies = r.replies,
         s.at \in {"new", "reject", "shake"} => r.at \in {"new", "reject", "shake"},
         s.at \in {"open", "stall"} =>
           r.at \in {"open", "stall"} /\ Promised(s.queue) = Promised(r.queue)
  PROVE  ConnOK(s, asked, mode)
<1>1. s.at \in {"open", "stall"} /\ mode # "replay" => Continues(s, asked)
  BY DEF ConnOK, Continues
<1> QED BY <1>1 DEF ConnOK

\* A session opens: nothing is owed yet.
LEMMA OpenOK ==
  ASSUME MockModes, NEW r \in ConnRecords, NEW s \in ConnRecords, ConnOK(r, AskedFor, mockMode),
         r.at = "shake", s.at = "open", s.queue = FirstQueue,
         s.sent = r.sent, s.log = r.log, s.received = r.received, s.replies = r.replies
  PROVE  ConnOK(s, AskedFor, mockMode)
<1>1. s.log = <<>> /\ s.sent = <<>> /\ s.received = Len(s.log) /\ s.replies = Len(s.sent)
  BY DEF ConnOK
<1>2. CloseAfter # 0 => Len(s.sent) <= CloseAfter /\ Len(s.sent) < CloseAfter
  <2>1. Len(s.sent) = 0
    BY <1>1
  <2>2. CloseAfter \in Nat
    BY MockAssumption
  <2> QED BY <2>1, <2>2
<1>3. mockMode # "replay" => Continues(s, AskedFor)
  <2> SUFFICES ASSUME mockMode # "replay" PROVE Continues(s, AskedFor)
    OBVIOUS
  <2>1. AskedFor[s.log] = <<>>
    BY <1>1, AskedForFacts
  <2>2. Promised(s.queue) = NoPromise
    <3>1. CASE mockMode = "socketio"
      <4>1. s.queue = <<Control(0)>> /\ 0 \in Nat /\ <<>> \in Seq(Items)
        BY <3>1 DEF FirstQueue
      <4> QED BY <4>1, PromisedControl
    <3>2. CASE mockMode # "socketio"
      <4>1. s.queue = <<>>
        BY <3>2 DEF FirstQueue
      <4> QED BY <4>1, PromisedNothing
    <3> QED BY <3>1, <3>2
  <2>3. NoPromise.frames = <<>> /\ <<>> \o <<>> = <<>>
    BY DEF NoPromise
  <2> QED BY <1>1, <2>1, <2>2, <2>3, PromisedNothing DEF Continues
<1>4. mockMode # "replay" => IsPrefix(s.sent, Promised(AskedFor[s.log]).frames)
  BY <1>3, ContinuesPrefix
<1> QED BY <1>1, <1>2, <1>3, <1>4 DEF ConnOK

\* A data frame arrives: its replies join the queue and what is owed.
LEMMA ReceiveOK ==
  ASSUME MockModes, NEW r \in ConnRecords, NEW s \in ConnRecords, ConnOK(r, AskedFor, mockMode),
         NEW f \in ClientFrames, r.at = "open", s.at = "open",
         s.queue = r.queue \o QueueReplies(f, r.received + 1), s.log = Append(r.log, f),
         s.sent = r.sent, s.received = r.received + 1, s.replies = r.replies
  PROVE  ConnOK(s, AskedFor, mockMode)
<1> DEFINE x == QueueReplies(f, Len(r.log) + 1)
           a == Asked(r.log)
<1>1. /\ r.log \in Seq(ClientFrames) /\ r.queue \in Seq(Items) /\ r.sent \in Seq(Items)
      /\ s.log \in Seq(ClientFrames) /\ Len(r.log) \in Nat
  BY ConnFields
<1>2. r.received = Len(r.log) /\ r.replies = Len(r.sent) /\ Len(s.log) = Len(r.log) + 1
  BY <1>1, AppendProperties DEF ConnOK
<1>3. a \in Seq(Items) /\ x \in Seq(Items) /\ AskedFor[r.log] = a /\ AskedFor[s.log] = a \o x
  <2>1. a \in Seq(Items) /\ x \in Seq(Items) /\ Asked(Append(r.log, f)) = a \o x
    BY <1>1, AskedMore
  <2>2. AskedFor[r.log] = a /\ AskedFor[s.log] = Asked(s.log)
    BY <1>1, AskedForFacts
  <2> QED BY <2>1, <2>2
<1>4. s.queue = r.queue \o x
  BY <1>2
<1> HIDE DEF x, a
<1>5. mockMode # "replay" => Continues(s, AskedFor)
  <2> SUFFICES ASSUME mockMode # "replay" PROVE Continues(s, AskedFor)
    OBVIOUS
  <2> DEFINE p == Promised(a)
             q == Promised(r.queue)
             y == Promised(x)
  <2>1. p \in Promises /\ q \in Promises /\ y \in Promises
    BY <1>1, <1>3, PromisedJoin
  <2>2. p.frames = r.sent \o q.frames /\ p.over = q.over
    BY <1>3 DEF ConnOK, Continues
  <2>3. Promised(AskedFor[s.log]) = Join(p, y)
    BY <1>3, PromisedJoin
  <2>4. Promised(s.queue) = Join(q, y)
    BY <1>1, <1>3, <1>4, PromisedJoin
  <2> HIDE DEF p, q, y
  <2>5. Join(p, y).frames = r.sent \o Join(q, y).frames /\ Join(p, y).over = Join(q, y).over
    BY <1>1, <2>1, <2>2, JoinContinues
  <2> QED BY <2>3, <2>4, <2>5 DEF Continues
<1>6. mockMode # "replay" => IsPrefix(s.sent, Promised(AskedFor[s.log]).frames)
  BY <1>5, ContinuesPrefix
<1> QED BY <1>2, <1>5, <1>6 DEF ConnOK

\* Sequences of items are joined in any order.
LEMMA JoinAssociates ==
  \A a, b, d \in Seq(Items) : (a \o b) \o d = a \o (b \o d)
<1> DEFINE T == Items
<1>1. SUFFICES ASSUME NEW a \in Seq(T), NEW b \in Seq(T), NEW d \in Seq(T)
               PROVE  (a \o b) \o d = a \o (b \o d)
  OBVIOUS
<1> HIDE DEF T
<1> QED BY ConcatAssociative

\* A reply goes out: what the queue promised first is now sent.
LEMMA ReplyOK ==
  ASSUME NEW asked, NEW mode, NEW r \in ConnRecords, NEW s \in ConnRecords, ConnOK(r, asked, mode),
         r.at \in {"open", "stall"}, r.queue # <<>>, Head(r.queue).k = "frame",
         s.log = r.log, s.received = r.received, s.replies = r.replies + 1,
         s.sent = Append(r.sent, Head(r.queue)),
         IF s.replies = CloseAfter THEN s.at = "drain" ELSE s.at = "open" /\ s.queue = Tail(r.queue)
  PROVE  ConnOK(s, asked, mode) /\ Len(s.sent) = Len(r.sent) + 1
<1> DEFINE e == Head(r.queue)
           t == Tail(r.queue)
           u == <<e>>
           x == r.sent
<1>1. x \in Seq(Items) /\ r.queue \in Seq(Items) /\ Len(x) \in Nat
  BY ConnFields
<1>2. /\ e \in Items /\ t \in Seq(Items)
      /\ Promised(r.queue).frames = u \o Promised(t).frames
      /\ Promised(r.queue).over = Promised(t).over
  BY <1>1, PromisedFirst
<1>3. CloseAfter \in Nat
  BY MockAssumption
<1> HIDE DEF e, t
<1>4. s.sent = Append(x, e) /\ Len(s.sent) = Len(x) + 1 /\ s.sent = x \o u
  <2>1. s.sent = Append(x, e)
    BY DEF e
  <2> HIDE DEF x
  <2>2. x \in Seq(Items) /\ e \in Items
    BY <1>1, <1>2
  <2>3. Len(Append(x, e)) = Len(x) + 1
    BY <2>2, AppendProperties
  <2>4. Append(x, e) = x \o u
    BY <2>2, AppendIsConcat
  <2> QED BY <2>1, <2>3, <2>4
<1>5. s.received = Len(s.log) /\ s.replies = Len(s.sent) /\ r.replies = Len(x)
  BY <1>4 DEF ConnOK
<1>6. CloseAfter # 0 => /\ Len(s.sent) <= CloseAfter
                        /\ s.at \in {"open", "stall"} => Len(s.sent) < CloseAfter
  <2>1. CloseAfter # 0 => Len(x) < CloseAfter
    BY DEF ConnOK
  <2>2. s.at \in {"open", "stall"} => s.replies # CloseAfter
    OBVIOUS
  <2> HIDE DEF x
  <2>3. CloseAfter # 0 => Len(x) + 1 <= CloseAfter
    BY <1>1, <1>3, <2>1
  <2> QED BY <1>1, <1>3, <1>4, <1>5, <2>2, <2>3
<1>7. mode # "replay" => Promised(asked[s.log]).frames = s.sent \o Promised(t).frames
                         /\ Promised(asked[s.log]).over = Promised(t).over
  <2> SUFFICES ASSUME mode # "replay"
               PROVE  Promised(asked[s.log]).frames = s.sent \o Promised(t).frames
                      /\ Promised(asked[s.log]).over = Promised(t).over
    OBVIOUS
  <2> DEFINE z == Promised(t).frames
  <2>1. Promised(asked[s.log]).frames = x \o (u \o z) /\ Promised(asked[s.log]).over = Promised(t).over
    BY <1>2 DEF ConnOK, Continues
  <2>2. z \in Seq(Items)
    <3>1. Promised(t) \in Promises
      BY <1>2, PromisedJoin
    <3> QED BY <3>1 DEF Promises
  <2>3. u \in Seq(Items)
    BY <1>2
  <2> HIDE DEF x, u, z
  <2>4. (x \o u) \o z = x \o (u \o z)
    <3>1. x \in Seq(Items)
      BY <1>1 DEF x
    <3> QED BY <2>2, <2>3, <3>1, JoinAssociates
  <2> QED BY <1>4, <2>1, <2>4 DEF z
<1>8. mode # "replay" => IsPrefix(s.sent, Promised(asked[s.log]).frames)
  <2> DEFINE y == s.sent
             z == Promised(t).frames
  <2>1. y \in Seq(Items) /\ z \in Seq(Items)
    <3>1. Promised(t) \in Promises
      BY <1>2, PromisedJoin
    <3>2. z \in Seq(Items)
      BY <3>1 DEF Promises
    <3> QED BY <3>2, ConnFields
  <2>2. mode # "replay" => Promised(asked[s.log]).frames = y \o z
    BY <1>7
  <2> HIDE DEF y, z
  <2>3. IsPrefix(y, y \o z)
    BY <2>1, PrefixOfConcat
  <2> QED BY <2>2, <2>3 DEF y
<1>9. mode # "replay" /\ s.at \in {"open", "stall"} => Continues(s, asked)
  <2>1. s.at \in {"open", "stall"} => s.queue = t
    BY DEF t
  <2> QED BY <1>7, <2>1 DEF Continues
<1>10. s.at \notin {"new", "reject", "shake"}
  OBVIOUS
<1>11. ConnOK(s, asked, mode)
  BY <1>5, <1>6, <1>8, <1>9, <1>10 DEF ConnOK
<1> QED BY <1>4, <1>11

----------------------------------------------------------------------------
\* The server's counters.
Counters == [accepted : Nat, rejected : Nat, active : Int, received : Int, sent : Int]

\* The terms of the counters are numbers.
LEMMA MockNumbers ==
  MockTypes => /\ SentBy \in [MockConns -> Int] /\ ReceivedBy \in [MockConns -> Int]
               /\ ServedBy \in [MockConns -> Int]
<1> SUFFICES ASSUME MockTypes
             PROVE  /\ SentBy \in [MockConns -> Int] /\ ReceivedBy \in [MockConns -> Int]
                    /\ ServedBy \in [MockConns -> Int]
  OBVIOUS
<1>1. \A c \in MockConns : mockConn[c] \in ConnRecords
  BY DEF MockTypes
<1>2. \A c \in MockConns : Len(mockConn[c].sent) \in Int /\ Len(mockConn[c].log) \in Int
  BY <1>1, ConnFields
<1>3. \A c \in MockConns : Weight(mockConn[c].at, Serving) \in Int
  BY DEF Weight
<1> QED BY <1>2, <1>3 DEF SentBy, ReceivedBy, ServedBy

\* The same of the next state.
LEMMA MockNumbersAfter ==
  MockTypes' => /\ SentBy' \in [MockConns -> Int] /\ ReceivedBy' \in [MockConns -> Int]
                /\ ServedBy' \in [MockConns -> Int]
<1>1. (MockTypes => /\ SentBy \in [MockConns -> Int] /\ ReceivedBy \in [MockConns -> Int]
                    /\ ServedBy \in [MockConns -> Int])'
  BY MockNumbers, PTL
<1> QED BY <1>1

\* The mode and the rules stay.
ModesStay == mockMode' = mockMode /\ mockUnmatched' = mockUnmatched

\* Nor what every input asks for.
LEMMA AskedForStays ==
  ASSUME MockModes, ModesStay
  PROVE  MockModes' /\ AskedFor' = AskedFor
<1>1. MockModes'
  BY DEF MockModes, ModesStay
<1>2. \A log \in Seq(ClientFrames) : Asked(log)' = Asked(log)
  BY AskedStays DEF ModesStay
<1>3. AskedFor' = AskedFor
  BY <1>2 DEF AskedFor
<1> QED BY <1>1, <1>3

\* A step of one connection.
LEMMA ConnStep ==
  ASSUME MockInv, NEW c \in MockConns, NEW r \in ConnRecords, ModesStay,
         mockConn' = [mockConn EXCEPT ![c] = r], ConnOK(r, AskedFor, mockMode),
         mockCounters' \in Counters,
         mockCounters'.sent = mockCounters.sent + (Len(r.sent) - Len(mockConn[c].sent)),
         mockCounters'.received = mockCounters.received + (Len(r.log) - Len(mockConn[c].log)),
         mockCounters'.active
           = mockCounters.active + (Weight(r.at, Serving) - Weight(mockConn[c].at, Serving))
  PROVE  MockInv'
<1>1. MockTypes /\ MockModes /\ IsFiniteSet(MockConns) /\ mockConn \in [MockConns -> ConnRecords]
  BY MockAssumption DEF MockInv, MockTypes
<1>2. MockModes' /\ AskedFor' = AskedFor
  BY <1>1, AskedForStays
<1>3. mockConn' \in [MockConns -> ConnRecords] /\ mockConn'[c] = r
      /\ \A d \in MockConns \ {c} : mockConn'[d] = mockConn[d]
  BY <1>1
<1>4. MockTypes'
  BY <1>2, <1>3 DEF MockTypes, Counters
<1>5. \A d \in MockConns : ConnOK(mockConn'[d], AskedFor', mockMode')
  <2> SUFFICES ASSUME NEW d \in MockConns PROVE ConnOK(mockConn'[d], AskedFor', mockMode')
    OBVIOUS
  <2>1. mockMode' = mockMode
    BY DEF ModesStay
  <2>2. ConnOK(mockConn[d], AskedFor, mockMode)
    BY DEF MockInv
  <2>3. CASE d = c
    BY <1>2, <1>3, <2>1, <2>3
  <2>4. CASE d # c
    BY <1>2, <1>3, <2>1, <2>2, <2>4
  <2> QED BY <2>3, <2>4
<1>6. /\ SentBy \in [MockConns -> Int] /\ SentBy' \in [MockConns -> Int]
      /\ ReceivedBy \in [MockConns -> Int] /\ ReceivedBy' \in [MockConns -> Int]
      /\ ServedBy \in [MockConns -> Int] /\ ServedBy' \in [MockConns -> Int]
  BY <1>1, <1>4, MockNumbers, MockNumbersAfter
<1>7. /\ SentBy[c] = Len(mockConn[c].sent) /\ SentBy'[c] = Len(r.sent)
      /\ \A d \in MockConns \ {c} : SentBy'[d] = SentBy[d]
  BY <1>3 DEF SentBy
<1>8. /\ ReceivedBy[c] = Len(mockConn[c].log) /\ ReceivedBy'[c] = Len(r.log)
      /\ \A d \in MockConns \ {c} : ReceivedBy'[d] = ReceivedBy[d]
  BY <1>3 DEF ReceivedBy
<1>9. /\ ServedBy[c] = Weight(mockConn[c].at, Serving) /\ ServedBy'[c] = Weight(r.at, Serving)
      /\ \A d \in MockConns \ {c} : ServedBy'[d] = ServedBy[d]
  BY <1>3 DEF ServedBy
<1>10. mockCounters'.sent = SumFunctionOnSet(SentBy', MockConns)
  <2>1. \A d \in MockConns \ {c} : SentBy'[d] = SentBy[d]
    BY <1>7
  <2>2. SumFunctionOnSet(SentBy', MockConns)
          = SumFunctionOnSet(SentBy, MockConns) + (SentBy'[c] - SentBy[c])
    <3>1. IsFiniteSet(MockConns)
      BY <1>1
    <3>2. SentBy \in [MockConns -> Int]
      BY <1>6
    <3>3. SentBy' \in [MockConns -> Int]
      BY <1>6
    <3> QED BY <2>1, <3>1, <3>2, <3>3, SumMove
  <2> QED BY <1>7, <2>2 DEF MockInv, MockBooks
<1>11. mockCounters'.received = SumFunctionOnSet(ReceivedBy', MockConns)
  <2>1. \A d \in MockConns \ {c} : ReceivedBy'[d] = ReceivedBy[d]
    BY <1>8
  <2>2. SumFunctionOnSet(ReceivedBy', MockConns)
          = SumFunctionOnSet(ReceivedBy, MockConns) + (ReceivedBy'[c] - ReceivedBy[c])
    <3>1. IsFiniteSet(MockConns)
      BY <1>1
    <3>2. ReceivedBy \in [MockConns -> Int]
      BY <1>6
    <3>3. ReceivedBy' \in [MockConns -> Int]
      BY <1>6
    <3> QED BY <2>1, <3>1, <3>2, <3>3, SumMove
  <2> QED BY <1>8, <2>2 DEF MockInv, MockBooks
<1>12. mockCounters'.active = SumFunctionOnSet(ServedBy', MockConns)
  <2>1. \A d \in MockConns \ {c} : ServedBy'[d] = ServedBy[d]
    BY <1>9
  <2>2. SumFunctionOnSet(ServedBy', MockConns)
          = SumFunctionOnSet(ServedBy, MockConns) + (ServedBy'[c] - ServedBy[c])
    <3>1. IsFiniteSet(MockConns)
      BY <1>1
    <3>2. ServedBy \in [MockConns -> Int]
      BY <1>6
    <3>3. ServedBy' \in [MockConns -> Int]
      BY <1>6
    <3> QED BY <2>1, <3>1, <3>2, <3>3, SumMove
  <2> QED BY <1>9, <2>2 DEF MockInv, MockBooks
<1> QED BY <1>4, <1>5, <1>10, <1>11, <1>12 DEF MockInv, MockBooks

\* What a step starts from.
LEMMA ConnReads ==
  ASSUME MockInv, NEW c \in MockConns
  PROVE  /\ MockModes /\ mockConn \in [MockConns -> ConnRecords] /\ mockConn[c] \in ConnRecords
         /\ ConnOK(mockConn[c], AskedFor, mockMode) /\ mockCounters \in Counters
         /\ Len(mockConn[c].sent) \in Nat /\ Len(mockConn[c].log) \in Nat
         /\ mockCounters.sent \in Int /\ mockCounters.received \in Int /\ mockCounters.active \in Int
<1>1. /\ MockModes /\ mockConn \in [MockConns -> ConnRecords] /\ mockConn[c] \in ConnRecords
      /\ ConnOK(mockConn[c], AskedFor, mockMode) /\ mockCounters \in Counters
  BY DEF MockInv, MockTypes, Counters
<1>2. Len(mockConn[c].sent) \in Nat /\ Len(mockConn[c].log) \in Nat
  BY <1>1, ConnFields
<1>3. mockCounters.sent \in Int /\ mockCounters.received \in Int /\ mockCounters.active \in Int
  BY <1>1 DEF Counters
<1> QED BY <1>1, <1>2, <1>3

\* A step of one connection that neither sends nor receives a data frame.
LEMMA QuietStep ==
  ASSUME MockInv, NEW c \in MockConns, NEW r \in ConnRecords, ModesStay,
         mockConn' = [mockConn EXCEPT ![c] = r],
         r.sent = mockConn[c].sent, r.log = mockConn[c].log,
         r.received = mockConn[c].received, r.replies = mockConn[c].replies,
         r.at \in {"new", "reject", "shake"} => mockConn[c].at \in {"new", "reject", "shake"},
         r.at \in {"open", "stall"} =>
           mockConn[c].at \in {"open", "stall"} /\ Promised(r.queue) = Promised(mockConn[c].queue),
         mockCounters' \in Counters,
         mockCounters'.sent = mockCounters.sent, mockCounters'.received = mockCounters.received,
         mockCounters'.active
           = mockCounters.active + (Weight(r.at, Serving) - Weight(mockConn[c].at, Serving))
  PROVE  MockInv'
<1>1. /\ mockConn[c] \in ConnRecords /\ ConnOK(mockConn[c], AskedFor, mockMode)
      /\ Len(mockConn[c].sent) \in Nat /\ Len(mockConn[c].log) \in Nat
      /\ mockCounters.sent \in Int /\ mockCounters.received \in Int
  BY ConnReads
<1>2. ConnOK(r, AskedFor, mockMode)
  BY <1>1, QuietOK
<1>3. mockCounters'.sent = mockCounters.sent + (Len(r.sent) - Len(mockConn[c].sent))
  BY <1>1
<1>4. mockCounters'.received = mockCounters.received + (Len(r.log) - Len(mockConn[c].log))
  BY <1>1
<1> QED BY <1>2, <1>3, <1>4, ConnStep

----------------------------------------------------------------------------
\* Where a connection's task is.
ConnAt == {"new", "reject", "shake", "open", "stall", "drain", "gone"}

\* The weights of a connection that starts, keeps or ends its session.
LEMMA ServingWeight ==
  ASSUME NEW a
  PROVE  /\ a \in {"open", "stall", "drain"} => Weight(a, Serving) = 1
         /\ a \in {"new", "reject", "shake", "gone"} => Weight(a, Serving) = 0
BY DEF Weight, Serving

\* A connection that has no session yet has received and sent nothing.
LEMMA MockAcceptKeeps ==
  ASSUME MockInv, NEW c \in MockConns, MockAccept(c) \/ MockReject(c) \/ MockShakeFails(c)
  PROVE  MockInv'
<1> DEFINE r == mockConn[c]
<1>1. /\ mockConn \in [MockConns -> ConnRecords] /\ r \in ConnRecords /\ mockCounters \in Counters
      /\ mockCounters.active \in Int
  BY ConnReads
<1>2. r.queue \in Seq(Items) /\ r.pong \in BOOLEAN
  BY <1>1, ConnFields
<1>3. PICK a \in {"reject", "shake", "gone"} : mockConn' = [mockConn EXCEPT ![c] = [r EXCEPT !.at = a]]
  BY <1>1 DEF MockAccept, MockReject, MockShakeFails
<1>4. /\ ModesStay /\ r.at \in {"new", "reject", "shake"}
      /\ \/ mockCounters' = mockCounters
         \/ mockCounters' = [mockCounters EXCEPT !.rejected = @ + 1]
  BY DEF MockAccept, MockReject, MockShakeFails, MockOnly, ModesStay
<1>5. /\ mockCounters' \in Counters /\ mockCounters'.sent = mockCounters.sent
      /\ mockCounters'.received = mockCounters.received /\ mockCounters'.active = mockCounters.active
  BY <1>1, <1>4 DEF Counters
<1> DEFINE s == [r EXCEPT !.at = a]
<1>6. /\ s \in ConnRecords /\ s.at = a /\ s.queue = r.queue
      /\ s.sent = r.sent /\ s.log = r.log /\ s.received = r.received /\ s.replies = r.replies
  <2>1. a \in ConnAt
    BY DEF ConnAt
  <2> HIDE DEF r
  <2>2. s \in ConnRecords
    BY <1>1, <2>1 DEF ConnRecords, ConnAt
  <2>3. /\ s.at = a /\ s.queue = r.queue
        /\ s.sent = r.sent /\ s.log = r.log /\ s.received = r.received /\ s.replies = r.replies
    BY <1>1 DEF ConnRecords
  <2> QED BY <2>2, <2>3
<1>7. Weight(a, Serving) = 0 /\ Weight(r.at, Serving) = 0
  BY <1>4, ServingWeight
<1>8. mockConn' = [mockConn EXCEPT ![c] = s]
  BY <1>3
<1> HIDE DEF s
<1>9. mockCounters'.active = mockCounters.active + (Weight(s.at, Serving) - Weight(mockConn[c].at, Serving))
  BY <1>1, <1>5, <1>6, <1>7
<1> QED BY <1>4, <1>5, <1>6, <1>8, <1>9, QuietStep

\* A session starts with a queue that promises nothing, but for a replay.
LEMMA MockOpenKeeps ==
  ASSUME MockInv, NEW c \in MockConns, MockOpen(c)
  PROVE  MockInv'
<1> DEFINE r == mockConn[c]
<1>1. /\ mockConn \in [MockConns -> ConnRecords] /\ r \in ConnRecords /\ mockCounters \in Counters
      /\ mockCounters.sent \in Int /\ mockCounters.received \in Int /\ mockCounters.active \in Int
      /\ Len(r.sent) \in Nat /\ Len(r.log) \in Nat /\ MockModes /\ ConnOK(r, AskedFor, mockMode)
  BY ConnReads
<1>2. PICK b \in BOOLEAN :
        mockConn' = [mockConn EXCEPT ![c] = [r EXCEPT !.at = "open", !.queue = FirstQueue, !.pong = b]]
  BY DEF MockOpen
<1>3. /\ ModesStay /\ r.at = "shake"
      /\ mockCounters' = [mockCounters EXCEPT !.accepted = @ + 1, !.active = @ + 1]
  BY DEF MockOpen, MockOnly, ModesStay
<1>4. /\ mockCounters' \in Counters /\ mockCounters'.sent = mockCounters.sent
      /\ mockCounters'.received = mockCounters.received /\ mockCounters'.active = mockCounters.active + 1
  <2> DEFINE m == mockCounters.accepted + 1
             n == mockCounters.active + 1
  <2>1. m \in Nat /\ n \in Int
    BY <1>1 DEF Counters
  <2>2. mockCounters' = [mockCounters EXCEPT !.accepted = m, !.active = n]
    BY <1>3
  <2> HIDE DEF m, n
  <2>3. mockCounters' \in Counters
    BY <1>1, <2>1, <2>2 DEF Counters
  <2>4. /\ mockCounters'.sent = mockCounters.sent
        /\ mockCounters'.received = mockCounters.received /\ mockCounters'.active = n
    BY <1>1, <2>2 DEF Counters
  <2> QED BY <2>3, <2>4 DEF n
<1>5. FirstQueue \in Seq(Items)
  <2>1. Reply(0) \in Items /\ Control(0) \in Items
    BY DEF Reply, Control, Items
  <2>2. <<>> \in Seq(Items) /\ <<Control(0)>> \in Seq(Items)
    BY <2>1
  <2>3. Times(Reply(0), ReplayFrames) \in Seq(Items)
    <3> DEFINE x == Reply(0)
    <3>1. x \in Items /\ ReplayFrames \in Nat
      BY <2>1, MockAssumption
    <3> HIDE DEF x
    <3>2. [i \in 1 .. ReplayFrames |-> x] \in Seq(Items)
      BY <3>1
    <3> QED BY <3>2 DEF Times, x
  <2> QED BY <2>2, <2>3 DEF FirstQueue
<1> DEFINE s == [r EXCEPT !.at = "open", !.queue = FirstQueue, !.pong = b]
<1>6. /\ s \in ConnRecords /\ s.at = "open" /\ s.queue = FirstQueue
      /\ s.sent = r.sent /\ s.log = r.log /\ s.received = r.received /\ s.replies = r.replies
  <2> DEFINE a == "open"
             q == FirstQueue
  <2>1. a \in ConnAt /\ q \in Seq(Items)
    BY <1>5 DEF ConnAt
  <2> HIDE DEF r, a, q
  <2>2. [r EXCEPT !.at = a, !.queue = q, !.pong = b] \in ConnRecords
    BY <1>1, <2>1 DEF ConnRecords, ConnAt
  <2>3. \A t : t = [r EXCEPT !.at = a, !.queue = q, !.pong = b] =>
           /\ t.at = a /\ t.queue = q
           /\ t.sent = r.sent /\ t.log = r.log /\ t.received = r.received /\ t.replies = r.replies
    BY <1>1 DEF ConnRecords
  <2> QED BY <2>2, <2>3 DEF a, q
<1>7. mockConn' = [mockConn EXCEPT ![c] = s]
  BY <1>2
<1> HIDE DEF s
<1>8. ConnOK(s, AskedFor, mockMode)
  BY <1>1, <1>3, <1>6, OpenOK
<1>9. Weight(s.at, Serving) = 1 /\ Weight(mockConn[c].at, Serving) = 0
  BY <1>3, <1>6, ServingWeight
<1>10. /\ mockCounters'.sent = mockCounters.sent + (Len(s.sent) - Len(mockConn[c].sent))
       /\ mockCounters'.received = mockCounters.received + (Len(s.log) - Len(mockConn[c].log))
       /\ mockCounters'.active
            = mockCounters.active + (Weight(s.at, Serving) - Weight(mockConn[c].at, Serving))
  BY <1>1, <1>4, <1>6, <1>9
<1> QED BY <1>3, <1>4, <1>6, <1>7, <1>8, <1>10, ConnStep

\* A frame adds to the queue what it adds to what the input asks for.
LEMMA MockReceivesKeeps ==
  ASSUME MockInv, NEW c \in MockConns, MockReceives(c)
  PROVE  MockInv'
<1> DEFINE r == mockConn[c]
<1>1. /\ mockConn \in [MockConns -> ConnRecords] /\ r \in ConnRecords /\ mockCounters \in Counters
      /\ mockCounters.sent \in Int /\ mockCounters.received \in Int /\ mockCounters.active \in Int
      /\ Len(r.sent) \in Nat /\ Len(r.log) \in Nat /\ MockModes /\ ConnOK(r, AskedFor, mockMode)
  BY ConnReads
<1>2. PICK f \in ClientFrames :
        mockConn' = [mockConn EXCEPT ![c] = [r EXCEPT !.received = @ + 1, !.log = Append(@, f),
                       !.queue = @ \o QueueReplies(f, r.received + 1)]]
  BY DEF MockReceives
<1>3. /\ ModesStay /\ r.at = "open"
      /\ mockCounters' = [mockCounters EXCEPT !.received = @ + 1]
  BY DEF MockReceives, MockOnly, ModesStay
<1>4. /\ mockCounters' \in Counters /\ mockCounters'.sent = mockCounters.sent
      /\ mockCounters'.received = mockCounters.received + 1 /\ mockCounters'.active = mockCounters.active
  BY <1>1, <1>3 DEF Counters
<1>5. /\ r.log \in Seq(ClientFrames) /\ r.queue \in Seq(Items) /\ r.received \in Nat
  BY <1>1, ConnFields
<1> DEFINE n == r.received + 1
           l == Append(r.log, f)
           x == QueueReplies(f, n)
           q == r.queue \o x
           s == [r EXCEPT !.received = n, !.log = l, !.queue = q]
<1>6. n \in Nat /\ l \in Seq(ClientFrames) /\ q \in Seq(Items) /\ Len(l) = Len(r.log) + 1
  <2>1. n \in Nat
    BY <1>5
  <2>2. l \in Seq(ClientFrames) /\ Len(l) = Len(r.log) + 1
    BY <1>5, AppendProperties
  <2>3. x \in Seq(Items)
    <3> HIDE DEF n
    <3> QED BY <1>1, <2>1, RepliesType
  <2>4. q \in Seq(Items)
    <3> HIDE DEF x
    <3> QED BY <1>5, <2>3, ConcatProperties
  <2> QED BY <2>1, <2>2, <2>4
<1>7. mockConn' = [mockConn EXCEPT ![c] = s]
  BY <1>2
<1>8. /\ s \in ConnRecords /\ s.at = r.at /\ s.queue = q /\ s.log = l /\ s.received = n
      /\ s.sent = r.sent /\ s.replies = r.replies
  <2> HIDE DEF n, l, q, r
  <2>1. s \in ConnRecords
    BY <1>1, <1>6 DEF ConnRecords
  <2>2. /\ s.at = r.at /\ s.queue = q /\ s.log = l /\ s.received = n
        /\ s.sent = r.sent /\ s.replies = r.replies
    BY <1>1 DEF ConnRecords
  <2> QED BY <2>1, <2>2
<1> HIDE DEF s
<1>9. ConnOK(s, AskedFor, mockMode)
  BY <1>1, <1>3, <1>8, ReceiveOK
<1>10. /\ mockCounters'.sent = mockCounters.sent + (Len(s.sent) - Len(mockConn[c].sent))
       /\ mockCounters'.active
            = mockCounters.active + (Weight(s.at, Serving) - Weight(mockConn[c].at, Serving))
  <2>1. Weight(s.at, Serving) = 1 /\ Weight(mockConn[c].at, Serving) = 1
    BY <1>3, <1>8, ServingWeight
  <2> QED BY <1>1, <1>4, <1>8, <2>1
<1>11. mockCounters'.received = mockCounters.received + (Len(s.log) - Len(mockConn[c].log))
  <2>1. Len(s.log) = Len(mockConn[c].log) + 1
    BY <1>6, <1>8
  <2> QED BY <1>1, <1>4, <2>1
<1> QED BY <1>3, <1>4, <1>7, <1>8, <1>9, <1>10, <1>11, ConnStep

\* What a record says of a session that the quiet steps leave alone.
KeptFrom(s, r) ==
  s.sent = r.sent /\ s.log = r.log /\ s.received = r.received /\ s.replies = r.replies

\* A step of a session that keeps its place: a pong, a ping, a stall or a Close.
LEMMA SessionQuiet ==
  ASSUME MockInv, NEW c \in MockConns, NEW s \in ConnRecords, ModesStay,
         mockCounters' = mockCounters, mockConn' = [mockConn EXCEPT ![c] = s],
         KeptFrom(s, mockConn[c]),
         mockConn[c].at \in {"open", "stall", "drain"}, s.at \in {"open", "stall", "drain"},
         s.at # "drain" =>
           mockConn[c].at # "drain" /\ Promised(s.queue) = Promised(mockConn[c].queue)
  PROVE  MockInv'
<1>1. /\ mockConn \in [MockConns -> ConnRecords] /\ mockCounters \in Counters
      /\ mockCounters.active \in Int
  BY ConnReads
<1>2. Weight(s.at, Serving) = 1 /\ Weight(mockConn[c].at, Serving) = 1
  BY ServingWeight
<1>3. mockCounters'.active = mockCounters.active + (Weight(s.at, Serving) - Weight(mockConn[c].at, Serving))
  BY <1>1, <1>2
<1>4. s.at \notin {"new", "reject", "shake"}
  OBVIOUS
<1>5. s.at \in {"open", "stall"} =>
        mockConn[c].at \in {"open", "stall"} /\ Promised(s.queue) = Promised(mockConn[c].queue)
  OBVIOUS
<1>6. /\ mockCounters' \in Counters /\ mockCounters'.sent = mockCounters.sent
      /\ mockCounters'.received = mockCounters.received
  BY <1>1
<1>7. s.sent = mockConn[c].sent /\ s.log = mockConn[c].log
      /\ s.received = mockConn[c].received /\ s.replies = mockConn[c].replies
  BY DEF KeptFrom
<1> QED BY <1>3, <1>4, <1>5, <1>6, <1>7, QuietStep

\* The record of a session that stalls.
LEMMA ConnStalls ==
  ASSUME NEW r \in ConnRecords, NEW a \in {"open", "stall", "drain"}
  PROVE  \A s : s = [r EXCEPT !.at = a] =>
           s \in ConnRecords /\ KeptFrom(s, r) /\ s.at = a /\ s.queue = r.queue
<1>1. [r EXCEPT !.at = a] \in ConnRecords
  BY DEF ConnRecords
<1>2. \A s : s = [r EXCEPT !.at = a] => KeptFrom(s, r) /\ s.at = a /\ s.queue = r.queue
  BY DEF ConnRecords, KeptFrom
<1> QED BY <1>1, <1>2

\* The record of a session that waits for a pong, or no more.
LEMMA ConnPongs ==
  ASSUME NEW r \in ConnRecords, NEW b \in BOOLEAN
  PROVE  \A s : s = [r EXCEPT !.pong = b] =>
           s \in ConnRecords /\ KeptFrom(s, r) /\ s.at = r.at /\ s.queue = r.queue
<1>1. [r EXCEPT !.pong = b] \in ConnRecords
  BY DEF ConnRecords
<1>2. \A s : s = [r EXCEPT !.pong = b] => KeptFrom(s, r) /\ s.at = r.at /\ s.queue = r.queue
  BY DEF ConnRecords, KeptFrom
<1> QED BY <1>1, <1>2

\* The record of a session with another queue.
LEMMA ConnQueues ==
  ASSUME NEW r \in ConnRecords, NEW q \in Seq(Items)
  PROVE  \A s : s = [r EXCEPT !.queue = q] =>
           s \in ConnRecords /\ KeptFrom(s, r) /\ s.at = r.at /\ s.queue = q
<1>1. [r EXCEPT !.queue = q] \in ConnRecords
  BY DEF ConnRecords
<1>2. \A s : s = [r EXCEPT !.queue = q] => KeptFrom(s, r) /\ s.at = r.at /\ s.queue = q
  BY DEF ConnRecords, KeptFrom
<1> QED BY <1>1, <1>2

\* The record of a session that closes.
DrainedFrom(r, q) == [r EXCEPT !.at = "drain", !.queue = q]
LEMMA ConnDrains ==
  ASSUME NEW r \in ConnRecords, NEW q \in Seq(Items)
  PROVE  /\ DrainedFrom(r, q) \in ConnRecords /\ KeptFrom(DrainedFrom(r, q), r)
         /\ DrainedFrom(r, q).at = "drain"
<1>1. [r EXCEPT !.at = "drain", !.queue = q] \in ConnRecords
  BY DEF ConnRecords
<1>2. \A s : s = [r EXCEPT !.at = "drain", !.queue = q] => KeptFrom(s, r) /\ s.at = "drain"
  BY DEF ConnRecords, KeptFrom
<1> QED BY <1>1, <1>2 DEF DrainedFrom

\* A pong, a ping, a stall and a Close leave what was sent and asked for alone.
LEMMA MockQuietKeeps ==
  ASSUME MockInv, NEW c \in MockConns, MockPong(c) \/ MockStall(c) \/ MockPing(c) \/ MockCloses(c)
  PROVE  MockInv'
<1> DEFINE r == mockConn[c]
           q == Append(r.queue, Control(0))
<1>1. mockConn \in [MockConns -> ConnRecords] /\ r \in ConnRecords
  BY ConnReads
<1>2. r.queue \in Seq(Items) /\ <<>> \in Seq(Items) /\ 0 \in Nat
  BY <1>1, ConnFields
<1>3. ModesStay /\ mockCounters' = mockCounters
  BY DEF MockPong, MockStall, MockPing, MockCloses, MockOnly, ModesStay
<1>4. q \in Seq(Items) /\ Promised(q) = Promised(r.queue)
  BY <1>2, PromisedControl
<1>5. \E s : /\ mockConn' = [mockConn EXCEPT ![c] = s] /\ s \in ConnRecords /\ KeptFrom(s, r)
             /\ r.at \in {"open", "stall"} /\ s.at \in {"open", "stall", "drain"}
             /\ s.at # "drain" => s.queue \in {r.queue, q}
  <2>1. CASE MockPong(c)
    <3>1. /\ r.at = "open"
          /\ \/ mockConn' = [mockConn EXCEPT ![c] = [r EXCEPT !.pong = FALSE]]
             \/ mockConn' = [mockConn EXCEPT ![c] = [r EXCEPT !.queue = q]]
      BY <2>1 DEF MockPong
    <3> HIDE DEF r, q
    <3>2. CASE mockConn' = [mockConn EXCEPT ![c] = [r EXCEPT !.pong = FALSE]]
      <4> DEFINE s == [r EXCEPT !.pong = FALSE]
      <4>1. s \in ConnRecords /\ KeptFrom(s, r) /\ s.at = r.at /\ s.queue = r.queue
        BY <1>1, <1>4, ConnPongs
      <4>2. mockConn' = [mockConn EXCEPT ![c] = s]
        BY <3>2
      <4> HIDE DEF s
      <4> QED BY <3>1, <4>1, <4>2
    <3>3. CASE mockConn' = [mockConn EXCEPT ![c] = [r EXCEPT !.queue = q]]
      <4> DEFINE s == [r EXCEPT !.queue = q]
      <4>1. s \in ConnRecords /\ KeptFrom(s, r) /\ s.at = r.at /\ s.queue = q
        BY <1>1, <1>4, ConnQueues
      <4>2. mockConn' = [mockConn EXCEPT ![c] = s]
        BY <3>3
      <4> HIDE DEF s
      <4> QED BY <3>1, <4>1, <4>2
    <3> QED BY <3>1, <3>2, <3>3
  <2>2. CASE MockStall(c)
    <3> DEFINE s == [r EXCEPT !.at = "stall"]
    <3>1. r.at = "open" /\ mockConn' = [mockConn EXCEPT ![c] = s]
      BY <2>2 DEF MockStall, Sends
    <3> HIDE DEF r, q
    <3>2. s \in ConnRecords /\ KeptFrom(s, r) /\ s.at = "stall" /\ s.queue = r.queue
      BY <1>1, <1>4, ConnStalls
    <3> HIDE DEF s
    <3> QED BY <3>1, <3>2
  <2>3. CASE MockPing(c)
    <3> DEFINE s == [r EXCEPT !.pong = TRUE]
    <3>1. r.at = "open" /\ mockConn' = [mockConn EXCEPT ![c] = s]
      BY <2>3 DEF MockPing, Sends
    <3> HIDE DEF r, q
    <3>2. s \in ConnRecords /\ KeptFrom(s, r) /\ s.at = r.at /\ s.queue = r.queue
      BY <1>1, <1>4, ConnPongs
    <3> HIDE DEF s
    <3> QED BY <3>1, <3>2
  <2>4. CASE MockCloses(c)
    <3> DEFINE none == <<>>
               s == DrainedFrom(r, none)
    <3>1. r.at \in {"open", "stall"} /\ mockConn' = [mockConn EXCEPT ![c] = s] /\ none \in Seq(Items)
      BY <1>2, <2>4 DEF MockCloses, Sends, DrainedFrom
    <3> HIDE DEF r, q, none
    <3>2. s \in ConnRecords /\ KeptFrom(s, r) /\ s.at = "drain"
      BY <1>1, <3>1, ConnDrains
    <3> HIDE DEF s
    <3> QED BY <3>1, <3>2
  <2> QED BY <2>1, <2>2, <2>3, <2>4
<1>6. PICK s : /\ mockConn' = [mockConn EXCEPT ![c] = s] /\ s \in ConnRecords /\ KeptFrom(s, r)
               /\ r.at \in {"open", "stall"} /\ s.at \in {"open", "stall", "drain"}
               /\ s.at # "drain" => s.queue \in {r.queue, q}
  BY <1>5
<1> HIDE DEF q
<1>7. s.at # "drain" => r.at # "drain" /\ Promised(s.queue) = Promised(r.queue)
  BY <1>4, <1>6
<1> QED BY <1>3, <1>6, <1>7, SessionQuiet

\* A session that ends gives its place back.
LEMMA MockGoneKeeps ==
  ASSUME MockInv, NEW c \in MockConns, MockGone(c)
  PROVE  MockInv'
<1> DEFINE r == mockConn[c]
           s == [r EXCEPT !.at = "gone", !.queue = <<>>]
<1>1. /\ mockConn \in [MockConns -> ConnRecords] /\ r \in ConnRecords /\ mockCounters \in Counters
      /\ mockCounters.active \in Int
  BY ConnReads
<1>2. /\ ModesStay /\ r.at \in {"open", "drain"} /\ mockConn' = [mockConn EXCEPT ![c] = s]
      /\ mockCounters' = [mockCounters EXCEPT !.active = @ - 1]
  BY DEF MockGone, MockOnly, ModesStay, Sends
<1>3. /\ mockCounters' \in Counters /\ mockCounters'.sent = mockCounters.sent
      /\ mockCounters'.received = mockCounters.received /\ mockCounters'.active = mockCounters.active - 1
  BY <1>1, <1>2 DEF Counters
<1>4. /\ s \in ConnRecords /\ s.at = "gone"
      /\ s.sent = r.sent /\ s.log = r.log /\ s.received = r.received /\ s.replies = r.replies
  <2> HIDE DEF r
  <2>1. <<>> \in Seq(Items)
    OBVIOUS
  <2>2. s \in ConnRecords
    BY <1>1, <2>1 DEF ConnRecords
  <2>3. /\ s.at = "gone"
        /\ s.sent = r.sent /\ s.log = r.log /\ s.received = r.received /\ s.replies = r.replies
    BY <1>1 DEF ConnRecords
  <2> QED BY <2>2, <2>3
<1> HIDE DEF s
<1>5. Weight(s.at, Serving) = 0 /\ Weight(mockConn[c].at, Serving) = 1
  BY <1>2, <1>4, ServingWeight
<1>6. mockCounters'.active = mockCounters.active + (Weight(s.at, Serving) - Weight(mockConn[c].at, Serving))
  BY <1>1, <1>3, <1>5
<1>7. s.at \notin {"new", "reject", "shake"} /\ s.at \notin {"open", "stall"}
  BY <1>4
<1> QED BY <1>2, <1>3, <1>4, <1>6, <1>7, QuietStep

\* What goes out is the next of what the input asks for; after a close, and
\* after the close-after reply, nothing does.
LEMMA MockDueKeeps ==
  ASSUME MockInv, NEW c \in MockConns, MockDue(c)
  PROVE  MockInv'
<1> DEFINE r == mockConn[c]
           item == Head(r.queue)
           t == Tail(r.queue)
           frame == item.k = "frame"
           n == IF frame THEN r.replies + 1 ELSE r.replies
           x == IF frame THEN Append(r.sent, item) ELSE r.sent
           left == [r EXCEPT !.at = "open", !.queue = t, !.replies = n, !.sent = x]
           over == item.k = "close" \/ (frame /\ left.replies = CloseAfter)
           s == IF over THEN [left EXCEPT !.at = "drain", !.queue = <<>>] ELSE left
<1>1. /\ mockConn \in [MockConns -> ConnRecords] /\ r \in ConnRecords /\ mockCounters \in Counters
      /\ mockCounters.sent \in Int /\ mockCounters.received \in Int /\ mockCounters.active \in Int
      /\ Len(r.sent) \in Nat /\ Len(r.log) \in Nat /\ ConnOK(r, AskedFor, mockMode)
  BY ConnReads
<1>2. r.queue \in Seq(Items) /\ r.sent \in Seq(Items) /\ r.replies \in Nat /\ <<>> \in Seq(Items)
  BY <1>1, ConnFields
<1>3. /\ ModesStay /\ r.at \in {"open", "stall"} /\ r.queue # <<>>
      /\ mockConn' = [mockConn EXCEPT ![c] = s]
      /\ mockCounters' = [mockCounters EXCEPT !.sent = IF frame THEN @ + 1 ELSE @]
  BY DEF MockDue, MockOnly, ModesStay, Sends
<1>4. /\ item \in Items /\ t \in Seq(Items)
      /\ (item.k = "control" => Promised(r.queue) = Promised(t))
  BY <1>2, <1>3, PromisedFirst
<1>5. n \in Nat /\ x \in Seq(Items)
  <2>1. Append(r.sent, item) \in Seq(Items)
    <3> HIDE DEF item
    <3> QED BY <1>2, <1>4, AppendProperties
  <2>2. r.replies + 1 \in Nat
    BY <1>2
  <2> HIDE DEF item
  <2> QED BY <1>2, <2>1, <2>2
<1>6. /\ mockCounters' \in Counters /\ mockCounters'.received = mockCounters.received
      /\ mockCounters'.active = mockCounters.active
      /\ mockCounters'.sent = IF frame THEN mockCounters.sent + 1 ELSE mockCounters.sent
  <2> DEFINE m == IF frame THEN mockCounters.sent + 1 ELSE mockCounters.sent
  <2>1. m \in Int
    BY <1>1
  <2>2. mockCounters' = [mockCounters EXCEPT !.sent = m]
    BY <1>3
  <2> HIDE DEF m
  <2> QED BY <1>1, <2>1, <2>2 DEF Counters, m
<1>7. /\ left \in ConnRecords /\ left.at = "open" /\ left.queue = t /\ left.replies = n /\ left.sent = x
      /\ left.log = r.log /\ left.received = r.received
  <2> HIDE DEF r, t, n, x
  <2>1. left \in ConnRecords
    BY <1>1, <1>4, <1>5 DEF ConnRecords
  <2>2. left.at = "open" /\ left.queue = t
    BY <1>1 DEF ConnRecords
  <2>3. left.replies = n /\ left.sent = x
    BY <1>1 DEF ConnRecords
  <2>4. left.log = r.log /\ left.received = r.received
    BY <1>1 DEF ConnRecords
  <2> QED BY <2>1, <2>2, <2>3, <2>4
<1> HIDE DEF left
<1>8. /\ s \in ConnRecords /\ s.replies = n /\ s.sent = x /\ s.log = r.log /\ s.received = r.received
      /\ (over => s.at = "drain") /\ (~over => s.at = "open" /\ s.queue = t)
  <2>1. CASE over
    <3> DEFINE d == [left EXCEPT !.at = "drain", !.queue = <<>>]
    <3>1. s = d
      BY <2>1
    <3> HIDE DEF over, r, t, n, x
    <3>2. d \in ConnRecords
      BY <1>2, <1>7 DEF ConnRecords
    <3>3. d.at = "drain" /\ d.replies = left.replies /\ d.sent = left.sent
      BY <1>7 DEF ConnRecords
    <3>4. d.log = left.log /\ d.received = left.received
      BY <1>7 DEF ConnRecords
    <3> HIDE DEF d
    <3> QED BY <1>7, <2>1, <3>1, <3>2, <3>3, <3>4
  <2>2. CASE ~over
    <3> HIDE DEF over, r, t, n, x
    <3> QED BY <1>7, <2>2
  <2> QED BY <2>1, <2>2
<1>9. over <=> item.k = "close" \/ (frame /\ s.replies = CloseAfter)
  BY <1>7, <1>8
<1> HIDE DEF s, over
<1>10. Weight(s.at, Serving) = 1 /\ Weight(mockConn[c].at, Serving) = 1
  <2>1. s.at \in {"open", "stall", "drain"}
    BY <1>8
  <2> QED BY <1>3, <2>1, ServingWeight
<1>11. mockCounters'.active
         = mockCounters.active + (Weight(s.at, Serving) - Weight(mockConn[c].at, Serving))
  BY <1>1, <1>6, <1>10
<1>12. mockCounters'.received = mockCounters.received + (Len(s.log) - Len(mockConn[c].log))
  <2>1. Len(s.log) = Len(mockConn[c].log) /\ Len(mockConn[c].log) \in Nat
    BY <1>1, <1>8
  <2> QED BY <1>1, <1>6, <2>1
<1>13. CASE frame
  <2>1. s.sent = Append(r.sent, item) /\ s.replies = r.replies + 1
    BY <1>8, <1>13
  <2>2. IF s.replies = CloseAfter THEN s.at = "drain" ELSE s.at = "open" /\ s.queue = t
    <3>1. over <=> s.replies = CloseAfter
      BY <1>9, <1>13
    <3> QED BY <1>8, <3>1
  <2>3. ConnOK(s, AskedFor, mockMode) /\ Len(s.sent) = Len(r.sent) + 1
    BY <1>1, <1>3, <1>8, <1>13, <2>1, <2>2, ReplyOK
  <2>4. mockCounters'.sent = mockCounters.sent + (Len(s.sent) - Len(mockConn[c].sent))
    <3>1. mockCounters'.sent = mockCounters.sent + 1
      BY <1>6, <1>13
    <3> QED BY <1>1, <2>3, <3>1
  <2> QED BY <1>3, <1>6, <1>8, <1>11, <1>12, <2>3, <2>4, ConnStep
<1>14. CASE ~frame
  <2>1. s.sent = r.sent /\ s.replies = r.replies /\ mockCounters'.sent = mockCounters.sent
    BY <1>6, <1>8, <1>14
  <2>2. s.at \in {"open", "stall"} => item.k = "control" /\ s.queue = t
    BY <1>4, <1>8, <1>9, <1>14 DEF Items
  <2>3. s.at \in {"open", "stall"} =>
          r.at \in {"open", "stall"} /\ Promised(s.queue) = Promised(r.queue)
    BY <1>3, <1>4, <2>2
  <2>4. s.at \notin {"new", "reject", "shake"}
    BY <1>8
  <2> QED BY <1>3, <1>6, <1>8, <1>11, <2>1, <2>3, <2>4, QuietStep
<1> QED BY <1>13, <1>14

\* A step that changes no connection and no counter.
LEMMA MockStaysKeeps ==
  ASSUME MockInv, ModesStay, mockConn' = mockConn, mockCounters' = mockCounters
  PROVE  MockInv'
<1>1. MockModes
  BY DEF MockInv, MockTypes
<1>2. MockModes' /\ AskedFor' = AskedFor /\ mockMode' = mockMode
  BY <1>1, AskedForStays DEF ModesStay
<1>3. SentBy' = SentBy /\ ReceivedBy' = ReceivedBy /\ ServedBy' = ServedBy
  BY DEF SentBy, ReceivedBy, ServedBy
<1>4. MockBooks'
  BY <1>3 DEF MockInv, MockBooks
<1>5. \A c \in MockConns : ConnOK(mockConn'[c], AskedFor', mockMode')
  BY <1>2 DEF MockInv
<1> QED BY <1>2, <1>4, <1>5 DEF MockInv, MockTypes

\* The shutdown ends every session and clears the active count.
LEMMA MockStopsKeeps ==
  ASSUME MockInv, MockStops
  PROVE  MockInv'
<1> DEFINE s(c) == [mockConn[c] EXCEPT !.at = IF @ = "new" THEN "new" ELSE "gone", !.queue = <<>>]
<1>1. MockModes /\ mockCounters \in Counters /\ mockConn \in [MockConns -> ConnRecords]
  BY DEF MockInv, MockTypes, Counters
<1>2. ModesStay /\ mockConn' = [c \in MockConns |-> s(c)]
      /\ mockCounters' = [mockCounters EXCEPT !.active = 0]
  BY DEF MockStops, ModesStay
<1>3. MockModes' /\ AskedFor' = AskedFor /\ mockMode' = mockMode
  BY <1>1, <1>2, AskedForStays DEF ModesStay
<1>4. /\ mockCounters' \in Counters /\ mockCounters'.sent = mockCounters.sent
      /\ mockCounters'.received = mockCounters.received /\ mockCounters'.active = 0
  <2>1. [mockCounters EXCEPT !.active = 0] \in Counters
    BY <1>1 DEF Counters
  <2>2. \A t : t = [mockCounters EXCEPT !.active = 0] =>
          t.sent = mockCounters.sent /\ t.received = mockCounters.received /\ t.active = 0
    BY <1>1 DEF Counters
  <2> QED BY <1>2, <2>1, <2>2
<1>5. ASSUME NEW c \in MockConns
      PROVE  /\ s(c) \in ConnRecords /\ s(c).sent = mockConn[c].sent /\ s(c).log = mockConn[c].log
             /\ ConnOK(s(c), AskedFor, mockMode) /\ Weight(s(c).at, Serving) = 0
  <2> DEFINE r == mockConn[c]
             a == IF r.at = "new" THEN "new" ELSE "gone"
             v == [r EXCEPT !.at = a, !.queue = <<>>]
  <2>1. r \in ConnRecords /\ ConnOK(r, AskedFor, mockMode) /\ s(c) = v
    BY <1>1 DEF MockInv
  <2>2. a \in {"new", "gone"} /\ <<>> \in Seq(Items) /\ (a = "new" => r.at = "new")
    OBVIOUS
  <2> HIDE DEF r, a
  <2>3. v \in ConnRecords
    BY <2>1, <2>2 DEF ConnRecords
  <2>4. v.at = a /\ v.sent = r.sent /\ v.log = r.log
    BY <2>1 DEF ConnRecords
  <2>5. v.received = r.received /\ v.replies = r.replies
    BY <2>1 DEF ConnRecords
  <2> HIDE DEF v
  <2>6. v.at \notin {"open", "stall"} /\ (v.at \in {"new", "reject", "shake"} => r.at = "new")
    BY <2>2, <2>4
  <2>7. ConnOK(v, AskedFor, mockMode)
    BY <2>1, <2>3, <2>4, <2>5, <2>6, QuietOK
  <2>8. Weight(v.at, Serving) = 0
    BY <2>2, <2>4, ServingWeight
  <2> HIDE DEF s
  <2> QED BY <2>1, <2>3, <2>4, <2>7, <2>8 DEF r
<1>6. \A c \in MockConns : mockConn'[c] = s(c)
  BY <1>2
<1> HIDE DEF s
<1>7. mockConn' \in [MockConns -> ConnRecords]
  BY <1>2, <1>5
<1>8. SentBy' = SentBy /\ ReceivedBy' = ReceivedBy
  <2>1. \A c \in MockConns : mockConn'[c].sent = mockConn[c].sent /\ mockConn'[c].log = mockConn[c].log
    BY <1>5, <1>6
  <2> QED BY <2>1 DEF SentBy, ReceivedBy
<1>9. MockTypes'
  BY <1>3, <1>4, <1>7 DEF MockTypes, Counters
<1>10. \A c \in MockConns : ConnOK(mockConn'[c], AskedFor', mockMode')
  BY <1>3, <1>5, <1>6
<1>11. SumFunctionOnSet(ServedBy', MockConns) = 0
  <2>1. IsFiniteSet(MockConns)
    BY MockAssumption
  <2>2. ServedBy' \in [MockConns -> Int]
    BY <1>9, MockNumbersAfter
  <2>3. \A c \in MockConns : ServedBy'[c] = 0
    BY <1>5, <1>6 DEF ServedBy
  <2> QED BY <2>1, <2>2, <2>3, SumZero
<1>12. MockBooks'
  BY <1>4, <1>8, <1>11 DEF MockInv, MockBooks
<1> QED BY <1>9, <1>10, <1>12 DEF MockInv

\* The initial states are such.
LEMMA MockStarts == MockInit => MockInv
<1> SUFFICES ASSUME MockInit PROVE MockInv
  OBVIOUS
<1>1. MockModes /\ mockCounters = NoCounts /\ mockConn = [c \in MockConns |-> Unconnected]
  BY DEF MockInit, MockModes
<1>2. <<>> \in Seq(Items) /\ <<>> \in Seq(ClientFrames) /\ Len(<<>>) = 0
  OBVIOUS
<1>3. Unconnected \in ConnRecords
  BY <1>2 DEF Unconnected, ConnRecords
<1>4. /\ Unconnected.at = "new" /\ Unconnected.log = <<>> /\ Unconnected.sent = <<>>
      /\ Unconnected.received = 0 /\ Unconnected.replies = 0
  BY DEF Unconnected
<1>5. MockTypes
  BY <1>1, <1>3 DEF MockTypes, NoCounts
<1>6. ConnOK(Unconnected, AskedFor, mockMode)
  <2>1. CloseAfter # 0 => 0 <= CloseAfter
    BY MockAssumption
  <2> DEFINE t == Promised(AskedFor[Unconnected.log]).frames
  <2>2. t \in Seq(Items)
    <3>1. AskedFor[Unconnected.log] = <<>>
      BY <1>1, <1>4, AskedForFacts
    <3>2. t = <<>>
      BY <3>1, PromisedNothing DEF NoPromise
    <3> QED BY <1>2, <3>2
  <2>3. IsPrefix(<<>>, t)
    <3> HIDE DEF t
    <3> QED BY <2>2, PrefixNothing
  <2> QED BY <1>2, <1>4, <2>1, <2>3 DEF ConnOK
<1>7. \A c \in MockConns : mockConn[c] = Unconnected
  BY <1>1
<1>8. \A c \in MockConns : ConnOK(mockConn[c], AskedFor, mockMode)
  BY <1>6, <1>7
<1>9. \A c \in MockConns : SentBy[c] = 0 /\ ReceivedBy[c] = 0 /\ ServedBy[c] = 0
  <2>1. Weight(Unconnected.at, Serving) = 0
    BY <1>4, ServingWeight
  <2> QED BY <1>2, <1>4, <1>7, <2>1 DEF SentBy, ReceivedBy, ServedBy
<1>10. IsFiniteSet(MockConns)
  BY MockAssumption
<1>11. SentBy \in [MockConns -> Int] /\ ReceivedBy \in [MockConns -> Int] /\ ServedBy \in [MockConns -> Int]
  BY <1>5, MockNumbers
<1>12. SumFunctionOnSet(SentBy, MockConns) = 0
  <2>1. SentBy \in [MockConns -> Int]
    BY <1>11
  <2>2. \A c \in MockConns : SentBy[c] = 0
    BY <1>9
  <2> QED BY <1>10, <2>1, <2>2, SumZero
<1>13. SumFunctionOnSet(ReceivedBy, MockConns) = 0
  <2>1. ReceivedBy \in [MockConns -> Int]
    BY <1>11
  <2>2. \A c \in MockConns : ReceivedBy[c] = 0
    BY <1>9
  <2> QED BY <1>10, <2>1, <2>2, SumZero
<1>14. SumFunctionOnSet(ServedBy, MockConns) = 0
  <2>1. ServedBy \in [MockConns -> Int]
    BY <1>11
  <2>2. \A c \in MockConns : ServedBy[c] = 0
    BY <1>9
  <2> QED BY <1>10, <2>1, <2>2, SumZero
<1>15. MockBooks
  BY <1>1, <1>12, <1>13, <1>14 DEF MockBooks, NoCounts
<1> QED BY <1>5, <1>8, <1>15 DEF MockInv

\* Every step keeps the invariant.
LEMMA MockKeeps == MockInv /\ [MockNext]_mockVars => MockInv'
<1> SUFFICES ASSUME MockInv, [MockNext]_mockVars PROVE MockInv'
  OBVIOUS
<1>1. ASSUME NEW c \in MockConns,
             \/ MockAccept(c) \/ MockReject(c) \/ MockShakeFails(c) \/ MockOpen(c)
             \/ MockReceives(c) \/ MockPong(c) \/ MockStall(c) \/ MockDue(c) \/ MockPing(c)
             \/ MockCloses(c) \/ MockGone(c)
      PROVE  MockInv'
  BY <1>1, MockAcceptKeeps, MockOpenKeeps, MockReceivesKeeps, MockQuietKeeps, MockDueKeeps, MockGoneKeeps
<1>2. CASE MockStops
  BY <1>2, MockStopsKeeps
<1>3. CASE StallTurns \/ MockCancelled \/ MockTerminated \/ UNCHANGED mockVars
  <2>1. ModesStay /\ mockConn' = mockConn /\ mockCounters' = mockCounters
    BY <1>3 DEF StallTurns, MockCancelled, MockTerminated, MockOnly, mockVars, ModesStay
  <2> QED BY <2>1, MockStaysKeeps
<1> QED BY <1>1, <1>2, <1>3 DEF MockNext

\* The replies the connections sent, added up.
SentInAll == MapThenSumSet(LAMBDA c : Len(mockConn[c].sent), MockConns)

\* The sum that the property states is the sum over the connections.
LEMMA SentSum ==
  ASSUME MockTypes
  PROVE  SentInAll = SumFunctionOnSet(SentBy, MockConns)
<1> DEFINE S == MockConns
           f == SentBy
           Is(g) == g = [s \in SUBSET S |->
                           IF s = {} THEN 0 ELSE Len(mockConn[Pick(s)].sent) + g[s \ {Pick(s)}]]
           c == CHOOSE h : Is(h)
<1>1. IsFiniteSet(S) /\ f \in [S -> Int]
  BY MockAssumption, MockNumbers
<1>2. PICK g \in [SUBSET S -> Int] : \A s \in SUBSET S : Adds(g, f, s)
  BY <1>1, SumExists
<1>3. \A s \in SUBSET S : s # {} => f[Pick(s)] = Len(mockConn[Pick(s)].sent)
  <2>1. \A s \in SUBSET S : s # {} => Pick(s) \in S
    BY <1>1, PickFacts
  <2> QED BY <2>1 DEF SentBy
<1>4. Is(g)
  <2> HIDE DEF f
  <2> QED BY <1>2, <1>3 DEF Adds
<1>5. SentInAll = c[S]
  BY DEF SentInAll, MapThenSumSet, MapThenFoldSet, Pick
<1>6. Is(c)
  <2> HIDE DEF Is
  <2> QED BY <1>4
<1>7. \A s \in SUBSET S : Adds(c, f, s)
  <2> HIDE DEF c, f
  <2> QED BY <1>3, <1>6 DEF Adds
<1> HIDE DEF c, f, S
<1>8. c[S] = SumFunctionOnSet(f, S)
  BY <1>1, <1>7, SumUnique
<1> QED BY <1>5, <1>8 DEF S, f

\* The frames the connections received, added up.
ReceivedInAll == MapThenSumSet(LAMBDA c : Len(mockConn[c].log), MockConns)

\* The sum that the property states is the sum over the connections.
LEMMA ReceivedSum ==
  ASSUME MockTypes
  PROVE  ReceivedInAll = SumFunctionOnSet(ReceivedBy, MockConns)
<1> DEFINE S == MockConns
           f == ReceivedBy
           Is(g) == g = [s \in SUBSET S |->
                           IF s = {} THEN 0 ELSE Len(mockConn[Pick(s)].log) + g[s \ {Pick(s)}]]
           c == CHOOSE h : Is(h)
<1>1. IsFiniteSet(S) /\ f \in [S -> Int]
  BY MockAssumption, MockNumbers
<1>2. PICK g \in [SUBSET S -> Int] : \A s \in SUBSET S : Adds(g, f, s)
  BY <1>1, SumExists
<1>3. \A s \in SUBSET S : s # {} => f[Pick(s)] = Len(mockConn[Pick(s)].log)
  <2>1. \A s \in SUBSET S : s # {} => Pick(s) \in S
    BY <1>1, PickFacts
  <2> QED BY <2>1 DEF ReceivedBy
<1>4. Is(g)
  <2> HIDE DEF f
  <2> QED BY <1>2, <1>3 DEF Adds
<1>5. ReceivedInAll = c[S]
  BY DEF ReceivedInAll, MapThenSumSet, MapThenFoldSet, Pick
<1>6. Is(c)
  <2> HIDE DEF Is
  <2> QED BY <1>4
<1>7. \A s \in SUBSET S : Adds(c, f, s)
  <2> HIDE DEF c, f
  <2> QED BY <1>3, <1>6 DEF Adds
<1> HIDE DEF c, f, S
<1>8. c[S] = SumFunctionOnSet(f, S)
  BY <1>1, <1>7, SumUnique
<1> QED BY <1>5, <1>8 DEF S, f

\* The connections that are served, counted.
LEMMA ServedCount ==
  ASSUME MockTypes
  PROVE  SumFunctionOnSet(ServedBy, MockConns)
           = Cardinality({c \in MockConns : mockConn[c].at \in {"open", "stall", "drain"}})
<1> DEFINE A == {c \in MockConns : mockConn[c].at \in {"open", "stall", "drain"}}
<1>1. IsFiniteSet(MockConns) /\ ServedBy \in [MockConns -> Int] /\ A \in SUBSET MockConns
  BY MockAssumption, MockNumbers
<1>2. \A c \in MockConns : ServedBy[c] = Weight(c, A)
  BY DEF ServedBy, Weight, Serving
<1> HIDE DEF A
<1>3. SumFunctionOnSet(ServedBy, MockConns) = Cardinality(A)
  BY <1>1, <1>2, SumCounts
<1> QED BY <1>3 DEF A

\* The invariant gives the property.
LEMMA MockPromisesKept == MockInv => MockAnswersInOrder
<1> SUFFICES ASSUME MockInv PROVE MockAnswersInOrder
  OBVIOUS
<1>1. MockTypes /\ MockModes
  BY DEF MockInv, MockTypes
<1>2. ASSUME NEW c \in MockConns
      PROVE  /\ mockMode \in {"echo", "rules", "socketio"} =>
                  IsPrefix(mockConn[c].sent, Answers(mockConn[c].log))
             /\ CloseAfter # 0 => Len(mockConn[c].sent) <= CloseAfter
  <2>1. mockConn[c] \in ConnRecords /\ ConnOK(mockConn[c], AskedFor, mockMode)
    BY ConnReads
  <2>2. mockConn[c].log \in Seq(ClientFrames)
    BY <2>1 DEF ConnRecords
  <2>3. AskedFor[mockConn[c].log] = Asked(mockConn[c].log)
    BY <1>1, <2>2, AskedForFacts
  <2>4. mockMode # "replay" => IsPrefix(mockConn[c].sent, Promised(AskedFor[mockConn[c].log]).frames)
    BY <2>1 DEF ConnOK
  <2>5. CloseAfter # 0 => Len(mockConn[c].sent) <= CloseAfter
    BY <2>1 DEF ConnOK
  <2> QED BY <2>3, <2>4, <2>5 DEF Answers
<1>3. /\ mockCounters.sent = SentInAll /\ mockCounters.received = ReceivedInAll
  BY <1>1, SentSum, ReceivedSum DEF MockInv, MockBooks
<1>4. mockCounters.active = Cardinality({c \in MockConns : mockConn[c].at \in {"open", "stall", "drain"}})
  BY <1>1, ServedCount DEF MockInv, MockBooks
<1> QED BY <1>2, <1>3, <1>4 DEF MockAnswersInOrder, SentInAll, ReceivedInAll

\* docs/mock.md, of the mock server (src/mock.rs, src/mock/rules.rs): for
\* every rules file, close-after and set of clients, a connection's replies
\* are the first of those its own input asks for, in order and none after a
\* rule's close or the close-after reply, whatever the other connections, the
\* stalls and the shutdown do; and the counters are those of the connections.
THEOREM MockAnswersFollow == MockSpec => []MockAnswersInOrder
  BY MockStarts, MockKeeps, MockPromisesKept, PTL DEF MockSpec

----------------------------------------------------------------------------
(* The race of the addresses (src/connect.rs).  First, what the sequences  *)
(* of addresses have in them.                                              *)

\* A sequence of sequences, put one after the other.
Concats(g, P, m) == g = [n \in 0 .. m |-> IF n = 0 THEN <<>> ELSE g[n - 1] \o P[n]]

\* The members of sequences one after the other.
LEMMA ToSetConcat ==
  ASSUME NEW a \in Seq(Nat), NEW b \in Seq(Nat)
  PROVE  a \o b \in Seq(Nat) /\ Len(a \o b) = Len(a) + Len(b) /\ ToSet(a \o b) = ToSet(a) \cup ToSet(b)
<1>1. /\ a \o b \in Seq(Nat) /\ Len(a \o b) = Len(a) + Len(b) /\ Len(a) \in Nat /\ Len(b) \in Nat
      /\ \A i \in 1 .. (Len(a) + Len(b)) :
           (a \o b)[i] = IF i <= Len(a) THEN a[i] ELSE b[i - Len(a)]
  BY ConcatProperties
<1>2. DOMAIN a = 1 .. Len(a) /\ DOMAIN b = 1 .. Len(b) /\ DOMAIN (a \o b) = 1 .. (Len(a) + Len(b))
  BY <1>1
<1> DEFINE x == a \o b
           m == Len(a)
           n == Len(b)
<1> HIDE DEF x
<1>3. \A i \in 1 .. m : i \in 1 .. (m + n) /\ x[i] = a[i]
  BY <1>1 DEF x
<1>4. \A i \in 1 .. n : i + m \in 1 .. (m + n) /\ x[i + m] = b[i]
  <2> SUFFICES ASSUME NEW i \in 1 .. n PROVE i + m \in 1 .. (m + n) /\ x[i + m] = b[i]
    OBVIOUS
  <2>1. i + m \in 1 .. (m + n) /\ ~(i + m <= m) /\ (i + m) - m = i
    BY <1>1
  <2> QED BY <1>1, <2>1 DEF x
<1>5. \A i \in 1 .. (m + n) : (i \in 1 .. m /\ x[i] = a[i]) \/ (i - m \in 1 .. n /\ x[i] = b[i - m])
  BY <1>1 DEF x
<1>6. DOMAIN x = 1 .. (m + n)
  BY <1>2 DEF x
<1>7. ToSet(x) = ToSet(a) \cup ToSet(b)
  <2> HIDE DEF m, n
  <2>1. DOMAIN a = 1 .. m /\ DOMAIN b = 1 .. n
    BY <1>2 DEF m, n
  <2>2. \A e : e \in ToSet(x) => e \in ToSet(a) \/ e \in ToSet(b)
    BY <1>5, <1>6, <2>1 DEF ToSet
  <2>3. \A e \in ToSet(a) : e \in ToSet(x)
    BY <1>3, <1>6, <2>1 DEF ToSet
  <2>4. \A e \in ToSet(b) : e \in ToSet(x)
    BY <1>4, <1>6, <2>1 DEF ToSet
  <2> QED BY <2>2, <2>3, <2>4
<1> QED BY <1>1, <1>7 DEF x

\* Sequences with no member and with one.
LEMMA ToSetShort ==
  /\ <<>> \in Seq(Nat) /\ ToSet(<<>>) = {} /\ Len(<<>>) = 0
  /\ \A x \in Nat : <<x>> \in Seq(Nat) /\ ToSet(<<x>>) = {x} /\ Len(<<x>>) = 1
<1>1. <<>> \in Seq(Nat) /\ ToSet(<<>>) = {} /\ Len(<<>>) = 0
  BY DEF ToSet
<1>2. \A x \in Nat : <<x>> \in Seq(Nat) /\ Len(<<x>>) = 1 /\ ToSet(<<x>>) = {x}
  <2> SUFFICES ASSUME NEW x \in Nat PROVE <<x>> \in Seq(Nat) /\ Len(<<x>>) = 1 /\ ToSet(<<x>>) = {x}
    OBVIOUS
  <2>1. <<x>> \in Seq(Nat) /\ Len(<<x>>) = 1 /\ <<x>>[1] = x
    OBVIOUS
  <2>2. DOMAIN <<x>> = {1}
    OBVIOUS
  <2> QED BY <2>1, <2>2 DEF ToSet
<1> QED BY <1>1, <1>2

\* Putting sequences together is well defined.
LEMMA ConcatsExist ==
  ASSUME NEW m \in Nat, NEW P \in [1 .. m -> Seq(Nat)]
  PROVE  \E g : Concats(g, P, m)
<1> DEFINE V == Seq(Nat)
           v == <<>>
           F == [i \in 1 .. m |-> [x \in V |-> x \o P[i]]]
<1>1. v \in V
  BY ToSetShort
<1>2. F \in [1 .. m -> [V -> V]] /\ \A i \in 1 .. m : \A x \in V : F[i][x] = x \o P[i]
  <2>1. \A i \in 1 .. m : \A x \in V : x \o P[i] \in V
    BY ToSetConcat
  <2> QED BY <2>1
<1> HIDE DEF F, V, v
<1>3. PICK g : Recursion(g, V, v, m, F)
  BY <1>1, <1>2, RecursionExists
<1>4. g \in [0 .. m -> V] /\ g[0] = v /\ \A i \in 1 .. m : g[i] = F[i][g[i - 1]]
  BY <1>3 DEF Recursion
<1>5. \A n \in 0 .. m : g[n] = IF n = 0 THEN v ELSE g[n - 1] \o P[n]
  <2> SUFFICES ASSUME NEW n \in 0 .. m PROVE g[n] = IF n = 0 THEN v ELSE g[n - 1] \o P[n]
    OBVIOUS
  <2>1. CASE n = 0
    BY <1>4, <2>1
  <2>2. CASE n # 0
    <3>1. n \in 1 .. m /\ n - 1 \in 0 .. m
      BY <2>2
    <3>2. g[n - 1] \in V
      BY <1>4, <3>1
    <3> QED BY <1>2, <1>4, <2>2, <3>1, <3>2
  <2> QED BY <2>1, <2>2
<1>6. g = [n \in 0 .. m |-> IF n = 0 THEN v ELSE g[n - 1] \o P[n]]
  BY <1>4, <1>5
<1> QED BY <1>6 DEF Concats, v

\* What is put together has the members of its parts.
LEMMA ConcatsFacts ==
  ASSUME NEW m \in Nat, NEW P \in [1 .. m -> Seq(Nat)], NEW g, Concats(g, P, m)
  PROVE  /\ g[m] \in Seq(Nat)
         /\ \A x : x \in ToSet(g[m]) <=> \E i \in 1 .. m : x \in ToSet(P[i])
         /\ (\A i \in 1 .. m : Len(P[i]) <= 1) => Len(g[m]) <= m
<1> DEFINE short == \A i \in 1 .. m : Len(P[i]) <= 1
           Good(n) == /\ g[n] \in Seq(Nat)
                      /\ \A x : x \in ToSet(g[n]) <=> \E i \in 1 .. n : x \in ToSet(P[i])
                      /\ short => Len(g[n]) <= n
           T == {n \in Nat : n <= m => Good(n)}
<1>1. \A n \in 0 .. m : g[n] = IF n = 0 THEN <<>> ELSE g[n - 1] \o P[n]
  BY DEF Concats
<1>2. 0 \in T
  <2>1. g[0] = <<>>
    BY <1>1
  <2>2. Good(0)
    BY <2>1, ToSetShort
  <2> QED BY <2>2
<1>3. ASSUME NEW n \in T PROVE n + 1 \in T
  <2>1. SUFFICES ASSUME n + 1 <= m PROVE Good(n + 1)
    <3>1. n + 1 \in Nat
      OBVIOUS
    <3> HIDE DEF Good
    <3> QED BY <3>1
  <2>2. n \in Nat /\ n + 1 \in 0 .. m /\ n + 1 \in 1 .. m /\ n + 1 # 0 /\ (n + 1) - 1 = n
    BY <2>1
  <2>3. Good(n)
    BY <1>3, <2>1
  <2> DEFINE a == g[n]
             b == P[n + 1]
  <2>4. g[n + 1] = a \o b
    BY <1>1, <2>2
  <2>5. a \in Seq(Nat) /\ b \in Seq(Nat) /\ Len(a) \in Nat /\ Len(b) \in Nat
    BY <2>2, <2>3
  <2>6. \A x : x \in ToSet(a) <=> \E i \in 1 .. n : x \in ToSet(P[i])
    BY <2>3
  <2>7. short => Len(a) <= n /\ Len(b) <= 1
    BY <2>2, <2>3
  <2> HIDE DEF a, short
  <2>8. a \o b \in Seq(Nat) /\ Len(a \o b) = Len(a) + Len(b) /\ ToSet(a \o b) = ToSet(a) \cup ToSet(b)
    BY <2>5, ToSetConcat
  <2>9. \A x : x \in ToSet(a \o b) <=> \E i \in 1 .. (n + 1) : x \in ToSet(P[i])
    <3>1. \A i : i \in 1 .. (n + 1) <=> i \in 1 .. n \/ i = n + 1
      BY <2>2
    <3> QED BY <2>6, <2>8, <3>1
  <2>10. short => Len(a \o b) <= n + 1
    BY <2>2, <2>5, <2>7, <2>8
  <2> QED BY <2>4, <2>8, <2>9, <2>10
<1>4. T = Nat
  <2> HIDE DEF T
  <2>1. T \in SUBSET Nat
    BY DEF T
  <2> QED BY <1>2, <1>3, <2>1, AllNumbers
<1>5. Good(m)
  <2> HIDE DEF Good
  <2>1. m \in T
    BY <1>4
  <2> QED BY <2>1
<1> QED BY <1>5

\* Among keeps exactly the addresses in S.
LEMMA AmongFacts ==
  ASSUME NEW addrs \in Seq(Nat), NEW S
  PROVE  /\ Among(addrs, S) \in Seq(Nat) /\ Len(Among(addrs, S)) <= Len(addrs)
         /\ ToSet(Among(addrs, S)) = ToSet(addrs) \cap S
<1> DEFINE m == Len(addrs)
           Part(n) == IF addrs[n] \in S THEN <<addrs[n]>> ELSE <<>>
           Is(g) == g = [n \in 0 .. m |-> IF n = 0 THEN <<>> ELSE g[n - 1] \o Part(n)]
           c == CHOOSE f : Is(f)
           P == [n \in 1 .. m |-> Part(n)]
<1>1. m \in Nat /\ DOMAIN addrs = 1 .. m /\ \A i \in 1 .. m : addrs[i] \in Nat
  BY LenProperties
<1>2. \A i \in 1 .. m : /\ Part(i) \in Seq(Nat) /\ Len(Part(i)) <= 1
                        /\ ToSet(Part(i)) = {addrs[i]} \cap S
  <2> SUFFICES ASSUME NEW i \in 1 .. m
               PROVE  /\ Part(i) \in Seq(Nat) /\ Len(Part(i)) <= 1 /\ ToSet(Part(i)) = {addrs[i]} \cap S
    OBVIOUS
  <2> DEFINE x == addrs[i]
             one == <<x>>
             none == <<>>
  <2>1. x \in Nat
    BY <1>1
  <2> HIDE DEF x
  <2>2. one \in Seq(Nat) /\ Len(one) = 1 /\ ToSet(one) = {x}
    BY <2>1, ToSetShort
  <2>3. none \in Seq(Nat) /\ Len(none) = 0 /\ ToSet(none) = {}
    BY ToSetShort
  <2>4. Part(i) = IF x \in S THEN one ELSE none
    BY DEF x
  <2> HIDE DEF Part, one, none
  <2>5. CASE x \in S
    <3>1. Part(i) = one /\ {x} \cap S = {x}
      BY <2>4, <2>5
    <3>2. Part(i) \in Seq(Nat) /\ Len(Part(i)) = 1
      BY <2>2, <3>1
    <3>3. ToSet(Part(i)) = {x} \cap S
      BY <2>2, <3>1, Zenon
    <3> QED BY <3>2, <3>3 DEF x
  <2>6. CASE x \notin S
    BY <2>3, <2>4, <2>6 DEF x
  <2> QED BY <2>5, <2>6
<1> HIDE DEF Part
<1>3. P \in [1 .. m -> Seq(Nat)] /\ \A i \in 1 .. m : P[i] = Part(i)
  BY <1>2
<1> HIDE DEF P, m
<1>4. \A g : Concats(g, P, m) <=> Is(g)
  <2> SUFFICES ASSUME NEW g PROVE Concats(g, P, m) <=> Is(g)
    OBVIOUS
  <2>1. \A n \in 0 .. m : n # 0 => n \in 1 .. m
    BY <1>1
  <2>2. [n \in 0 .. m |-> IF n = 0 THEN <<>> ELSE g[n - 1] \o P[n]]
          = [n \in 0 .. m |-> IF n = 0 THEN <<>> ELSE g[n - 1] \o Part(n)]
    BY <1>3, <2>1
  <2> QED BY <2>2 DEF Concats
<1>5. \E g : Is(g)
  <2> HIDE DEF Is
  <2> QED BY <1>1, <1>3, <1>4, ConcatsExist
<1>6. Among(addrs, S) = c[m]
  BY DEF Among, Part, m
<1>7. Concats(c, P, m)
  <2> HIDE DEF Is
  <2> QED BY <1>4, <1>5
<1> HIDE DEF c
<1>8. /\ c[m] \in Seq(Nat)
      /\ \A x : x \in ToSet(c[m]) <=> \E i \in 1 .. m : x \in ToSet(P[i])
      /\ (\A i \in 1 .. m : Len(P[i]) <= 1) => Len(c[m]) <= m
  BY <1>1, <1>3, <1>7, ConcatsFacts
<1>9. Len(c[m]) <= m
  BY <1>2, <1>3, <1>8
<1>10. ToSet(addrs) = {addrs[i] : i \in 1 .. m}
  BY <1>1 DEF ToSet
<1>11. \A x : x \in ToSet(c[m]) <=> \E i \in 1 .. m : x = addrs[i] /\ x \in S
  BY <1>2, <1>3, <1>8
<1>12. ToSet(c[m]) = ToSet(addrs) \cap S
  BY <1>10, <1>11
<1> QED BY <1>6, <1>8, <1>9, <1>12 DEF m

\* The addresses of one turn of the families.
LEMMA NthFacts ==
  ASSUME NEW addrs \in Seq(Nat), NEW n \in Nat \ {0}
  PROVE  Nth(addrs, n) \in Seq(Nat) /\ ToSet(Nth(addrs, n)) = {addrs[i] : i \in 1 .. Len(addrs) \cap {n}}
<1> DEFINE x == addrs[n]
           one == <<x>>
           none == <<>>
<1>1. Len(addrs) \in Nat /\ \A i \in 1 .. Len(addrs) : addrs[i] \in Nat
  BY LenProperties
<1>2. none \in Seq(Nat) /\ ToSet(none) = {}
  BY ToSetShort
<1>3. CASE n <= Len(addrs)
  <2>1. n \in 1 .. Len(addrs) /\ x \in Nat /\ Nth(addrs, n) = one
    BY <1>1, <1>3 DEF Nth
  <2>2. {addrs[i] : i \in 1 .. Len(addrs) \cap {n}} = {x}
    BY <2>1
  <2> HIDE DEF x
  <2>3. one \in Seq(Nat) /\ ToSet(one) = {x}
    BY <2>1, ToSetShort
  <2> QED BY <2>1, <2>2, <2>3
<1>4. CASE ~(n <= Len(addrs))
  <2>1. n \notin 1 .. Len(addrs) /\ Nth(addrs, n) = none
    BY <1>1, <1>4 DEF Nth
  <2>2. {addrs[i] : i \in 1 .. Len(addrs) \cap {n}} = {}
    BY <2>1
  <2> QED BY <1>2, <2>1, <2>2
<1> QED BY <1>3, <1>4

\* Interleaving keeps every address.
LEMMA InterleaveFacts ==
  ASSUME NEW addrs \in Seq(Nat)
  PROVE  InterleaveFamilies(addrs) \in Seq(Nat) /\ ToSet(InterleaveFamilies(addrs)) = ToSet(addrs)
<1> DEFINE m == Len(addrs)
           alike == {a \in ToSet(addrs) : conFound[a] = conFound[addrs[1]]}
           p == Among(addrs, alike)
           q == Among(addrs, ToSet(addrs) \ alike)
           Part(n) == Nth(p, n) \o Nth(q, n)
           Is(g) == g = [n \in 0 .. m |-> IF n = 0 THEN <<>> ELSE g[n - 1] \o Part(n)]
           c == CHOOSE f : Is(f)
           P == [n \in 1 .. m |-> Part(n)]
<1>1. m \in Nat /\ alike \in SUBSET ToSet(addrs)
  BY LenProperties
<1>2. InterleaveFamilies(addrs) = c[m]
  BY DEF InterleaveFamilies
<1> HIDE DEF alike
<1>3. /\ p \in Seq(Nat) /\ Len(p) <= m /\ ToSet(p) = alike
      /\ q \in Seq(Nat) /\ Len(q) <= m /\ ToSet(q) = ToSet(addrs) \ alike
  <2>1. p \in Seq(Nat) /\ Len(p) <= m /\ ToSet(p) = ToSet(addrs) \cap alike
    BY AmongFacts
  <2>2. q \in Seq(Nat) /\ Len(q) <= m /\ ToSet(q) = ToSet(addrs) \cap (ToSet(addrs) \ alike)
    BY AmongFacts
  <2> QED BY <1>1, <2>1, <2>2
<1> HIDE DEF p, q
<1>4. \A i \in 1 .. m : /\ Part(i) \in Seq(Nat)
                        /\ ToSet(Part(i)) = {p[j] : j \in 1 .. Len(p) \cap {i}}
                                            \cup {q[j] : j \in 1 .. Len(q) \cap {i}}
  <2> SUFFICES ASSUME NEW i \in 1 .. m
               PROVE  /\ Part(i) \in Seq(Nat)
                      /\ ToSet(Part(i)) = {p[j] : j \in 1 .. Len(p) \cap {i}}
                                            \cup {q[j] : j \in 1 .. Len(q) \cap {i}}
    OBVIOUS
  <2>1. i \in Nat \ {0}
    BY <1>1
  <2>2. Nth(p, i) \in Seq(Nat) /\ ToSet(Nth(p, i)) = {p[j] : j \in 1 .. Len(p) \cap {i}}
    BY <1>3, <2>1, NthFacts
  <2>3. Nth(q, i) \in Seq(Nat) /\ ToSet(Nth(q, i)) = {q[j] : j \in 1 .. Len(q) \cap {i}}
    BY <1>3, <2>1, NthFacts
  <2>4. Part(i) \in Seq(Nat) /\ ToSet(Part(i)) = ToSet(Nth(p, i)) \cup ToSet(Nth(q, i))
    BY <2>2, <2>3, ToSetConcat
  <2> QED BY <2>2, <2>3, <2>4
<1>5. P \in [1 .. m -> Seq(Nat)] /\ \A i \in 1 .. m : P[i] = Part(i)
  <2> HIDE DEF Part
  <2> QED BY <1>4
<1> HIDE DEF Part, P, m
<1>6. \A g : Concats(g, P, m) <=> Is(g)
  <2> SUFFICES ASSUME NEW g PROVE Concats(g, P, m) <=> Is(g)
    OBVIOUS
  <2>1. \A n \in 0 .. m : n # 0 => n \in 1 .. m
    BY <1>1
  <2>2. [n \in 0 .. m |-> IF n = 0 THEN <<>> ELSE g[n - 1] \o P[n]]
          = [n \in 0 .. m |-> IF n = 0 THEN <<>> ELSE g[n - 1] \o Part(n)]
    BY <1>5, <2>1
  <2> QED BY <2>2 DEF Concats
<1>7. \E g : Is(g)
  <2> HIDE DEF Is
  <2> QED BY <1>1, <1>5, <1>6, ConcatsExist
<1>8. Concats(c, P, m)
  <2> HIDE DEF Is
  <2> QED BY <1>6, <1>7
<1> HIDE DEF c
<1>9. /\ c[m] \in Seq(Nat)
      /\ \A x : x \in ToSet(c[m]) <=> \E i \in 1 .. m : x \in ToSet(P[i])
  BY <1>1, <1>5, <1>8, ConcatsFacts
<1>10. \A x : x \in ToSet(c[m]) <=>
               \E i \in 1 .. m : (i \in 1 .. Len(p) /\ x = p[i]) \/ (i \in 1 .. Len(q) /\ x = q[i])
  BY <1>4, <1>5, <1>9
<1>11. 1 .. Len(p) \subseteq 1 .. m /\ 1 .. Len(q) \subseteq 1 .. m
  <2>1. Len(p) \in Nat /\ Len(q) \in Nat
    BY <1>3, LenProperties
  <2> QED BY <1>1, <1>3, <2>1
<1>12. \A x : (x \in ToSet(p) <=> \E i \in 1 .. Len(p) : x = p[i])
              /\ (x \in ToSet(q) <=> \E i \in 1 .. Len(q) : x = q[i])
  <2>1. DOMAIN p = 1 .. Len(p) /\ DOMAIN q = 1 .. Len(q)
    BY <1>3
  <2> QED BY <2>1 DEF ToSet
<1>13. \A x : x \in ToSet(c[m]) <=> x \in ToSet(p) \/ x \in ToSet(q)
  BY <1>10, <1>11, <1>12
<1>14. ToSet(c[m]) = ToSet(addrs)
  BY <1>1, <1>3, <1>13
<1> QED BY <1>2, <1>9, <1>14 DEF m

\* The preferred address first: no address is lost.
LEMMA OrderFacts ==
  ASSUME conTarget.addrs \in Seq(Nat), conTarget.addrs # <<>>, NEW preferred \in Nat \ {0}
  PROVE  /\ Order(preferred) \in Seq(Nat) /\ Order(preferred) # <<>>
         /\ ToSet(Order(preferred)) = ToSet(conTarget.addrs)
<1> DEFINE addrs == conTarget.addrs
           m == Len(addrs)
           first == IF preferred <= m THEN preferred ELSE m
           x == addrs[first]
           one == <<x>>
           before == SubSeq(addrs, 1, first - 1)
           after == SubSeq(addrs, first + 1, m)
<1>1. /\ m \in Nat \ {0} /\ DOMAIN addrs = 1 .. m /\ \A i \in 1 .. m : addrs[i] \in Nat
      /\ addrs \in Seq(Nat)
  BY LenProperties, EmptySeq
<1>2. first \in 1 .. m
  BY <1>1
<1>3. Order(preferred) = one \o (before \o after)
  BY DEF Order, RemoveAt
<1> HIDE DEF addrs, first, m
<1>4. x \in Nat
  BY <1>1, <1>2
<1>5. one \in Seq(Nat) /\ ToSet(one) = {x} /\ Len(one) = 1
  <2> HIDE DEF x
  <2> QED BY <1>4, ToSetShort
<1>6. before \in Seq(Nat) /\ ToSet(before) = {addrs[i] : i \in 1 .. (first - 1)}
  <2>1. first - 1 \in Int /\ first - 1 \in Nat /\ \A i \in 1 .. (first - 1) : addrs[i] \in Nat
    BY <1>1, <1>2
  <2>2. /\ before \in Seq(Nat) /\ Len(before) = first - 1
        /\ \A i \in 1 .. (first - 1) : before[i] = addrs[i]
    BY <1>1, <1>2, <2>1
  <2>3. DOMAIN before = 1 .. (first - 1)
    BY <2>1, <2>2
  <2> HIDE DEF before
  <2> QED BY <2>2, <2>3 DEF ToSet
<1>7. after \in Seq(Nat) /\ ToSet(after) = {addrs[i] : i \in (first + 1) .. m}
  <2>1. \A i \in (first + 1) .. m : addrs[i] \in Nat
    BY <1>1, <1>2
  <2>2. /\ after \in Seq(Nat) /\ Len(after) = m - first /\ m - first \in Nat
        /\ \A i \in 1 .. (m - first) : after[i] = addrs[first + i]
    BY <1>1, <1>2, <2>1
  <2>3. DOMAIN after = 1 .. (m - first)
    BY <2>2
  <2>4. \A i \in (first + 1) .. m : i - first \in 1 .. (m - first) /\ first + (i - first) = i
    BY <1>1, <1>2
  <2>5. \A i \in 1 .. (m - first) : first + i \in (first + 1) .. m
    BY <1>1, <1>2
  <2> HIDE DEF after
  <2>6. \A i \in (first + 1) .. m : after[i - first] = addrs[i]
    BY <2>2, <2>4
  <2>7. \A e : e \in ToSet(after) => \E i \in (first + 1) .. m : e = addrs[i]
    BY <2>2, <2>3, <2>5 DEF ToSet
  <2>8. \A i \in (first + 1) .. m : addrs[i] \in ToSet(after)
    BY <2>3, <2>4, <2>6 DEF ToSet
  <2> QED BY <2>2, <2>7, <2>8
<1>8. before \o after \in Seq(Nat) /\ ToSet(before \o after) = ToSet(before) \cup ToSet(after)
      /\ Len(before \o after) \in Nat
  <2> HIDE DEF before, after
  <2>1. before \o after \in Seq(Nat) /\ ToSet(before \o after) = ToSet(before) \cup ToSet(after)
    BY <1>6, <1>7, ToSetConcat
  <2> QED BY <2>1, LenProperties
<1> DEFINE rest == before \o after
<1> HIDE DEF x, one, rest, before, after
<1>9. /\ one \o rest \in Seq(Nat) /\ ToSet(one \o rest) = ToSet(one) \cup ToSet(rest)
      /\ Len(one \o rest) = Len(one) + Len(rest)
  <2>1. rest \in Seq(Nat)
    BY <1>8 DEF rest
  <2> QED BY <1>5, <2>1, ToSetConcat
<1>10. one \o rest # <<>>
  <2>1. Len(one \o rest) = 1 + Len(rest) /\ Len(rest) \in Nat
    BY <1>5, <1>8, <1>9 DEF rest
  <2>2. Len(one \o rest) # 0
    BY <2>1
  <2> QED BY <2>2, ToSetShort
<1>11. ToSet(addrs) = {addrs[i] : i \in 1 .. m}
  BY <1>1 DEF ToSet
<1>12. \A i : i \in 1 .. m <=> i \in 1 .. (first - 1) \/ i = first \/ i \in (first + 1) .. m
  BY <1>1, <1>2
<1>13. ToSet(one \o rest) = {x} \cup {addrs[i] : i \in 1 .. (first - 1)} \cup {addrs[i] : i \in (first + 1) .. m}
  BY <1>5, <1>6, <1>7, <1>8, <1>9 DEF rest
<1>14. ToSet(one \o rest) = ToSet(addrs)
  BY <1>11, <1>12, <1>13 DEF x
<1> QED BY <1>3, <1>9, <1>10, <1>14 DEF addrs, rest

\* An attempt starts with the first of the queue.
LEMMA ToSetTail ==
  ASSUME NEW q \in Seq(Nat), q # <<>>
  PROVE  Tail(q) \in Seq(Nat) /\ Head(q) \in Nat /\ ToSet(q) = ToSet(Tail(q)) \cup {Head(q)}
<1> DEFINE t == Tail(q)
           h == Head(q)
           one == <<h>>
<1>1. t \in Seq(Nat) /\ h \in Nat /\ q = one \o t
  <2>1. h \in Nat /\ t \in Seq(Nat) /\ Len(t) = Len(q) - 1 /\ Len(q) \in Nat \ {0} /\ h = q[1]
        /\ \A i \in 1 .. Len(t) : t[i] = q[i + 1]
    BY HeadTailProperties, EmptySeq, LenProperties
  <2>2. one \in Seq(Nat) /\ Len(one) = 1 /\ one[1] = h
    BY <2>1
  <2> HIDE DEF t, h, one
  <2>3. /\ one \o t \in Seq(Nat) /\ Len(one \o t) = Len(q)
        /\ \A i \in 1 .. Len(q) : (one \o t)[i] = IF i <= 1 THEN one[i] ELSE t[i - 1]
    <3>1. one \in Seq(Nat) /\ t \in Seq(Nat)
      BY <2>1, <2>2
    <3>2. /\ one \o t \in Seq(Nat) /\ Len(one \o t) = Len(one) + Len(t)
          /\ \A i \in 1 .. (Len(one) + Len(t)) :
               (one \o t)[i] = IF i <= Len(one) THEN one[i] ELSE t[i - Len(one)]
      BY <3>1, ConcatProperties
    <3>3. Len(one) + Len(t) = Len(q)
      BY <2>1, <2>2
    <3> QED BY <2>2, <3>2, <3>3
  <2>4. \A i \in 1 .. Len(q) : (one \o t)[i] = q[i]
    <3> SUFFICES ASSUME NEW i \in 1 .. Len(q) PROVE (one \o t)[i] = q[i]
      OBVIOUS
    <3>1. CASE i = 1
      BY <2>1, <2>2, <2>3, <3>1
    <3>2. CASE i # 1
      <4>1. ~(i <= 1) /\ i - 1 \in 1 .. Len(t) /\ (i - 1) + 1 = i
        BY <2>1, <3>2
      <4> QED BY <2>1, <2>3, <4>1
    <3> QED BY <3>1, <3>2
  <2> DEFINE j == one \o t
  <2>5. j \in Seq(Nat) /\ Len(q) = Len(j) /\ \A i \in 1 .. Len(q) : q[i] = j[i]
    BY <2>3, <2>4
  <2> HIDE DEF j
  <2>6. q = j
    BY <2>5, SeqEqual
  <2> QED BY <2>1, <2>6 DEF j
<1> HIDE DEF t, h
<1>2. one \in Seq(Nat) /\ ToSet(one) = {h}
  BY <1>1, ToSetShort
<1> HIDE DEF one
<1>3. ToSet(one \o t) = ToSet(one) \cup ToSet(t)
  BY <1>1, <1>2, ToSetConcat
<1> QED BY <1>1, <1>2, <1>3 DEF t, h

----------------------------------------------------------------------------
(* What keeps a connection from giving up early is that queue, attempts under way and failed ones  *)
(* are together all usable addresses.                                      *)

ConnectSpec == ConnectInit /\ [][ConnectNext]_connectVars

\* A call of connect.
TryRecords ==
  [at : {"new", "tcp", "shake", "refused", "open", "failed", "dropped"}, turn : Nat,
   queue : Seq(Nat), pending : SUBSET Nat, failed : SUBSET Nat, tried : SUBSET (Nat \X Nat)]

\* Types.
ConnectTypes ==
  /\ conFound \in Seq(Families) /\ conSources \in [Families -> Nat]
  /\ conTarget \in [at : {"unresolved", "ready", "failed"}, addrs : Seq(Nat)]
  /\ conPreferred \in Nat \ {0} /\ conNext \in Nat
  /\ conTry \in [Connections -> TryRecords]

\* The source of every address in every turn.
SourceOf == [a \in UsableAddresses |-> [turn \in Nat |-> ForTurn(a, turn)]]

\* No connection starts before the target is resolved; one that races has
\* every usable address in its queue, under way or failed; one that is
\* refused has tried them all; and each attempt has the source of its turn.
TryOK(t, target, usable, source) ==
  /\ target = "unresolved" => t.at = "new"
  /\ target = "failed" => t.at \in {"new", "refused"}
  /\ t.at = "tcp" => ToSet(t.queue) \cup t.pending \cup t.failed = usable
  /\ t.at = "refused" /\ target = "ready" => t.failed = usable
  /\ t.at = "new" => t.pending = {} /\ t.failed = {} /\ t.tried = {}
  /\ \A p \in t.tried : \E a \in usable : p = <<a, source[a][t.turn]>>

\* A resolved target has the usable addresses.
TargetOK ==
  conTarget.at = "ready" => conTarget.addrs # <<>> /\ ToSet(conTarget.addrs) = UsableAddresses

\* The inductive invariant.
ConnectInv ==
  /\ ConnectTypes
  /\ TargetOK
  /\ \A c \in Connections : TryOK(conTry[c], conTarget.at, UsableAddresses, SourceOf)

\* Sources and addresses as numbers.
LEMMA SourceFacts ==
  ASSUME ConnectTypes
  PROVE  /\ UsableAddresses \in SUBSET Nat
         /\ \A a \in UsableAddresses : \A turn \in Nat :
              SourceOf[a][turn] = ForTurn(a, turn) /\ ForTurn(a, turn) \in Nat
<1>1. Len(conFound) \in Nat
  BY DEF ConnectTypes
<1>2. UsableAddresses \in SUBSET Nat /\ UsableAddresses \in SUBSET (1 .. Len(conFound))
  BY <1>1 DEF UsableAddresses
<1>3. ASSUME NEW a \in UsableAddresses, NEW turn \in Nat
      PROVE  SourceOf[a][turn] = ForTurn(a, turn) /\ ForTurn(a, turn) \in Nat
  <2>1. SourceOf[a][turn] = ForTurn(a, turn)
    BY DEF SourceOf
  <2>2. conSources[conFound[a]] \in Nat
    BY <1>2 DEF ConnectTypes
  <2> DEFINE n == conSources[conFound[a]]
  <2>3. n # 0 => (turn % n) + 1 \in Nat
    <3> HIDE DEF n
    <3> SUFFICES ASSUME n # 0 PROVE (turn % n) + 1 \in Nat
      OBVIOUS
    <3>1. n \in Nat /\ n > 0
      BY <2>2 DEF n
    <3> QED BY <3>1
  <2> QED BY <2>1, <2>2, <2>3 DEF ForTurn
<1> QED BY <1>2, <1>3

\* The resolver's answer and the sources stay.
LEMMA SourcesStay ==
  ASSUME conFound' = conFound, conSources' = conSources
  PROVE  UsableAddresses' = UsableAddresses /\ SourceOf' = SourceOf
<1>1. UsableAddresses' = UsableAddresses
  BY DEF UsableAddresses, Serves, SourcesEmpty
<1>2. \A a \in UsableAddresses : \A turn \in Nat : ForTurn(a, turn)' = ForTurn(a, turn)
  BY DEF ForTurn
<1> QED BY <1>1, <1>2 DEF SourceOf

\* A step of one connection.
LEMMA TryStep ==
  ASSUME ConnectInv, NEW c \in Connections, NEW s \in TryRecords,
         conTry' = [conTry EXCEPT ![c] = s],
         TryOK(s, conTarget.at, UsableAddresses, SourceOf),
         conFound' = conFound, conSources' = conSources, conTarget' = conTarget,
         conPreferred' \in Nat \ {0}, conNext' \in Nat
  PROVE  ConnectInv'
<1>1. UsableAddresses' = UsableAddresses /\ SourceOf' = SourceOf
  BY SourcesStay
<1>2. ConnectTypes'
  BY DEF ConnectInv, ConnectTypes
<1>3. TargetOK'
  BY <1>1 DEF ConnectInv, TargetOK
<1>4. \A d \in Connections : TryOK(conTry'[d], conTarget'.at, UsableAddresses', SourceOf')
  <2> SUFFICES ASSUME NEW d \in Connections
               PROVE  TryOK(conTry'[d], conTarget'.at, UsableAddresses', SourceOf')
    OBVIOUS
  <2>1. conTry'[d] = IF d = c THEN s ELSE conTry[d]
    BY DEF ConnectInv, ConnectTypes
  <2> QED BY <1>1, <2>1 DEF ConnectInv
<1> QED BY <1>2, <1>3, <1>4 DEF ConnectInv

\* An attempt starts.
LEMMA OpenTcpKeeps ==
  ASSUME ConnectTypes, NEW t \in TryRecords, t.at = "tcp", t.queue # <<>>,
         ToSet(t.queue) \cup t.pending \cup t.failed = UsableAddresses,
         \A p \in t.tried : \E a \in UsableAddresses : p = <<a, SourceOf[a][t.turn]>>,
         conTarget.at = "ready"
  PROVE  OpenTcp(t) \in TryRecords /\ TryOK(OpenTcp(t), conTarget.at, UsableAddresses, SourceOf)
<1> DEFINE h == Head(t.queue)
           q == Tail(t.queue)
           pend == t.pending \cup {h}
           pair == <<h, ForTurn(h, t.turn)>>
           tr == t.tried \cup {pair}
           s == [t EXCEPT !.queue = q, !.pending = pend, !.tried = tr]
<1>1. /\ t.queue \in Seq(Nat) /\ t.turn \in Nat /\ t.pending \in SUBSET Nat
      /\ t.tried \in SUBSET (Nat \X Nat)
  BY DEF TryRecords
<1>2. q \in Seq(Nat) /\ h \in Nat /\ ToSet(t.queue) = ToSet(q) \cup {h}
  BY <1>1, ToSetTail
<1>3. h \in UsableAddresses /\ ForTurn(h, t.turn) \in Nat /\ SourceOf[h][t.turn] = ForTurn(h, t.turn)
  BY <1>1, <1>2, SourceFacts
<1>4. pend \in SUBSET Nat /\ tr \in SUBSET (Nat \X Nat)
  BY <1>1, <1>2, <1>3
<1>5. ToSet(q) \cup pend \cup t.failed = UsableAddresses
  BY <1>2
<1>6. \A p \in tr : \E a \in UsableAddresses : p = <<a, SourceOf[a][t.turn]>>
  BY <1>3
<1>7. OpenTcp(t) = s
  BY DEF OpenTcp
<1> HIDE DEF h, q, pend, tr, pair
<1>8. s \in TryRecords
  BY <1>2, <1>4 DEF TryRecords
<1>9. \A u : u = [t EXCEPT !.queue = q, !.pending = pend, !.tried = tr] =>
        u.at = "tcp" /\ u.queue = q /\ u.pending = pend /\ u.tried = tr
        /\ u.failed = t.failed /\ u.turn = t.turn
  BY DEF TryRecords
<1>10. /\ s.at = "tcp" /\ s.queue = q /\ s.pending = pend /\ s.tried = tr
       /\ s.failed = t.failed /\ s.turn = t.turn
  BY <1>9
<1> HIDE DEF s
<1>11. TryOK(s, conTarget.at, UsableAddresses, SourceOf)
  BY <1>5, <1>6, <1>10 DEF TryOK
<1> QED BY <1>7, <1>8, <1>11

\* The calls before they start.
LEMMA ConnectStarts ==
  ConnectInit => ConnectInv
<1> SUFFICES ASSUME ConnectInit PROVE ConnectInv
  OBVIOUS
<1>1. conFound \in Seq(Families)
  <2>1. AddrBound \in Nat
    BY ConnectAssumption
  <2> QED BY <2>1 DEF ConnectInit, BoundedSeq, SeqOf
<1>2. conSources \in [Families -> Nat]
  <2>1. SourceBound \in Nat
    BY ConnectAssumption
  <2> QED BY <2>1 DEF ConnectInit
<1>3. Unstarted \in TryRecords
  BY DEF Unstarted, TryRecords
<1>4. conTarget \in [at : {"unresolved", "ready", "failed"}, addrs : Seq(Nat)] /\ conTarget.at = "unresolved"
  BY DEF ConnectInit
<1>5. ConnectTypes
  BY <1>1, <1>2, <1>3, <1>4 DEF ConnectInit, ConnectTypes
<1>6. TargetOK
  BY <1>4 DEF TargetOK
<1>7. \A usable, source : TryOK(Unstarted, "unresolved", usable, source)
  BY DEF TryOK, Unstarted
<1>8. \A c \in Connections : conTry[c] = Unstarted
  BY DEF ConnectInit
<1> QED BY <1>4, <1>5, <1>6, <1>7, <1>8 DEF ConnectInv

\* Resolving keeps the usable addresses and no other.
LEMMA UsableFound ==
  ASSUME ConnectTypes,
         NEW usable, usable = Among(InterleaveFamilies([i \in 1 .. Len(conFound) |-> i]),
                                    {a \in DOMAIN conFound : Serves(a)})
  PROVE  usable \in Seq(Nat) /\ ToSet(usable) = UsableAddresses
<1> DEFINE m == Len(conFound)
           all == [i \in 1 .. m |-> i]
           x == InterleaveFamilies(all)
           S == {a \in DOMAIN conFound : Serves(a)}
<1>1. m \in Nat /\ DOMAIN conFound = 1 .. m
  BY LenProperties DEF ConnectTypes
<1>2. all \in Seq(Nat)
  <2> HIDE DEF m
  <2> QED BY <1>1
<1>3. ToSet(all) = 1 .. m
  <2> HIDE DEF m
  <2> QED BY <1>1 DEF ToSet
<1>4. S = UsableAddresses /\ S \subseteq 1 .. m
  BY <1>1 DEF UsableAddresses
<1> HIDE DEF m, all
<1>5. x \in Seq(Nat) /\ ToSet(x) = ToSet(all)
  BY <1>2, InterleaveFacts
<1>6. usable = Among(x, S)
  BY DEF m, all
<1> HIDE DEF x, S
<1>7. usable \in Seq(Nat) /\ ToSet(usable) = ToSet(x) \cap S
  BY <1>5, <1>6, AmongFacts
<1> QED BY <1>3, <1>4, <1>5, <1>7

\* Before the target is resolved no call has started.
LEMMA PrepareKeeps ==
  ConnectInv /\ Prepare => ConnectInv'
<1> SUFFICES ASSUME ConnectInv, Prepare PROVE ConnectInv'
  OBVIOUS
<1> DEFINE usable == Among(InterleaveFamilies([i \in 1 .. Len(conFound) |-> i]),
                           {a \in DOMAIN conFound : Serves(a)})
<1>1. /\ conTarget.at = "unresolved" /\ conFound' = conFound /\ conSources' = conSources
      /\ conPreferred' = conPreferred /\ conNext' = conNext /\ conTry' = conTry
  BY DEF Prepare
<1>2. \/ conTarget' = [at |-> "failed", addrs |-> <<>>]
      \/ usable # <<>> /\ conTarget' = [at |-> "ready", addrs |-> usable]
  BY DEF Prepare
<1>3. usable \in Seq(Nat) /\ ToSet(usable) = UsableAddresses
  BY UsableFound DEF ConnectInv
<1> HIDE DEF usable
<1>4. UsableAddresses' = UsableAddresses /\ SourceOf' = SourceOf
  BY <1>1, SourcesStay
<1>5. /\ conTarget' \in [at : {"unresolved", "ready", "failed"}, addrs : Seq(Nat)]
      /\ conTarget'.at \in {"ready", "failed"}
      /\ conTarget'.at = "ready" => conTarget'.addrs # <<>> /\ ToSet(conTarget'.addrs) = UsableAddresses
  <2>1. CASE conTarget' = [at |-> "failed", addrs |-> <<>>]
    <3>1. conTarget'.at = "failed"
      BY <2>1
    <3>2. <<>> \in Seq(Nat)
      BY ToSetShort
    <3>3. conTarget' \in [at : {"unresolved", "ready", "failed"}, addrs : Seq(Nat)]
      BY <2>1, <3>2
    <3> QED BY <3>1, <3>3
  <2>2. CASE usable # <<>> /\ conTarget' = [at |-> "ready", addrs |-> usable]
    <3>1. conTarget'.at = "ready" /\ conTarget'.addrs = usable
      BY <2>2
    <3>2. conTarget' \in [at : {"unresolved", "ready", "failed"}, addrs : Seq(Nat)]
      BY <1>3, <2>2
    <3> QED BY <1>3, <2>2, <3>1, <3>2
  <2> QED BY <1>2, <2>1, <2>2
<1>6. ConnectTypes'
  BY <1>1, <1>5 DEF ConnectInv, ConnectTypes
<1>7. TargetOK'
  BY <1>4, <1>5 DEF TargetOK
<1>8. \A c \in Connections : TryOK(conTry'[c], conTarget'.at, UsableAddresses', SourceOf')
  <2> SUFFICES ASSUME NEW c \in Connections
               PROVE  TryOK(conTry[c], conTarget'.at, UsableAddresses, SourceOf)
    BY <1>1, <1>4
  <2>1. TryOK(conTry[c], "unresolved", UsableAddresses, SourceOf)
    BY <1>1 DEF ConnectInv
  <2> QED BY <1>5, <2>1 DEF TryOK
<1> QED BY <1>6, <1>7, <1>8 DEF ConnectInv

\* A call and its parts.
LEMMA TryParts ==
  ASSUME ConnectInv, NEW c \in Connections
  PROVE  /\ conTry[c] \in TryRecords /\ TryOK(conTry[c], conTarget.at, UsableAddresses, SourceOf)
         /\ conTarget.at \in {"unresolved", "ready", "failed"}
         /\ conTry \in [Connections -> TryRecords] /\ conPreferred \in Nat \ {0} /\ conNext \in Nat
BY DEF ConnectInv, ConnectTypes

\* Only a resolved target is raced for.
LEMMA RacesAreReady ==
  ASSUME ConnectInv, NEW c \in Connections, conTry[c].at \notin {"new", "refused"}
  PROVE  conTarget.at = "ready"
BY TryParts DEF TryOK

\* The failure to resolve is reported.
LEMMA ConnectStaticKeeps ==
  ASSUME ConnectInv, NEW c \in Connections, ConnectStatic(c)
  PROVE  ConnectInv'
<1> DEFINE t == conTry[c]
           s == [t EXCEPT !.at = "refused"]
<1>1. t \in TryRecords /\ TryOK(t, "failed", UsableAddresses, SourceOf) /\ conTarget.at = "failed"
  BY TryParts DEF ConnectStatic
<1>2. t.at = "new"
  BY DEF ConnectStatic
<1>3. conTry' = [conTry EXCEPT ![c] = s]
  BY TryParts DEF ConnectStatic
<1> HIDE DEF t
<1>4. s \in TryRecords
  BY <1>1 DEF TryRecords
<1>5. /\ s.at = "refused" /\ s.queue = t.queue /\ s.pending = t.pending /\ s.tried = t.tried
      /\ s.failed = t.failed /\ s.turn = t.turn
  BY <1>1 DEF TryRecords
<1> HIDE DEF s
<1>6. TryOK(s, conTarget.at, UsableAddresses, SourceOf)
  BY <1>1, <1>2, <1>5 DEF TryOK
<1>7. /\ conFound' = conFound /\ conSources' = conSources /\ conTarget' = conTarget
      /\ conPreferred' \in Nat \ {0} /\ conNext' \in Nat
  BY TryParts DEF ConnectStatic
<1> QED BY <1>3, <1>4, <1>6, <1>7, TryStep

\* A call begins with every address in its queue and starts the first.
LEMMA ConnectBeginsKeeps ==
  ASSUME ConnectInv, NEW c \in Connections, ConnectBegins(c)
  PROVE  ConnectInv'
<1> DEFINE t == conTry[c]
           q == Order(conPreferred)
           n == IF SourcesEmpty THEN 0 ELSE conNext
           u == [t EXCEPT !.at = "tcp", !.queue = q, !.turn = n]
           s == OpenTcp(u)
<1>1. t \in TryRecords /\ TryOK(t, "ready", UsableAddresses, SourceOf) /\ conTarget.at = "ready"
  BY TryParts DEF ConnectBegins
<1>2. t.at = "new" /\ t.pending = {} /\ t.failed = {} /\ t.tried = {}
  BY <1>1 DEF ConnectBegins, TryOK
<1>3. conTry' = [conTry EXCEPT ![c] = s]
  BY DEF ConnectBegins
<1>4. conTarget.addrs \in Seq(Nat) /\ conTarget.addrs # <<>> /\ ToSet(conTarget.addrs) = UsableAddresses
  BY <1>1 DEF ConnectInv, ConnectTypes, TargetOK
<1>5. q \in Seq(Nat) /\ q # <<>> /\ ToSet(q) = UsableAddresses
  BY <1>4, OrderFacts, TryParts
<1>6. n \in Nat
  BY TryParts
<1>7. /\ conFound' = conFound /\ conSources' = conSources /\ conTarget' = conTarget
      /\ conPreferred' \in Nat \ {0} /\ conNext' \in Nat
  <2>1. conNext' \in {conNext, conNext + 1}
    BY DEF ConnectBegins
  <2> QED BY <2>1, TryParts DEF ConnectBegins
<1> HIDE DEF t, q, n
<1>8. u \in TryRecords
  BY <1>1, <1>5, <1>6 DEF TryRecords
<1>9. /\ u.at = "tcp" /\ u.queue = q /\ u.pending = t.pending /\ u.tried = t.tried
      /\ u.failed = t.failed /\ u.turn = n
  BY <1>1 DEF TryRecords
<1> HIDE DEF u
<1>10. ToSet(u.queue) \cup u.pending \cup u.failed = UsableAddresses
  BY <1>2, <1>5, <1>9
<1>11. \A p \in u.tried : \E a \in UsableAddresses : p = <<a, SourceOf[a][u.turn]>>
  BY <1>2, <1>9
<1>12. s \in TryRecords /\ TryOK(s, conTarget.at, UsableAddresses, SourceOf)
  <2>1. ConnectTypes /\ u.queue # <<>>
    BY <1>5, <1>9 DEF ConnectInv
  <2> QED BY <1>1, <1>8, <1>9, <1>10, <1>11, <2>1, OpenTcpKeeps
<1> HIDE DEF s
<1> QED BY <1>3, <1>7, <1>12, TryStep

\* The attempt delay passes.
LEMMA NextAddressKeeps ==
  ASSUME ConnectInv, NEW c \in Connections, NextAddress(c)
  PROVE  ConnectInv'
<1> DEFINE t == conTry[c]
           s == OpenTcp(t)
<1>1. t \in TryRecords /\ TryOK(t, conTarget.at, UsableAddresses, SourceOf)
  BY TryParts
<1>2. t.at = "tcp" /\ t.queue # <<>>
  BY DEF NextAddress
<1>3. conTarget.at = "ready"
  BY <1>2, RacesAreReady
<1>4. conTry' = [conTry EXCEPT ![c] = s]
  BY DEF NextAddress
<1>5. /\ conFound' = conFound /\ conSources' = conSources /\ conTarget' = conTarget
      /\ conPreferred' \in Nat \ {0} /\ conNext' \in Nat
  BY TryParts DEF NextAddress
<1> HIDE DEF t
<1>6. /\ ToSet(t.queue) \cup t.pending \cup t.failed = UsableAddresses
      /\ \A p \in t.tried : \E a \in UsableAddresses : p = <<a, SourceOf[a][t.turn]>>
  BY <1>1, <1>2 DEF TryOK
<1>7. s \in TryRecords /\ TryOK(s, conTarget.at, UsableAddresses, SourceOf)
  <2>1. ConnectTypes
    BY DEF ConnectInv
  <2> QED BY <1>1, <1>2, <1>3, <1>6, <2>1, OpenTcpKeeps
<1> HIDE DEF s
<1> QED BY <1>4, <1>5, <1>7, TryStep

\* The address that failed stays accounted for; the call is refused when
\* no address is left and no attempt is under way.
LEMMA AttemptFailsKeeps ==
  ASSUME ConnectInv, NEW c \in Connections, AttemptFails(c)
  PROVE  ConnectInv'
<1> DEFINE r == conTry[c]
<1>1. r \in TryRecords /\ TryOK(r, conTarget.at, UsableAddresses, SourceOf)
  BY TryParts
<1>2. r.at = "tcp"
  BY DEF AttemptFails
<1>3. conTarget.at = "ready"
  BY <1>2, RacesAreReady
<1>4. /\ conFound' = conFound /\ conSources' = conSources /\ conTarget' = conTarget
      /\ conPreferred' \in Nat \ {0} /\ conNext' \in Nat
  BY TryParts DEF AttemptFails
<1>5. PICK a \in r.pending :
        LET t == [r EXCEPT !.pending = @ \ {a}, !.failed = @ \cup {a}]
        IN conTry' = [conTry EXCEPT ![c] =
             IF t.queue # <<>> THEN OpenTcp(t)
             ELSE IF t.pending = {} THEN [t EXCEPT !.at = "refused"] ELSE t]
  BY DEF AttemptFails
<1> DEFINE pend == r.pending \ {a}
           fail == r.failed \cup {a}
           t == [r EXCEPT !.pending = pend, !.failed = fail]
           e == [t EXCEPT !.at = "refused"]
           s == IF t.queue # <<>> THEN OpenTcp(t) ELSE IF t.pending = {} THEN e ELSE t
<1>6. conTry' = [conTry EXCEPT ![c] = s]
  BY <1>5
<1> HIDE DEF r
<1>7. /\ ToSet(r.queue) \cup r.pending \cup r.failed = UsableAddresses
      /\ \A p \in r.tried : \E b \in UsableAddresses : p = <<b, SourceOf[b][r.turn]>>
  BY <1>1, <1>2 DEF TryOK
<1>8. r.pending \in SUBSET Nat /\ r.failed \in SUBSET Nat
  BY <1>1 DEF TryRecords
<1>9. pend \in SUBSET Nat /\ fail \in SUBSET Nat /\ pend \cup fail = r.pending \cup r.failed
  BY <1>8
<1> HIDE DEF pend, fail
<1>10. t \in TryRecords
  BY <1>1, <1>9 DEF TryRecords
<1>11. /\ t.at = "tcp" /\ t.queue = r.queue /\ t.pending = pend /\ t.tried = r.tried
       /\ t.failed = fail /\ t.turn = r.turn
  BY <1>1, <1>2 DEF TryRecords
<1> HIDE DEF t
<1>12. /\ ToSet(t.queue) \cup t.pending \cup t.failed = UsableAddresses
       /\ \A p \in t.tried : \E b \in UsableAddresses : p = <<b, SourceOf[b][t.turn]>>
  BY <1>7, <1>9, <1>11
<1>13. e \in TryRecords
  BY <1>10 DEF TryRecords
<1>14. /\ e.at = "refused" /\ e.queue = t.queue /\ e.pending = t.pending /\ e.tried = t.tried
       /\ e.failed = t.failed /\ e.turn = t.turn
  BY <1>10 DEF TryRecords
<1> HIDE DEF e
<1>15. s \in TryRecords /\ TryOK(s, conTarget.at, UsableAddresses, SourceOf)
  <2>1. CASE t.queue # <<>>
    <3>1. s = OpenTcp(t) /\ ConnectTypes
      BY <2>1 DEF ConnectInv
    <3> QED BY <1>3, <1>10, <1>11, <1>12, <2>1, <3>1, OpenTcpKeeps
  <2>2. CASE t.queue = <<>> /\ t.pending = {}
    <3>1. s = e
      BY <2>2
    <3>2. ToSet(t.queue) = {}
      BY <2>2, ToSetShort
    <3>3. e.failed = UsableAddresses
      BY <1>12, <1>14, <2>2, <3>2
    <3> HIDE DEF s
    <3> QED BY <1>3, <1>12, <1>13, <1>14, <3>1, <3>3 DEF TryOK
  <2>3. CASE t.queue = <<>> /\ t.pending # {}
    <3>1. s = t
      BY <2>3
    <3> HIDE DEF s
    <3> QED BY <1>3, <1>10, <1>11, <1>12, <3>1 DEF TryOK
  <2> QED BY <2>1, <2>2, <2>3
<1> HIDE DEF s
<1> QED BY <1>4, <1>6, <1>15, TryStep

\* A call that leaves the race, accepted or dropped.
LEMMA RaceEnds ==
  ASSUME NEW t \in TryRecords, NEW at \in {"shake", "dropped"},
         conTarget.at = "ready", TryOK(t, "ready", UsableAddresses, SourceOf)
  PROVE  /\ [t EXCEPT !.at = at, !.pending = {}, !.queue = <<>>] \in TryRecords
         /\ TryOK([t EXCEPT !.at = at, !.pending = {}, !.queue = <<>>], conTarget.at,
                  UsableAddresses, SourceOf)
<1> DEFINE s == [t EXCEPT !.at = at, !.pending = {}, !.queue = <<>>]
<1>1. <<>> \in Seq(Nat)
  BY ToSetShort
<1>2. s \in TryRecords
  BY <1>1 DEF TryRecords
<1>3. /\ s.at = at /\ s.pending = {} /\ s.tried = t.tried /\ s.failed = t.failed /\ s.turn = t.turn
  BY DEF TryRecords
<1> HIDE DEF s
<1>4. TryOK(s, conTarget.at, UsableAddresses, SourceOf)
  BY <1>3 DEF TryOK
<1> QED BY <1>2, <1>4 DEF s

\* The winner is an address of the target.
LEMMA AttemptAcceptedKeeps ==
  ASSUME ConnectInv, NEW c \in Connections, AttemptAccepted(c)
  PROVE  ConnectInv'
<1> DEFINE t == conTry[c]
           s == [t EXCEPT !.at = "shake", !.pending = {}, !.queue = <<>>]
           addrs == conTarget.addrs
<1>1. t \in TryRecords /\ TryOK(t, conTarget.at, UsableAddresses, SourceOf)
  BY TryParts
<1>2. t.at = "tcp"
  BY DEF AttemptAccepted
<1>3. conTarget.at = "ready"
  BY <1>2, RacesAreReady
<1>4. conTry' = [conTry EXCEPT ![c] = s]
  BY DEF AttemptAccepted
<1>5. PICK a \in t.pending : conPreferred' = CHOOSE i \in DOMAIN addrs : addrs[i] = a
  BY DEF AttemptAccepted
<1>6. addrs \in Seq(Nat) /\ ToSet(addrs) = UsableAddresses
  BY <1>3 DEF ConnectInv, ConnectTypes, TargetOK
<1> HIDE DEF t
<1>7. a \in UsableAddresses
  BY <1>1, <1>2, <1>5 DEF TryOK
<1>8. conPreferred' \in Nat \ {0}
  <2> HIDE DEF addrs
  <2>1. DOMAIN addrs = 1 .. Len(addrs) /\ Len(addrs) \in Nat
    BY <1>6, LenProperties
  <2>2. \E i \in DOMAIN addrs : addrs[i] = a
    BY <1>6, <1>7 DEF ToSet
  <2>3. conPreferred' \in DOMAIN addrs
    BY <1>5, <2>2
  <2> QED BY <2>1, <2>3
<1>9. conFound' = conFound /\ conSources' = conSources /\ conTarget' = conTarget /\ conNext' \in Nat
  BY TryParts DEF AttemptAccepted
<1>10. s \in TryRecords /\ TryOK(s, conTarget.at, UsableAddresses, SourceOf)
  <2>1. "shake" \in {"shake", "dropped"}
    OBVIOUS
  <2> QED BY <1>1, <1>3, <2>1, RaceEnds
<1> HIDE DEF s
<1> QED BY <1>4, <1>8, <1>9, <1>10, TryStep

\* The timeout or the token ends the call.
LEMMA ConnectDroppedKeeps ==
  ASSUME ConnectInv, NEW c \in Connections, ConnectDropped(c)
  PROVE  ConnectInv'
<1> DEFINE t == conTry[c]
           s == [t EXCEPT !.at = "dropped", !.pending = {}, !.queue = <<>>]
<1>1. t \in TryRecords /\ TryOK(t, conTarget.at, UsableAddresses, SourceOf)
  BY TryParts
<1>2. t.at \in {"tcp", "shake"}
  BY DEF ConnectDropped
<1>3. conTarget.at = "ready"
  BY <1>2, RacesAreReady
<1>4. conTry' = [conTry EXCEPT ![c] = s]
  BY DEF ConnectDropped
<1>5. /\ conFound' = conFound /\ conSources' = conSources /\ conTarget' = conTarget
      /\ conPreferred' \in Nat \ {0} /\ conNext' \in Nat
  BY TryParts DEF ConnectDropped
<1> HIDE DEF t
<1>6. s \in TryRecords /\ TryOK(s, conTarget.at, UsableAddresses, SourceOf)
  <2>1. "dropped" \in {"shake", "dropped"}
    OBVIOUS
  <2> QED BY <1>1, <1>3, <2>1, RaceEnds
<1> HIDE DEF s
<1> QED BY <1>4, <1>5, <1>6, TryStep

\* The handshakes end.
LEMMA ShakeEndsKeeps ==
  ASSUME ConnectInv, NEW c \in Connections, ShakeEnds(c)
  PROVE  ConnectInv'
<1> DEFINE t == conTry[c]
<1>1. t \in TryRecords /\ TryOK(t, conTarget.at, UsableAddresses, SourceOf)
      /\ conTry \in [Connections -> TryRecords]
  BY TryParts
<1>2. t.at = "shake"
  BY DEF ShakeEnds
<1>3. conTarget.at = "ready"
  BY <1>2, RacesAreReady
<1>4. PICK at \in {"open", "failed"} : conTry' = [conTry EXCEPT ![c].at = at]
  BY DEF ShakeEnds
<1> DEFINE s == [t EXCEPT !.at = at]
<1>5. conTry' = [conTry EXCEPT ![c] = s]
  BY <1>1, <1>4
<1>6. /\ conFound' = conFound /\ conSources' = conSources /\ conTarget' = conTarget
      /\ conPreferred' \in Nat \ {0} /\ conNext' \in Nat
  BY TryParts DEF ShakeEnds
<1> HIDE DEF t
<1>7. s \in TryRecords
  BY <1>1, <1>4 DEF TryRecords
<1>8. s.at = at /\ s.tried = t.tried /\ s.turn = t.turn
  BY <1>1 DEF TryRecords
<1> HIDE DEF s
<1>9. TryOK(s, conTarget.at, UsableAddresses, SourceOf)
  BY <1>1, <1>3, <1>4, <1>8 DEF TryOK
<1> QED BY <1>5, <1>6, <1>7, <1>9, TryStep

\* Every step of the race keeps the invariant.
LEMMA ConnectKeeps ==
  ConnectInv /\ [ConnectNext]_connectVars => ConnectInv'
<1> SUFFICES ASSUME ConnectInv, [ConnectNext]_connectVars PROVE ConnectInv'
  OBVIOUS
<1>1. CASE UNCHANGED connectVars
  <2>1. UsableAddresses' = UsableAddresses /\ SourceOf' = SourceOf
    BY <1>1, SourcesStay DEF connectVars
  <2> QED BY <1>1, <2>1 DEF connectVars, ConnectInv, ConnectTypes, TargetOK
<1>2. CASE Prepare
  BY <1>2, PrepareKeeps
<1>3. CASE \E c \in Connections : ConnectStatic(c) \/ ConnectBegins(c) \/ NextAddress(c)
             \/ AttemptFails(c) \/ AttemptAccepted(c) \/ ShakeEnds(c) \/ ConnectDropped(c)
  BY <1>3, ConnectStaticKeeps, ConnectBeginsKeeps, NextAddressKeeps, AttemptFailsKeeps,
     AttemptAcceptedKeeps, ShakeEndsKeeps, ConnectDroppedKeeps
<1> QED BY <1>1, <1>2, <1>3 DEF ConnectNext, ConnectTerminated

\* Two consecutive turns take the same source only when there is one.
LEMMA ConsecutiveTurns ==
  ASSUME NEW t \in Nat, NEW n \in Nat \ {0}, (t % n) + 1 = ((t + 1) % n) + 1
  PROVE  n = 1
<1> DEFINE r == t % n
           k == t \div n
           l == (t + 1) \div n
<1>1. k \in Nat /\ l \in Nat /\ r \in Nat /\ r < n
  OBVIOUS
<1>2. t = n * k + r /\ t + 1 = n * l + ((t + 1) % n)
  OBVIOUS
<1>3. (t + 1) % n = r
  BY <1>1
<1> HIDE DEF r, k, l
<1>4. 1 = n * l - n * k
  BY <1>1, <1>2, <1>3
<1>5. 1 = n * (l - k)
  BY <1>1, <1>4
<1> QED BY <1>1, <1>5

\* What the invariant says of two calls.
LEMMA ConnectCovers ==
  ConnectInv => RaceCoversAddresses
<1> SUFFICES ASSUME ConnectInv PROVE RaceCoversAddresses
  OBVIOUS
<1>1. /\ UsableAddresses \in SUBSET Nat
      /\ \A a \in UsableAddresses : \A turn \in Nat :
           SourceOf[a][turn] = ForTurn(a, turn) /\ ForTurn(a, turn) \in Nat
  BY SourceFacts DEF ConnectInv
<1>2. \A a \in UsableAddresses :
        /\ conFound[a] \in Families /\ conSources[conFound[a]] \in Nat
        /\ SourcesEmpty \/ conSources[conFound[a]] > 0
  <2>1. Len(conFound) \in Nat /\ \A a \in 1 .. Len(conFound) : conFound[a] \in Families
    BY LenProperties DEF ConnectInv, ConnectTypes
  <2> QED BY <2>1 DEF ConnectInv, ConnectTypes, UsableAddresses, Serves
<1>3. ASSUME NEW c \in Connections, NEW p \in conTry[c].tried
      PROVE  \E a \in UsableAddresses : p = <<a, ForTurn(a, conTry[c].turn)>>
  <2>1. conTry[c].turn \in Nat
    BY TryParts DEF TryRecords
  <2>2. PICK a \in UsableAddresses : p = <<a, SourceOf[a][conTry[c].turn]>>
    BY TryParts DEF TryOK
  <2> QED BY <1>1, <2>1, <2>2
<1>4. ASSUME NEW a \in UsableAddresses, NEW turn \in Nat
      PROVE  ForTurn(a, turn) = 0 <=> SourcesEmpty
  <2> DEFINE n == conSources[conFound[a]]
  <2>1. n \in Nat /\ (SourcesEmpty => n = 0) /\ (~SourcesEmpty => n > 0)
    BY <1>2 DEF SourcesEmpty
  <2>2. ForTurn(a, turn) = IF n = 0 THEN 0 ELSE (turn % n) + 1
    BY DEF ForTurn
  <2> HIDE DEF n
  <2>3. n # 0 => turn % n \in Nat
    BY <2>1
  <2> QED BY <2>1, <2>2, <2>3
<1>5. ASSUME NEW a \in UsableAddresses, NEW turn \in Nat, ForTurn(a, turn) # 0,
             ForTurn(a, turn) = ForTurn(a, turn + 1)
      PROVE  conSources[conFound[a]] = 1
  <2> DEFINE n == conSources[conFound[a]]
  <2>1. /\ n \in Nat \ {0} /\ ForTurn(a, turn) = (turn % n) + 1
        /\ ForTurn(a, turn + 1) = ((turn + 1) % n) + 1
    BY <1>2, <1>5 DEF ForTurn
  <2>2. (turn % n) + 1 = ((turn + 1) % n) + 1
    BY <1>5, <2>1
  <2> HIDE DEF n
  <2>3. n = 1
    BY <2>1, <2>2, ConsecutiveTurns
  <2> QED BY <2>3 DEF n
<1>6. ASSUME NEW c \in Connections
      PROVE  conTry[c].at = "refused" /\ conTarget.at = "ready" => conTry[c].failed = UsableAddresses
  BY TryParts DEF TryOK
<1>7. ASSUME NEW c \in Connections, NEW p \in conTry[c].tried
      PROVE  /\ p[1] \in UsableAddresses
             /\ p[2] = 0 <=> SourcesEmpty
             /\ \A q \in conTry[c].tried : p[1] = q[1] => p = q
  <2>1. conTry[c].turn \in Nat
    BY TryParts DEF TryRecords
  <2>2. PICK a \in UsableAddresses : p = <<a, ForTurn(a, conTry[c].turn)>>
    BY <1>3
  <2>3. \A q \in conTry[c].tried : p[1] = q[1] => p = q
    <3> SUFFICES ASSUME NEW q \in conTry[c].tried, p[1] = q[1] PROVE p = q
      OBVIOUS
    <3>1. PICK b \in UsableAddresses : q = <<b, ForTurn(b, conTry[c].turn)>>
      BY <1>3
    <3>2. a = b
      BY <2>2, <3>1
    <3> QED BY <2>2, <3>1, <3>2
  <2>4. p[1] = a /\ p[2] = ForTurn(a, conTry[c].turn)
    BY <2>2
  <2> QED BY <1>4, <2>1, <2>3, <2>4
<1>8. ASSUME NEW c \in Connections, NEW d \in Connections \ {c},
             NEW p \in conTry[c].tried, NEW q \in conTry[d].tried,
             p[1] = q[1], p[2] = q[2], p[2] # 0, conTry[d].turn = conTry[c].turn + 1
      PROVE  conSources[conFound[p[1]]] = 1
  <2>1. conTry[c].turn \in Nat
    BY TryParts DEF TryRecords
  <2>2. PICK a \in UsableAddresses : p = <<a, ForTurn(a, conTry[c].turn)>>
    BY <1>3
  <2>3. PICK b \in UsableAddresses : q = <<b, ForTurn(b, conTry[d].turn)>>
    BY <1>3
  <2>4. a = b /\ p[1] = a /\ p[2] = ForTurn(a, conTry[c].turn) /\ q[2] = ForTurn(b, conTry[d].turn)
    BY <1>8, <2>2, <2>3
  <2>5. ForTurn(a, conTry[c].turn) # 0 /\ ForTurn(a, conTry[c].turn) = ForTurn(a, conTry[c].turn + 1)
    BY <1>8, <2>4
  <2> QED BY <1>5, <2>1, <2>4, <2>5
<1> QED BY <1>6, <1>7, <1>8 DEF RaceCoversAddresses

\* The race (src/connect.rs, connect_tcp and interleave_families): whatever the
\* resolver found, the sources, the number of connections and the order in
\* which attempts start, fail and win, a connection is refused only after every
\* usable address has failed for it, it tries usable addresses only, each from
\* one source, bound exactly when sources are configured, and consecutive
\* connections share no source of a family that has several.
THEOREM RaceCoversAll == ConnectSpec => []RaceCoversAddresses
<1>1. ConnectInit => ConnectInv
  BY ConnectStarts
<1>2. ConnectInv /\ [ConnectNext]_connectVars => ConnectInv'
  BY ConnectKeeps
<1>3. ConnectInv => RaceCoversAddresses
  BY ConnectCovers
<1> QED BY <1>1, <1>2, <1>3, PTL DEF ConnectSpec
============================================================================
