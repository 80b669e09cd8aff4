------------------------------- MODULE Connect -------------------------------
(***************************************************************************)
(* Opening connections (src/connect.rs): ConnectTarget::prepare resolves   *)
(* the target once for the run; every connection then races the addresses  *)
(* (Happy Eyeballs), starting with the one that accepted most recently,    *)
(* each from a source address of its family, and completes the TLS and     *)
(* WebSocket handshakes.  An address is its place in the resolver's answer *)
(* and a source its place among the sources of a family.                   *)
(***************************************************************************)
EXTENDS Naturals, Sequences, FiniteSets, SequencesExt

CONSTANTS
  Connections,   \* the connections the workers open
  AddrBound,     \* bound: addresses the resolver returns
  SourceBound    \* bound: source addresses of a family

ASSUME ConnectAssumption == {AddrBound, SourceBound} \subseteq Nat

VARIABLES
  conFound,      \* the families the resolver finds, in its order
  conSources,    \* SourceIps: [family |-> number of sources]
  conTarget,     \* ConnectTarget: [at, addrs]
  conPreferred,  \* index of the address tried first
  conNext,       \* connections that took a source
  conTry         \* [c |-> the state of a call of connect]

connectVars == <<conFound, conSources, conTarget, conPreferred, conNext, conTry>>

Families == {"v4", "v6"}
Unstarted == [at |-> "new", turn |-> 0, queue |-> <<>>, pending |-> {}, failed |-> {},
              tried |-> {}]

ConnectInit ==
  /\ conFound \in BoundedSeq(Families, AddrBound)
  /\ conSources \in [Families -> 0 .. SourceBound]
  /\ conTarget = [at |-> "unresolved", addrs |-> <<>>]
  /\ conPreferred = 1 /\ conNext = 0
  /\ conTry = [c \in Connections |-> Unstarted]

----------------------------------------------------------------------------
SourcesEmpty == \A f \in Families : conSources[f] = 0
Serves(addr) == SourcesEmpty \/ conSources[conFound[addr]] > 0

\* The source an attempt binds; 0: none.
ForTurn(addr, turn) ==
  LET n == conSources[conFound[addr]] IN IF n = 0 THEN 0 ELSE (turn % n) + 1

\* The addresses among those in S, in their order.
Among(addrs, S) ==
  LET upTo[n \in 0 .. Len(addrs)] ==
        IF n = 0 THEN <<>>
        ELSE upTo[n - 1] \o (IF addrs[n] \in S THEN <<addrs[n]>> ELSE <<>>)
  IN upTo[Len(addrs)]

Nth(addrs, n) == IF n <= Len(addrs) THEN <<addrs[n]>> ELSE <<>>

\* Families alternate, starting with the first address's.
InterleaveFamilies(addrs) ==
  LET alike == {a \in ToSet(addrs) : conFound[a] = conFound[addrs[1]]}
      primary == Among(addrs, alike)
      secondary == Among(addrs, ToSet(addrs) \ alike)
      upTo[n \in 0 .. Len(addrs)] ==
        IF n = 0 THEN <<>> ELSE upTo[n - 1] \o (Nth(primary, n) \o Nth(secondary, n))
  IN upTo[Len(addrs)]

\* ConnectTarget::prepare: an address without a source of its family is left
\* out; a failure is kept for every connection to report.
Prepare ==
  /\ conTarget.at = "unresolved"
  /\ \/ LET usable == Among(InterleaveFamilies([i \in 1 .. Len(conFound) |-> i]),
                            {a \in DOMAIN conFound : Serves(a)})
        IN conTarget' = IF usable = <<>> THEN [at |-> "failed", addrs |-> <<>>]
                                         ELSE [at |-> "ready", addrs |-> usable]
     \/ conTarget' = [at |-> "failed", addrs |-> <<>>]      \* the lookup fails or times out
  /\ UNCHANGED <<conFound, conSources, conPreferred, conNext, conTry>>

\* The resolution failure is reported again by every attempt.
ConnectStatic(c) ==
  /\ conTarget.at = "failed"
  /\ conTry[c].at = "new"
  /\ conTry' = [conTry EXCEPT ![c].at = "refused"]
  /\ UNCHANGED <<conFound, conSources, conTarget, conPreferred, conNext>>

\* The preferred address first, the others in order; the first attempt starts.
Order(preferred) ==
  LET addrs == conTarget.addrs
      first == IF preferred <= Len(addrs) THEN preferred ELSE Len(addrs)
  IN <<addrs[first]>> \o RemoveAt(addrs, first)

OpenTcp(t) == [t EXCEPT !.queue = Tail(@), !.pending = @ \cup {Head(t.queue)},
                        !.tried = @ \cup {<<Head(t.queue), ForTurn(Head(t.queue), t.turn)>>}]

ConnectBegins(c) ==
  /\ conTarget.at = "ready"
  /\ conTry[c].at = "new"
  /\ conTry' = [conTry EXCEPT ![c] =
       OpenTcp([conTry[c] EXCEPT !.at = "tcp", !.queue = Order(conPreferred),
                                  !.turn = IF SourcesEmpty THEN 0 ELSE conNext])]
  /\ conNext' = IF SourcesEmpty THEN conNext ELSE conNext + 1
  /\ UNCHANGED <<conFound, conSources, conTarget, conPreferred>>

\* ATTEMPT_DELAY passes and another address is tried alongside.
NextAddress(c) ==
  /\ conTry[c].at = "tcp" /\ conTry[c].queue # <<>>
  /\ conTry' = [conTry EXCEPT ![c] = OpenTcp(conTry[c])]
  /\ UNCHANGED <<conFound, conSources, conTarget, conPreferred, conNext>>

\* Mutant: a failed attempt ends the race while others are under way.
AttemptFailsAlone(c) ==
  /\ conTry[c].at = "tcp"
  /\ \E a \in conTry[c].pending :
       LET t == [conTry[c] EXCEPT !.pending = @ \ {a}, !.failed = @ \cup {a}]
       IN conTry' = [conTry EXCEPT ![c] =
            IF t.queue # <<>> THEN OpenTcp(t) ELSE [t EXCEPT !.at = "refused"]]
  /\ UNCHANGED <<conFound, conSources, conTarget, conPreferred, conNext>>

\* An attempt fails: the next address starts at once; the last error ends it.
AttemptFails(c) ==
  /\ conTry[c].at = "tcp"
  /\ \E a \in conTry[c].pending :
       LET t == [conTry[c] EXCEPT !.pending = @ \ {a}, !.failed = @ \cup {a}]
       IN conTry' = [conTry EXCEPT ![c] =
            IF t.queue # <<>> THEN OpenTcp(t)
            ELSE IF t.pending = {} THEN [t EXCEPT !.at = "refused"] ELSE t]
  /\ UNCHANGED <<conFound, conSources, conTarget, conPreferred, conNext>>

\* The first address that accepts wins, the other attempts are dropped, and
\* the winner's index is what later connections try first.
AttemptAccepted(c) ==
  /\ conTry[c].at = "tcp"
  /\ \E a \in conTry[c].pending :
       /\ conTry' = [conTry EXCEPT ![c] =
            [conTry[c] EXCEPT !.at = "shake", !.pending = {}, !.queue = <<>>]]
       /\ conPreferred' = CHOOSE i \in DOMAIN conTarget.addrs : conTarget.addrs[i] = a
  /\ UNCHANGED <<conFound, conSources, conTarget, conNext>>

\* The TLS and WebSocket handshakes succeed or fail.
ShakeEnds(c) ==
  /\ conTry[c].at = "shake"
  /\ \E at \in {"open", "failed"} : conTry' = [conTry EXCEPT ![c].at = at]
  /\ UNCHANGED <<conFound, conSources, conTarget, conPreferred, conNext>>

\* The worker's handshake timeout, or its token, drops the attempt.
ConnectDropped(c) ==
  /\ conTry[c].at \in {"tcp", "shake"}
  /\ conTry' = [conTry EXCEPT ![c] =
       [conTry[c] EXCEPT !.at = "dropped", !.pending = {}, !.queue = <<>>]]
  /\ UNCHANGED <<conFound, conSources, conTarget, conPreferred, conNext>>

ConnectTerminated ==
  /\ \A c \in Connections : conTry[c].at \in {"refused", "open", "failed", "dropped"}
  /\ UNCHANGED connectVars

ConnectNext ==
  \/ Prepare
  \/ \E c \in Connections : ConnectStatic(c) \/ ConnectBegins(c) \/ NextAddress(c)
       \/ AttemptFails(c) \/ AttemptAccepted(c) \/ ShakeEnds(c) \/ ConnectDropped(c)
  \/ ConnectTerminated

----------------------------------------------------------------------------
\* The resolver's addresses an attempt may use.
UsableAddresses == {a \in 1 .. Len(conFound) : Serves(a)}

\* A connection of a resolved target is refused only after every usable
\* address has failed for it, whatever order the race and the preference of
\* other connections gave; it tries usable addresses only, each from one
\* source, which is bound exactly when sources are configured; and two
\* connections that took consecutive turns never share the source of a
\* family that has several (src/connect.rs, module comment).
RaceCoversAddresses ==
  \A c \in Connections :
    LET t == conTry[c]
    IN /\ t.at = "refused" /\ conTarget.at = "ready" => t.failed = UsableAddresses
       /\ \A p \in t.tried :
            /\ p[1] \in UsableAddresses
            /\ p[2] = 0 <=> SourcesEmpty
            /\ \A q \in t.tried : p[1] = q[1] => p = q
       /\ \A d \in Connections \ {c} : \A p \in t.tried, q \in conTry[d].tried :
            /\ p[1] = q[1] /\ p[2] = q[2] /\ p[2] # 0
            /\ conTry[d].turn = t.turn + 1
            => conSources[conFound[p[1]]] = 1
============================================================================
