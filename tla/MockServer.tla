------------------------------ MODULE MockServer -----------------------------
(***************************************************************************)
(* The test target of "wsblast mock" (src/mock.rs, src/mock/rules.rs): the *)
(* accept loop, the handshakes, and one session per connection that queues *)
(* replies (echoes, what the rules decide, recorded frames or Socket.IO    *)
(* acks), sends them when they are due, and ends by close-after, a rule, a *)
(* late pong, the client, an error or the shutdown.  When a reply is due   *)
(* and when a stall begins and ends is left to chance.                     *)
(***************************************************************************)
EXTENDS Integers, Sequences, SequencesExt, FiniteSets, FiniteSetsExt

CONSTANTS
  MockConns,       \* TCP connections clients open
  ClientFrames,    \* kinds of data frames clients send
  MockRules,       \* [matcher, after, replies, close]: the rules file
  ReplayFrames,    \* frames of each recorded connection
  CloseAfter,      \* --close-after; 0: none
  ReceiveBound     \* bound: data frames of all clients

ASSUME MockAssumption ==
  /\ IsFiniteSet(MockConns)
  /\ CloseAfter \in Nat /\ ReceiveBound \in Nat /\ ReplayFrames \in Nat
  /\ MockRules \in Seq([matcher : ClientFrames \cup {"any"}, after : Nat \ {0},
                       replies : Nat, close : BOOLEAN])

VARIABLES
  mockMode,      \* "echo", "rules", "replay" or "socketio"
  mockUnmatched, \* what the rules do with other frames: "echo" or "ignore"
  mockRun,       \* "serve", "grace" or "stopped"
  mockStalled,   \* a server-wide stall is on
  mockConn,      \* [c |-> the task of connection c]
  mockCounters,  \* Counters
  mockFinal      \* the counters run() returns

mockVars == <<mockMode, mockUnmatched, mockRun, mockStalled, mockConn, mockCounters, mockFinal>>

Unconnected == [at |-> "new", queue |-> <<>>, received |-> 0, replies |-> 0, pong |-> FALSE,
                log |-> <<>>, sent |-> <<>>]
NoCounts == [accepted |-> 0, rejected |-> 0, active |-> 0, received |-> 0, sent |-> 0]

MockInit ==
  /\ mockMode \in {"echo", "rules", "replay", "socketio"}
  /\ mockUnmatched \in {"echo", "ignore"}
  /\ mockMode # "rules" => mockUnmatched = "echo"
  /\ mockRun = "serve" /\ mockStalled = FALSE
  /\ mockConn = [c \in MockConns |-> Unconnected]
  /\ mockCounters = NoCounts /\ mockFinal = NoCounts

\* A queued reply, a protocol frame that is no reply, and a rule's close.
Reply(n) == [k |-> "frame", n |-> n]
Control(n) == [k |-> "control", n |-> n]
Closing(n) == [k |-> "close", n |-> n]

Times(item, n) == [i \in 1 .. n |-> item]

----------------------------------------------------------------------------
(* Accepting connections.                                                  *)

MockOnly == UNCHANGED <<mockMode, mockUnmatched, mockStalled, mockFinal>>

\* The accept loop plans a rejection or a session.
MockAccept(c) ==
  /\ mockRun = "serve" /\ mockConn[c].at = "new"
  /\ \E at \in {"reject", "shake"} : mockConn' = [mockConn EXCEPT ![c].at = at]
  /\ UNCHANGED <<mockRun, mockCounters>> /\ MockOnly

\* The upgrade request of a connection to reject is answered with 503.
MockReject(c) ==
  /\ mockConn[c].at = "reject"
  /\ mockConn' = [mockConn EXCEPT ![c].at = "gone"]
  /\ mockCounters' = [mockCounters EXCEPT !.rejected = @ + 1]
  /\ UNCHANGED mockRun /\ MockOnly

\* The TLS or WebSocket handshake fails or times out, or the server stops.
MockShakeFails(c) ==
  /\ mockConn[c].at \in {"shake", "reject"}
  /\ mockConn' = [mockConn EXCEPT ![c].at = "gone"]
  /\ UNCHANGED <<mockRun, mockCounters>> /\ MockOnly

\* What a session starts with: recorded frames, or the Socket.IO open packet.
FirstQueue ==
  CASE mockMode = "replay" -> Times(Reply(0), ReplayFrames)
    [] mockMode = "socketio" -> <<Control(0)>>
    [] OTHER -> <<>>

\* The session starts and is counted; Engine.IO 3 waits for a ping at once.
MockOpen(c) ==
  /\ mockConn[c].at = "shake"
  /\ \E engine3 \in BOOLEAN :
       /\ engine3 => mockMode = "socketio"
       /\ mockConn' = [mockConn EXCEPT ![c] =
            [mockConn[c] EXCEPT !.at = "open", !.queue = FirstQueue, !.pong = engine3]]
  /\ mockCounters' = [mockCounters EXCEPT !.accepted = @ + 1, !.active = @ + 1]
  /\ UNCHANGED mockRun /\ MockOnly

----------------------------------------------------------------------------
(* What a received frame asks for.                                         *)

\* Rules::decide: the first rule that applies to the seq-th frame.
Decide(frame, seq) ==
  LET fits == {i \in DOMAIN MockRules : /\ seq >= MockRules[i].after
                                        /\ MockRules[i].matcher \in {"any", frame}}
      rule == MockRules[Min(fits)]
  IN IF fits # {}
     THEN Times(Reply(seq), rule.replies) \o (IF rule.close THEN <<Closing(seq)>> ELSE <<>>)
     ELSE IF mockUnmatched = "echo" THEN <<Reply(seq)>> ELSE <<>>

\* queue_replies, and the answer of a Socket.IO session: the first frame of
\* an event's answer is the reply, its attachment goes along uncounted.
QueueReplies(frame, seq) ==
  CASE mockMode = "echo" -> <<Reply(seq)>>
    [] mockMode = "rules" -> Decide(frame, seq)
    [] mockMode = "replay" -> <<>>
    [] mockMode = "socketio" -> <<Reply(seq), Control(seq)>>

\* Mutant: frames are numbered over all connections.
MockReceivesShared(c) ==
  /\ mockConn[c].at = "open" /\ mockRun = "serve"
  /\ mockCounters.received < ReceiveBound
  /\ \E f \in ClientFrames :
       mockConn' = [mockConn EXCEPT ![c] = [mockConn[c] EXCEPT
         !.received = @ + 1, !.log = Append(@, f),
         !.queue = @ \o QueueReplies(f, mockCounters.received + 1)]]
  /\ mockCounters' = [mockCounters EXCEPT !.received = @ + 1]
  /\ UNCHANGED mockRun /\ MockOnly

\* Event::Received with a data frame.
MockReceives(c) ==
  /\ mockConn[c].at = "open" /\ mockRun = "serve"
  /\ mockCounters.received < ReceiveBound
  /\ \E f \in ClientFrames :
       mockConn' = [mockConn EXCEPT ![c] = [mockConn[c] EXCEPT
         !.received = @ + 1, !.log = Append(@, f),
         !.queue = @ \o QueueReplies(f, mockConn[c].received + 1)]]
  /\ mockCounters' = [mockCounters EXCEPT !.received = @ + 1]
  /\ UNCHANGED mockRun /\ MockOnly

\* A Socket.IO pong (or an Engine.IO 3 ping, which is answered at once).
MockPong(c) ==
  /\ mockConn[c].at = "open" /\ mockRun = "serve" /\ mockMode = "socketio"
  /\ mockConn[c].pong
  /\ \/ mockConn' = [mockConn EXCEPT ![c].pong = FALSE]
     \/ mockConn' = [mockConn EXCEPT ![c].queue = Append(@, Control(0))]
  /\ Len(SelectSeq(mockConn[c].queue, LAMBDA q : q = Control(0))) < 2
  /\ UNCHANGED <<mockRun, mockCounters>> /\ MockOnly

----------------------------------------------------------------------------
(* What a session sends.                                                   *)

Sends(c, conn) == mockConn' = [mockConn EXCEPT ![c] = conn]

\* A reply is due in a stall: the session waits for the end of the stall.
MockStall(c) ==
  /\ mockConn[c].at = "open" /\ mockRun = "serve" /\ mockStalled
  /\ mockConn[c].queue # <<>>
  /\ Sends(c, [mockConn[c] EXCEPT !.at = "stall"])
  /\ UNCHANGED <<mockRun, mockCounters>> /\ MockOnly

\* Event::Due: the first of the queue goes out; close-after and a rule's
\* close end the session, after which it only drains.
MockDue(c) ==
  /\ mockRun = "serve" /\ ~mockStalled
  /\ mockConn[c].at \in {"open", "stall"}
  /\ mockConn[c].queue # <<>>
  /\ LET item == Head(mockConn[c].queue)
         frame == item.k = "frame"
         left == [mockConn[c] EXCEPT !.at = "open", !.queue = Tail(@),
                    !.replies = IF frame THEN @ + 1 ELSE @,
                    !.sent = IF frame THEN Append(@, item) ELSE @]
         over == item.k = "close" \/ (frame /\ left.replies = CloseAfter)
     IN /\ Sends(c, IF over THEN [left EXCEPT !.at = "drain", !.queue = <<>>] ELSE left)
        /\ mockCounters' = [mockCounters EXCEPT !.sent = IF frame THEN @ + 1 ELSE @]
  /\ UNCHANGED mockRun /\ MockOnly

\* Event::Ping: an Engine.IO 4 ping goes out.
MockPing(c) ==
  /\ mockConn[c].at = "open" /\ mockRun = "serve" /\ mockMode = "socketio"
  /\ ~mockConn[c].pong
  /\ Sends(c, [mockConn[c] EXCEPT !.pong = TRUE])
  /\ UNCHANGED <<mockRun, mockCounters>> /\ MockOnly

\* The pong is late, or the server stops: a Close, then the session drains.
MockCloses(c) ==
  /\ \/ mockConn[c].at = "open" /\ mockConn[c].pong
     \/ mockConn[c].at \in {"open", "stall"} /\ mockRun = "grace"
  /\ Sends(c, [mockConn[c] EXCEPT !.at = "drain", !.queue = <<>>])
  /\ UNCHANGED <<mockRun, mockCounters>> /\ MockOnly

\* The client's Close or end, a failed read or write, or the end of a drain:
\* the session's guard gives its place back.
MockGone(c) ==
  /\ mockConn[c].at \in {"open", "drain"}
  /\ Sends(c, [mockConn[c] EXCEPT !.at = "gone", !.queue = <<>>])
  /\ mockCounters' = [mockCounters EXCEPT !.active = @ - 1]
  /\ UNCHANGED mockRun /\ MockOnly

----------------------------------------------------------------------------
\* A stall begins or ends.
StallTurns ==
  /\ mockRun = "serve"
  /\ mockStalled' = ~mockStalled
  /\ UNCHANGED <<mockMode, mockUnmatched, mockRun, mockConn, mockCounters, mockFinal>>

MockCancelled ==
  /\ mockRun = "serve"
  /\ mockRun' = "grace"
  /\ UNCHANGED <<mockConn, mockCounters>> /\ MockOnly

\* Every task has ended, or SHUTDOWN_GRACE is over and the rest is aborted.
MockStops ==
  /\ mockRun = "grace"
  /\ mockRun' = "stopped" /\ mockFinal' = mockCounters
  /\ mockConn' = [c \in MockConns |->
       [mockConn[c] EXCEPT !.at = IF @ = "new" THEN "new" ELSE "gone", !.queue = <<>>]]
  /\ mockCounters' = [mockCounters EXCEPT !.active = 0]
  /\ UNCHANGED <<mockMode, mockUnmatched, mockStalled>>

MockTerminated == mockRun = "stopped" /\ UNCHANGED mockVars

MockNext ==
  \/ \E c \in MockConns :
       \/ MockAccept(c) \/ MockReject(c) \/ MockShakeFails(c) \/ MockOpen(c)
       \/ MockReceives(c) \/ MockPong(c) \/ MockStall(c) \/ MockDue(c) \/ MockPing(c)
       \/ MockCloses(c) \/ MockGone(c)
  \/ StallTurns \/ MockCancelled \/ MockStops \/ MockTerminated

----------------------------------------------------------------------------
\* What queued items promise: their replies, in order, up to a rule's close.
Promise(p, item) ==
  CASE p.over \/ item.k = "control" -> p
    [] ~p.over /\ item.k = "close" -> [frames |-> p.frames, over |-> TRUE]
    [] ~p.over /\ item.k = "frame" -> [frames |-> Append(p.frames, item), over |-> FALSE]

Promised(items) ==
  LET upTo[n \in 0 .. Len(items)] ==
        IF n = 0 THEN [frames |-> <<>>, over |-> FALSE] ELSE Promise(upTo[n - 1], items[n])
  IN upTo[Len(items)]

\* All that the mode or the rules file asks for over a connection's input.
Asked(log) ==
  LET upTo[n \in 0 .. Len(log)] ==
        IF n = 0 THEN <<>> ELSE upTo[n - 1] \o QueueReplies(log[n], n)
  IN upTo[Len(log)]

\* The replies to a connection's input.
Answers(log) == Promised(Asked(log)).frames

\* docs/mock.md: every connection answers its own frames, numbered from 1 on
\* that connection, in the order they came, whatever delays, stalls and other
\* connections do; nothing follows a rule's close or the close-after reply;
\* and the counters are those of the connections.
MockAnswersInOrder ==
  /\ \A c \in MockConns :
       LET conn == mockConn[c]
       IN /\ mockMode \in {"echo", "rules", "socketio"} => IsPrefix(conn.sent, Answers(conn.log))
          /\ CloseAfter # 0 => Len(conn.sent) <= CloseAfter
  /\ mockCounters.sent = MapThenSumSet(LAMBDA c : Len(mockConn[c].sent), MockConns)
  /\ mockCounters.received = MapThenSumSet(LAMBDA c : Len(mockConn[c].log), MockConns)
  /\ mockCounters.active = Cardinality({c \in MockConns : mockConn[c].at \in {"open", "stall", "drain"}})
============================================================================
