------------------------------ MODULE SocketIo -------------------------------
(***************************************************************************)
(* A Socket.IO session (src/socketio.rs, run_socketio of src/worker.rs):   *)
(* open() joins the namespace; then a session loop sends data frames into  *)
(* a channel and reads replies from it, while a pump moves frames between  *)
(* the channel and the connection, turns data frames into events with an   *)
(* ack id and passes back the ack of the latest event.  The server answers *)
(* like the mock's MockSession, in any order, and pushes frames of its     *)
(* own.  The session loop is the echo loop cut down to its channel.        *)
(***************************************************************************)
EXTENDS Naturals, Sequences, SequencesExt, FiniteSets

CONSTANTS
  EventBound,   \* bound: events of the session
  PushBound,    \* bound: frames the server sends on its own
  ChannelSize   \* capacity of the channels

ASSUME SocketIoAssumption ==
  {EventBound, PushBound} \subseteq Nat /\ ChannelSize \in Nat \ {0}

VARIABLES
  sioEngine,    \* "V3" or "V4"
  sioRoot,      \* the namespace is the default one
  sioLoop,      \* the session: [at, opened, seq, token, end]
  sioPump,      \* [at, next_id, awaited, pending, unsolicited, replies, packets]
  sioOutgoing,  \* channel to the pump
  sioIncoming,  \* channel to the loop
  sioToClient,  \* frames on the way to the client
  sioServer     \* [opened, pending, owed, pushed, closed]

socketIoVars == <<sioEngine, sioRoot, sioLoop, sioPump, sioOutgoing, sioIncoming,
                  sioToClient, sioServer>>

None == 0

\* A frame: an Engine.IO or Socket.IO packet, a binary frame or a Close.  own:
\* its namespace is the session's; id: its ack id plus one; att: attachments
\* it announces; ev: the event it belongs to.
Msg(t, own, id, att, ev) == [t |-> t, own |-> own, id |-> id, att |-> att, ev |-> ev]
Sign(t) == Msg(t, TRUE, None, 0, 0)

NoPending == [needed |-> 0, ack |-> FALSE, id |-> None, ev |-> 0]

SocketIoInit ==
  /\ sioEngine \in {"V3", "V4"} /\ sioRoot \in BOOLEAN
  /\ sioLoop = [at |-> "opening", opened |-> FALSE, seq |-> 0, token |-> FALSE, end |-> "none"]
  /\ sioPump = [at |-> "new", next_id |-> 1, awaited |-> None, pending |-> NoPending,
                unsolicited |-> 0, replies |-> 0, packets |-> 0]
  /\ sioOutgoing = <<>> /\ sioIncoming = <<>>
  /\ sioToClient = <<>>
  /\ sioServer = [opened |-> FALSE, pending |-> NoPending, owed |-> {}, pushed |-> 0,
                  closed |-> FALSE]

----------------------------------------------------------------------------
(* The server, as the mock's MockSession answers.  What a frame asks for   *)
(* is owed until it goes out, so its way to the server takes no time.      *)

\* MockSession::receive: pongs, the connect packet, and the ack of an event
\* with the attachments it came with, once they are complete.
Receive(server, f) ==
  LET p == server.pending
      quiet == [server EXCEPT !.pending = NoPending]
      Owes(answer) == [quiet EXCEPT !.owed = @ \cup {answer}]
  IN CASE server.closed -> server
       [] f.t = "binary" -> IF p = NoPending THEN server ELSE Owes(Msg("ack", TRUE, p.id, 1, p.ev))
       [] f.t = "ping" -> Owes(Sign("pong"))
       [] f.t = "connect" -> Owes(Sign("connect"))
       [] f.t = "event" /\ f.att = 0 -> Owes(Msg("ack", TRUE, f.id, 0, f.ev))
       [] f.t = "event" /\ f.att > 0 ->
            [server EXCEPT !.pending = [needed |-> f.att, ack |-> FALSE, id |-> f.id, ev |-> f.ev]]
       [] f.t = "close" -> [quiet EXCEPT !.closed = TRUE]
       [] OTHER -> quiet

----------------------------------------------------------------------------
(* open(): one frame of the server after another.                          *)

LoopEnds(end) == sioLoop' = [sioLoop EXCEPT !.at = "over", !.end = end]
\* The client writes a frame, or two.
Writes(f) == sioServer' = Receive(sioServer, f)
WritesBoth(f, g) == sioServer' = Receive(Receive(sioServer, f), g)
Disconnect == Sign("disconnect")
CloseFrame == Sign("close")

\* A failed open: one error, a Close, and the connection is given up.
OpenFails == LoopEnds("error") /\ Writes(CloseFrame) /\ UNCHANGED sioPump

OpenSucceeds ==
  /\ sioLoop' = [sioLoop EXCEPT !.at = "idle"]
  /\ sioPump' = [sioPump EXCEPT !.at = "run"]
  /\ UNCHANGED sioServer

OpenAnswers(f) == Writes(f) /\ UNCHANGED <<sioLoop, sioPump>>
OpenIgnores == UNCHANGED <<sioServer, sioLoop, sioPump>>

OpenReads ==
  /\ sioLoop.at = "opening" /\ sioToClient # <<>>
  /\ sioToClient' = Tail(sioToClient)
  /\ LET f == sioToClient[1]
     IN CASE f.t \in {"close", "failure"} -> OpenFails
          [] f.t = "ws_ping" -> OpenAnswers(Sign("ws_pong"))
          [] f.t = "binary" /\ sioLoop.opened -> OpenIgnores
          [] ~sioLoop.opened ->
               IF f.t # "open" THEN OpenFails
               ELSE /\ sioLoop' = [sioLoop EXCEPT !.opened = TRUE]
                    /\ IF sioEngine = "V3" /\ sioRoot THEN UNCHANGED sioServer ELSE Writes(Sign("connect"))
                    /\ UNCHANGED sioPump
          [] f.t = "ping" -> OpenAnswers(Sign("pong"))
          [] f.t = "bye" -> OpenFails
          [] f.t = "connect" /\ f.own -> OpenSucceeds
          [] f.t \in {"connect_error", "disconnect"} /\ f.own -> OpenFails
          [] OTHER -> OpenIgnores
  /\ UNCHANGED <<sioEngine, sioRoot, sioOutgoing, sioIncoming>>

OpenTimesOut ==
  /\ sioLoop.at = "opening"
  /\ OpenFails
  /\ UNCHANGED <<sioEngine, sioRoot, sioOutgoing, sioIncoming, sioToClient>>

OpenCancelled ==
  /\ sioLoop.at = "opening" /\ sioLoop.token
  /\ LoopEnds("finished") /\ Writes(CloseFrame)
  /\ UNCHANGED <<sioEngine, sioRoot, sioPump, sioOutgoing, sioIncoming, sioToClient>>

----------------------------------------------------------------------------
(* The session loop on its end of the channel.                             *)

LoopOnly == UNCHANGED <<sioEngine, sioRoot, sioPump, sioToClient, sioServer>>

\* A text or a binary data frame; a pump that is gone refuses it.
LoopSends ==
  /\ sioLoop.at = "idle" /\ ~sioLoop.token /\ sioLoop.seq < EventBound
  /\ IF sioPump.at = "over"
     THEN LoopEnds("error") /\ UNCHANGED sioOutgoing
     ELSE /\ Len(sioOutgoing) < ChannelSize
          /\ sioLoop' = [sioLoop EXCEPT !.at = "await", !.seq = @ + 1]
          /\ \E t \in {"text", "binary"} :
               sioOutgoing' = Append(sioOutgoing, Msg(t, TRUE, None, 0, sioLoop.seq + 1))
  /\ UNCHANGED sioIncoming /\ LoopOnly

\* The reply, a Close, an error, or the end of a channel whose pump is gone.
LoopReads ==
  /\ sioLoop.at = "await" /\ ~sioLoop.token
  /\ \/ /\ sioIncoming # <<>>
        /\ sioIncoming' = Tail(sioIncoming)
        /\ CASE sioIncoming[1].t = "reply" -> sioLoop' = [sioLoop EXCEPT !.at = "idle"]
             [] sioIncoming[1].t = "close" -> LoopEnds("lost")
             [] OTHER -> LoopEnds("error")
     \/ /\ sioIncoming = <<>> /\ sioPump.at = "over"
        /\ LoopEnds("error") /\ UNCHANGED sioIncoming
  /\ UNCHANGED sioOutgoing /\ LoopOnly

LoopTimesOut ==
  /\ sioLoop.at = "await" /\ ~sioLoop.token
  /\ LoopEnds("error")
  /\ UNCHANGED <<sioOutgoing, sioIncoming>> /\ LoopOnly

\* The token, or the request cap: a Close goes through the channel.
LoopCloses ==
  /\ sioLoop.at \in {"idle", "await"}
  /\ sioLoop.token
  /\ LoopEnds("finished")
  /\ sioPump.at = "over" \/ Len(sioOutgoing) < ChannelSize
  /\ sioOutgoing' = IF sioPump.at = "over" THEN sioOutgoing
                    ELSE Append(sioOutgoing, CloseFrame)
  /\ UNCHANGED sioIncoming /\ LoopOnly

Cancel ==
  /\ ~sioLoop.token
  /\ sioLoop.at # "over"
  /\ sioLoop' = [sioLoop EXCEPT !.token = TRUE]
  /\ UNCHANGED <<sioOutgoing, sioIncoming>> /\ LoopOnly

----------------------------------------------------------------------------
(* The pump.                                                               *)

PumpUnchanged == UNCHANGED <<sioEngine, sioRoot, sioLoop>>
PumpEnds == sioPump' = [sioPump EXCEPT !.at = "over"]
\* A message for the loop; a loop that is gone takes nothing.
Passes(t, ev) ==
  sioIncoming' = IF sioLoop.at = "over" THEN sioIncoming
                 ELSE Append(sioIncoming, Msg(t, TRUE, None, 0, ev))
CanPass == sioLoop.at = "over" \/ Len(sioIncoming) < ChannelSize

\* An event goes out and is the one awaited.
PumpEvent(f) ==
  LET id == sioPump.next_id
      event == Msg("event", TRUE, id, IF f.t = "binary" THEN 1 ELSE 0, f.ev)
  IN /\ sioPump' = [sioPump EXCEPT !.awaited = id, !.next_id = @ + 1]
     /\ IF f.t = "binary" THEN WritesBoth(event, Sign("binary")) ELSE Writes(event)

\* Mutant: after a Close the pump waits for the server to close.
PumpSendsLingering ==
  /\ sioPump.at = "run" /\ sioOutgoing # <<>>
  /\ sioOutgoing' = Tail(sioOutgoing)
  /\ IF sioOutgoing[1].t = "close" THEN WritesBoth(Disconnect, CloseFrame) /\ UNCHANGED sioPump
     ELSE PumpEvent(sioOutgoing[1])
  /\ UNCHANGED <<sioIncoming, sioToClient>> /\ PumpUnchanged

\* A data frame becomes an event packet, a binary one with its attachment;
\* a Close, or a channel whose loop is gone, leaves the namespace.
PumpSends ==
  /\ sioPump.at = "run"
  /\ \/ /\ sioOutgoing # <<>>
        /\ sioOutgoing' = Tail(sioOutgoing)
        /\ IF sioOutgoing[1].t = "close" THEN PumpEnds /\ WritesBoth(Disconnect, CloseFrame)
           ELSE PumpEvent(sioOutgoing[1])
     \/ /\ sioOutgoing = <<>> /\ sioLoop.at = "over"
        /\ PumpEnds /\ WritesBoth(Disconnect, CloseFrame) /\ UNCHANGED sioOutgoing
  /\ UNCHANGED <<sioIncoming, sioToClient>> /\ PumpUnchanged

\* A write of an event or of a client ping fails.
PumpWriteFails ==
  /\ sioPump.at = "run" /\ CanPass
  /\ sioServer.closed
  /\ sioOutgoing # <<>> \/ sioEngine = "V3"
  /\ sioOutgoing' = <<>>
  /\ PumpEnds /\ Passes("failure", 0)
  /\ UNCHANGED <<sioServer, sioToClient>> /\ PumpUnchanged

\* Mutant: the ack of any event of the session is the reply.
PumpRepliesAny(p, ack, id, ev) ==
  IF ack /\ id # None
  THEN /\ CanPass /\ Passes("reply", ev)
       /\ sioPump' = [p EXCEPT !.awaited = None, !.replies = @ + 1]
  ELSE sioPump' = [p EXCEPT !.unsolicited = @ + 1] /\ UNCHANGED sioIncoming

\* A complete packet: the ack of the latest event is the reply, and nothing
\* is awaited any more; anything else is unsolicited.
PumpReplies(p, ack, id, ev) ==
  IF ack /\ id # None /\ id = p.awaited
  THEN /\ CanPass /\ Passes("reply", ev)
       /\ sioPump' = [p EXCEPT !.awaited = None, !.replies = @ + 1]
  ELSE sioPump' = [p EXCEPT !.unsolicited = @ + 1] /\ UNCHANGED sioIncoming

\* A binary frame completes the packet that waits for it.
PumpBinary(f) ==
  LET p == sioPump.pending
      left == [sioPump EXCEPT !.pending = NoPending]
  IN /\ UNCHANGED sioServer
     /\ IF p = NoPending
        THEN sioPump' = [left EXCEPT !.unsolicited = @ + 1, !.packets = @ + 1] /\ UNCHANGED sioIncoming
        ELSE IF ~f.own      \* Engine.IO 3: a frame without the message type
        THEN sioPump' = [left EXCEPT !.unsolicited = @ + 1] /\ UNCHANGED sioIncoming
        ELSE IF p.needed > 1
        THEN sioPump' = [sioPump EXCEPT !.pending.needed = @ - 1] /\ UNCHANGED sioIncoming
        ELSE PumpReplies(left, p.ack, p.id, p.ev)

\* A text frame ends a binary packet that still waits for its attachments.
PumpText(f) ==
  LET cut == sioPump.pending # NoPending
      p == [sioPump EXCEPT !.pending = NoPending, !.unsolicited = IF cut THEN @ + 1 ELSE @]
      counted == [p EXCEPT !.packets = @ + 1]
  IN CASE f.t = "ping" ->
            sioPump' = p /\ Writes(Sign("pong")) /\ UNCHANGED sioIncoming
       [] f.t = "bye" \/ (f.own /\ f.t \in {"disconnect", "connect_error"}) ->
            /\ CanPass /\ Passes("close", 0)
            /\ sioPump' = [p EXCEPT !.at = "over"] /\ UNCHANGED sioServer
       [] f.t = "pong" -> sioPump' = p /\ UNCHANGED <<sioServer, sioIncoming>>
       [] f.att > 0 ->
            /\ sioPump' = [counted EXCEPT !.pending =
                 [needed |-> f.att, ack |-> f.t = "ack" /\ f.own, id |-> f.id, ev |-> f.ev]]
            /\ UNCHANGED <<sioServer, sioIncoming>>
       [] OTHER -> PumpReplies(counted, f.t = "ack" /\ f.own, f.id, f.ev) /\ UNCHANGED sioServer

PumpReads ==
  /\ sioPump.at = "run" /\ sioToClient # <<>>
  /\ sioToClient' = Tail(sioToClient)
  /\ LET f == sioToClient[1]
     IN CASE f.t = "ws_ping" ->
               Writes(Sign("ws_pong")) /\ UNCHANGED <<sioPump, sioIncoming>>
          [] f.t \in {"close", "failure"} ->
               CanPass /\ Passes(f.t, 0) /\ PumpEnds /\ UNCHANGED sioServer
          [] f.t = "binary" -> PumpBinary(f)
          [] OTHER -> PumpText(f)
  /\ UNCHANGED sioOutgoing /\ PumpUnchanged

\* The connection ends without a Close frame.
PumpStreamEnds ==
  /\ sioPump.at = "run" /\ sioToClient = <<>> /\ sioServer.closed
  /\ PumpEnds
  /\ UNCHANGED <<sioIncoming, sioOutgoing, sioServer, sioToClient>> /\ PumpUnchanged

\* An Engine.IO 3 client pings the server.
PumpPings ==
  /\ sioPump.at = "run" /\ sioEngine = "V3"
  /\ ~sioServer.closed /\ Sign("pong") \notin sioServer.owed \cup ToSet(sioToClient)
  /\ Writes(Sign("ping"))
  /\ UNCHANGED <<sioPump, sioIncoming, sioOutgoing, sioToClient>> /\ PumpUnchanged

----------------------------------------------------------------------------
(* What the server does by itself.                                         *)

ServerUnchanged == UNCHANGED <<sioEngine, sioRoot, sioLoop, sioPump, sioOutgoing, sioIncoming>>

\* The open packet; a Socket.IO 2 server joins the default namespace itself.
ServerOpens ==
  /\ ~sioServer.opened /\ ~sioServer.closed
  /\ sioServer' = [sioServer EXCEPT !.opened = TRUE]
  /\ sioToClient' = Append(sioToClient, Sign("open"))
       \o (IF sioEngine = "V3" THEN <<Msg("connect", sioRoot, None, 0, 0)>> ELSE <<>>)
  /\ ServerUnchanged

\* An answer goes out, in any order, or never.
SioAnswers ==
  /\ ~sioServer.closed
  /\ \E ack \in sioServer.owed :
       /\ sioServer' = [sioServer EXCEPT !.owed = @ \ {ack}]
       /\ sioToClient' = Append(sioToClient, ack)
            \o (IF ack.att > 0 THEN <<Sign("binary")>> ELSE <<>>)
  /\ ServerUnchanged

\* Frames the server sends on its own, and repeated or foreign acks.
Pushes ==
  {Sign(t) : t \in {"ping", "bye", "ws_ping", "binary", "disconnect"}}
    \cup {Msg("binary", FALSE, None, 0, 0)}
    \cup [t : {"event"}, own : BOOLEAN, id : {None}, att : 0 .. 2, ev : {0}]
    \cup {Msg("ack", own, 1, 0, 1) : own \in BOOLEAN}

ServerPushes ==
  /\ sioServer.opened /\ ~sioServer.closed /\ sioServer.pushed < PushBound
  /\ \E f \in Pushes : sioToClient' = Append(sioToClient, f)
  /\ sioServer' = [sioServer EXCEPT !.pushed = @ + 1]
  /\ ServerUnchanged

\* The server closes, or the connection breaks with or without an error.
ServerEnds ==
  /\ ~sioServer.closed
  /\ sioServer' = [sioServer EXCEPT !.closed = TRUE]
  /\ \E last \in {<<CloseFrame>>, <<Sign("failure")>>, <<>>} : sioToClient' = sioToClient \o last
  /\ ServerUnchanged

\* join!(session, pump) has returned, or the open failed.
SocketIoOver == sioLoop.at = "over" /\ sioPump.at \in {"new", "over"}
SocketIoTerminated == SocketIoOver /\ UNCHANGED socketIoVars

SocketIoLoop == OpenReads \/ OpenTimesOut \/ OpenCancelled \/ LoopSends \/ LoopReads
                \/ LoopTimesOut \/ LoopCloses
SocketIoPump == PumpSends \/ PumpWriteFails \/ PumpReads \/ PumpStreamEnds

SocketIoNext ==
  \/ ~SocketIoOver /\ (SocketIoLoop \/ SocketIoPump \/ Cancel \/ PumpPings \/ ServerOpens
       \/ SioAnswers \/ ServerPushes \/ ServerEnds)
  \/ SocketIoTerminated

----------------------------------------------------------------------------
\* The reply the loop reads belongs to the event it waits for, whatever the
\* server pushes, repeats or answers out of order; and every packet is
\* counted once, as the reply or as unsolicited, a binary one when it is
\* complete or cut off (src/socketio.rs, pump).
RepliesAnswerEvents ==
  /\ \A i \in DOMAIN sioIncoming : sioIncoming[i].t = "reply" =>
       sioLoop.at # "idle" /\ sioIncoming[i].ev = sioLoop.seq
  /\ sioPump.replies + sioPump.unsolicited
       + (IF sioPump.pending = NoPending THEN 0 ELSE 1) = sioPump.packets

\* A cancelled session ends: the loop leaves its wait, and the pump notices
\* the Close or the dropped channel even when the server stays silent.
SocketIoEnds == sioLoop.token ~> SocketIoOver
============================================================================
