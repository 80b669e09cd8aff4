------------------------------- MODULE Deflate -------------------------------
(***************************************************************************)
(* permessage-deflate (src/deflate.rs): DeflateStream sits between the     *)
(* connection and the WebSocket library, reads what the handshake agreed,  *)
(* and rewrites frames both ways.  One layer, on the client's or on the    *)
(* server's end, faces a peer that keeps to RFC 7692.                      *)
(*                                                                         *)
(* The byte streams are sequences of pieces: an HTTP head or a frame.  The *)
(* layer waits until a piece is complete, so a piece that arrives in parts *)
(* is one that arrives later.  A compressed payload is the part of a       *)
(* message it holds and the history its back references may reach into.    *)
(***************************************************************************)
EXTENDS Naturals, Sequences, SequencesExt, FiniteSets

CONSTANTS
  AppBound,     \* bound: frames the library writes
  PeerBound,    \* bound: frames the peer sends
  HighWater     \* pieces of output above which a write waits

ASSUME DeflateAssumption == {AppBound, PeerBound} \subseteq Nat /\ HighWater \in Nat \ {0}

VARIABLES
  defRole,      \* "client" or "server"
  defParams,    \* the offer of the request, as a sequence of at most one Params
  defLayer,     \* DeflateStream
  defApp,       \* the library above: [sent, got]: pieces written and read
  defWireIn,    \* pieces on the way from the peer
  defWireOut,   \* pieces on the way to the peer
  defPeer       \* [sent, got, agreement, deflate, inflate, part, packed]

deflateVars == <<defRole, defParams, defLayer, defApp, defWireIn, defWireOut, defPeer>>

\* Parameters of the extension: no context takeover, and a window below 32 KiB.
Params == [server_nct : BOOLEAN, client_nct : BOOLEAN,
           server_small : BOOLEAN, client_small : BOOLEAN]
Offer == [server_nct |-> FALSE, client_nct |-> FALSE,
          server_small |-> FALSE, client_small |-> FALSE]

\* A piece; a head carries Option<Params>, a frame a part of a message.
Head1(params) == [op |-> "head", fin |-> TRUE, rsv1 |-> FALSE, part |-> <<>>,
                  past |-> <<>>, params |-> params]
Frame(op, fin, rsv1, part, past) ==
  [op |-> op, fin |-> fin, rsv1 |-> rsv1, part |-> part, past |-> past, params |-> <<>>]

\* A compressed payload inflates when its history is at hand.
Inflates(f, past) == IsSuffix(f.past, past)

DeflateInit ==
  /\ defRole \in {"client", "server"}
  /\ defParams \in {<<>>} \cup {<<p>> : p \in Params}
  /\ defRole = "client" => defParams = <<Offer>>
  /\ defLayer = [agreement |-> <<>>, rawIn |-> <<>>, readyIn |-> <<>>, readHead |-> FALSE,
                 rawOut |-> <<>>, readyOut |-> <<>>, writeHead |-> FALSE,
                 inflating |-> FALSE, inflater |-> <<>>, deflater |-> <<>>,
                 negotiated |-> 0, err |-> FALSE, flushed |-> TRUE]
  /\ defApp = [sent |-> <<>>, got |-> <<>>]
  /\ defWireIn = <<>> /\ defWireOut = <<>>
  /\ defPeer = [sent |-> <<>>, got |-> <<>>, agreement |-> <<>>, deflate |-> <<>>,
                inflate |-> <<>>, open |-> 0, packed |-> FALSE]

----------------------------------------------------------------------------
(* What was agreed.                                                        *)

SmallWindow(p, end) == IF end = "client" THEN p.client_small ELSE p.server_small
NoTakeover(p, end) == IF end = "client" THEN p.client_nct ELSE p.server_nct
OtherEnd(end) == IF end = "client" THEN "server" ELSE "client"

CanCompress(p, role) == ~SmallWindow(p, role)
ResetDeflater(p, role) == NoTakeover(p, role)
\* Mutant: the flag of this end instead of the peer's.
ResetInflaterOwn(p, role) == NoTakeover(p, role)
ResetInflater(p, role) == NoTakeover(p, OtherEnd(role))

\* What the mock answers to an offer.
AcceptOffer(offer) ==
  IF \A p \in ToSet(offer) : p.server_small THEN <<>>
  ELSE <<[Offer EXCEPT !.server_nct = offer[1].server_nct]>>

\* The answers a server that keeps to the RFC may give to wsblast's offer.
AllowedAnswers == {<<>>} \cup {<<p>> : p \in Params}

----------------------------------------------------------------------------
(* The layer.                                                              *)

Declined(l) == l.agreement = << <<>> >>

\* end_head: the head moves on unchanged, the response sets the agreement.
EndHead(l, inbound, head) ==
  IF inbound = (defRole = "client")
  THEN [l EXCEPT !.agreement = <<head.params>>, !.negotiated = @ + Len(head.params)]
  ELSE l

\* One inbound frame under agreed parameters.
RewriteIn(l, f) ==
  LET p == l.agreement[1][1]
      first == f.op = "data"
      inflating == IF first THEN f.rsv1 ELSE l.inflating
      data == f.op \in {"data", "cont"}
      full == Append(l.inflater, f.part)
  IN IF l.err THEN l
     ELSE IF data /\ inflating
     THEN IF Inflates(f, l.inflater)
          THEN [l EXCEPT !.readyIn = Append(@, [f EXCEPT !.rsv1 = FALSE, !.past = <<>>]),
                         !.inflating = ~f.fin,
                         !.inflater = IF f.fin /\ ResetInflater(p, defRole) THEN <<>> ELSE full]
          ELSE [l EXCEPT !.err = TRUE]
     ELSE [l EXCEPT !.readyIn = Append(@, f), !.inflating = inflating]

\* process_in: frames wait while the agreement is unknown.
ProcessIn(l0) ==
  LET head == ~l0.readHead /\ l0.rawIn # <<>>
      l1 == IF ~head THEN l0
            ELSE [EndHead(l0, TRUE, l0.rawIn[1]) EXCEPT
                    !.readHead = TRUE, !.rawIn = Tail(@), !.readyIn = Append(@, l0.rawIn[1])]
      rest == [l1 EXCEPT !.rawIn = <<>>]
  IN IF ~l1.readHead \/ l1.agreement = <<>> THEN l1
     ELSE IF Declined(l1) THEN [rest EXCEPT !.readyIn = @ \o l1.rawIn]
     ELSE FoldLeft(RewriteIn, rest, l1.rawIn)

\* One outbound frame: a message is deflated unless the window is too small.
RewriteOut(l, f) ==
  LET p == l.agreement[1][1]
  IN IF CanCompress(p, defRole) /\ f.op = "data" /\ f.fin /\ ~f.rsv1
     THEN [l EXCEPT !.readyOut = Append(@, [f EXCEPT !.rsv1 = TRUE, !.past = l.deflater]),
                    !.deflater = IF ResetDeflater(p, defRole) THEN <<>> ELSE Append(@, f.part)]
     ELSE [l EXCEPT !.readyOut = Append(@, f)]

ProcessOut(l0) ==
  LET head == ~l0.writeHead /\ l0.rawOut # <<>>
      l1 == IF ~head THEN l0
            ELSE [EndHead(l0, FALSE, l0.rawOut[1]) EXCEPT
                    !.writeHead = TRUE, !.rawOut = Tail(@), !.readyOut = Append(@, l0.rawOut[1])]
      rest == [l1 EXCEPT !.rawOut = <<>>]
  IN IF ~l1.writeHead \/ l1.agreement = <<>> THEN l1
     ELSE IF Declined(l1) THEN [rest EXCEPT !.readyOut = @ \o l1.rawOut]
     ELSE FoldLeft(RewriteOut, rest, l1.rawOut)

\* poll_drain: the connection takes some of the output.
Drains(l, n) ==
  /\ defLayer' = [l EXCEPT !.readyOut = SubSeq(@, n + 1, Len(@))]
  /\ defWireOut' = defWireOut \o SubSeq(l.readyOut, 1, n)

----------------------------------------------------------------------------
(* The WebSocket library above the layer.                                  *)

\* The request or the response comes first, then messages and pings once the
\* handshake is over.
AppPieces ==
  LET n == Len(defApp.sent)
  IN IF n = 0
     THEN IF defRole = "client" THEN {Head1(defParams)}
          ELSE {Head1(AcceptOffer(q.params)) : q \in ToSet(defApp.got)}
     ELSE {Frame(op, TRUE, FALSE, <<n, "whole">>, <<>>) :
             op \in IF defApp.got = <<>> \/ n > AppBound THEN {} ELSE {"data", "ping"}}

\* poll_write: over the high-water mark what is queued goes first; a
\* declined layer with nothing queued writes straight through.
AppWrites ==
  /\ ~defLayer.err
  /\ Len(defLayer.readyOut) <= HighWater
  /\ \E piece \in AppPieces :
       LET l == [defLayer EXCEPT !.flushed = FALSE]
           queued == ProcessOut([l EXCEPT !.rawOut = Append(@, piece)])
       IN /\ defApp' = [defApp EXCEPT !.sent = Append(@, piece)]
          /\ IF Declined(l) /\ l.rawOut = <<>> /\ l.readyOut = <<>>
             THEN defLayer' = l /\ defWireOut' = Append(defWireOut, piece)
             ELSE \E n \in 0 .. Len(queued.readyOut) : Drains(queued, n)
  /\ UNCHANGED <<defRole, defParams, defWireIn, defPeer>>

AppFlushes ==
  /\ ~defLayer.flushed
  /\ LET l == ProcessOut([defLayer EXCEPT !.flushed = TRUE]) IN Drains(l, Len(l.readyOut))
  /\ UNCHANGED <<defRole, defParams, defApp, defWireIn, defPeer>>

\* poll_read: what is rewritten first, then what waited for the agreement,
\* then a chunk of the connection.
AppReads ==
  /\ ~defLayer.err
  /\ \E n \in 0 .. Len(defWireIn) :
       LET l0 == defLayer
           l1 == IF l0.readyIn # <<>> THEN l0
                 ELSE ProcessIn([l0 EXCEPT !.rawIn = @ \o SubSeq(defWireIn, 1, n)])
       IN /\ l0.readyIn # <<>> => n = 0
          /\ l1 # l0 \/ l1.readyIn # <<>>
          /\ defWireIn' = SubSeq(defWireIn, n + 1, Len(defWireIn))
          /\ defLayer' = [l1 EXCEPT !.readyIn = IF @ = <<>> THEN @ ELSE Tail(@)]
          /\ defApp' = [defApp EXCEPT !.got = IF l1.readyIn = <<>> THEN @
                                              ELSE Append(@, l1.readyIn[1])]
  /\ UNCHANGED <<defRole, defParams, defWireOut, defPeer>>

----------------------------------------------------------------------------
(* The peer.                                                               *)

PeerEnd == OtherEnd(defRole)

PeerSends(f) ==
  /\ defWireIn' = Append(defWireIn, f)
  /\ UNCHANGED <<defRole, defParams, defLayer, defApp, defWireOut>>

\* The peer's request, or its answer to the one it got.
PeerHead ==
  /\ defPeer.sent = <<>>
  /\ defRole = "client" => defPeer.got # <<>>
  /\ \E params \in IF defRole = "client" THEN AllowedAnswers ELSE {defParams} :
       /\ PeerSends(Head1(params))
       /\ defPeer' = [defPeer EXCEPT !.sent = <<Head1(params)>>,
                        !.agreement = IF defRole = "client" THEN <<params>> ELSE @]

\* A message in one or two frames, compressed or not, or a ping between them.
PeerFrame ==
  LET pr == defPeer
      n == Len(pr.sent)
  IN /\ pr.agreement # <<>> /\ n \in 1 .. PeerBound
     /\ \E op \in IF pr.open = 0 THEN {"data"} ELSE {"cont", "ping"},
           fin \in BOOLEAN, packed \in BOOLEAN :
          LET p == pr.agreement[1]
              squeezed == op # "ping" /\ (IF op = "data" THEN packed ELSE pr.packed)
              id == IF pr.open = 0 THEN n ELSE pr.open
              part == <<id, IF op = "cont" THEN "rest" ELSE op>>
              f == Frame(op, fin, op = "data" /\ squeezed, part,
                         IF squeezed THEN pr.deflate ELSE <<>>)
          IN /\ squeezed => p # <<>>
             /\ op = "cont" \/ op = "ping" => fin /\ packed = pr.packed
             /\ PeerSends(f)
             /\ defPeer' = [pr EXCEPT !.sent = Append(@, f),
                  !.open = IF op = "ping" THEN @ ELSE IF fin THEN 0 ELSE id,
                  !.packed = IF op = "ping" THEN @ ELSE squeezed,
                  !.deflate = IF ~squeezed THEN @
                              ELSE IF fin /\ NoTakeover(p[1], PeerEnd) THEN <<>>
                              ELSE Append(@, part)]

\* The peer reads a piece and inflates a compressed one.
PeerReads ==
  /\ defWireOut # <<>>
  /\ LET f == defWireOut[1]
         pr == defPeer
         own == pr.agreement
     IN defPeer' = [pr EXCEPT
          !.got = Append(@, [f EXCEPT !.rsv1 = f.rsv1 /\ ~Inflates(f, pr.inflate), !.past = <<>>]),
          !.agreement = IF f.op = "head" /\ defRole = "server" THEN <<f.params>> ELSE @,
          !.inflate = IF ~f.rsv1 THEN @
                      ELSE IF NoTakeover(own[1][1], defRole) THEN <<>> ELSE Append(@, f.part)]
  /\ defWireOut' = Tail(defWireOut)
  /\ UNCHANGED <<defRole, defParams, defLayer, defApp, defWireIn>>

DeflateTerminated ==
  /\ Len(defApp.sent) > AppBound /\ Len(defPeer.sent) > PeerBound
  /\ Len(defPeer.got) = Len(defApp.sent) /\ Len(defApp.got) = Len(defPeer.sent)
  /\ UNCHANGED deflateVars

DeflateNext ==
  \/ AppWrites \/ AppFlushes \/ AppReads \/ PeerHead \/ PeerFrame \/ PeerReads
  \/ DeflateTerminated

----------------------------------------------------------------------------
Plain(f) == [f EXCEPT !.rsv1 = FALSE, !.past = <<>>]
PlainSeq(s) == [i \in DOMAIN s |-> Plain(s[i])]

\* The layer is invisible: whatever was agreed, however the streams are cut
\* and whoever fragments, both ends read what the other end wrote, in order
\* and inflated; nothing that was flushed stays behind; and a handshake
\* counts as negotiated once, exactly when both ends agreed.
DeflateTransparent ==
  /\ ~defLayer.err
  /\ IsPrefix(defApp.got, PlainSeq(defPeer.sent))
  /\ IsPrefix(defPeer.got, defApp.sent)
  /\ defLayer.flushed => defLayer.readyOut = <<>> /\ defLayer.rawOut = <<>>
  /\ defLayer.negotiated = IF defLayer.agreement \in {<<>>, << <<>> >>} THEN 0 ELSE 1
============================================================================
