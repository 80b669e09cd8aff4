----------------------------- MODULE ActionLoop -----------------------------
(***************************************************************************)
(* The session loop of a scenario phase with an action script:             *)
(* run_action_loop in src/worker.rs.  The script is repeated until the     *)
(* session ends.  A Send action is a burst of messages, each claimed, sent *)
(* and, in echo mode, answered like a request of run_echo_loop; Wait and   *)
(* Ping pause; Close ends the worker.  What happens during the burst of a  *)
(* named action is also counted for its name.                              *)
(***************************************************************************)
EXTENDS EchoLoop, Sequences

CONSTANTS
  ActionNames,     \* the names of the scenario's named actions
  NoAction,        \* current_action: None
  AwaitsReplies    \* echo mode; stream and listen scripts only send

ASSUME ActionAssumption == AwaitsReplies \in BOOLEAN /\ NoAction \notin ActionNames

VARIABLES
  at,         \* [w |-> the position of w in its phase's script]
  left,       \* [w |-> sends left in the burst]
  current,    \* [w |-> WorkerMetrics::current_action]
  act         \* [w |-> [name |-> ActionCounts]]

actionVars == <<at, left, current, act>>

\* ScenarioAction: count and name are read of a Send only.
Action == [type: {"Send", "Wait", "Ping", "Close"}, count: Nat,
           name: ActionNames \cup {NoAction}]

ActionPC == EchoPC \cup {"action", "burst", "think", "wait", "ping"}

ActionCounters == {"sent", "errors", "sentErrors"}
NoCounts == [n \in ActionNames |-> [c \in ActionCounters |-> 0]]

ActionInit ==
  /\ at = [w \in Workers |-> 1]
  /\ left = [w \in Workers |-> 0]
  /\ current = [w \in Workers |-> NoAction]
  /\ act = [w \in Workers |-> NoCounts]

\* action_counts: what w's counters gain in a step also counts for the
\* action current at its start; no step both records and changes it.
CountForAction(w) ==
  act' = IF current[w] = NoAction THEN act
         ELSE [act EXCEPT ![w][current[w]] =
                [c \in ActionCounters |-> @[c] + stats'.of[w][c] - stats.of[w][c]]]

\* Mutant: the action survives the end of its session.
ActionAcrossSessions(w) == UNCHANGED current

\* handshake() clears the current action before every attempt: a session may
\* have ended in the middle of a burst.
ActionOfHandshake(w) ==
  current' = IF pc'[w] = "handshake" THEN [current EXCEPT ![w] = NoAction]
                                     ELSE current

LifecycleStep(w) ==
  /\ Lifecycle(w)
  /\ ActionOfHandshake(w)
  /\ CountForAction(w)
  /\ UNCHANGED <<at, left>>

----------------------------------------------------------------------------
\* The head of the script.
ScriptTop(w) ==
  /\ pc[w] = "top"
  /\ IF Cancelled(w)
     THEN Goto(w, "ended") /\ UNCHANGED at
     ELSE Goto(w, "action") /\ at' = [at EXCEPT ![w] = 1]
  /\ UNCHANGED <<claimed, stats, runTok, childTok, connected, left, current, act>>

\* Before every action: the run is over, or its limit is used up and this
\* worker stops it.
ScriptStops(w) ==
  /\ pc[w] = "action"
  /\ Cancelled(w) \/ MaxRequestsReached
  /\ IF MaxRequestsReached THEN CancelSelf(w) ELSE UNCHANGED <<runTok, childTok>>
  /\ Goto(w, "ended")
  /\ UNCHANGED <<claimed, stats, connected, actionVars>>

\* The next action a of the script begins.
ActionBegins(w, a) ==
  /\ pc[w] = "action"
  /\ ~Cancelled(w) /\ ~MaxRequestsReached
  /\ Goto(w, CASE a.type = "Send"  -> "burst"
               [] a.type = "Wait"  -> "wait"
               [] a.type = "Ping"  -> "ping"
               [] a.type = "Close" -> "finished")
  /\ IF a.type = "Send"
     THEN current' = [current EXCEPT ![w] = a.name] /\ left' = [left EXCEPT ![w] = a.count]
     ELSE UNCHANGED <<current, left>>
  /\ UNCHANGED <<claimed, stats, runTok, childTok, connected, at, act>>

\* The head of the burst's loop.
BurstGoesOn(w) ==
  /\ pc[w] = "burst"
  /\ left[w] > 0
  /\ IF Cancelled(w)
     THEN Goto(w, "ended") /\ UNCHANGED left
     ELSE Goto(w, "slot") /\ left' = [left EXCEPT ![w] = @ - 1]
  /\ UNCHANGED <<claimed, stats, runTok, childTok, connected, at, current, act>>

\* Think time follows a burst.
BurstOver(w) ==
  /\ pc[w] = "burst"
  /\ left[w] = 0
  /\ current' = [current EXCEPT ![w] = NoAction]
  /\ Goto(w, "think")
  /\ UNCHANGED <<claimed, stats, runTok, childTok, connected, at, left, act>>

\* The slot is due and the send is claimed; chaos may drop or delay it.
BurstClaim(w) ==
  /\ pc[w] = "slot"
  /\ ClaimSucceeds
  /\ stats.of[w].sent + stats.of[w].dropped < SendBound
  /\ ClaimSend
  /\ \/ Goto(w, "send") /\ UNCHANGED stats
     \/ Chaos /\ Goto(w, "delay") /\ UNCHANGED stats
     \/ Chaos /\ Goto(w, "burst") /\ stats' = RecordChaosDropped(stats, w)
  /\ UNCHANGED <<runTok, childTok, connected>>

\* Unlike in run_echo_loop the write does not race cancellation.
BurstSend(w) ==
  /\ pc[w] = "send"
  /\ \/ Goto(w, IF AwaitsReplies THEN "reply" ELSE "pause") /\ stats' = RecordSent(stats, w)
     \/ Goto(w, "ended") /\ stats' = RecordAttemptError(stats, w)
  /\ UNCHANGED <<claimed, runTok, childTok, connected>>

\* A matching reply is recorded and checked.
BurstReply(w) ==
  /\ pc[w] = "reply"
  /\ ~Cancelled(w)
  /\ \/ stats' = RecordRecv(stats, w)
     \/ Checks /\ stats' = RecordSentError(RecordRecv(stats, w), w)
  /\ Goto(w, "pause")
  /\ UNCHANGED <<claimed, runTok, childTok, connected>>

\* A chaos read pause that is cancelled, or a chaos close, ends the session.
BurstPause(w) ==
  /\ pc[w] = "pause"
  /\ \/ Goto(w, "burst")
     \/ Chaos /\ Goto(w, "ended")
  /\ UNCHANGED <<claimed, stats, runTok, childTok, connected>>

\* One message of a burst; its waits for a slot, a delay and a reply are
\* those of run_echo_loop.
BurstMessage(w) ==
  /\ \/ EchoSlotCancelled(w) \/ EchoLimitReached(w) \/ BurstClaim(w)
     \/ EchoDelay(w) \/ BurstSend(w)
     \/ EchoReplyCancelled(w) \/ BurstReply(w) \/ EchoServerClose(w)
     \/ EchoReplyFails(w) \/ BurstPause(w)
  /\ CountForAction(w)
  /\ UNCHANGED <<at, left, current>>

PingWrite(w) ==
  /\ pc[w] = "ping"
  /\ \/ Goto(w, "wait") /\ UNCHANGED stats
     \/ Goto(w, "ended") /\ stats' = RecordAttemptError(stats, w)
  /\ CountForAction(w)
  /\ UNCHANGED <<claimed, runTok, childTok, connected, at, left, current>>

\* Think time, a Wait and the interval of a Ping race cancellation; after
\* them comes the next of n actions, after the last the first.
ActionPauseOver(w, n) ==
  /\ pc[w] \in {"think", "wait"}
  /\ \/ at[w] < n /\ Goto(w, "action") /\ at' = [at EXCEPT ![w] = @ + 1]
     \/ at[w] = n /\ Goto(w, "top") /\ UNCHANGED at
     \/ Cancelled(w) /\ Goto(w, "ended") /\ UNCHANGED at
  /\ UNCHANGED <<claimed, stats, runTok, childTok, connected, left, current, act>>

ActionSession(w, script) ==
  \/ ScriptTop(w) \/ ScriptStops(w) \/ ActionBegins(w, script[at[w]])
  \/ BurstGoesOn(w) \/ BurstOver(w) \/ BurstMessage(w)
  \/ PingWrite(w) \/ ActionPauseOver(w, Len(script))
============================================================================
