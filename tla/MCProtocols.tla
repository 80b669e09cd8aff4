----------------------------- MODULE MCProtocols -----------------------------
(***************************************************************************)
(* Parts of the system that share no state, checked in one run: the        *)
(* initial state chooses one of them, and only its variables change.  The  *)
(* state space is the sum of theirs.                                       *)
(***************************************************************************)
EXTENDS Capture, Token, AgentLease, SocketIo, TLC

CONSTANTS s1, s2, h1, h2

\* Two sessions of one machine, or of two agents.
MCHomes == {s1 :> h1 @@ s2 :> h1, s1 :> h1 @@ s2 :> h2}

VARIABLE part

ProtocolsInit ==
  /\ part \in {"capture", "token", "lease", "socketio"}
  /\ CaptureInit
  /\ part # "capture" => ~capMerged /\ capHome = s1 :> h1 @@ s2 :> h1
  /\ TokenInit /\ (part # "token" => tokSource = "value")
  /\ LeaseInit /\ (part # "lease" => ~leaseTls)
  /\ SocketIoInit /\ (part # "socketio" => sioEngine = "V4" /\ sioRoot)

ProtocolsNext ==
  /\ UNCHANGED part
  /\ \/ /\ part = "capture" /\ CaptureNext
        /\ UNCHANGED <<tokenVars, leaseVars, socketIoVars>>
     \/ /\ part = "token" /\ TokenNext
        /\ UNCHANGED <<captureVars, leaseVars, socketIoVars>>
     \/ /\ part = "lease" /\ LeaseNext
        /\ UNCHANGED <<captureVars, tokenVars, socketIoVars>>
     \/ /\ part = "socketio" /\ SocketIoNext
        /\ UNCHANGED <<captureVars, tokenVars, leaseVars>>

\* Threads and tasks that can take a step take one, timers fire and a record
\* once begun is queued or refused.  Nothing is assumed of when sessions end,
\* when credentials change, of the agents' coordinators, or of the server.
CaptureFairness ==
  /\ WF_captureVars(part = "capture" /\ \E s \in CapSessions :
       RecordClaims(s) \/ RecordQueued(s) \/ RecordRefused(s))
  /\ WF_captureVars(part = "capture" /\ CaptureThreads)
  /\ WF_captureVars(part = "capture" /\ CaptureTasks)
  /\ WF_captureVars(part = "capture" /\ MergedRecord)
TokenFairness ==
  /\ WF_tokenVars(part = "token" /\ TokenTick)
  /\ \A a \in TokenAgents :
       /\ WF_tokenVars(part = "token" /\ FollowSends(a))
       /\ WF_tokenVars(part = "token" /\ AgentReceives(a))
SocketIoFairness ==
  /\ WF_socketIoVars(part = "socketio" /\ ~SocketIoOver /\ SocketIoLoop)
  /\ WF_socketIoVars(part = "socketio" /\ ~SocketIoOver /\ PumpSends)

Spec ==
  /\ ProtocolsInit
  /\ [][ProtocolsNext]_<<part, captureVars, tokenVars, leaseVars, socketIoVars>>
  /\ CaptureFairness /\ TokenFairness /\ SocketIoFairness
============================================================================
