------------------------------- MODULE Tunnel -------------------------------
(***************************************************************************)
(* The goroutines of one agent connection that share a socket, on both     *)
(* sides: who waits for writeMu, who for the peer to read, and how an      *)
(* error on one side ends the connection on the other.  writeFrame,        *)
(* readLoop and its ping handler (internal/gateway/agentconn.go); send,    *)
(* readLoop, deliverFrame, pingLoop and the closing part of Run            *)
(* (internal/agent/agent.go).                                              *)
(*                                                                         *)
(* Both readers write: the gateway's answers pings in the ping handler,    *)
(* the agent's resets a stream whose queue is full.  Each waits for a      *)
(* writeMu that is held over a write that may wait for the other reader.   *)
(*                                                                         *)
(* A side's buffer is all that is between its socket and the peer's reader.*)
(* A write into a full buffer lasts until there is room or its deadline    *)
(* passes.  gorilla/websocket keeps the first write error: all later       *)
(* writes of that side fail.                                               *)
(***************************************************************************)
EXTENDS Naturals, Sequences

CONSTANTS
  GWriters,  \* the gateway's handlers and reset goroutines that send frames
  AWriters,  \* the agent's stream handlers
  Cap,       \* messages a buffer holds
  None

ASSUME TunnelAssumption == Cap \in Nat \ {0}

Sides == {"gw", "ag"}
Peer(s) == IF s = "gw" THEN "ag" ELSE "gw"

GThreads == GWriters \cup {"greader"}
AThreads == AWriters \cup {"areader", "pinger", "closer"}
Threads == GThreads \cup AThreads
Side(t) == IF t \in GThreads THEN "gw" ELSE "ag"

VARIABLES
  pc,       \* of each goroutine: "idle" (a reader: in ReadMessage; a writer: may
            \* be in writeMu.Lock), "want" (in writeMu.Lock), "write" (holds it),
            \* "done" (returned)
  mu,       \* the holder of each side's writeMu
  buf,      \* the messages each side has written and the other has not read
  failed,   \* the sides whose writes fail from now on
  closed,   \* the sides that have closed their socket
  link,     \* "up", or "lost" without a sign to either side
  ctxDone   \* the context given to Run is cancelled

vars == <<pc, mu, buf, failed, closed, link, ctxDone>>

Messages == {"frame", "ping", "pong", "close"}

TypeOK ==
  /\ pc \in [Threads -> {"idle", "want", "write", "done"}]
  /\ mu \in [Sides -> Threads \cup {None}]
  /\ \A s \in Sides : buf[s] \in Seq(Messages) /\ Len(buf[s]) <= Cap
  /\ failed \subseteq Sides /\ closed \subseteq Sides
  /\ link \in {"up", "lost"} /\ ctxDone \in BOOLEAN

Init ==
  /\ pc = [t \in Threads |-> "idle"]
  /\ mu = [s \in Sides |-> None]
  /\ buf = [s \in Sides |-> <<>>]
  /\ failed = {} /\ closed = {} /\ link = "up" /\ ctxDone = FALSE

Goto(t, p) == pc' = [pc EXCEPT ![t] = p]

\* connCtx: cancelled with Run's context, or by Run when readLoop has returned.
ConnDone == ctxDone \/ pc["areader"] = "done"

-----------------------------------------------------------------------------
(* writeFrame, send and WriteControl, all under writeMu.                   *)

\* The pinger's ticker; its select may prefer it to a context that is done.
PingTick ==
  /\ pc["pinger"] = "idle"
  /\ Goto("pinger", "want")
  /\ UNCHANGED <<mu, buf, failed, closed, link, ctxDone>>

PingerQuits ==
  /\ pc["pinger"] = "idle" /\ ConnDone
  /\ Goto("pinger", "done")
  /\ UNCHANGED <<mu, buf, failed, closed, link, ctxDone>>

\* The goroutine of Run that waits for the context.
CloserStarts ==
  /\ pc["closer"] = "idle" /\ ConnDone
  /\ Goto("closer", "want")
  /\ UNCHANGED <<mu, buf, failed, closed, link, ctxDone>>

\* A handler may always have a frame to send, unless its reader has returned.
Wants(t) ==
  \/ pc[t] = "want"
  \/ t \in GWriters /\ pc[t] = "idle" /\ pc["greader"] # "done"
  \/ t \in AWriters /\ pc[t] = "idle" /\ pc["areader"] # "done"

Lock(t) ==
  /\ Wants(t) /\ mu[Side(t)] = None
  /\ mu' = [mu EXCEPT ![Side(t)] = t]
  /\ Goto(t, "write")
  /\ UNCHANGED <<buf, failed, closed, link, ctxDone>>

Message(t) ==
  CASE t = "pinger" -> "ping" [] t = "greader" -> "pong" [] t = "closer" -> "close"
    [] OTHER -> "frame"

\* After its write the closing goroutine closes the socket.
Closes(t) == IF t = "closer" THEN closed \cup {"ag"} ELSE closed

\* The message goes into the buffer.
Write(t) ==
  LET s == Side(t) IN
  /\ pc[t] = "write"
  /\ s \notin failed /\ s \notin closed /\ Len(buf[s]) < Cap
  /\ buf' = [buf EXCEPT ![s] = Append(@, Message(t))]
  /\ mu' = [mu EXCEPT ![s] = None]
  /\ Goto(t, IF t = "closer" THEN "done" ELSE "idle")
  /\ closed' = Closes(t)
  /\ UNCHANGED <<failed, link, ctxDone>>

\* Seeded fault: a full buffer is waited for without a deadline.
WriteErrorNoDeadline(s) == s \in failed \cup closed \/ Peer(s) \in closed

\* A write fails at once after an error or a close, and when its deadline (10 s
\* for a frame, 2 s for the others) finds the buffer full.
WriteError(s) ==
  \/ s \in failed \cup closed
  \/ Peer(s) \in closed
  \/ Len(buf[s]) = Cap

\* What follows an error: the pinger closes the socket and returns; the ping
\* handler ends ReadMessage, and with it readLoop; send and writeFrame return it.
WriteFails(t) ==
  /\ pc[t] = "write" /\ WriteError(Side(t))
  /\ failed' = failed \cup {Side(t)}
  /\ mu' = [mu EXCEPT ![Side(t)] = None]
  /\ Goto(t, IF t \in {"pinger", "greader", "closer"} THEN "done" ELSE "idle")
  /\ closed' = IF t = "pinger" THEN closed \cup {"ag"} ELSE Closes(t)
  /\ UNCHANGED <<buf, link, ctxDone>>

-----------------------------------------------------------------------------
(* The readers.                                                            *)

\* The gateway's readLoop: a frame is delivered without waiting, a ping is
\* answered, a close frame ends the loop.
GatewayReads ==
  /\ pc["greader"] = "idle" /\ link = "up" /\ "gw" \notin closed /\ buf["ag"] # <<>>
  /\ buf' = [buf EXCEPT !["ag"] = Tail(@)]
  /\ Goto("greader", CASE Head(buf["ag"]) = "ping" -> "want"
                       [] Head(buf["ag"]) = "close" -> "done"
                       [] OTHER -> "idle")
  /\ UNCHANGED <<mu, failed, closed, link, ctxDone>>

\* The agent's readLoop: a pong is noted, a frame delivered, or its stream is
\* reset because its queue is full.
AgentReads ==
  /\ pc["areader"] = "idle" /\ link = "up" /\ "ag" \notin closed /\ buf["gw"] # <<>>
  /\ buf' = [buf EXCEPT !["gw"] = Tail(@)]
  /\ \/ UNCHANGED pc
     \/ Head(buf["gw"]) = "frame" /\ Goto("areader", "want")
  /\ UNCHANGED <<mu, failed, closed, link, ctxDone>>

Reader(s) == IF s = "gw" THEN "greader" ELSE "areader"

\* ReadMessage fails, because the socket is closed or the peer has closed its
\* own, with or without what it wrote before.  The gateway's socket stays open.
ReadFails(s) ==
  /\ pc[Reader(s)] = "idle"
  /\ s \in closed \/ (Peer(s) \in closed /\ link = "up")
  /\ Goto(Reader(s), "done")
  /\ UNCHANGED <<mu, buf, failed, closed, link, ctxDone>>

\* The agent's read deadline, or the look at the context before a read.
AgentGivesUp ==
  /\ pc["areader"] = "idle"
  /\ Goto("areader", "done")
  /\ UNCHANGED <<mu, buf, failed, closed, link, ctxDone>>

\* closeAllStreams, wg.Wait and ws.Close after readLoop.
RunCloses ==
  /\ pc["areader"] = "done" /\ "ag" \notin closed
  /\ \A t \in AWriters : pc[t] = "idle"
  /\ closed' = closed \cup {"ag"}
  /\ UNCHANGED <<pc, mu, buf, failed, link, ctxDone>>

-----------------------------------------------------------------------------
(* The monitor, the user and the network.                                  *)

\* The heartbeat monitor closes the gateway's socket.
Evict ==
  /\ pc["greader"] # "done" /\ "gw" \notin closed
  /\ closed' = closed \cup {"gw"}
  /\ UNCHANGED <<pc, mu, buf, failed, link, ctxDone>>

Cancel ==
  /\ ~ctxDone /\ ctxDone' = TRUE
  /\ UNCHANGED <<pc, mu, buf, failed, closed, link>>

Lose ==
  /\ link = "up" /\ link' = "lost"
  /\ UNCHANGED <<pc, mu, buf, failed, closed, ctxDone>>

\* The connection is over on both sides.
Over == pc["greader"] = "done" /\ "ag" \in closed

Finished ==
  /\ Over /\ \A t \in Threads : pc[t] \in {"idle", "done"}
  /\ UNCHANGED vars

Next ==
  \/ \E t \in Threads : Lock(t) \/ Write(t) \/ WriteFails(t)
  \/ PingTick \/ PingerQuits \/ CloserStarts
  \/ GatewayReads \/ AgentReads \/ \E s \in Sides : ReadFails(s)
  \/ AgentGivesUp \/ RunCloses \/ Evict \/ Cancel \/ Lose \/ Finished

Spec == Init /\ [][Next]_vars

\* No pong can reach the agent any more.
NoPongs ==
  \/ link = "lost" \/ failed # {} \/ pc["greader"] = "done"
  \/ pc["pinger"] = "done" \/ ctxDone

\* The holder of a writeMu, and a reader.
Holder(s) == \E t \in Threads : Side(t) = s /\ (Write(t) \/ WriteFails(t))
GatewayReader == GatewayReads \/ ReadFails("gw")
AgentReader == AgentReads \/ ReadFails("ag")

\* Goroutines are scheduled; a Go mutex that is free again and again is not kept
\* from a waiter for ever (it is handed over after 1 ms); writes end, by their
\* deadline if by nothing else; reads of what has arrived return; tickers tick,
\* and a select with two ready cases takes each some time; the read deadline
\* passes when no pong moves it; and the monitor sees a peer that is lost.
\* Handlers need not send, and nobody need cancel, evict or lose anything.
Fairness ==
  /\ \A t \in {"greader", "areader", "pinger", "closer"} : SF_vars(Lock(t))
  /\ \A s \in Sides : WF_vars(Holder(s))
  /\ WF_vars(PingTick) /\ SF_vars(PingerQuits) /\ WF_vars(CloserStarts)
  /\ WF_vars(GatewayReader) /\ WF_vars(AgentReader)
  /\ WF_vars(NoPongs /\ AgentGivesUp) /\ WF_vars(RunCloses)
  /\ WF_vars(link = "lost" /\ Evict)

FairSpec == Spec /\ Fairness

-----------------------------------------------------------------------------
(* Properties.                                                             *)

\* Each writeMu is free again and again, so that whoever waits for it gets it,
\* although both readers may wait for writers that wait for the other reader,
\* and the link may be lost (agentconn.go:145-163, agent.go:243-257, 425-437,
\* 503-530).
WritersReturn == \A s \in Sides : []<>(mu[s] = None)

\* A write that failed on either side, or the agent's shutdown, ends the
\* connection on both: the gateway sends no more clients to it, and the agent
\* can dial again (agentconn.go:154, 157-167, agent.go:241-269, 430-434).
EndsOnBothSides == failed # {} \/ ctxDone ~> Over

=============================================================================
