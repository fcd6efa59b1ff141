------------------------------- MODULE WsRelay -------------------------------
(***************************************************************************)
(* One WebSocket session end to end: handleClientWebSocket and its         *)
(* transparent variants (internal/gateway/server.go), the tunnel, and      *)
(* handleWebSocket and its variants (internal/agent/agent.go).             *)
(*                                                                         *)
(* The variants differ in what ends a session.  Framed (the legacy and the *)
(* transparent tcp handlers) relays messages and a close frame, to a       *)
(* websocket or (tcp) a tcp upstream; raw relays bytes and ends with TRst. *)
(*                                                                         *)
(* Goroutines of the gateway: the handler (which relays to the client),    *)
(* the reader of the client, the one that waits for the context, readLoop. *)
(* Of the agent: readLoop, the handler (which relays to the upstream), the *)
(* reader of the upstream.  Messages are numbered 1, 2, ...  The number of *)
(* a WsClose or Rst frame tells what it stands for: Relayed if it passes   *)
(* on that the peer closed, Local if this side made it up.  As in          *)
(* HttpRelay the agent makes a stream of any frame with an unknown id.     *)
(***************************************************************************)
EXTENDS Naturals, Sequences

CONSTANTS Objs, None,
          GQueue, AQueue, \* the receive queues (640 and 128)
          Scenarios       \* the sessions, and what may happen to them

FaultKinds == {"dial",    \* the upstream refuses the connection
               "upgrade", \* the client cannot be upgraded
               "timeout", \* wsOpenTimeout fires
               "break",   \* the tunnel breaks
               "ping"}    \* the ping of the client fails

ASSUME WsAssumption ==
  /\ GQueue \in Nat \ {0} /\ AQueue \in Nat \ {0} /\ None \notin Objs
  /\ Scenarios \subseteq [relay : {"framed", "tcp", "raw"}, client : Nat, up : Nat,
                          faults : SUBSET FaultKinds]

VARIABLES
  sc,        \* the scenario of this session, which never changes
  \* gateway
  gpc,       \* the handler: "start", "open", "top", "recv", "return", "defer",
             \* "done"
  once,      \* closeOnce
  closeDone,
  ctx,       \* the session's context is done
  rdr,       \* the reader: "off", "read", "write", "close", "done"
  cw,        \* the context goroutine: "off", "wait", "checked", "close", "done"
  gst,       \* the stream: "open", "closing" (closedCh is closed, but it is
             \* still in the table), "closed"
  grx, grst, \* its queue; sendReset has yet to write
  gSkip,     \* deliver dropped a frame since closedCh was closed (history)
  \* client
  cSent,     \* messages of the client the gateway has read
  cGone,     \* the client: "no", "close" (sent a close frame, or half-closed),
             \* "drop", "ping" (closed here, since a ping failed)
  cGot,      \* messages it was written
  cEnd,      \* how the session ended for it: "no", "peer" (the upstream's
             \* close), "local", "cut"
  \* tunnel
  g2a, a2g, up, adown,
  \* agent
  amap, ast, arx, aclosed,
  aSkip,     \* deliverFrame dropped a frame since the stream was closed
  main,      \* the object the websocket handler runs on
  hpc,       \* the handler: "off", "dial", "relay", "done"
  aonce,     \* closeOnce
  ur,        \* the upstream's reader: "off", "read", "done"
  \* upstream
  uSent, uGone, uGot, uEnd

gw  == <<gpc, once, closeDone, ctx, rdr, cw>>
gs  == <<gst, grx, grst, gSkip>>
cl  == <<cSent, cGone, cGot, cEnd>>
net == <<g2a, a2g, up, adown>>
ags == <<amap, ast, arx, aclosed, aSkip>>
ag  == <<main, hpc, aonce, ur>>
ups == <<uSent, uGone, uGot, uEnd>>
vars == <<sc, gw, gs, cl, net, ags, ag, ups>>

Raw == sc.relay = "raw"
Tcp == sc.relay = "tcp"
NClient == sc.client  \* messages the client may send
NUp == sc.up          \* messages the upstream may send
Faults == sc.faults   \* what the environment may do

Local == 0
Relayed == 1
Frame(t, n) == [t |-> t, n |-> n]

Frames == [t : {"ReqStart", "OpenOK", "OpenErr"}, n : {0}]
          \cup [t : {"WsClose", "Rst"}, n : {Local, Relayed}]
          \cup [t : {"C2A"}, n : 1..NClient] \cup [t : {"A2C"}, n : 1..NUp]

Ends == {"no", "peer", "local", "cut"}

\* How an end that is told by frame f sees the session end.
EndKind(f, gone) ==
  IF gone \in {"drop", "ping"} THEN "cut"
  ELSE IF f.n = Relayed THEN "peer"
  ELSE IF f.t = "WsClose" THEN "local" ELSE "cut"

TypeOK ==
  /\ sc \in Scenarios
  /\ gpc \in {"start", "open", "top", "recv", "return", "defer", "done"}
  /\ once \in BOOLEAN /\ closeDone \in BOOLEAN /\ ctx \in BOOLEAN
  /\ rdr \in {"off", "read", "write", "close", "done"}
  /\ cw \in {"off", "wait", "checked", "close", "done"}
  /\ gst \in {"open", "closing", "closed"} /\ gSkip \in BOOLEAN
  /\ grx \in Seq(Frames) /\ Len(grx) <= GQueue /\ grst \in BOOLEAN
  /\ cSent \in 0..NClient /\ cGone \in {"no", "close", "drop", "ping"}
  /\ cGot \in Seq(1..NUp) /\ cEnd \in Ends
  /\ g2a \in Seq(Frames) /\ a2g \in Seq(Frames) /\ up \in BOOLEAN /\ adown \in BOOLEAN
  /\ amap \in Objs \cup {None} /\ ast \in [Objs -> {"free", "first", "ws"}]
  /\ arx \in [Objs -> Seq(Frames)] /\ \A o \in Objs : Len(arx[o]) <= AQueue
  /\ aclosed \in SUBSET Objs /\ aSkip \in BOOLEAN /\ main \in Objs \cup {None}
  /\ hpc \in {"off", "dial", "relay", "done"} /\ aonce \in BOOLEAN
  /\ ur \in {"off", "read", "done"}
  /\ uSent \in 0..NUp /\ uGone \in {"no", "close", "drop"}
  /\ uGot \in Seq(1..NClient) /\ uEnd \in Ends

Init ==
  /\ sc \in Scenarios
  /\ gpc = "start" /\ once = FALSE /\ closeDone = FALSE /\ ctx = FALSE
  /\ rdr = "off" /\ cw = "off"
  /\ gst = "open" /\ grx = <<>> /\ grst = FALSE /\ gSkip = FALSE
  /\ cSent = 0 /\ cGone = "no" /\ cGot = <<>> /\ cEnd = "no"
  /\ g2a = <<>> /\ a2g = <<>> /\ up = TRUE /\ adown = FALSE
  /\ amap = None /\ ast = [o \in Objs |-> "free"]
  /\ arx = [o \in Objs |-> <<>>] /\ aclosed = {} /\ aSkip = FALSE
  /\ main = None /\ hpc = "off" /\ aonce = FALSE /\ ur = "off"
  /\ uSent = 0 /\ uGone = "no" /\ uGot = <<>> /\ uEnd = "no"

-----------------------------------------------------------------------------
(* Gateway: the stream.                                                    *)

\* writeFrame; it fails if the tunnel is broken.
Write(f) == g2a' = IF up THEN Append(g2a, f) ELSE g2a

\* stream.send: nothing is written on a closed stream.
Send(f) == IF gst = "open" THEN Write(f) ELSE UNCHANGED g2a

\* closeWithErr: close(closedCh), unless another closer was first, ...
CloseGst == gst' = IF gst = "open" THEN "closing" ELSE gst

\* ... and forgetStream.
ForgetStream ==
  /\ gst = "closing"
  /\ gst' = "closed"
  /\ UNCHANGED <<sc, grx, grst, gSkip, gw, cl, net, ags, ag, ups>>

\* Seeded fault: the queue grows without bound.
DeliverUnbounded(f) ==
  /\ grx' = IF gst # "closed" THEN Append(grx, f) ELSE grx
  /\ UNCHANGED <<gst, grst, gSkip>>

\* getStream and deliver.  Once closedCh is closed select takes either ready
\* case, so a frame may be dropped and the next one still be queued.  A full
\* queue resets the stream (which readLoop itself forgets).
Deliver(f) ==
  \/ gst = "closed" /\ UNCHANGED gs
  \/ /\ gst # "closed" /\ Len(grx) < GQueue
     /\ grx' = Append(grx, f) /\ UNCHANGED <<gst, grst, gSkip>>
  \/ gst = "closing" /\ gSkip' = TRUE /\ UNCHANGED <<gst, grx, grst>>
  \/ /\ gst = "open" /\ Len(grx) = GQueue
     /\ gst' = "closed" /\ grst' = TRUE /\ UNCHANGED <<grx, gSkip>>

GatewayReads ==
  /\ a2g # <<>>
  /\ a2g' = Tail(a2g)
  /\ Deliver(Head(a2g))
  /\ UNCHANGED <<sc, gw, cl, g2a, up, adown, ags, ag, ups>>

SendReset ==
  /\ grst
  /\ grst' = FALSE
  /\ Write(Frame("Rst", Local))
  /\ UNCHANGED <<sc, gst, grx, gSkip, gw, cl, a2g, up, adown, ags, ag, ups>>

GatewayDisconnects ==
  /\ ~up /\ gst = "open"
  /\ gst' = "closed"
  /\ UNCHANGED <<sc, grx, grst, gSkip, gw, cl, net, ags, ag, ups>>

TunnelBreaks ==
  /\ "break" \in Faults /\ up
  /\ up' = FALSE /\ g2a' = <<>>
  /\ \E k \in 0..Len(a2g) : a2g' = SubSeq(a2g, 1, k)
  /\ UNCHANGED <<sc, adown, gw, gs, cl, ags, ag, ups>>

-----------------------------------------------------------------------------
(* Gateway: the handler until the client is upgraded.                      *)

SendReqStart ==
  /\ gpc = "start"
  /\ Send(Frame("ReqStart", 0))
  /\ gpc' = IF gst = "open" /\ up THEN "open" ELSE "return"
  /\ UNCHANGED <<sc, once, closeDone, ctx, rdr, cw, gs, cl, a2g, up, adown, ags, ag, ups>>

\* TWsOpenErr: the client gets the error.  Anything but TWsOpenOK: TRst.
OpenRefused ==
  /\ gpc = "open" /\ grx # <<>> /\ Head(grx).t # "OpenOK"
  /\ grx' = Tail(grx)
  /\ IF Head(grx).t = "OpenErr" THEN UNCHANGED g2a ELSE Send(Frame("Rst", Local))
  /\ gpc' = "return"
  /\ UNCHANGED <<sc, once, closeDone, ctx, rdr, cw, gst, grst, gSkip, cl, a2g, up, adown, ags, ag, ups>>

\* Seeded fault: the agent is not told that nobody waits any more.
OpenFailsSilently ==
  /\ gpc = "open" /\ (gst # "open" \/ "timeout" \in Faults)
  /\ gpc' = "return"
  /\ UNCHANGED <<sc, once, closeDone, ctx, rdr, cw, gs, cl, net, ags, ag, ups>>

\* recv fails: the timer fires or the stream is closed.
OpenFails ==
  /\ gpc = "open" /\ (gst # "open" \/ "timeout" \in Faults)
  /\ Send(Frame("Rst", Local))
  /\ gpc' = "return"
  /\ UNCHANGED <<sc, once, closeDone, ctx, rdr, cw, gs, cl, a2g, up, adown, ags, ag, ups>>

\* TWsOpenOK: Upgrade (Hijack) succeeds and the goroutines start, or fails.
\* The framed handlers also end with TRst for a bad subprotocol.
Opened ==
  /\ gpc = "open" /\ grx # <<>> /\ Head(grx).t = "OpenOK"
  /\ grx' = Tail(grx)
  /\ \/ /\ gpc' = "top" /\ rdr' = "read" /\ cw' = IF Raw THEN "off" ELSE "wait"
        /\ UNCHANGED g2a
     \/ /\ "upgrade" \in Faults /\ gpc' = "return"
        /\ \/ Send(Frame("Rst", Local))
           \/ ~Raw /\ Send(Frame("WsClose", Local))
        /\ UNCHANGED <<rdr, cw>>
  /\ UNCHANGED <<sc, once, closeDone, ctx, gst, grst, gSkip, cl, a2g, up, adown, ags, ag, ups>>

-----------------------------------------------------------------------------
(* Gateway: the relay to the client.                                       *)

\* The client's side of the socket is gone, or this side closed it.
ClientUnreadable == cGone # "no" \/ gpc \in {"defer", "done"}

\* sendCloseToAgent (framed): the first caller sends.
SendCloseToAgent(n) ==
  /\ once' = TRUE
  /\ IF once THEN UNCHANGED g2a ELSE Send(Frame("WsClose", n))

\* closeStream (raw): the first caller sends TRst, closes the stream and
\* ends the context.
CloseStreamRaw(n) ==
  /\ once' = TRUE /\ ctx' = TRUE
  /\ IF once THEN UNCHANGED <<g2a, gst>>
             ELSE Send(Frame("Rst", n)) /\ CloseGst

Top ==
  /\ gpc = "top"
  /\ gpc' = IF ctx THEN "return" ELSE "recv"
  /\ UNCHANGED <<sc, once, closeDone, ctx, rdr, cw, gs, cl, net, ags, ag, ups>>

\* recv returns an error; select may also prefer a frame.
RecvFails ==
  /\ gpc = "recv" /\ gst # "open"
  /\ gpc' = "return"
  /\ cEnd' = IF cEnd = "no" THEN "cut" ELSE cEnd
  /\ IF Raw THEN CloseStreamRaw(Local) ELSE UNCHANGED <<once, ctx, g2a, gst>>
  /\ UNCHANGED <<sc, closeDone, rdr, cw, grx, grst, gSkip, cSent, cGone, cGot, a2g, up, adown,
                 ags, ag, ups>>

\* WriteMessage; a client that is gone may still swallow the message.
RelayToClient ==
  /\ gpc = "recv" /\ grx # <<>> /\ Head(grx).t = "A2C"
  /\ grx' = Tail(grx)
  /\ cGot' = IF cGone \in {"drop", "ping"} THEN cGot ELSE Append(cGot, Head(grx).n)
  /\ gpc' = "top"
  /\ UNCHANGED <<sc, once, closeDone, ctx, rdr, cw, gst, grst, gSkip, cSent, cGone, cEnd, net,
                 ags, ag, ups>>

\* WriteMessage fails: TRst (or the close code in the error), cancel.
ClientWriteFails ==
  /\ gpc = "recv" /\ grx # <<>> /\ Head(grx).t = "A2C" /\ cGone # "no"
  /\ grx' = Tail(grx)
  /\ gpc' = "return"
  /\ \/ Raw /\ CloseStreamRaw(Local)
     \/ ~Raw /\ SendCloseToAgent(Local) /\ ctx' = TRUE /\ UNCHANGED gst
     \/ ~Raw /\ Send(Frame("Rst", Local)) /\ ctx' = TRUE /\ UNCHANGED <<once, gst>>
  /\ closeDone' = (closeDone \/ (~Raw /\ once'))
  /\ UNCHANGED <<sc, rdr, cw, grst, gSkip, cl, a2g, up, adown, ags, ag, ups>>

\* Seeded fault: the close of the upstream is passed on by the reader of the
\* frame while messages before it still wait.
UpstreamClosedEarly ==
  /\ gpc = "recv" /\ \E i \in DOMAIN grx : grx[i].t \in {"WsClose", "Rst"}
  /\ grx' = <<>>
  /\ gpc' = "return"
  /\ cEnd' = "peer"
  /\ closeDone' = TRUE
  /\ UNCHANGED <<sc, once, ctx, g2a, gst, rdr, cw, grst, gSkip, cSent, cGone, cGot, a2g, up, adown,
                 ags, ag, ups>>

\* TWsClose: the client is sent the close frame.  TRst: it is cut off.  To
\* the raw relay both are the end of the bytes.
UpstreamClosed ==
  /\ gpc = "recv" /\ grx # <<>> /\ Head(grx).t \in {"WsClose", "Rst"}
  /\ grx' = Tail(grx)
  /\ gpc' = "return"
  /\ cEnd' = EndKind(Head(grx), cGone)
  /\ closeDone' = (closeDone \/ Head(grx).t = "WsClose")
  /\ IF Raw THEN CloseStreamRaw(Local) ELSE UNCHANGED <<once, ctx, g2a, gst>>
  /\ UNCHANGED <<sc, rdr, cw, grst, gSkip, cSent, cGone, cGot, a2g, up, adown, ags, ag, ups>>

\* The deferred calls: cancel and close the client, then close the stream.
Return ==
  /\ gpc = "return"
  /\ gpc' = "defer" /\ ctx' = TRUE
  /\ cEnd' = IF cEnd = "no" THEN "cut" ELSE cEnd
  /\ UNCHANGED <<sc, once, closeDone, rdr, cw, gs, cSent, cGone, cGot, net, ags, ag, ups>>

CloseStream ==
  /\ gpc = "defer"
  /\ gpc' = "done" /\ CloseGst
  /\ UNCHANGED <<sc, once, closeDone, ctx, rdr, cw, grx, grst, gSkip, cl, net, ags, ag, ups>>

-----------------------------------------------------------------------------
(* Gateway: the reader of the client and the context goroutine.            *)

\* A message: st.send looks at closedCh, ...
ReadClient ==
  /\ rdr = "read" /\ cSent < NClient /\ ~ClientUnreadable
  /\ cSent' = cSent + 1
  /\ \/ gst = "open" /\ rdr' = "write" /\ UNCHANGED <<once, ctx, g2a, gst>>
     \/ gst # "open" /\ Raw /\ rdr' = "done" /\ CloseStreamRaw(Local)
     \/ gst # "open" /\ ~Raw /\ rdr' = "done" /\ ctx' = TRUE /\ UNCHANGED <<once, g2a, gst>>
  /\ UNCHANGED <<sc, gpc, closeDone, cw, grx, grst, gSkip, cGone, cGot, cEnd, a2g, up, adown,
                 ags, ag, ups>>

\* Seeded fault: a message is written again after a success.
WriteToAgentTwice ==
  /\ rdr = "write"
  /\ up /\ Write(Frame("C2A", cSent)) /\ rdr' \in {"read", "write"}
  /\ UNCHANGED <<sc, once, ctx, gst, gpc, closeDone, cw, grx, grst, gSkip, cl, a2g, up, adown, ags,
                 ag, ups>>

\* ... and writes.
WriteToAgent ==
  /\ rdr = "write"
  /\ \/ up /\ Write(Frame("C2A", cSent)) /\ rdr' = "read" /\ UNCHANGED <<once, ctx, gst>>
     \/ ~up /\ Raw /\ rdr' = "done" /\ CloseStreamRaw(Local)
     \/ ~up /\ ~Raw /\ rdr' = "done" /\ ctx' = TRUE /\ UNCHANGED <<once, g2a, gst>>
  /\ UNCHANGED <<sc, gpc, closeDone, cw, grx, grst, gSkip, cl, a2g, up, adown, ags, ag, ups>>

\* ReadMessage fails: sendCloseToAgent with the client's code or 1001 (framed)
\* or closeStream (raw).
ReaderEnds ==
  /\ rdr = "read" /\ ClientUnreadable
  /\ LET n == IF cGone = "no" THEN Local ELSE Relayed IN
     IF Raw THEN rdr' = "done" /\ CloseStreamRaw(n)
            ELSE rdr' = "close" /\ SendCloseToAgent(n) /\ UNCHANGED <<ctx, gst>>
  /\ UNCHANGED <<sc, gpc, closeDone, cw, grx, grst, gSkip, cl, a2g, up, adown, ags, ag, ups>>

\* closeDone.Store, deferred cancel.
ReaderCancels ==
  /\ rdr = "close"
  /\ rdr' = "done" /\ closeDone' = TRUE /\ ctx' = TRUE
  /\ UNCHANGED <<sc, gpc, once, cw, gs, cl, net, ags, ag, ups>>

\* <-ctx.Done(): st.send(TRst) unless a close went either way, ...
ContextDone ==
  /\ cw = "wait" /\ ctx
  /\ cw' = IF ~closeDone /\ gst = "open" THEN "checked" ELSE "close"
  /\ UNCHANGED <<sc, gpc, once, closeDone, ctx, rdr, gs, cl, net, ags, ag, ups>>

ContextResets ==
  /\ cw = "checked"
  /\ cw' = "close" /\ Write(Frame("Rst", Local))
  /\ UNCHANGED <<sc, gpc, once, closeDone, ctx, rdr, gs, cl, a2g, up, adown, ags, ag, ups>>

\* ... and closeWithErr, which ends a blocked recv.
ContextCloses ==
  /\ cw = "close"
  /\ cw' = "done" /\ CloseGst
  /\ UNCHANGED <<sc, gpc, once, closeDone, ctx, rdr, grx, grst, gSkip, cl, net, ags, ag, ups>>

\* startClientWSPingLoop: a ping cannot be written; cancel, and wsClient.Close.
PingFails ==
  /\ "ping" \in Faults /\ ~Raw /\ gpc \in {"top", "recv"} /\ ~ctx
  /\ ctx' = TRUE
  /\ cGone' = "ping"
  /\ UNCHANGED <<sc, gpc, once, closeDone, rdr, cw, cSent, cGot, cEnd, gs, net, ags, ag, ups>>

ClientCloses ==
  /\ rdr # "off" /\ cGone = "no" /\ gpc \notin {"defer", "done"}
  /\ cGone' \in {"close", "drop"}
  /\ UNCHANGED <<sc, cSent, cGot, cEnd, gw, gs, net, ags, ag, ups>>

-----------------------------------------------------------------------------
(* Agent: the stream, as in HttpRelay.                                     *)

AgentSend(f) == a2g' = IF up THEN Append(a2g, f) ELSE a2g

\* forgetStream(id) unmaps and closes whatever object has the id now.
Forgotten == aclosed \cup ({amap} \ {None})

DeliverFrame(o, f) ==
  \/ /\ Len(arx[o]) < AQueue
     /\ arx' = [arx EXCEPT ![o] = Append(@, f)]
     /\ amap' = o /\ UNCHANGED <<aclosed, aSkip, a2g>>
  \/ /\ o \in aclosed /\ amap' = o /\ aSkip' = TRUE /\ UNCHANGED <<arx, aclosed, a2g>>
  \/ /\ Len(arx[o]) = AQueue /\ o \notin aclosed
     /\ AgentSend(Frame("Rst", Local))
     /\ amap' = None /\ aclosed' = aclosed \cup {o} /\ UNCHANGED <<arx, aSkip>>

AgentReads ==
  /\ up /\ g2a # <<>>
  /\ g2a' = Tail(g2a)
  /\ amap # None \/ \E o \in Objs : ast[o] = "free"
  /\ LET o == IF amap # None THEN amap ELSE CHOOSE x \in Objs : ast[x] = "free" IN
       /\ ast' = IF amap = None THEN [ast EXCEPT ![o] = "first"] ELSE ast
       /\ DeliverFrame(o, Head(g2a))
  /\ UNCHANGED <<sc, up, adown, gw, gs, cl, ag, ups>>

StreamReturns(o) ==
  /\ amap' = None
  /\ ast' = [ast EXCEPT ![o] = "free"]
  /\ arx' = [arx EXCEPT ![o] = <<>>]
  /\ aclosed' = Forgotten \ {o}

\* handleStream: the first frame must be TReqStart.
FirstFrame(o) ==
  /\ ast[o] = "first"
  /\ \/ /\ o \in aclosed /\ StreamReturns(o)
        /\ UNCHANGED <<a2g, ag>>
     \/ /\ arx[o] # <<>> /\ Head(arx[o]).t = "ReqStart"
        /\ ast' = [ast EXCEPT ![o] = "ws"]
        /\ arx' = [arx EXCEPT ![o] = Tail(@)]
        /\ main' = o /\ hpc' = "dial"
        /\ UNCHANGED <<amap, aclosed, a2g, aonce, ur>>
     \/ /\ arx[o] # <<>> /\ Head(arx[o]).t # "ReqStart"
        /\ AgentSend(Frame("Rst", Local)) /\ StreamReturns(o)
        /\ UNCHANGED ag
  /\ UNCHANGED <<sc, aSkip, gw, gs, cl, g2a, up, adown, ups>>

\* Run after readLoop failed: cancel, closeAllStreams.
AgentDisconnects ==
  /\ ~up /\ ~adown
  /\ adown' = TRUE
  /\ amap' = None /\ aclosed' = Forgotten
  /\ UNCHANGED <<sc, gw, gs, cl, g2a, a2g, up, ast, arx, aSkip, ag, ups>>

-----------------------------------------------------------------------------
(* Agent: the handler, which relays to the upstream.                       *)

\* The deferred close of the upstream and forgetStream.
HandlerReturns(end) ==
  /\ hpc' = "done"
  /\ uEnd' = IF uEnd = "no" THEN end ELSE uEnd

DialFails ==
  /\ hpc = "dial" /\ ("dial" \in Faults \/ adown)
  /\ AgentSend(Frame("OpenErr", 0))
  /\ hpc' = "done" /\ amap' = None /\ aclosed' = Forgotten
  /\ UNCHANGED <<sc, main, aonce, ur, gw, gs, cl, g2a, up, adown, ast, arx, aSkip, ups>>

\* The dial succeeds; TWsOpenOK, and the reader starts if it was sent.
Dialed ==
  /\ hpc = "dial"
  /\ AgentSend(Frame("OpenOK", 0))
  /\ \/ up /\ hpc' = "relay" /\ ur' = "read" /\ UNCHANGED <<uEnd, amap, aclosed>>
     \/ ~up /\ HandlerReturns("cut") /\ amap' = None /\ aclosed' = Forgotten /\ UNCHANGED ur
  /\ UNCHANGED <<sc, main, aonce, gw, gs, cl, g2a, up, adown, ast, arx, aSkip, uSent, uGone, uGot>>

\* The end of a session as the agent's side tells it: once, then st.close.
EndFrame(n) == Frame(IF Raw THEN "Rst" ELSE "WsClose", n)

TellGateway(n) ==
  /\ aonce' = TRUE
  /\ IF aonce THEN UNCHANGED a2g ELSE AgentSend(EndFrame(n))

StreamClosed ==
  /\ hpc = "relay" /\ (main \in aclosed \/ adown)
  /\ HandlerReturns("cut")
  /\ amap' = None /\ aclosed' = Forgotten
  /\ UNCHANGED <<sc, main, aonce, ur, gw, gs, cl, net, ast, arx, aSkip, uSent, uGone, uGot>>

NextFrame(t) == hpc = "relay" /\ arx[main] # <<>> /\ Head(arx[main]).t \in t

\* The write blocks until the upstream takes the message.  One that is gone may
\* still swallow it; one that only ended its own direction (EOF) still gets it.
RelayToUpstream ==
  /\ NextFrame({"C2A"})
  /\ arx' = [arx EXCEPT ![main] = Tail(@)]
  /\ uGot' = IF uGone = "drop" THEN uGot ELSE Append(uGot, Head(arx[main]).n)
  /\ UNCHANGED <<sc, amap, ast, aclosed, aSkip, gw, gs, cl, net, ag, uSent, uGone, uEnd>>

UpstreamWriteFails ==
  /\ NextFrame({"C2A"}) /\ uGone # "no"
  /\ arx' = [arx EXCEPT ![main] = Tail(@)]
  /\ TellGateway(Local)
  /\ HandlerReturns("cut")
  /\ amap' = None /\ aclosed' = Forgotten \cup {main}
  /\ UNCHANGED <<sc, ast, aSkip, main, ur, gw, gs, cl, g2a, up, adown, uSent, uGone, uGot>>

\* TWsClose (with the close frame for a websocket upstream) and TRst; the raw
\* relay answers with TRst.
GatewayClosed ==
  /\ NextFrame({"WsClose", "Rst"})
  /\ arx' = [arx EXCEPT ![main] = Tail(@)]
  /\ HandlerReturns(EndKind(Head(arx[main]), uGone))
  /\ IF Raw THEN TellGateway(Local) ELSE UNCHANGED <<a2g, aonce>>
  /\ amap' = None /\ aclosed' = Forgotten \cup (IF Raw THEN {main} ELSE {})
  /\ UNCHANGED <<sc, ast, aSkip, main, ur, gw, gs, cl, g2a, up, adown, uSent, uGone, uGot>>

-----------------------------------------------------------------------------
(* Agent: the reader of the upstream.                                      *)

ReadUpstream ==
  /\ ur = "read" /\ uSent < NUp /\ uGone = "no" /\ hpc # "done"
  /\ uSent' = uSent + 1
  /\ AgentSend(Frame("A2C", uSent + 1))
  /\ ur' = IF up THEN "read" ELSE "done"
  /\ UNCHANGED <<sc, main, hpc, aonce, gw, gs, cl, g2a, up, adown, ags, uGone, uGot, uEnd>>

\* Seeded fault: the end of the upstream is not passed on.
UpstreamEndsSilently ==
  /\ ur = "read" /\ (uGone # "no" \/ hpc = "done")
  /\ ur' = "done"
  /\ UNCHANGED <<sc, main, hpc, aonce, gw, gs, cl, net, ags, ups>>

\* The upstream closed, or the handler closed the connection to it (which
\* only the reader of a tcp upstream tells apart).
UpstreamEnds ==
  /\ ur = "read" /\ (uGone # "no" \/ hpc = "done")
  /\ ur' = "done"
  /\ \/ hpc = "done" /\ Tcp /\ UNCHANGED <<aonce, a2g, aclosed>>
     \/ hpc = "done" /\ ~Tcp /\ TellGateway(Local) /\ aclosed' = aclosed
     \/ uGone # "no" /\ TellGateway(Relayed) /\ aclosed' = aclosed \cup ({main} \ {None})
  /\ UNCHANGED <<sc, main, hpc, gw, gs, cl, g2a, up, adown, amap, ast, arx, aSkip, ups>>

UpstreamCloses ==
  /\ ur = "read" /\ uGone = "no" /\ hpc # "done"
  /\ uGone' \in {"close", "drop"}
  /\ UNCHANGED <<sc, uSent, uGot, uEnd, gw, gs, cl, net, ags, ag>>

-----------------------------------------------------------------------------
Relay == Top \/ RecvFails \/ RelayToClient \/ ClientWriteFails \/ UpstreamClosed
         \/ Return \/ CloseStream
Opening == SendReqStart \/ OpenRefused \/ OpenFails \/ Opened
Reader == ReadClient \/ WriteToAgent \/ ReaderEnds \/ ReaderCancels
Context == ContextDone \/ ContextResets \/ ContextCloses
Agent == DialFails \/ Dialed \/ StreamClosed \/ RelayToUpstream
         \/ UpstreamWriteFails \/ GatewayClosed
UpReader == ReadUpstream \/ UpstreamEnds

\* Everything is over: nothing is left to happen.
Quiet ==
  /\ gpc = "done" /\ gst = "closed" /\ rdr \in {"off", "done"}
  /\ cw \in {"off", "done"} /\ ~grst
  /\ g2a = <<>> /\ a2g = <<>>
  /\ hpc \in {"off", "done"} /\ ur \in {"off", "done"}
  /\ \A o \in Objs : ast[o] # "first"

Finished == Quiet /\ UNCHANGED vars

Next ==
  \/ Opening \/ Relay \/ Reader \/ Context \/ PingFails \/ ClientCloses
  \/ GatewayReads \/ ForgetStream \/ SendReset \/ GatewayDisconnects \/ TunnelBreaks
  \/ AgentReads \/ (\E o \in Objs : FirstFrame(o)) \/ AgentDisconnects
  \/ Agent \/ UpReader \/ UpstreamCloses
  \/ Finished

Spec == Init /\ [][Next]_vars

\* Every goroutine that can take a step does, dials end and the upstream
\* takes what it is sent.  Neither end needs to send or to close.
FairSpec ==
  /\ Spec
  /\ WF_vars(SendReqStart) /\ WF_vars(OpenRefused) /\ WF_vars(OpenFails)
  /\ WF_vars(Opened)
  /\ WF_vars(Relay) /\ WF_vars(WriteToAgent \/ ReaderEnds \/ ReaderCancels)
  /\ WF_vars(Context)
  /\ WF_vars(GatewayReads) /\ WF_vars(ForgetStream) /\ WF_vars(SendReset)
  /\ WF_vars(GatewayDisconnects)
  /\ WF_vars(AgentReads) /\ WF_vars(AgentDisconnects)
  /\ \A o \in Objs : WF_vars(FirstFrame(o))
  /\ WF_vars(Agent) /\ WF_vars(UpstreamEnds)

-----------------------------------------------------------------------------
(* Properties.                                                             *)

InOrder(q) == \A i, j \in DOMAIN q : i < j => q[i] < q[j]
NoGap(q) == \A i \in DOMAIN q : q[i] = i

\* Messages arrive in order in both directions, whatever overflows and whoever
\* closes, and without gaps, unless deliver dropped one between the close of
\* closedCh and the end of the handler.  That happens only at an end that the
\* session has been given up at: a cancelled context, an upstream that closed
\* (stream.go:39-58, server.go:790-811, agent.go:518-530, 780-815).
Ordered ==
  /\ InOrder(cGot) /\ InOrder(uGot)
  /\ gSkip \/ NoGap(cGot)
  /\ aSkip \/ NoGap(uGot)
  /\ gSkip => ctx
  /\ aSkip => uGone # "no"

\* An end that is told of its peer's close has got everything the peer sent
\* before, but for what deliver dropped as above: a close never overtakes a
\* message, and one made up here is never presented as the peer's
\* (server.go:794-801, 842-852, agent.go:783-790, 825-832).
CloseCarriesAll ==
  /\ cEnd = "peer" => gSkip \/ Len(cGot) = uSent
  /\ uEnd = "peer" => aSkip \/ Len(uGot) = cSent

\* What a failed ping may leave: the gateway is done with the session, and the
\* agent, which nobody told, keeps it and its upstream.
LeftByPing ==
  /\ gpc = "done" /\ gst = "closed" /\ rdr = "done" /\ cw = "done" /\ ~grst
  /\ cGone = "ping"
  /\ hpc = "relay" /\ up /\ g2a = <<>> /\ arx[main] = <<>> /\ main \notin aclosed

\* A session that is over on the gateway is soon over everywhere: the agent is
\* told, closes the upstream, and late frames and the resets that answer them
\* die out.  The one exception is a session whose ping failed: cancel and Close
\* let the handler close the stream before either goroutine has told the agent
\* (server.go:771, 782-788, 842-855, agent.go:541-545).
DiesOut == gpc = "done" ~> [](Quiet \/ LeftByPing)

\* A session whose upstream is gone, or that is over on the agent for another
\* reason, ends for the client (agent.go:783-790, 1086-1096, server.go:842-855).
EndReachesClient == hpc = "done" \/ uGone # "no" ~> gpc = "done"

=============================================================================
