------------------------------ MODULE HttpRelay ------------------------------
(***************************************************************************)
(* One HTTP request end to end: the client's handler on the gateway        *)
(* (handleClientHTTP, internal/gateway/server.go), the tunnel, and the     *)
(* agent's readLoop, handleStream and handleHTTP (internal/agent/agent.go) *)
(* talking to the upstream application.                                    *)
(*                                                                         *)
(* Goroutines: the handler, its cancellation watcher, the gateway's        *)
(* readLoop, the agent's readLoop, the agent's stream handler and the      *)
(* goroutine that feeds the request body to the upstream.  The agent makes *)
(* a stream of ANY frame whose id it does not know, so a frame that        *)
(* arrives late makes a second stream with the same id; Objs is the pool   *)
(* of those (which of the unused objects is taken does not matter).        *)
(*                                                                         *)
(* A body is the sequence of chunks 1, 2, ... n.  st.send looks at closedCh *)
(* first and writes afterwards: the two are separate steps (pend).         *)
(***************************************************************************)
EXTENDS Naturals, Sequences

CONSTANTS Objs, None,
          GQueue,       \* streamReceiveQueueFrames (640)
          AQueue,       \* the agent's receive queue (128)
          Scenarios     \* the requests, and what may happen to them

FaultKinds == {"cancel",    \* the client goes away
               "body",      \* reading the client's body fails
               "limit",     \* the body exceeds maxBodyBytes
               "break",     \* the tunnel breaks
               "refuse",    \* the agent refuses the request: a tcp target, a bad
                            \* TReqStart or method
               "upstream",  \* the upstream fails, before or in its response
               "stops",     \* the upstream stops reading the request body early
               "timeout",   \* firstRespTimeout or streamIdleTimeout fires
               "interim"}   \* the upstream sends an interim (1xx) response

ASSUME RelayAssumption ==
  /\ GQueue \in Nat \ {0} /\ AQueue \in Nat \ {0} /\ None \notin Objs
  /\ Scenarios \subseteq [req : Nat, res : Nat, trailers : BOOLEAN,
                          faults : SUBSET FaultKinds]

VARIABLES
  sc,      \* the scenario of this request, which never changes
  \* gateway
  gpc,     \* the handler: "start", "body", "trailer", "reqEnd", "head",
           \* "relay", "return", "done"
  pend,    \* <<frame, pc after success, pc after failure>>: the handler's
           \* st.send has looked at closedCh and is about to write; or <<>>
  sent,    \* chunks of the request body read and handed to st.send
  badBody, \* reading the body failed
  got,     \* chunks of the response written to the client
  why,     \* why the response ended: "none", "resEnd", "cut", "error"
  gst,     \* the stream: "open", "closing" (closedCh closed), "closed" (and
           \* forgotten)
  grx,     \* stream.rx
  grst,    \* the goroutine of sendReset has yet to write
  watch,   \* the watcher: "off", "wait", "checked", "sent", "done"
  gone,    \* r.Context() is done
  \* tunnel
  g2a, a2g, up,
  adown,   \* the agent has torn the connection down
  \* agent
  amap,    \* connState.streams[id]
  ast,     \* a stream object: "free", "first" (handleStream waits for its
           \* first frame), "http" (it is main)
  arx, aclosed,
  main,    \* the object handleHTTP runs on
  hpc,     \* handleHTTP: "off", "setup", "do", "resp", "trailer", "end",
           \* "waitBody", "done"
  bpc,     \* the body goroutine: "off", "run", "write", "done"
  chunk,   \* the chunk in pw.Write
  cancelled, \* reqCtx
  trailer, \* req.Trailer: "none", "declared", "set"
  \* upstream
  uGot, uEof, uSent, uEnd

gw  == <<gpc, pend, sent, badBody, got, why>>
gs  == <<gst, grx, grst>>
wat == <<watch, gone>>
net == <<g2a, a2g, up, adown>>
ags == <<amap, ast, arx, aclosed>>
ag  == <<main, hpc, bpc, chunk, cancelled, trailer>>
ups == <<uGot, uEof, uSent, uEnd>>
vars == <<sc, gw, gs, wat, net, ags, ag, ups>>

NReq == sc.req           \* chunks of the request body
NRes == sc.res           \* chunks of the response body
Trailers == sc.trailers  \* request and response declare trailers
Faults == sc.faults      \* what the environment may do

Frame(t) == [t |-> t, n |-> 0]
Data(t, n) == [t |-> t, n |-> n]

Frames == [t : {"ReqStart", "ReqTrailer", "ReqEnd", "Rst", "Interim", "ResStart",
                "ResTrailer", "ResEnd"}, n : {0}]
          \cup [t : {"ReqData"}, n : 1..NReq] \cup [t : {"ResData"}, n : 1..NRes]

GPcs == {"start", "body", "trailer", "reqEnd", "head", "relay", "return", "done"}

TypeOK ==
  /\ sc \in Scenarios
  /\ gpc \in GPcs
  /\ pend = <<>> \/ pend \in Frames \X GPcs \X GPcs
  /\ sent \in 0..NReq /\ badBody \in BOOLEAN
  /\ got \in Seq(1..NRes) /\ Len(got) <= NRes
  /\ why \in {"none", "resEnd", "cut", "error"}
  /\ gst \in {"open", "closing", "closed"}
  /\ grx \in Seq(Frames) /\ Len(grx) <= GQueue
  /\ grst \in BOOLEAN
  /\ watch \in {"off", "wait", "checked", "sent", "done"} /\ gone \in BOOLEAN
  /\ g2a \in Seq(Frames) /\ a2g \in Seq(Frames)
  /\ up \in BOOLEAN /\ adown \in BOOLEAN
  /\ amap \in Objs \cup {None}
  /\ ast \in [Objs -> {"free", "first", "http"}]
  /\ arx \in [Objs -> Seq(Frames)] /\ \A o \in Objs : Len(arx[o]) <= AQueue
  /\ aclosed \in SUBSET Objs
  /\ main \in Objs \cup {None}
  /\ hpc \in {"off", "setup", "do", "resp", "trailer", "end", "waitBody", "done"}
  /\ bpc \in {"off", "run", "write", "done"} /\ chunk \in 0..NReq
  /\ cancelled \in BOOLEAN /\ trailer \in {"none", "declared", "set"}
  /\ uGot \in Seq(1..NReq) /\ uEof \in {"no", "eof", "abort"}
  /\ uSent \in 0..NRes /\ uEnd \in {"no", "eof", "err"}

Init ==
  /\ sc \in Scenarios
  /\ gpc = "start" /\ pend = <<>> /\ sent = 0 /\ badBody = FALSE
  /\ got = <<>> /\ why = "none"
  /\ gst = "open" /\ grx = <<>> /\ grst = FALSE
  /\ watch = "off" /\ gone = FALSE
  /\ g2a = <<>> /\ a2g = <<>> /\ up = TRUE /\ adown = FALSE
  /\ amap = None /\ ast = [o \in Objs |-> "free"]
  /\ arx = [o \in Objs |-> <<>>] /\ aclosed = {}
  /\ main = None /\ hpc = "off" /\ bpc = "off" /\ chunk = 0
  /\ cancelled = FALSE /\ trailer = "none"
  /\ uGot = <<>> /\ uEof = "no" /\ uSent = 0 /\ uEnd = "no"

-----------------------------------------------------------------------------
(* Gateway: sending and closing a stream.                                  *)

\* stream.send, first half: an error if closedCh is closed.
Send(f, ok, fail) ==
  \/ gst = "open" /\ pend' = <<f, ok, fail>> /\ UNCHANGED gpc
  \/ gst # "open" /\ gpc' = fail /\ UNCHANGED pend

Idle == pend = <<>>

\* stream.send, second half: writeFrame.
HandlerWrite ==
  /\ pend # <<>>
  /\ pend' = <<>>
  /\ \/ up /\ g2a' = Append(g2a, pend[1]) /\ gpc' = pend[2]
     \/ ~up /\ gpc' = pend[3] /\ UNCHANGED g2a
  /\ why' = IF gpc' = "return" /\ why = "none" THEN "error" ELSE why
  /\ UNCHANGED <<sc, sent, badBody, got, a2g, up, adown, gs, wat, ags, ag, ups>>

\* close(closedCh), unless another closer was first.
CloseStream == gst' = IF gst = "open" THEN "closing" ELSE gst

\* forgetStream, the end of closeWithErr.
ForgetStream ==
  /\ gst = "closing"
  /\ gst' = "closed"
  /\ UNCHANGED <<sc, grx, grst, gw, wat, net, ags, ag, ups>>

-----------------------------------------------------------------------------
(* Gateway: handleClientHTTP.                                              *)

\* TReqStart.
SendReqStart ==
  /\ gpc = "start" /\ Idle
  /\ Send(Frame("ReqStart"), "body", "return")
  /\ why' = IF gpc' = "return" THEN "error" ELSE why
  /\ UNCHANGED <<sc, sent, badBody, got, gs, wat, net, ags, ag, ups>>

\* ContentLength is over the limit: 413, and a TRst for a stream the agent
\* has never heard of.
RefuseLarge ==
  /\ gpc = "start" /\ Idle /\ "limit" \in Faults
  /\ Send(Frame("Rst"), "return", "return")
  /\ why' = "error"
  /\ UNCHANGED <<sc, sent, badBody, got, gs, wat, net, ags, ag, ups>>

StartWatcher ==
  /\ gpc = "body" /\ watch = "off"
  /\ watch' = "wait"
  /\ UNCHANGED <<sc, gone, gw, gs, net, ags, ag, ups>>

InBody == gpc = "body" /\ Idle /\ watch # "off"

ReadBody ==
  /\ InBody /\ sent < NReq /\ ~gone
  /\ sent' = sent + 1
  /\ Send(Data("ReqData", sent + 1), "body", "return")
  /\ why' = IF gpc' = "return" THEN "error" ELSE why
  /\ UNCHANGED <<sc, badBody, got, gs, wat, net, ags, ag, ups>>

\* MaxBytesReader reports the limit: TRst and 413.
BodyTooLarge ==
  /\ InBody /\ "limit" \in Faults
  /\ Send(Frame("Rst"), "return", "return")
  /\ why' = "error"
  /\ UNCHANGED <<sc, sent, badBody, got, gs, wat, net, ags, ag, ups>>

\* io.EOF and every other error leave the loop alike.
BodyEnds ==
  /\ InBody
  /\ \/ sent = NReq /\ UNCHANGED badBody
     \/ (gone \/ "body" \in Faults) /\ sent < NReq /\ badBody' = TRUE
  /\ gpc' = "trailer"
  /\ UNCHANGED <<sc, pend, sent, got, why, gs, wat, net, ags, ag, ups>>

SendTrailer ==
  /\ gpc = "trailer" /\ Idle
  /\ \/ Trailers /\ Send(Frame("ReqTrailer"), "reqEnd", "reqEnd")
     \/ ~Trailers /\ gpc' = "reqEnd" /\ UNCHANGED pend
  /\ UNCHANGED <<sc, sent, badBody, got, why, gs, wat, net, ags, ag, ups>>

SendReqEnd ==
  /\ gpc = "reqEnd" /\ Idle
  /\ Send(Frame("ReqEnd"), "head", "head")
  /\ UNCHANGED <<sc, sent, badBody, got, why, gs, wat, net, ags, ag, ups>>

\* recv returns an error: the stream is closed or the timer fires.
RecvError == gst # "open" \/ "timeout" \in Faults

\* The first frame that is not interim must be TResStart, else TRst and 502.
RecvHead ==
  /\ gpc = "head" /\ Idle
  /\ \/ /\ grx # <<>> /\ grx' = Tail(grx)
        /\ \/ Head(grx).t = "Interim" /\ UNCHANGED <<gpc, pend, why>>
           \/ Head(grx).t = "ResStart" /\ gpc' = "relay" /\ UNCHANGED <<pend, why>>
           \/ /\ Head(grx).t \notin {"Interim", "ResStart"}
              /\ Send(Frame("Rst"), "return", "return") /\ why' = "error"
     \/ /\ RecvError /\ UNCHANGED grx
        /\ Send(Frame("Rst"), "return", "return") /\ why' = "error"
  /\ UNCHANGED <<sc, sent, badBody, got, gst, grst, wat, net, ags, ag, ups>>

\* A frame of the response body; a client that is gone may fail the write.
RecvData ==
  /\ gpc = "relay" /\ Idle /\ grx # <<>>
  /\ grx' = Tail(grx)
  /\ LET f == Head(grx) IN
     \/ /\ f.t = "ResData"
        /\ \/ got' = Append(got, f.n) /\ UNCHANGED <<gpc, pend, why>>
           \/ gone /\ Send(Frame("Rst"), "return", "return") /\ why' = "cut" /\ UNCHANGED got
     \/ f.t = "ResEnd" /\ gpc' = "return" /\ why' = "resEnd" /\ UNCHANGED <<got, pend>>
     \/ f.t = "Rst" /\ gpc' = "return" /\ why' = "cut" /\ UNCHANGED <<got, pend>>
     \/ f.t \in {"Interim", "ResStart", "ResTrailer"} /\ UNCHANGED <<gpc, pend, got, why>>
  /\ UNCHANGED <<sc, sent, badBody, gst, grst, wat, net, ags, ag, ups>>

\* Seeded fault: the idle timer of the response is not started.
RecvFailsNoTimer ==
  /\ gpc = "relay" /\ Idle
  /\ gst # "open" /\ gpc' = "return"
  /\ why' = "cut"
  /\ UNCHANGED <<sc, pend, sent, badBody, got, gs, wat, net, ags, ag, ups>>

\* Closed: return; timeout: TRst and return.
RecvFails ==
  /\ gpc = "relay" /\ Idle
  /\ \/ gst # "open" /\ gpc' = "return" /\ UNCHANGED pend
     \/ "timeout" \in Faults /\ Send(Frame("Rst"), "return", "return")
  /\ why' = "cut"
  /\ UNCHANGED <<sc, sent, badBody, got, gs, wat, net, ags, ag, ups>>

\* The deferred close(done) and st.closeWithErr(nil).
HandlerReturns ==
  /\ gpc = "return" /\ Idle
  /\ gpc' = "done"
  /\ CloseStream
  /\ UNCHANGED <<sc, pend, sent, badBody, got, why, grx, grst, wat, net, ags, ag, ups>>

Handler ==
  \/ HandlerWrite \/ SendReqStart \/ RefuseLarge \/ StartWatcher \/ ReadBody
  \/ BodyTooLarge \/ BodyEnds \/ SendTrailer \/ SendReqEnd \/ RecvHead
  \/ RecvData \/ RecvFails \/ HandlerReturns

-----------------------------------------------------------------------------
(* Gateway: the cancellation watcher.                                      *)

ClientGoes ==
  /\ "cancel" \in Faults /\ ~gone /\ gpc # "done"
  /\ gone' = TRUE
  /\ UNCHANGED <<sc, watch, gw, gs, net, ags, ag, ups>>

Watcher ==
  /\ \/ /\ watch = "wait" /\ gone
        /\ watch' = IF gst = "open" THEN "checked" ELSE "sent"
        /\ UNCHANGED <<gst, g2a>>
     \/ /\ watch = "wait" /\ gpc = "done" /\ watch' = "done"
        /\ UNCHANGED <<gst, g2a>>
     \/ /\ watch = "checked" /\ watch' = "sent"
        /\ g2a' = IF up THEN Append(g2a, Frame("Rst")) ELSE g2a
        /\ UNCHANGED gst
     \/ watch = "sent" /\ watch' = "done" /\ CloseStream /\ UNCHANGED g2a
  /\ UNCHANGED <<sc, gone, gw, grx, grst, a2g, up, adown, ags, ag, ups>>

-----------------------------------------------------------------------------
(* Gateway: readLoop, getStream and deliver.                               *)

\* Seeded fault: the queue grows without bound.
DeliverUnbounded(f) ==
  \/ gst = "closed" /\ UNCHANGED gs
  \/ gst # "closed" /\ grx' = Append(grx, f) /\ UNCHANGED <<gst, grst>>

\* Seeded fault: a frame for an unknown stream is answered with a reset.
DeliverAnswers(f) ==
  \/ gst = "closed" /\ grst' = TRUE /\ UNCHANGED <<gst, grx>>
  \/ gst # "closed" /\ Len(grx) < GQueue /\ grx' = Append(grx, f) /\ UNCHANGED <<gst, grst>>
  \/ gst # "closed" /\ Len(grx) = GQueue /\ UNCHANGED gs

\* A forgotten stream gets nothing; select takes either of two ready cases;
\* a full queue resets the stream (which readLoop itself forgets).
Deliver(f) ==
  \/ gst = "closed" /\ UNCHANGED gs
  \/ gst # "closed" /\ Len(grx) < GQueue /\ grx' = Append(grx, f) /\ UNCHANGED <<gst, grst>>
  \/ gst = "closing" /\ UNCHANGED gs
  \/ /\ gst = "open" /\ Len(grx) = GQueue
     /\ gst' = "closed" /\ grst' = TRUE /\ UNCHANGED grx

GatewayReads ==
  /\ a2g # <<>>
  /\ a2g' = Tail(a2g)
  /\ Deliver(Head(a2g))
  /\ UNCHANGED <<sc, gw, wat, g2a, up, adown, ags, ag, ups>>

SendReset ==
  /\ grst
  /\ grst' = FALSE
  /\ g2a' = IF up THEN Append(g2a, Frame("Rst")) ELSE g2a
  /\ UNCHANGED <<sc, gst, grx, gw, wat, a2g, up, adown, ags, ag, ups>>

\* The connection's closeWithErr: the table is emptied before the streams
\* are closed.
GatewayDisconnects ==
  /\ ~up /\ gst = "open"
  /\ gst' = "closed"
  /\ UNCHANGED <<sc, grx, grst, gw, wat, net, ags, ag, ups>>

\* What was on its way to the agent is lost; some of what was on its way to
\* the gateway may still arrive.
TunnelBreaks ==
  /\ "break" \in Faults /\ up
  /\ up' = FALSE
  /\ g2a' = <<>>
  /\ \E k \in 0..Len(a2g) : a2g' = SubSeq(a2g, 1, k)
  /\ UNCHANGED <<sc, adown, gw, gs, wat, ags, ag, ups>>

-----------------------------------------------------------------------------
(* Agent: readLoop, getOrCreateStream, deliverFrame, forgetStream.         *)

AgentSend(f) == a2g' = IF up THEN Append(a2g, f) ELSE a2g

\* forgetStream(id) unmaps and closes whatever object has the id now.
Forgotten == aclosed \cup ({amap} \ {None})

\* Seeded fault: a full queue drops the frame and keeps the stream.
DeliverFrameDrops(o, f) ==
  /\ arx' = IF Len(arx[o]) < AQueue THEN [arx EXCEPT ![o] = Append(@, f)] ELSE arx
  /\ amap' = o /\ UNCHANGED <<aclosed, a2g>>

\* deliverFrame to an object just looked up or made (so it is not closed); a
\* full queue sends TRst and forgets the stream.
DeliverFrame(o, f) ==
  \/ /\ Len(arx[o]) < AQueue
     /\ arx' = [arx EXCEPT ![o] = Append(@, f)]
     /\ amap' = o /\ UNCHANGED <<aclosed, a2g>>
  \/ /\ Len(arx[o]) = AQueue
     /\ AgentSend(Frame("Rst"))
     /\ amap' = None /\ aclosed' = Forgotten /\ UNCHANGED arx

AgentReads ==
  /\ up /\ g2a # <<>>
  /\ g2a' = Tail(g2a)
  /\ amap # None \/ \E o \in Objs : ast[o] = "free"
  /\ LET o == IF amap # None THEN amap ELSE CHOOSE x \in Objs : ast[x] = "free" IN
       /\ ast' = IF amap = None THEN [ast EXCEPT ![o] = "first"] ELSE ast
       /\ DeliverFrame(o, Head(g2a))
  /\ UNCHANGED <<sc, up, adown, gw, gs, wat, ag, ups>>

\* handleStream returns: the deferred forgetStream; the object is garbage.
StreamReturns(o) ==
  /\ amap' = None
  /\ ast' = [ast EXCEPT ![o] = "free"]
  /\ arx' = [arx EXCEPT ![o] = <<>>]
  /\ aclosed' = Forgotten \ {o}

\* handleStream: the first frame must be TReqStart, and one the agent can serve.
FirstFrame(o) ==
  /\ ast[o] = "first"
  /\ \/ /\ o \in aclosed /\ StreamReturns(o)
        /\ UNCHANGED <<a2g, ag>>
     \/ /\ arx[o] # <<>> /\ Head(arx[o]).t = "ReqStart"
        /\ ast' = [ast EXCEPT ![o] = "http"]
        /\ arx' = [arx EXCEPT ![o] = Tail(@)]
        /\ main' = o /\ hpc' = "setup" /\ bpc' = "run"
        /\ UNCHANGED <<amap, aclosed, a2g, chunk, cancelled, trailer>>
     \/ /\ arx[o] # <<>> /\ (Head(arx[o]).t # "ReqStart" \/ "refuse" \in Faults)
        /\ AgentSend(Frame("Rst")) /\ StreamReturns(o)
        /\ UNCHANGED ag
  /\ UNCHANGED <<sc, gw, gs, wat, g2a, up, adown, ups>>

\* Run after readLoop failed: cancel, closeAllStreams.
AgentDisconnects ==
  /\ ~up /\ ~adown
  /\ adown' = TRUE
  /\ cancelled' = (cancelled \/ main # None)
  /\ amap' = None /\ aclosed' = Forgotten
  /\ UNCHANGED <<sc, gw, gs, wat, g2a, a2g, up, ast, arx, main, hpc, bpc, chunk, trailer, ups>>

-----------------------------------------------------------------------------
(* Agent: the goroutine of handleHTTP that feeds the request body.         *)

\* Seeded fault: a closed stream ends the body as if it were complete.
BodyQuitsNormally ==
  /\ bpc = "run"
  /\ main \in aclosed \/ cancelled
  /\ bpc' = "done"
  /\ UNCHANGED <<sc, cancelled, main, hpc, chunk, trailer, gw, gs, wat, net, ags, ups>>

BodyQuits ==
  /\ bpc = "run"
  /\ main \in aclosed \/ cancelled
  /\ bpc' = "done"
  /\ cancelled' = TRUE
  /\ UNCHANGED <<sc, main, hpc, chunk, trailer, gw, gs, wat, net, ags, ups>>

BodyFrame ==
  /\ bpc = "run" /\ arx[main] # <<>>
  /\ arx' = [arx EXCEPT ![main] = Tail(@)]
  /\ LET f == Head(arx[main]) IN
     \/ /\ f.t = "ReqData" /\ bpc' = "write" /\ chunk' = f.n
        /\ UNCHANGED <<cancelled, trailer>>
     \/ f.t = "ReqTrailer" /\ trailer' = "set" /\ UNCHANGED <<bpc, chunk, cancelled>>
     \/ f.t = "ReqEnd" /\ bpc' = "done" /\ UNCHANGED <<chunk, cancelled, trailer>>
     \/ /\ f.t = "Rst" /\ bpc' = "done" /\ cancelled' = TRUE
        /\ UNCHANGED <<chunk, trailer>>
  /\ UNCHANGED <<sc, main, hpc, gw, gs, wat, net, amap, ast, aclosed, ups>>

InFlight == hpc \in {"do", "resp"}

\* The request is over for the transport, which closes the pipe's read end.
TransportDone == cancelled \/ hpc \in {"trailer", "end", "waitBody", "done"}

\* pw.Write fails once the read end is closed; that also happens while Do or
\* the response is under way, if the upstream stops reading (it answered early,
\* say), and then cancels the request and cuts the response.
BodyWriteFails ==
  /\ bpc = "write" /\ (TransportDone \/ ("stops" \in Faults /\ InFlight))
  /\ bpc' = "done" /\ cancelled' = TRUE /\ chunk' = 0
  /\ UNCHANGED <<sc, main, hpc, trailer, gw, gs, wat, net, ags, ups>>

BodyGoroutine == BodyQuits \/ BodyFrame \/ BodyWriteFails

-----------------------------------------------------------------------------
(* Agent: handleHTTP.                                                      *)

\* The request is completed after the body goroutine was started; declared
\* trailers get a fresh map.
Setup ==
  /\ hpc = "setup"
  /\ hpc' = "do"
  /\ trailer' = IF Trailers THEN "declared" ELSE trailer
  /\ UNCHANGED <<sc, main, bpc, chunk, cancelled, gw, gs, wat, net, ags, ups>>

\* Bound: one interim response is on its way at a time.
Got1xxResponse ==
  /\ hpc = "do" /\ "interim" \in Faults /\ ~cancelled
  /\ \A i \in DOMAIN a2g : a2g[i].t # "Interim"
  /\ AgentSend(Frame("Interim"))
  /\ UNCHANGED <<sc, gw, gs, wat, g2a, up, adown, ags, ag, ups>>

\* handleHTTP returns: cancel, then forgetStream in handleStream.
HttpReturns ==
  /\ hpc' = "done" /\ cancelled' = TRUE
  /\ amap' = None /\ aclosed' = Forgotten

\* Do fails: 502 and TResEnd.
DoFails ==
  /\ hpc = "do" /\ (cancelled \/ "upstream" \in Faults)
  /\ a2g' = IF up THEN a2g \o <<Frame("ResStart"), Frame("ResEnd")>> ELSE a2g
  /\ uEnd' = "err"
  /\ HttpReturns
  /\ UNCHANGED <<sc, main, bpc, chunk, trailer, gw, gs, wat, g2a, up, adown, ast, arx,
                 uGot, uEof, uSent>>

\* A failed send of the response makes the handler return.
RespondOr(next) ==
  \/ up /\ hpc' = next /\ UNCHANGED <<cancelled, amap, aclosed>>
  \/ ~up /\ HttpReturns

DoReturns ==
  /\ hpc = "do"
  /\ AgentSend(Frame("ResStart"))
  /\ RespondOr("resp")
  /\ UNCHANGED <<sc, main, bpc, chunk, trailer, gw, gs, wat, g2a, up, adown, ast, arx, ups>>

CopyResponse ==
  /\ hpc = "resp" /\ uSent < NRes
  /\ uSent' = uSent + 1
  /\ AgentSend(Data("ResData", uSent + 1))
  /\ RespondOr("resp")
  /\ UNCHANGED <<sc, main, bpc, chunk, trailer, gw, gs, wat, g2a, up, adown, ast, arx,
                 uGot, uEof, uEnd>>

\* io.EOF and every other error leave the loop alike.
ResponseEnds ==
  /\ hpc = "resp"
  /\ \/ uSent = NRes /\ uEnd' = "eof"
     \/ (cancelled \/ "upstream" \in Faults) /\ uEnd' = "err"
  /\ hpc' = IF Trailers THEN "trailer" ELSE "end"
  /\ UNCHANGED <<sc, main, bpc, chunk, cancelled, trailer, gw, gs, wat, net, ags,
                 uGot, uEof, uSent>>

SendResTrailer ==
  /\ hpc = "trailer"
  /\ AgentSend(Frame("ResTrailer"))
  /\ RespondOr("end")
  /\ UNCHANGED <<sc, main, bpc, chunk, trailer, gw, gs, wat, g2a, up, adown, ast, arx, ups>>

SendResEnd ==
  /\ hpc = "end"
  /\ AgentSend(Frame("ResEnd"))
  /\ hpc' = "waitBody"
  /\ UNCHANGED <<sc, main, bpc, chunk, cancelled, trailer, gw, gs, wat, g2a, up, adown,
                 ags, ups>>

\* <-bodyClosed, and return.
WaitBody ==
  /\ hpc = "waitBody" /\ bpc = "done"
  /\ HttpReturns
  /\ UNCHANGED <<sc, main, bpc, chunk, trailer, gw, gs, wat, net, ast, arx, ups>>

Http ==
  \/ Setup \/ Got1xxResponse \/ DoFails \/ DoReturns \/ CopyResponse
  \/ ResponseEnds \/ SendResTrailer \/ SendResEnd \/ WaitBody

-----------------------------------------------------------------------------
(* The upstream, as the agent's HTTP client lets it see the request.       *)

UpstreamReads ==
  /\ bpc = "write" /\ InFlight
  /\ uGot' = Append(uGot, chunk)
  /\ bpc' = "run" /\ chunk' = 0
  /\ UNCHANGED <<sc, main, hpc, cancelled, trailer, gw, gs, wat, net, ags,
                 uEof, uSent, uEnd>>

\* pw.Close ends the body, even after a cancel the transport has not yet
\* acted upon; or the cancelled request is torn down first.
UpstreamSeesEnd ==
  /\ InFlight /\ uEof = "no"
  /\ \/ bpc = "done" /\ uEof' = "eof"
     \/ cancelled /\ uEof' = "abort"
  /\ UNCHANGED <<sc, uGot, uSent, uEnd, gw, gs, wat, net, ags, ag>>

-----------------------------------------------------------------------------
Gateway == Handler \/ ForgetStream \/ Watcher \/ GatewayReads \/ SendReset
           \/ GatewayDisconnects
Agent == AgentReads \/ (\E o \in Objs : FirstFrame(o)) \/ AgentDisconnects
         \/ BodyGoroutine \/ Http

\* Everything is over: nothing is left to happen.
Quiet ==
  /\ gpc = "done" /\ gst = "closed" /\ watch \in {"off", "done"} /\ ~grst
  /\ g2a = <<>> /\ a2g = <<>>
  /\ hpc \in {"off", "done"} /\ bpc \in {"off", "done"}
  /\ \A o \in Objs : ast[o] # "first"

Finished == Quiet /\ UNCHANGED vars

Next == Gateway \/ Agent \/ ClientGoes \/ TunnelBreaks \/ UpstreamReads
        \/ UpstreamSeesEnd \/ Finished

Spec == Init /\ [][Next]_vars

\* Every goroutine that can take a step does, and timers fire: the gateway's,
\* and the transport's ResponseHeaderTimeout, which ends Do once the request is
\* written.  Of the upstream nothing is assumed: it need not read the body and
\* its response need not end, unless the request is cancelled.  Clients need
\* not go on, tunnels need not break.
FairSpec ==
  /\ Spec
  /\ WF_vars(HandlerWrite) /\ WF_vars(SendReqStart) /\ WF_vars(StartWatcher)
  /\ WF_vars(SendTrailer) /\ WF_vars(SendReqEnd) /\ WF_vars(RecvHead)
  /\ WF_vars(RecvData) /\ WF_vars(RecvFails) /\ WF_vars(HandlerReturns)
  /\ WF_vars(ForgetStream) /\ WF_vars(Watcher) /\ WF_vars(GatewayReads)
  /\ WF_vars(SendReset) /\ WF_vars(GatewayDisconnects)
  /\ WF_vars(AgentReads) /\ WF_vars(AgentDisconnects)
  /\ \A o \in Objs : WF_vars(FirstFrame(o))
  /\ WF_vars(BodyQuits \/ BodyFrame) /\ WF_vars(TransportDone /\ BodyWriteFails)
  /\ WF_vars(Setup) /\ WF_vars(bpc = "done" /\ (DoFails \/ DoReturns))
  /\ WF_vars(cancelled /\ DoFails) /\ WF_vars(cancelled /\ ResponseEnds)
  /\ WF_vars(SendResTrailer) /\ WF_vars(SendResEnd) /\ WF_vars(WaitBody)

-----------------------------------------------------------------------------
(* Properties.                                                             *)

\* What the client gets is a prefix of what the upstream sent; only a client
\* that is gone may be written a chunk after a lost one.
ResponsePrefix == ~gone => \A i \in DOMAIN got : got[i] = i

\* The same for the request body the upstream gets.
RequestPrefix == \A i \in DOMAIN uGot : uGot[i] = i

\* A response that ended with TResEnd is everything the agent read.
ResEndMeansAllSent == why = "resEnd" /\ ~gone => Len(got) = uSent

\* Whatever overflows, resets and disconnects, no chunk is lost in the middle of
\* a body, in either direction, and a response that ended with TResEnd is all
\* that the agent read from the upstream (stream.go:39-48, agent.go:518-530,
\* 592-601, 704, server.go:679).
BodiesWhole == RequestPrefix /\ ResponsePrefix /\ ResEndMeansAllSent

\* The upstream takes a cut request body for a complete one only if the body
\* could not be read or the request was cancelled (agent.go:584, 611).
CutBodyIsCancelled ==
  uEof = "eof" /\ Len(uGot) < NReq => badBody \/ cancelled

\* Once the gateway waits for the response the handler ends, whatever agent and
\* upstream do: the response ends, the stream is closed or a timer fires.  The
\* timers are on in the scenarios with "timeout" (both are by default)
\* (server.go:616, 656).
HandlerEnds == gpc = "head" /\ "timeout" \in Faults ~> gpc = "done"

\* What the upstream may keep: the gateway is done with the request, and the
\* agent is left with an upstream that either does not read the body, so that
\* the body goroutine is in pw.Write, or does not end its response after TReqEnd
\* was read; a TRst is read by nobody, and no timer runs.
LeftToUpstream ==
  /\ gpc = "done" /\ gst = "closed" /\ watch \in {"off", "done"} /\ ~grst
  /\ g2a = <<>> /\ up /\ ~cancelled
  /\ \/ InFlight /\ bpc = "write"
     \/ hpc = "resp" /\ bpc = "done"

\* A finished request leaves nothing behind: both sides forget the stream, and
\* late frames and the resets that answer them die out.  The one exception is
\* what the upstream holds on to: the agent waits for it whether or not anybody
\* waits for the answer (agent.go:541-545, 596, 611, 690, agentconn.go:176-179).
DiesOut == gpc = "done" ~> [](Quiet \/ LeftToUpstream)

\* A response the client has begun to get, and that ended with TResEnd, is the
\* whole response of the upstream.
CompleteMeansWhole ==
  why = "resEnd" /\ got # <<>> /\ ~gone => Len(got) = NRes

=============================================================================
