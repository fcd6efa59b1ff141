---------------------------- MODULE WsRelay_proofs ----------------------------
(***************************************************************************)
(* What WsRelay promises, for every scenario, queue length and number of   *)
(* stream objects.  In each direction what is queued at the receiver,      *)
(* followed by what is on the tunnel, is one line of frames: the opening,  *)
(* the messages by number, and the close of the sender behind its last     *)
(* message.  Closes that either side makes up may stand anywhere, and cut  *)
(* the line for its reader, who stops at the first close it takes.         *)
(* Once closedCh is closed deliver may drop a frame and keep the next.     *)
(* Then only the order is left: the messages ascend through both queues.   *)
(***************************************************************************)
EXTENDS WsRelay, TLAPS

-----------------------------------------------------------------------------
(* Queues.                                                                 *)

\* Appending a frame.
LEMMA AppendFacts ==
  ASSUME NEW S, NEW s \in Seq(S), NEW f \in S
  PROVE  /\ Append(s, f) \in Seq(S) /\ Len(Append(s, f)) = Len(s) + 1
         /\ \A i \in 1..Len(s) : Append(s, f)[i] = s[i]
         /\ Append(s, f)[Len(s) + 1] = f
         /\ Append(s, f) # <<>> /\ Len(s) \in Nat
OBVIOUS

\* Taking a frame.
LEMMA TailFacts ==
  ASSUME NEW S, NEW s \in Seq(S), s # <<>>
  PROVE  /\ Tail(s) \in Seq(S) /\ Len(Tail(s)) = Len(s) - 1
         /\ Len(s) \in Nat /\ Len(s) > 0
         /\ \A i \in 1..(Len(s) - 1) : Tail(s)[i] = s[i + 1]
         /\ Head(s) = s[1] /\ Head(s) \in S
OBVIOUS

\* One queue after the other.
LEMMA ConcatFacts ==
  ASSUME NEW S, NEW s \in Seq(S), NEW t \in Seq(S)
  PROVE  /\ s \o t \in Seq(S) /\ Len(s \o t) = Len(s) + Len(t)
         /\ Len(s) \in Nat /\ Len(t) \in Nat
         /\ \A i \in 1..Len(s) : (s \o t)[i] = s[i]
         /\ \A i \in 1..Len(t) : (s \o t)[Len(s) + i] = t[i]
OBVIOUS

\* A queue has its elements, and is empty when it has none.
LEMMA EmptyFacts ==
  ASSUME NEW S, NEW s \in Seq(S)
  PROVE  /\ Len(s) \in Nat /\ (s = <<>> <=> Len(s) = 0)
         /\ \A i \in 1..Len(s) : s[i] \in S
         /\ s # <<>> => Len(s) > 0 /\ s[1] \in S /\ s[Len(s)] \in S
OBVIOUS

\* The front of a queue.
LEMMA SubSeqFacts ==
  ASSUME NEW S, NEW s \in Seq(S), NEW k \in 0..Len(s)
  PROVE  /\ SubSeq(s, 1, k) \in Seq(S) /\ Len(SubSeq(s, 1, k)) = k
         /\ \A i \in 1..k : SubSeq(s, 1, k)[i] = s[i]
OBVIOUS

\* Two sequences with the same elements are the same.
LEMMA SeqEqual ==
  ASSUME NEW S, NEW s \in Seq(S), NEW t \in Seq(S), Len(s) = Len(t),
         \A i \in 1..Len(s) : s[i] = t[i]
  PROVE  s = t
OBVIOUS

\* Moving the head of the second queue to the end of the first.
LEMMA MoveHead ==
  ASSUME NEW S, NEW s \in Seq(S), NEW t \in Seq(S), t # <<>>
  PROVE  Append(s, Head(t)) \o Tail(t) = s \o t
<1> DEFINE a == Append(s, Head(t)) \o Tail(t)
           b == s \o t
<1>1. a \in Seq(S) /\ b \in Seq(S) /\ Len(a) = Len(b)
  OBVIOUS
<1>2. ASSUME NEW i \in 1..Len(a) PROVE a[i] = b[i]
  OBVIOUS
<1> QED
  BY <1>1, <1>2, SeqEqual

\* Taking the head of the first of two queues takes the head of both.
LEMMA TailConcat ==
  ASSUME NEW S, NEW s \in Seq(S), NEW t \in Seq(S), s # <<>>
  PROVE  Tail(s) \o t = Tail(s \o t) /\ s \o t # <<>> /\ (s \o t)[1] = s[1]
OBVIOUS

\* Appending to the second of two queues appends to both.
LEMMA AppendConcat ==
  ASSUME NEW S, NEW s \in Seq(S), NEW t \in Seq(S), NEW f \in S
  PROVE  s \o Append(t, f) = Append(s \o t, f)
OBVIOUS

\* An empty queue adds nothing.
LEMMA EmptyConcat ==
  ASSUME NEW S, NEW s \in Seq(S)
  PROVE  <<>> \o s = s /\ s \o <<>> = s
OBVIOUS

-----------------------------------------------------------------------------
(* Lines of frames.  A direction d has an opening frame and messages; n is  *)
(* how many messages its sender has taken from the peer it reads.           *)

Req == [start |-> "ReqStart", msg |-> "C2A"]
Res == [start |-> "OpenOK", msg |-> "A2C"]

\* A close that a side made up, and one that passes on the close of its peer.
MadeUp(f) == f.t \in {"WsClose", "Rst"} /\ f.n = Local
PassedOn(f) == f.t \in {"WsClose", "Rst"} /\ f.n = Relayed

Follows(f, g, d, n) ==
  \/ MadeUp(f) \/ MadeUp(g)
  \/ /\ f.t \in {d.start, d.msg}
     /\ (g.t = d.msg /\ g.n = f.n + 1) \/ (PassedOn(g) /\ f.n = n)

Orderly(q, d, n) == \A i \in 1..(Len(q) - 1) : Follows(q[i], q[i + 1], d, n)

\* The last message of the line is message w.
EndsAt(q, d, w) ==
  q # <<>> => \/ MadeUp(q[Len(q)])
              \/ q[Len(q)].t \in {d.start, d.msg} /\ q[Len(q)].n = w

\* The line is what follows message k.
BeginsAt(q, d, k, n) ==
  q # <<>> => (q[1].t = d.msg => q[1].n = k + 1) /\ (PassedOn(q[1]) => k = n)

NonePassedOn(q) == \A i \in 1..Len(q) : ~PassedOn(q[i])

\* A frame is appended that may follow the last one.
LEMMA OrderlyAppend ==
  ASSUME NEW S, NEW q \in Seq(S), NEW f \in S, NEW d, NEW n, Orderly(q, d, n),
         q # <<>> => Follows(q[Len(q)], f, d, n)
  PROVE  /\ Orderly(Append(q, f), d, n) /\ Append(q, f) # <<>>
         /\ Append(q, f)[Len(Append(q, f))] = f
         /\ q # <<>> => Append(q, f)[1] = q[1]
         /\ q = <<>> => Append(q, f)[1] = f
         /\ NonePassedOn(q) /\ ~PassedOn(f) => NonePassedOn(Append(q, f))
<1> DEFINE a == Append(q, f)
<1>1. /\ Len(a) = Len(q) + 1 /\ Len(q) \in Nat /\ a # <<>>
      /\ \A i \in 1..Len(q) : a[i] = q[i]
      /\ a[Len(q) + 1] = f
  BY AppendFacts
<1>2. q = <<>> <=> Len(q) = 0
  BY EmptyFacts
<1> HIDE DEF a
<1>3. ASSUME NEW i \in 1..(Len(a) - 1) PROVE Follows(a[i], a[i + 1], d, n)
  <2>1. CASE i = Len(q)
    BY <1>1, <1>2, <2>1
  <2>2. CASE i # Len(q)
    <3>1. i \in 1..(Len(q) - 1) /\ i \in 1..Len(q) /\ i + 1 \in 1..Len(q)
      BY <1>1, <2>2
    <3> QED
      BY <1>1, <3>1 DEF Orderly
  <2> QED
    BY <2>1, <2>2
<1>4. a[Len(a)] = f /\ (q # <<>> => a[1] = q[1]) /\ (q = <<>> => a[1] = f)
  BY <1>1, <1>2
<1>5. NonePassedOn(q) /\ ~PassedOn(f) => NonePassedOn(a)
  <2> SUFFICES ASSUME NonePassedOn(q), ~PassedOn(f), NEW i \in 1..Len(a) PROVE ~PassedOn(a[i])
    BY DEF NonePassedOn
  <2>1. i \in 1..Len(q) \/ i = Len(q) + 1
    BY <1>1
  <2> QED
    BY <1>1, <2>1 DEF NonePassedOn
<1> QED
  BY <1>1, <1>3, <1>4, <1>5 DEF Orderly, a

\* The head of the line is taken: what is left follows it.
LEMMA OrderlyTail ==
  ASSUME NEW S, NEW q \in Seq(S), q # <<>>, NEW d, NEW n, Orderly(q, d, n)
  PROVE  /\ Tail(q) \in Seq(S) /\ Orderly(Tail(q), d, n)
         /\ Tail(q) # <<>> => Follows(q[1], Tail(q)[1], d, n)
                              /\ Tail(q)[Len(Tail(q))] = q[Len(q)]
         /\ Tail(q) = <<>> => q[Len(q)] = q[1]
         /\ NonePassedOn(q) => NonePassedOn(Tail(q))
<1> DEFINE a == Tail(q)
<1>1. /\ a \in Seq(S) /\ Len(a) = Len(q) - 1 /\ Len(q) \in Nat /\ Len(q) > 0
      /\ \A i \in 1..(Len(q) - 1) : a[i] = q[i + 1]
  BY TailFacts
<1>2. a = <<>> <=> Len(a) = 0
  BY <1>1, EmptyFacts
<1> HIDE DEF a
<1>3. ASSUME NEW i \in 1..(Len(a) - 1) PROVE Follows(a[i], a[i + 1], d, n)
  <2>1. /\ i \in 1..(Len(q) - 1) /\ i + 1 \in 1..(Len(q) - 1)
        /\ a[i] = q[i + 1] /\ a[i + 1] = q[(i + 1) + 1]
    BY <1>1
  <2> QED
    BY <2>1 DEF Orderly
<1>4. a # <<>> => Follows(q[1], a[1], d, n) /\ a[Len(a)] = q[Len(q)]
  <2> SUFFICES ASSUME a # <<>> PROVE Follows(q[1], a[1], d, n) /\ a[Len(a)] = q[Len(q)]
    OBVIOUS
  <2>1. 1 \in 1..(Len(q) - 1) /\ Len(q) - 1 \in 1..(Len(q) - 1)
    BY <1>1, <1>2
  <2>2. a[1] = q[1 + 1] /\ a[Len(q) - 1] = q[(Len(q) - 1) + 1]
    BY <1>1, <2>1
  <2>3. (Len(q) - 1) + 1 = Len(q)
    BY <1>1
  <2> QED
    BY <1>1, <2>1, <2>2, <2>3 DEF Orderly
<1>5. a = <<>> => q[Len(q)] = q[1]
  <2>1. a = <<>> => Len(q) = 1
    BY <1>1, <1>2
  <2> QED
    BY <2>1
<1>6. NonePassedOn(q) => NonePassedOn(a)
  <2> SUFFICES ASSUME NonePassedOn(q), NEW i \in 1..Len(a) PROVE ~PassedOn(a[i])
    BY DEF NonePassedOn
  <2>1. a[i] = q[i + 1] /\ i + 1 \in 1..Len(q)
    BY <1>1
  <2> QED
    BY <2>1 DEF NonePassedOn
<1> QED
  BY <1>1, <1>3, <1>4, <1>5, <1>6 DEF Orderly, a

\* The end of the line is cut off.
LEMMA OrderlyFront ==
  ASSUME NEW S, NEW q \in Seq(S), NEW a \in Seq(S), Len(a) <= Len(q),
         \A i \in 1..Len(a) : a[i] = q[i], NEW d, NEW n, Orderly(q, d, n)
  PROVE  /\ Orderly(a, d, n)
         /\ a # <<>> => q # <<>> /\ a[1] = q[1]
         /\ NonePassedOn(q) => NonePassedOn(a)
<1>1. Len(q) \in Nat /\ Len(a) \in Nat /\ (a = <<>> <=> Len(a) = 0) /\ (q = <<>> <=> Len(q) = 0)
  BY EmptyFacts
<1>2. ASSUME NEW i \in 1..(Len(a) - 1) PROVE Follows(a[i], a[i + 1], d, n)
  <2>1. i \in 1..Len(a) /\ i + 1 \in 1..Len(a) /\ i \in 1..(Len(q) - 1)
    BY <1>1
  <2> QED
    BY <2>1 DEF Orderly
<1>3. a # <<>> => q # <<>> /\ a[1] = q[1]
  BY <1>1
<1>4. NonePassedOn(q) => NonePassedOn(a)
  BY <1>1 DEF NonePassedOn
<1> QED
  BY <1>2, <1>3, <1>4 DEF Orderly

\* The first of two queues is a front of both.
LEMMA OrderlyFirst ==
  ASSUME NEW S, NEW s \in Seq(S), NEW t \in Seq(S), NEW d, NEW n, Orderly(s \o t, d, n)
  PROVE  Orderly(s, d, n) /\ (s # <<>> => s \o t # <<>> /\ s[1] = (s \o t)[1])
<1>1. /\ s \o t \in Seq(S) /\ Len(s) <= Len(s \o t)
      /\ \A i \in 1..Len(s) : s[i] = (s \o t)[i]
  BY ConcatFacts
<1> QED
  BY <1>1, OrderlyFront

\* While no close was passed on, the sender may take another message.
LEMMA OrderlyLonger ==
  ASSUME NEW S, NEW q \in Seq(S), NEW d, NEW n, NEW m, NEW k, Orderly(q, d, n), NonePassedOn(q)
  PROVE  Orderly(q, d, m) /\ (BeginsAt(q, d, k, n) => BeginsAt(q, d, k, m))
<1>1. ASSUME NEW i \in 1..(Len(q) - 1) PROVE Follows(q[i], q[i + 1], d, m)
  <2>1. i + 1 \in 1..Len(q) /\ Follows(q[i], q[i + 1], d, n)
    BY EmptyFacts DEF Orderly
  <2>2. ~PassedOn(q[i + 1])
    BY <2>1 DEF NonePassedOn
  <2> QED
    BY <2>1, <2>2 DEF Follows
<1>2. q # <<>> => ~PassedOn(q[1])
  <2>1. q # <<>> => 1 \in 1..Len(q)
    BY EmptyFacts
  <2> QED
    BY <2>1 DEF NonePassedOn
<1> QED
  BY <1>1, <1>2 DEF Orderly, BeginsAt

-----------------------------------------------------------------------------
(* The inductive invariant.                                                *)

HasStart(q) == q # <<>> /\ q[1].t = "ReqStart"

\* TReqStart is not behind another frame.
StartFirst(q) == \A i \in 2..Len(q) : q[i].t # "ReqStart"

\* Nothing moves before TReqStart is written.
Untouched ==
  gpc = "start" => /\ g2a = <<>> /\ a2g = <<>> /\ ~grst /\ cw = "off"
                   /\ main = None /\ amap = None /\ \A o \in Objs : ast[o] = "free"

\* TReqStart is in one place, and makes one object main.
OneStart ==
  /\ StartFirst(g2a)
  /\ HasStart(g2a) => main = None /\ amap = None /\ \A o \in Objs : ast[o] = "free"
  /\ \A o \in Objs :
       /\ StartFirst(arx[o])
       /\ HasStart(arx[o]) => /\ ast[o] = "first" /\ main = None
                              /\ \A p \in Objs : HasStart(arx[p]) => p = o

\* What has the id is an object in use, and open unless the upstream left.
ObjectsOK ==
  /\ \A o \in Objs : ast[o] = "free" => arx[o] = <<>> /\ o \notin aclosed
  /\ \A o \in Objs : ast[o] = "ws" => main = o
  /\ amap # None => ast[amap] # "free"
  /\ main # None => ast[main] = "ws" /\ hpc # "off"
  /\ main = None => hpc = "off"
  /\ uGone = "no" => amap \notin aclosed

\* Where the goroutines of the gateway are.
GatewayControl ==
  /\ gpc \in {"start", "open"} => rdr = "off" /\ cGot = <<>>
  /\ gpc \in {"top", "recv"} => rdr # "off"
  /\ rdr = "off" => cSent = 0
  /\ rdr = "write" => cSent > 0
  /\ cEnd = "peer" => gpc \in {"return", "defer", "done"} /\ ur = "done"

\* The stream is closed, and a frame dropped, only once the session is given up.
GivenUp ==
  /\ gpc \in {"defer", "done"} => ctx
  /\ cw \in {"checked", "close", "done"} => ctx
  /\ gst = "closing" => ctx
  /\ gSkip => ctx
  /\ aSkip => uGone # "no"

\* Where those of the agent are.
AgentControl ==
  /\ hpc \in {"off", "dial"} => ur = "off" /\ uGot = <<>>
  /\ hpc = "relay" => ur # "off"
  /\ ur = "off" => uSent = 0 /\ uGone = "no"
  /\ uEnd = "peer" => hpc = "done" /\ rdr \in {"close", "done"}

\* The reader has not passed a close on, so it may send more.
MayRead == rdr \in {"off", "read", "write"}

\* A close that is passed on is the last thing its reader does.
ClosesLast ==
  /\ MayRead => NonePassedOn(g2a) /\ \A o \in Objs : NonePassedOn(arx[o])
  /\ ur # "done" => NonePassedOn(a2g) /\ NonePassedOn(grx)

\* What an object has in its queue and will yet get, if it keeps the id.
Feed(o) == IF amap = o THEN arx[o] \o g2a ELSE arx[o]

\* Messages of the client that were written to the tunnel.
Written == IF rdr = "write" THEN cSent - 1 ELSE cSent

Sending == up /\ gpc # "start" /\ MayRead

Serves == hpc \in {"dial", "relay"} /\ uGone # "drop"

\* The line to the upstream.
ReqLine ==
  /\ Orderly(g2a, Req, cSent)
  /\ Sending => EndsAt(g2a, Req, Written)
  /\ \A o \in Objs : Orderly(Feed(o), Req, cSent)
  /\ \A o \in Objs : Sending /\ amap = o => EndsAt(Feed(o), Req, Written)
  /\ Serves => BeginsAt(Feed(main), Req, Len(uGot), cSent)
  /\ Serves /\ Sending /\ amap = main /\ Feed(main) = <<>> => Len(uGot) = Written

\* It is kept until deliverFrame drops a frame.
ReqLines == ~aSkip => ReqLine

\* What the handler of the gateway has in its queue and will yet get.
ResFeed == IF gst # "closed" THEN grx \o a2g ELSE grx

Relaying == gpc \in {"top", "recv"} /\ cGone \notin {"drop", "ping"}

\* The line to the client.
ResLine ==
  /\ Orderly(ResFeed, Res, uSent)
  /\ up /\ gst # "closed" =>
       /\ ur = "read" => EndsAt(ResFeed, Res, uSent)
       /\ hpc \in {"off", "dial"} /\ ResFeed # <<>> => MadeUp(ResFeed[Len(ResFeed)])
  /\ Relaying => BeginsAt(ResFeed, Res, Len(cGot), uSent)
  /\ Relaying /\ up /\ gst # "closed" /\ ur = "read" /\ ResFeed = <<>> => Len(cGot) = uSent

\* It is kept until deliver drops a frame.
ResLines == ~gSkip => ResLine

\* What is left whichever frames are dropped: through two queues, one after the
\* other, the messages of kind m ascend from above lo to at most hi.
Elems(q) == {q[i] : i \in 1..Len(q)}
Before(f, g, m) == f.t = m /\ g.t = m => f.n < g.n
Within(f, m, lo, hi) == f.t = m => lo < f.n /\ f.n <= hi
Sorted(q, m) == \A i, j \in 1..Len(q) : i < j => Before(q[i], q[j], m)

Ascend(q, r, m, lo, hi) ==
  /\ Sorted(q, m) /\ Sorted(r, m)
  /\ \A f \in Elems(q), g \in Elems(r) : Before(f, g, m)
  /\ \A f \in Elems(q) \cup Elems(r) : Within(f, m, lo, hi)

\* The last message an end was given.
Newest(q) == IF q = <<>> THEN 0 ELSE q[Len(q)]

ResAscends ==
  /\ InOrder(cGot) /\ Newest(cGot) <= uSent
  /\ Ascend(grx, a2g, "A2C", Newest(cGot), uSent)

\* The last message that was taken from object o and passed on.
Passed(o) == IF main = o THEN Newest(uGot) ELSE 0

ReqAscends ==
  /\ InOrder(uGot) /\ Newest(uGot) <= Written
  /\ \A o \in Objs : Ascend(arx[o], g2a, "C2A", Passed(o), Written)

\* All parts together, with the two properties they support.
IndInv ==
  /\ TypeOK /\ Untouched /\ OneStart /\ ObjectsOK /\ GatewayControl /\ AgentControl
  /\ GivenUp /\ ClosesLast /\ ReqLines /\ ResLines /\ ResAscends /\ ReqAscends
  /\ Ordered /\ CloseCarriesAll

-----------------------------------------------------------------------------
(* Types.                                                                  *)

\* The frames there are, and what they carry.
LEMMA FrameFacts ==
  ASSUME sc \in Scenarios
  PROVE  /\ NClient \in Nat /\ NUp \in Nat
         /\ \A t \in {"ReqStart", "OpenOK", "OpenErr"} :
              Frame(t, 0) \in Frames /\ Frame(t, 0).t = t /\ Frame(t, 0).n = 0
         /\ \A t \in {"WsClose", "Rst"} :
              /\ Frame(t, Local) \in Frames /\ MadeUp(Frame(t, Local))
              /\ Frame(t, Relayed) \in Frames /\ PassedOn(Frame(t, Relayed))
              /\ Frame(t, Local).t = t /\ Frame(t, Relayed).t = t
         /\ \A n \in 1..NClient : /\ Frame("C2A", n) \in Frames
                                  /\ Frame("C2A", n).t = "C2A" /\ Frame("C2A", n).n = n
         /\ \A n \in 1..NUp : /\ Frame("A2C", n) \in Frames
                              /\ Frame("A2C", n).t = "A2C" /\ Frame("A2C", n).n = n
         /\ \A f \in Frames :
              /\ f.n \in Nat
              /\ f.t = "C2A" => f.n \in 1..NClient
              /\ f.t = "A2C" => f.n \in 1..NUp
              /\ f.t \in {"ReqStart", "OpenOK", "OpenErr"} => f.n = 0
              /\ f.t \in {"WsClose", "Rst"} => MadeUp(f) \/ PassedOn(f)
<1>1. NClient \in Nat /\ NUp \in Nat
  BY WsAssumption DEF NClient, NUp
<1> QED
  BY <1>1 DEF Frames, Frame, MadeUp, PassedOn, Local, Relayed

\* The scenario, and what is read off it, never change.
LEMMA ScenarioStays ==
  ASSUME [Next]_vars
  PROVE  /\ sc' = sc /\ Frames' = Frames /\ NClient' = NClient /\ NUp' = NUp
         /\ Raw' = Raw /\ Tcp' = Tcp /\ Faults' = Faults
<1>1. sc' = sc
  BY DEF Next, Opening, Relay, Reader, Context, Agent, UpReader, Finished, vars,
         SendReqStart, OpenRefused, OpenFails, Opened, Top, RecvFails, RelayToClient,
         ClientWriteFails, UpstreamClosed, Return, CloseStream, ReadClient,
         WriteToAgent, ReaderEnds, ReaderCancels, ContextDone, ContextResets,
         ContextCloses, PingFails, ClientCloses, GatewayReads, ForgetStream, SendReset,
         GatewayDisconnects, TunnelBreaks, AgentReads, FirstFrame, AgentDisconnects,
         DialFails, Dialed, StreamClosed, RelayToUpstream, UpstreamWriteFails,
         GatewayClosed, ReadUpstream, UpstreamEnds, UpstreamCloses
<1> QED
  BY <1>1 DEF Frames, NClient, NUp, Raw, Tcp, Faults

\* The steps there are.
LEMMA StepCases ==
  ASSUME [Next]_vars
  PROVE  SendReqStart \/ OpenRefused \/ OpenFails \/ Opened \/ Top \/
         RecvFails \/ RelayToClient \/ ClientWriteFails \/ UpstreamClosed \/
         Return \/ CloseStream \/ ReadClient \/ WriteToAgent \/ ReaderEnds \/
         ReaderCancels \/ ContextDone \/ ContextResets \/ ContextCloses \/
         PingFails \/ ClientCloses \/ GatewayReads \/ ForgetStream \/ SendReset \/
         GatewayDisconnects \/ TunnelBreaks \/ AgentReads \/ (\E o \in Objs : FirstFrame(o)) \/
         AgentDisconnects \/ DialFails \/ Dialed \/ StreamClosed \/
         RelayToUpstream \/ UpstreamWriteFails \/ GatewayClosed \/
         ReadUpstream \/ UpstreamEnds \/ UpstreamCloses \/ UNCHANGED vars
BY DEF Next, Opening, Relay, Reader, Context, Agent, UpReader, Finished

\* A frame that was dropped stays dropped, and the upstream, once gone, gone.
LEMMA PastStays ==
  ASSUME [Next]_vars
  PROVE  /\ gSkip' = gSkip \/ (gst = "closing" /\ gSkip' = TRUE)
         /\ aSkip' = aSkip \/ (AgentReads /\ aSkip' = TRUE)
         /\ uGone' # uGone => UpstreamCloses
<1>1. gSkip' = gSkip \/ GatewayReads
  BY StepCases
     DEF vars, gw, gs, cl, net, ags, ag, ups, SendReqStart, OpenRefused, OpenFails, Opened,
         Top, RecvFails, RelayToClient, ClientWriteFails, UpstreamClosed, Return,
         CloseStream, ReadClient, WriteToAgent, ReaderEnds, ReaderCancels, ContextDone,
         ContextResets, ContextCloses, PingFails, ClientCloses, ForgetStream,
         SendReset, GatewayDisconnects, TunnelBreaks, AgentReads, FirstFrame, AgentDisconnects,
         DialFails, Dialed, StreamClosed, RelayToUpstream, UpstreamWriteFails,
         GatewayClosed, ReadUpstream, UpstreamEnds, UpstreamCloses
<1>2. GatewayReads => gSkip' = gSkip \/ (gst = "closing" /\ gSkip' = TRUE)
  BY DEF GatewayReads, Deliver, gs
<1>3. aSkip' = aSkip \/ AgentReads
  BY StepCases
     DEF vars, gw, gs, cl, net, ags, ag, ups, SendReqStart, OpenRefused, OpenFails, Opened,
         Top, RecvFails, RelayToClient, ClientWriteFails, UpstreamClosed, Return,
         CloseStream, ReadClient, WriteToAgent, ReaderEnds, ReaderCancels, ContextDone,
         ContextResets, ContextCloses, PingFails, ClientCloses, GatewayReads, ForgetStream,
         SendReset, GatewayDisconnects, TunnelBreaks, FirstFrame, AgentDisconnects,
         DialFails, Dialed, StreamClosed, RelayToUpstream, UpstreamWriteFails,
         GatewayClosed, ReadUpstream, UpstreamEnds, UpstreamCloses
<1>4. AgentReads => aSkip' = aSkip \/ aSkip' = TRUE
  BY DEF AgentReads, DeliverFrame
<1>5. uGone' # uGone => UpstreamCloses
  BY StepCases
     DEF vars, gw, gs, cl, net, ags, ag, ups, SendReqStart, OpenRefused, OpenFails, Opened,
         Top, RecvFails, RelayToClient, ClientWriteFails, UpstreamClosed, Return,
         CloseStream, ReadClient, WriteToAgent, ReaderEnds, ReaderCancels, ContextDone,
         ContextResets, ContextCloses, PingFails, ClientCloses, GatewayReads, ForgetStream,
         SendReset, GatewayDisconnects, TunnelBreaks, AgentReads, FirstFrame, AgentDisconnects,
         DialFails, Dialed, StreamClosed, RelayToUpstream, UpstreamWriteFails,
         GatewayClosed, ReadUpstream, UpstreamEnds
<1> QED
  BY <1>1, <1>2, <1>3, <1>4, <1>5

\* The types, by who keeps the variable.
GatewayTypes ==
  /\ gpc \in {"start", "open", "top", "recv", "return", "defer", "done"}
  /\ once \in BOOLEAN /\ closeDone \in BOOLEAN /\ ctx \in BOOLEAN
  /\ rdr \in {"off", "read", "write", "close", "done"}
  /\ cw \in {"off", "wait", "checked", "close", "done"}

QueueTypes ==
  /\ gst \in {"open", "closing", "closed"}
  /\ grx \in Seq(Frames) /\ Len(grx) <= GQueue /\ grst \in BOOLEAN

ClientTypes ==
  /\ cSent \in 0..NClient /\ cGone \in {"no", "close", "drop", "ping"}
  /\ cGot \in Seq(1..NUp) /\ cEnd \in Ends

NetTypes == g2a \in Seq(Frames) /\ a2g \in Seq(Frames) /\ up \in BOOLEAN /\ adown \in BOOLEAN

ObjectTypes ==
  /\ amap \in Objs \cup {None} /\ ast \in [Objs -> {"free", "first", "ws"}]
  /\ arx \in [Objs -> Seq(Frames)] /\ \A o \in Objs : Len(arx[o]) <= AQueue
  /\ aclosed \in SUBSET Objs

AgentTypes ==
  /\ main \in Objs \cup {None}
  /\ hpc \in {"off", "dial", "relay", "done"} /\ aonce \in BOOLEAN
  /\ ur \in {"off", "read", "done"}

UpstreamTypes ==
  /\ uSent \in 0..NUp /\ uGone \in {"no", "close", "drop"}
  /\ uGot \in Seq(1..NClient) /\ uEnd \in Ends

PastTypes == gSkip \in BOOLEAN /\ aSkip \in BOOLEAN

\* The type invariant, by the variables the actions change together.
LEMMA TypeParts ==
  TypeOK <=> /\ sc \in Scenarios
             /\ GatewayTypes /\ QueueTypes /\ ClientTypes /\ NetTypes /\ ObjectTypes
             /\ AgentTypes /\ UpstreamTypes /\ PastTypes
BY DEF TypeOK, GatewayTypes, ClientTypes, QueueTypes, NetTypes, ObjectTypes, AgentTypes,
       UpstreamTypes, PastTypes

\* Every step keeps the types.
LEMMA TypeStep ==
  ASSUME TypeOK, ObjectsOK, GatewayControl, [Next]_vars
  PROVE  TypeOK'
<1>1. sc' = sc /\ Frames' = Frames /\ NClient' = NClient /\ NUp' = NUp
  BY ScenarioStays
<1>2. /\ sc \in Scenarios
      /\ GatewayTypes /\ QueueTypes /\ ClientTypes /\ NetTypes /\ ObjectTypes
      /\ AgentTypes /\ UpstreamTypes /\ PastTypes'
  BY TypeParts, PastStays DEF PastTypes
<1>3. /\ NClient \in Nat /\ NUp \in Nat
      /\ Frame("ReqStart", 0) \in Frames /\ Frame("OpenOK", 0) \in Frames
      /\ Frame("OpenErr", 0) \in Frames
      /\ Frame("Rst", Local) \in Frames /\ Frame("Rst", Relayed) \in Frames
      /\ Frame("WsClose", Local) \in Frames /\ Frame("WsClose", Relayed) \in Frames
      /\ \A n \in 1..NClient : Frame("C2A", n) \in Frames
      /\ \A n \in 1..NUp : Frame("A2C", n) \in Frames
      /\ \A f \in Frames : /\ f.t = "C2A" => f.n \in 1..NClient
                           /\ f.t = "A2C" => f.n \in 1..NUp
  BY <1>2, FrameFacts
<1> SUFFICES GatewayTypes' /\ QueueTypes' /\ ClientTypes' /\ NetTypes' /\ ObjectTypes'
             /\ AgentTypes' /\ UpstreamTypes'
  BY <1>1, <1>2 DEF TypeOK, GatewayTypes, ClientTypes, QueueTypes, NetTypes, ObjectTypes,
                    AgentTypes, UpstreamTypes, PastTypes
<1>4. /\ \A q \in Seq(Frames), f \in Frames :
           Append(q, f) \in Seq(Frames) /\ Len(Append(q, f)) = Len(q) + 1
      /\ \A q \in Seq(Frames) :
           /\ Len(q) \in Nat
           /\ q # <<>> => /\ Head(q) \in Frames /\ Tail(q) \in Seq(Frames)
                           /\ Len(Tail(q)) = Len(q) - 1
  BY AppendFacts, TailFacts, EmptyFacts
<1> USE WsAssumption DEF gw, gs, cl, net, ags, ag, ups, CloseGst
<1>5. CASE SendReqStart
  <2>1. GatewayTypes'
    BY <1>1, <1>2, <1>3, <1>4, <1>5 DEF GatewayTypes, SendReqStart, Send, Write
  <2>2. NetTypes'
    BY <1>1, <1>2, <1>3, <1>4, <1>5 DEF NetTypes, SendReqStart, Send, Write
  <2>3. QueueTypes' /\ ClientTypes' /\ ObjectTypes' /\ AgentTypes' /\ UpstreamTypes'
    BY <1>1, <1>2, <1>5 DEF QueueTypes, ClientTypes, ObjectTypes, AgentTypes,
       UpstreamTypes, SendReqStart
  <2> QED
    BY <2>1, <2>2, <2>3
<1>6. CASE OpenRefused
  <2>1. GatewayTypes'
    BY <1>1, <1>2, <1>3, <1>4, <1>6 DEF GatewayTypes, OpenRefused, Send, Write
  <2>2. QueueTypes'
    BY <1>1, <1>2, <1>3, <1>4, <1>6 DEF QueueTypes, OpenRefused, Send, Write
  <2>3. NetTypes'
    BY <1>1, <1>2, <1>3, <1>4, <1>6 DEF NetTypes, OpenRefused, Send, Write
  <2>4. ClientTypes' /\ ObjectTypes' /\ AgentTypes' /\ UpstreamTypes'
    BY <1>1, <1>2, <1>6 DEF ClientTypes, ObjectTypes, AgentTypes, UpstreamTypes,
       OpenRefused
  <2> QED
    BY <2>1, <2>2, <2>3, <2>4
<1>7. CASE OpenFails
  <2>1. GatewayTypes'
    BY <1>1, <1>2, <1>3, <1>4, <1>7 DEF GatewayTypes, OpenFails, Send, Write
  <2>2. NetTypes'
    BY <1>1, <1>2, <1>3, <1>4, <1>7 DEF NetTypes, OpenFails, Send, Write
  <2>3. QueueTypes' /\ ClientTypes' /\ ObjectTypes' /\ AgentTypes' /\ UpstreamTypes'
    BY <1>1, <1>2, <1>7 DEF QueueTypes, ClientTypes, ObjectTypes, AgentTypes,
       UpstreamTypes, OpenFails
  <2> QED
    BY <2>1, <2>2, <2>3
<1>8. CASE Opened
  <2>1. GatewayTypes'
    BY <1>1, <1>2, <1>3, <1>4, <1>8 DEF GatewayTypes, Opened, Send, Write
  <2>2. QueueTypes'
    BY <1>1, <1>2, <1>3, <1>4, <1>8 DEF QueueTypes, Opened, Send, Write
  <2>3. NetTypes'
    BY <1>1, <1>2, <1>3, <1>4, <1>8 DEF NetTypes, Opened, Send, Write
  <2>4. ClientTypes' /\ ObjectTypes' /\ AgentTypes' /\ UpstreamTypes'
    BY <1>1, <1>2, <1>8 DEF ClientTypes, ObjectTypes, AgentTypes, UpstreamTypes, Opened
  <2> QED
    BY <2>1, <2>2, <2>3, <2>4
<1>9. CASE Top
  <2>1. GatewayTypes'
    BY <1>1, <1>2, <1>3, <1>4, <1>9 DEF GatewayTypes, Top
  <2>2. QueueTypes' /\ ClientTypes' /\ NetTypes' /\ ObjectTypes' /\ AgentTypes' /\
        UpstreamTypes'
    BY <1>1, <1>2, <1>9 DEF QueueTypes, ClientTypes, NetTypes, ObjectTypes, AgentTypes,
       UpstreamTypes, Top
  <2> QED
    BY <2>1, <2>2
<1>10. CASE RecvFails
  <2>1. GatewayTypes'
    BY <1>1, <1>2, <1>3, <1>4, <1>10 DEF GatewayTypes, RecvFails, CloseStreamRaw, Send,
       Write
  <2>2. QueueTypes'
    BY <1>1, <1>2, <1>3, <1>4, <1>10 DEF QueueTypes, RecvFails, CloseStreamRaw, Send,
       Write
  <2>3. ClientTypes'
    BY <1>1, <1>2, <1>3, <1>4, <1>10 DEF ClientTypes, RecvFails, CloseStreamRaw, Send,
       Write, Ends
  <2>4. NetTypes'
    BY <1>1, <1>2, <1>3, <1>4, <1>10 DEF NetTypes, RecvFails, CloseStreamRaw, Send,
       Write
  <2>5. ObjectTypes' /\ AgentTypes' /\ UpstreamTypes'
    BY <1>1, <1>2, <1>10 DEF ObjectTypes, AgentTypes, UpstreamTypes, RecvFails
  <2> QED
    BY <2>1, <2>2, <2>3, <2>4, <2>5
<1>11. CASE RelayToClient
  <2>1. GatewayTypes'
    BY <1>1, <1>2, <1>3, <1>4, <1>11 DEF GatewayTypes, RelayToClient
  <2>2. QueueTypes'
    BY <1>1, <1>2, <1>3, <1>4, <1>11 DEF QueueTypes, RelayToClient
  <2>3. ClientTypes'
    <3>1. Head(grx).n \in 1..NUp
      BY <1>2, <1>3, <1>4, <1>11 DEF QueueTypes, RelayToClient
    <3>2. Append(cGot, Head(grx).n) \in Seq(1..NUp)
      BY <1>2, <3>1, AppendFacts DEF ClientTypes
    <3>3. cGot' \in {cGot, Append(cGot, Head(grx).n)} /\ UNCHANGED <<cSent, cGone, cEnd>>
      BY <1>11 DEF RelayToClient
    <3> QED
      BY <1>1, <1>2, <3>2, <3>3 DEF ClientTypes
  <2>4. NetTypes' /\ ObjectTypes' /\ AgentTypes' /\ UpstreamTypes'
    BY <1>1, <1>2, <1>11 DEF NetTypes, ObjectTypes, AgentTypes, UpstreamTypes,
       RelayToClient
  <2> QED
    BY <2>1, <2>2, <2>3, <2>4
<1>12. CASE ClientWriteFails
  <2>1. GatewayTypes'
    BY <1>1, <1>2, <1>3, <1>4, <1>12 DEF GatewayTypes, ClientWriteFails, CloseStreamRaw,
       SendCloseToAgent, Send, Write
  <2>2. QueueTypes'
    BY <1>1, <1>2, <1>3, <1>4, <1>12 DEF QueueTypes, ClientWriteFails, CloseStreamRaw,
       SendCloseToAgent, Send, Write
  <2>3. NetTypes'
    BY <1>1, <1>2, <1>3, <1>4, <1>12 DEF NetTypes, ClientWriteFails, CloseStreamRaw,
       SendCloseToAgent, Send, Write
  <2>4. ClientTypes' /\ ObjectTypes' /\ AgentTypes' /\ UpstreamTypes'
    BY <1>1, <1>2, <1>12 DEF ClientTypes, ObjectTypes, AgentTypes, UpstreamTypes,
       ClientWriteFails
  <2> QED
    BY <2>1, <2>2, <2>3, <2>4
<1>13. CASE UpstreamClosed
  <2>1. GatewayTypes'
    BY <1>1, <1>2, <1>3, <1>4, <1>13 DEF GatewayTypes, UpstreamClosed, EndKind,
       CloseStreamRaw, Send, Write, Ends
  <2>2. QueueTypes'
    BY <1>1, <1>2, <1>3, <1>4, <1>13 DEF QueueTypes, UpstreamClosed, EndKind,
       CloseStreamRaw, Send, Write, Ends
  <2>3. ClientTypes'
    BY <1>1, <1>2, <1>3, <1>4, <1>13 DEF ClientTypes, UpstreamClosed, EndKind,
       CloseStreamRaw, Send, Write, Ends
  <2>4. NetTypes'
    BY <1>1, <1>2, <1>3, <1>4, <1>13 DEF NetTypes, UpstreamClosed, EndKind,
       CloseStreamRaw, Send, Write, Ends
  <2>5. ObjectTypes' /\ AgentTypes' /\ UpstreamTypes'
    BY <1>1, <1>2, <1>13 DEF ObjectTypes, AgentTypes, UpstreamTypes, UpstreamClosed
  <2> QED
    BY <2>1, <2>2, <2>3, <2>4, <2>5
<1>14. CASE Return
  <2>1. GatewayTypes'
    BY <1>1, <1>2, <1>3, <1>4, <1>14 DEF GatewayTypes, Return
  <2>2. ClientTypes'
    BY <1>1, <1>2, <1>3, <1>4, <1>14 DEF ClientTypes, Return, Ends
  <2>3. QueueTypes' /\ NetTypes' /\ ObjectTypes' /\ AgentTypes' /\ UpstreamTypes'
    BY <1>1, <1>2, <1>14 DEF QueueTypes, NetTypes, ObjectTypes, AgentTypes,
       UpstreamTypes, Return
  <2> QED
    BY <2>1, <2>2, <2>3
<1>15. CASE CloseStream
  <2>1. GatewayTypes'
    BY <1>1, <1>2, <1>3, <1>4, <1>15 DEF GatewayTypes, CloseStream
  <2>2. QueueTypes'
    BY <1>1, <1>2, <1>3, <1>4, <1>15 DEF QueueTypes, CloseStream
  <2>3. ClientTypes' /\ NetTypes' /\ ObjectTypes' /\ AgentTypes' /\ UpstreamTypes'
    BY <1>1, <1>2, <1>15 DEF ClientTypes, NetTypes, ObjectTypes, AgentTypes,
       UpstreamTypes, CloseStream
  <2> QED
    BY <2>1, <2>2, <2>3
<1>16. CASE ReadClient
  <2>1. GatewayTypes'
    BY <1>1, <1>2, <1>3, <1>4, <1>16 DEF GatewayTypes, ReadClient, CloseStreamRaw, Send,
       Write
  <2>2. QueueTypes'
    BY <1>1, <1>2, <1>3, <1>4, <1>16 DEF QueueTypes, ReadClient, CloseStreamRaw, Send,
       Write
  <2>3. ClientTypes'
    BY <1>1, <1>2, <1>3, <1>4, <1>16 DEF ClientTypes, ReadClient, CloseStreamRaw, Send,
       Write, Ends
  <2>4. NetTypes'
    BY <1>1, <1>2, <1>3, <1>4, <1>16 DEF NetTypes, ReadClient, CloseStreamRaw, Send,
       Write
  <2>5. ObjectTypes' /\ AgentTypes' /\ UpstreamTypes'
    BY <1>1, <1>2, <1>16 DEF ObjectTypes, AgentTypes, UpstreamTypes, ReadClient
  <2> QED
    BY <2>1, <2>2, <2>3, <2>4, <2>5
<1>17. CASE WriteToAgent
  <2>1. GatewayTypes'
    BY <1>1, <1>2, <1>3, <1>4, <1>17 DEF GatewayTypes, WriteToAgent, CloseStreamRaw,
       Send, Write
  <2>2. QueueTypes'
    BY <1>1, <1>2, <1>3, <1>4, <1>17 DEF QueueTypes, WriteToAgent, CloseStreamRaw, Send,
       Write
  <2>3. NetTypes'
    <3>1. rdr = "write" /\ UNCHANGED <<a2g, up, adown>>
          /\ g2a' \in {g2a, Append(g2a, Frame("C2A", cSent))}
      BY <1>17 DEF WriteToAgent, CloseStreamRaw, Send, Write
    <3>2. cSent \in 1..NClient
      BY <1>2, <3>1 DEF ClientTypes, GatewayControl
    <3>3. g2a' \in Seq(Frames)
      BY <1>2, <1>3, <1>4, <3>1, <3>2 DEF NetTypes
    <3> QED
      BY <1>1, <1>2, <3>1, <3>3 DEF NetTypes
  <2>4. ClientTypes' /\ ObjectTypes' /\ AgentTypes' /\ UpstreamTypes'
    BY <1>1, <1>2, <1>17 DEF ClientTypes, ObjectTypes, AgentTypes, UpstreamTypes,
       WriteToAgent
  <2> QED
    BY <2>1, <2>2, <2>3, <2>4
<1>18. CASE ReaderEnds
  <2>1. GatewayTypes'
    BY <1>1, <1>2, <1>3, <1>4, <1>18 DEF GatewayTypes, ReaderEnds, CloseStreamRaw,
       SendCloseToAgent, Send, Write
  <2>2. QueueTypes'
    BY <1>1, <1>2, <1>3, <1>4, <1>18 DEF QueueTypes, ReaderEnds, CloseStreamRaw,
       SendCloseToAgent, Send, Write
  <2>3. NetTypes'
    BY <1>1, <1>2, <1>3, <1>4, <1>18 DEF NetTypes, ReaderEnds, CloseStreamRaw,
       SendCloseToAgent, Send, Write
  <2>4. ClientTypes' /\ ObjectTypes' /\ AgentTypes' /\ UpstreamTypes'
    BY <1>1, <1>2, <1>18 DEF ClientTypes, ObjectTypes, AgentTypes, UpstreamTypes,
       ReaderEnds
  <2> QED
    BY <2>1, <2>2, <2>3, <2>4
<1>19. CASE ReaderCancels
  <2>1. GatewayTypes'
    BY <1>1, <1>2, <1>3, <1>4, <1>19 DEF GatewayTypes, ReaderCancels
  <2>2. QueueTypes' /\ ClientTypes' /\ NetTypes' /\ ObjectTypes' /\ AgentTypes' /\
        UpstreamTypes'
    BY <1>1, <1>2, <1>19 DEF QueueTypes, ClientTypes, NetTypes, ObjectTypes, AgentTypes,
       UpstreamTypes, ReaderCancels
  <2> QED
    BY <2>1, <2>2
<1>20. CASE ContextDone
  <2>1. GatewayTypes'
    BY <1>1, <1>2, <1>3, <1>4, <1>20 DEF GatewayTypes, ContextDone
  <2>2. QueueTypes' /\ ClientTypes' /\ NetTypes' /\ ObjectTypes' /\ AgentTypes' /\
        UpstreamTypes'
    BY <1>1, <1>2, <1>20 DEF QueueTypes, ClientTypes, NetTypes, ObjectTypes, AgentTypes,
       UpstreamTypes, ContextDone
  <2> QED
    BY <2>1, <2>2
<1>21. CASE ContextResets
  <2>1. GatewayTypes'
    BY <1>1, <1>2, <1>3, <1>4, <1>21 DEF GatewayTypes, ContextResets, Write
  <2>2. NetTypes'
    BY <1>1, <1>2, <1>3, <1>4, <1>21 DEF NetTypes, ContextResets, Write
  <2>3. QueueTypes' /\ ClientTypes' /\ ObjectTypes' /\ AgentTypes' /\ UpstreamTypes'
    BY <1>1, <1>2, <1>21 DEF QueueTypes, ClientTypes, ObjectTypes, AgentTypes,
       UpstreamTypes, ContextResets
  <2> QED
    BY <2>1, <2>2, <2>3
<1>22. CASE ContextCloses
  <2>1. GatewayTypes'
    BY <1>1, <1>2, <1>3, <1>4, <1>22 DEF GatewayTypes, ContextCloses
  <2>2. QueueTypes'
    BY <1>1, <1>2, <1>3, <1>4, <1>22 DEF QueueTypes, ContextCloses
  <2>3. ClientTypes' /\ NetTypes' /\ ObjectTypes' /\ AgentTypes' /\ UpstreamTypes'
    BY <1>1, <1>2, <1>22 DEF ClientTypes, NetTypes, ObjectTypes, AgentTypes,
       UpstreamTypes, ContextCloses
  <2> QED
    BY <2>1, <2>2, <2>3
<1>23. CASE PingFails
  <2>1. GatewayTypes'
    BY <1>1, <1>2, <1>3, <1>4, <1>23 DEF GatewayTypes, PingFails
  <2>2. ClientTypes'
    BY <1>1, <1>2, <1>3, <1>4, <1>23 DEF ClientTypes, PingFails, Ends
  <2>3. QueueTypes' /\ NetTypes' /\ ObjectTypes' /\ AgentTypes' /\ UpstreamTypes'
    BY <1>1, <1>2, <1>23 DEF QueueTypes, NetTypes, ObjectTypes, AgentTypes,
       UpstreamTypes, PingFails
  <2> QED
    BY <2>1, <2>2, <2>3
<1>24. CASE ClientCloses
  <2>1. ClientTypes'
    BY <1>1, <1>2, <1>3, <1>4, <1>24 DEF ClientTypes, ClientCloses, Ends
  <2>2. GatewayTypes' /\ QueueTypes' /\ NetTypes' /\ ObjectTypes' /\ AgentTypes' /\
        UpstreamTypes'
    BY <1>1, <1>2, <1>24 DEF GatewayTypes, QueueTypes, NetTypes, ObjectTypes,
       AgentTypes, UpstreamTypes, ClientCloses
  <2> QED
    BY <2>1, <2>2
<1>25. CASE GatewayReads
  <2>1. QueueTypes'
    <3>1. Head(a2g) \in Frames
      BY <1>2, <1>4, <1>25 DEF NetTypes, GatewayReads
    <3>2. /\ Append(grx, Head(a2g)) \in Seq(Frames)
          /\ Len(Append(grx, Head(a2g))) = Len(grx) + 1 /\ Len(grx) \in Nat
      BY <1>2, <1>4, <3>1 DEF QueueTypes
    <3>3. /\ gst' \in {gst, "closed"} /\ grst' \in {grst, TRUE}
          /\ \/ grx' = grx
             \/ Len(grx) < GQueue /\ grx' = Append(grx, Head(a2g))
      BY <1>25 DEF GatewayReads, Deliver
    <3>4. grx' \in Seq(Frames) /\ Len(grx') <= GQueue
      BY <1>2, <3>2, <3>3 DEF QueueTypes
    <3> QED
      BY <1>1, <1>2, <3>3, <3>4 DEF QueueTypes
  <2>2. NetTypes'
    BY <1>1, <1>2, <1>3, <1>4, <1>25 DEF NetTypes, GatewayReads, Deliver
  <2>3. GatewayTypes' /\ ClientTypes' /\ ObjectTypes' /\ AgentTypes' /\ UpstreamTypes'
    BY <1>1, <1>2, <1>25 DEF GatewayTypes, ClientTypes, ObjectTypes, AgentTypes,
       UpstreamTypes, GatewayReads
  <2> QED
    BY <2>1, <2>2, <2>3
<1>26. CASE SendReset
  <2>1. QueueTypes'
    BY <1>1, <1>2, <1>3, <1>4, <1>26 DEF QueueTypes, SendReset, Write
  <2>2. NetTypes'
    BY <1>1, <1>2, <1>3, <1>4, <1>26 DEF NetTypes, SendReset, Write
  <2>3. GatewayTypes' /\ ClientTypes' /\ ObjectTypes' /\ AgentTypes' /\ UpstreamTypes'
    BY <1>1, <1>2, <1>26 DEF GatewayTypes, ClientTypes, ObjectTypes, AgentTypes,
       UpstreamTypes, SendReset
  <2> QED
    BY <2>1, <2>2, <2>3
<1>27. CASE GatewayDisconnects
  <2>1. QueueTypes'
    BY <1>1, <1>2, <1>3, <1>4, <1>27 DEF QueueTypes, GatewayDisconnects
  <2>2. GatewayTypes' /\ ClientTypes' /\ NetTypes' /\ ObjectTypes' /\ AgentTypes' /\
        UpstreamTypes'
    BY <1>1, <1>2, <1>27 DEF GatewayTypes, ClientTypes, NetTypes, ObjectTypes,
       AgentTypes, UpstreamTypes, GatewayDisconnects
  <2> QED
    BY <2>1, <2>2
<1>28. CASE TunnelBreaks
  <2>1. NetTypes'
    <3>1. PICK k \in 0..Len(a2g) : a2g' = SubSeq(a2g, 1, k)
      BY <1>28 DEF TunnelBreaks
    <3>2. a2g' \in Seq(Frames) /\ <<>> \in Seq(Frames)
      BY <1>2, <3>1 DEF NetTypes
    <3> QED
      BY <1>1, <1>2, <1>28, <3>2 DEF NetTypes, TunnelBreaks
  <2>2. GatewayTypes' /\ QueueTypes' /\ ClientTypes' /\ ObjectTypes' /\ AgentTypes' /\
        UpstreamTypes'
    BY <1>1, <1>2, <1>28 DEF GatewayTypes, QueueTypes, ClientTypes, ObjectTypes,
       AgentTypes, UpstreamTypes, TunnelBreaks
  <2> QED
    BY <2>1, <2>2
<1>29. CASE AgentReads
  <2>1. NetTypes'
    BY <1>1, <1>2, <1>3, <1>4, <1>29 DEF NetTypes, ObjectTypes, AgentReads,
       DeliverFrame, AgentSend
  <2>2. ObjectTypes'
    <3> DEFINE o == IF amap # None THEN amap ELSE CHOOSE x \in Objs : ast[x] = "free"
               f == Head(g2a)
    <3>1. o \in Objs
      BY <1>2, <1>29 DEF ObjectTypes, AgentReads
    <3>2. f \in Frames
      BY <1>2, <1>4, <1>29 DEF NetTypes, AgentReads
    <3>3. /\ ast' = IF amap = None THEN [ast EXCEPT ![o] = "first"] ELSE ast
          /\ DeliverFrame(o, f)
      BY <1>29 DEF AgentReads
    <3> HIDE DEF o, f
    <3>4. /\ amap' \in Objs \cup {None} /\ aclosed' \in SUBSET Objs
          /\ ast' \in [Objs -> {"free", "first", "ws"}]
      BY <1>2, <3>1, <3>3 DEF ObjectTypes, DeliverFrame
    <3>5. arx' \in [Objs -> Seq(Frames)] /\ \A p \in Objs : Len(arx'[p]) <= AQueue
      <4>1. CASE arx' = arx
        BY <1>2, <4>1 DEF ObjectTypes
      <4>2. CASE Len(arx[o]) < AQueue /\ arx' = [arx EXCEPT ![o] = Append(@, f)]
        <5>1. arx[o] \in Seq(Frames)
          BY <1>2, <3>1 DEF ObjectTypes
        <5>2. Append(arx[o], f) \in Seq(Frames) /\ Len(Append(arx[o], f)) = Len(arx[o]) + 1
              /\ Len(arx[o]) \in Nat
          BY <1>4, <3>2, <5>1
        <5> QED
          BY <1>2, <3>1, <4>2, <5>2 DEF ObjectTypes
      <4> QED
        BY <3>3, <4>1, <4>2 DEF DeliverFrame
    <3> QED
      BY <1>1, <3>4, <3>5 DEF ObjectTypes
  <2>3. GatewayTypes' /\ QueueTypes' /\ ClientTypes' /\ AgentTypes' /\ UpstreamTypes'
    BY <1>1, <1>2, <1>29 DEF GatewayTypes, QueueTypes, ClientTypes, AgentTypes,
       UpstreamTypes, AgentReads
  <2> QED
    BY <2>1, <2>2, <2>3
<1>30. ASSUME NEW o \in Objs, FirstFrame(o)
     PROVE  /\ GatewayTypes' /\ QueueTypes' /\ ClientTypes' /\ NetTypes'
            /\ ObjectTypes' /\ AgentTypes' /\ UpstreamTypes'
  <2>1. NetTypes'
    <3>1. /\ a2g' \in {a2g, Append(a2g, Frame("Rst", Local))}
          /\ g2a' = g2a /\ up' = up /\ adown' = adown
      BY <1>30 DEF FirstFrame, AgentSend
    <3> QED
      BY <1>1, <1>2, <1>3, <1>4, <3>1 DEF NetTypes
  <2>2. ObjectTypes'
    <3>1. arx[o] \in Seq(Frames)
      BY <1>2 DEF ObjectTypes
    <3>2. CASE StreamReturns(o)
      <4>1. <<>> \in Seq(Frames) /\ Len(<<>>) = 0
        OBVIOUS
      <4> QED
        BY <1>1, <1>2, <3>2, <4>1 DEF ObjectTypes, StreamReturns, Forgotten
    <3>3. CASE /\ arx[o] # <<>> /\ ast' = [ast EXCEPT ![o] = "ws"]
               /\ arx' = [arx EXCEPT ![o] = Tail(@)] /\ UNCHANGED <<amap, aclosed>>
      <4>1. Tail(arx[o]) \in Seq(Frames) /\ Len(Tail(arx[o])) = Len(arx[o]) - 1
            /\ Len(arx[o]) \in Nat
        BY <1>4, <3>1, <3>3
      <4> QED
        BY <1>1, <1>2, <3>3, <4>1 DEF ObjectTypes
    <3> QED
      BY <1>30, <3>2, <3>3 DEF FirstFrame
  <2>3. AgentTypes'
    BY <1>1, <1>2, <1>3, <1>4, <1>30 DEF AgentTypes, FirstFrame, StreamReturns,
       Forgotten, AgentSend
  <2>4. GatewayTypes' /\ QueueTypes' /\ ClientTypes' /\ UpstreamTypes'
    BY <1>1, <1>2, <1>30 DEF GatewayTypes, QueueTypes, ClientTypes, UpstreamTypes,
       FirstFrame
  <2> QED
    BY <2>1, <2>2, <2>3, <2>4
<1>31. CASE AgentDisconnects
  <2>1. NetTypes'
    BY <1>1, <1>2, <1>3, <1>4, <1>31 DEF NetTypes, AgentDisconnects, Forgotten
  <2>2. ObjectTypes'
    BY <1>1, <1>2, <1>3, <1>4, <1>31 DEF ObjectTypes, AgentDisconnects, Forgotten
  <2>3. GatewayTypes' /\ QueueTypes' /\ ClientTypes' /\ AgentTypes' /\ UpstreamTypes'
    BY <1>1, <1>2, <1>31 DEF GatewayTypes, QueueTypes, ClientTypes, AgentTypes,
       UpstreamTypes, AgentDisconnects
  <2> QED
    BY <2>1, <2>2, <2>3
<1>32. CASE DialFails
  <2>1. NetTypes'
    BY <1>1, <1>2, <1>3, <1>4, <1>32 DEF NetTypes, DialFails, AgentSend, Forgotten
  <2>2. ObjectTypes'
    BY <1>1, <1>2, <1>3, <1>4, <1>32 DEF ObjectTypes, DialFails, AgentSend, Forgotten
  <2>3. AgentTypes'
    BY <1>1, <1>2, <1>3, <1>4, <1>32 DEF AgentTypes, DialFails, AgentSend, Forgotten
  <2>4. GatewayTypes' /\ QueueTypes' /\ ClientTypes' /\ UpstreamTypes'
    BY <1>1, <1>2, <1>32 DEF GatewayTypes, QueueTypes, ClientTypes, UpstreamTypes,
       DialFails
  <2> QED
    BY <2>1, <2>2, <2>3, <2>4
<1>33. CASE Dialed
  <2>1. NetTypes'
    BY <1>1, <1>2, <1>3, <1>4, <1>33 DEF NetTypes, Dialed, AgentSend, HandlerReturns,
       Forgotten
  <2>2. ObjectTypes'
    BY <1>1, <1>2, <1>3, <1>4, <1>33 DEF ObjectTypes, Dialed, AgentSend, HandlerReturns,
       Forgotten
  <2>3. AgentTypes'
    BY <1>1, <1>2, <1>3, <1>4, <1>33 DEF AgentTypes, Dialed, AgentSend, HandlerReturns,
       Forgotten
  <2>4. UpstreamTypes'
    BY <1>1, <1>2, <1>3, <1>4, <1>33 DEF UpstreamTypes, Dialed, AgentSend,
       HandlerReturns, Forgotten, Ends
  <2>5. GatewayTypes' /\ QueueTypes' /\ ClientTypes'
    BY <1>1, <1>2, <1>33 DEF GatewayTypes, QueueTypes, ClientTypes, Dialed
  <2> QED
    BY <2>1, <2>2, <2>3, <2>4, <2>5
<1>34. CASE StreamClosed
  <2>1. ObjectTypes'
    BY <1>1, <1>2, <1>3, <1>4, <1>34 DEF ObjectTypes, StreamClosed, HandlerReturns,
       Forgotten
  <2>2. AgentTypes'
    BY <1>1, <1>2, <1>3, <1>4, <1>34 DEF AgentTypes, StreamClosed, HandlerReturns,
       Forgotten
  <2>3. UpstreamTypes'
    BY <1>1, <1>2, <1>3, <1>4, <1>34 DEF UpstreamTypes, StreamClosed, HandlerReturns,
       Forgotten, Ends
  <2>4. GatewayTypes' /\ QueueTypes' /\ ClientTypes' /\ NetTypes'
    BY <1>1, <1>2, <1>34 DEF GatewayTypes, QueueTypes, ClientTypes, NetTypes,
       StreamClosed
  <2> QED
    BY <2>1, <2>2, <2>3, <2>4
<1>35. CASE RelayToUpstream
  <2>1. ObjectTypes'
    <3>1. main \in Objs /\ arx[main] \in Seq(Frames) /\ arx[main] # <<>>
      BY <1>2, <1>35 DEF ObjectTypes, AgentTypes, ObjectsOK, RelayToUpstream, NextFrame
    <3>2. Tail(arx[main]) \in Seq(Frames) /\ Len(Tail(arx[main])) = Len(arx[main]) - 1
          /\ Len(arx[main]) \in Nat
      BY <1>4, <3>1
    <3>3. /\ arx' = [arx EXCEPT ![main] = Tail(@)] /\ ast' = ast
          /\ amap' = amap /\ aclosed' = aclosed
      BY <1>35 DEF RelayToUpstream
    <3>4. amap' \in Objs \cup {None} /\ aclosed' \in SUBSET Objs
      BY <1>2, <3>1, <3>3 DEF ObjectTypes, Forgotten
    <3> QED
      BY <1>1, <1>2, <3>1, <3>2, <3>3, <3>4 DEF ObjectTypes
  <2>2. UpstreamTypes'
    <3>1. main \in Objs /\ arx[main] \in Seq(Frames) /\ arx[main] # <<>>
      BY <1>2, <1>35 DEF ObjectTypes, AgentTypes, ObjectsOK, RelayToUpstream, NextFrame
    <3>2. Head(arx[main]).n \in 1..NClient
      BY <1>3, <1>4, <1>35, <3>1 DEF RelayToUpstream, NextFrame
    <3>3. Append(uGot, Head(arx[main]).n) \in Seq(1..NClient)
      BY <1>2, <3>2, AppendFacts DEF UpstreamTypes
    <3>4. uGot' \in {uGot, Append(uGot, Head(arx[main]).n)} /\ UNCHANGED <<uSent, uGone, uEnd>>
      BY <1>35 DEF RelayToUpstream
    <3> QED
      BY <1>1, <1>2, <3>3, <3>4 DEF UpstreamTypes
  <2>3. GatewayTypes' /\ QueueTypes' /\ ClientTypes' /\ NetTypes' /\ AgentTypes'
    BY <1>1, <1>2, <1>35 DEF GatewayTypes, QueueTypes, ClientTypes, NetTypes,
       AgentTypes, RelayToUpstream
  <2> QED
    BY <2>1, <2>2, <2>3
<1>36. CASE UpstreamWriteFails
  <2>1. NetTypes'
    BY <1>1, <1>2, <1>3, <1>4, <1>36 DEF NetTypes, UpstreamWriteFails, NextFrame,
       TellGateway, EndFrame, AgentSend, HandlerReturns, Forgotten
  <2>2. ObjectTypes'
    <3>1. main \in Objs /\ arx[main] \in Seq(Frames) /\ arx[main] # <<>>
      BY <1>2, <1>36 DEF ObjectTypes, AgentTypes, ObjectsOK, UpstreamWriteFails, NextFrame
    <3>2. Tail(arx[main]) \in Seq(Frames) /\ Len(Tail(arx[main])) = Len(arx[main]) - 1
          /\ Len(arx[main]) \in Nat
      BY <1>4, <3>1
    <3>3. /\ arx' = [arx EXCEPT ![main] = Tail(@)] /\ ast' = ast
          /\ amap' = None /\ aclosed' = Forgotten \cup {main}
      BY <1>36 DEF UpstreamWriteFails
    <3>4. amap' \in Objs \cup {None} /\ aclosed' \in SUBSET Objs
      BY <1>2, <3>1, <3>3 DEF ObjectTypes, Forgotten
    <3> QED
      BY <1>1, <1>2, <3>1, <3>2, <3>3, <3>4 DEF ObjectTypes
  <2>3. AgentTypes'
    BY <1>1, <1>2, <1>3, <1>4, <1>36 DEF AgentTypes, UpstreamWriteFails, NextFrame,
       TellGateway, EndFrame, AgentSend, HandlerReturns, Forgotten
  <2>4. UpstreamTypes'
    BY <1>1, <1>2, <1>3, <1>4, <1>36 DEF UpstreamTypes, UpstreamWriteFails, NextFrame,
       TellGateway, EndFrame, AgentSend, HandlerReturns, Forgotten, Ends
  <2>5. GatewayTypes' /\ QueueTypes' /\ ClientTypes'
    BY <1>1, <1>2, <1>36 DEF GatewayTypes, QueueTypes, ClientTypes, UpstreamWriteFails
  <2> QED
    BY <2>1, <2>2, <2>3, <2>4, <2>5
<1>37. CASE GatewayClosed
  <2>1. NetTypes'
    BY <1>1, <1>2, <1>3, <1>4, <1>37 DEF NetTypes, GatewayClosed, NextFrame, EndKind,
       TellGateway, EndFrame, AgentSend, HandlerReturns, Forgotten, Ends
  <2>2. ObjectTypes'
    <3>1. main \in Objs /\ arx[main] \in Seq(Frames) /\ arx[main] # <<>>
      BY <1>2, <1>37 DEF ObjectTypes, AgentTypes, ObjectsOK, GatewayClosed, NextFrame
    <3>2. Tail(arx[main]) \in Seq(Frames) /\ Len(Tail(arx[main])) = Len(arx[main]) - 1
          /\ Len(arx[main]) \in Nat
      BY <1>4, <3>1
    <3>3. /\ arx' = [arx EXCEPT ![main] = Tail(@)] /\ ast' = ast
          /\ amap' = None /\ aclosed' \in {Forgotten, Forgotten \cup {main}}
      BY <1>37 DEF GatewayClosed
    <3>4. amap' \in Objs \cup {None} /\ aclosed' \in SUBSET Objs
      BY <1>2, <3>1, <3>3 DEF ObjectTypes, Forgotten
    <3> QED
      BY <1>1, <1>2, <3>1, <3>2, <3>3, <3>4 DEF ObjectTypes
  <2>3. AgentTypes'
    BY <1>1, <1>2, <1>3, <1>4, <1>37 DEF AgentTypes, GatewayClosed, NextFrame, EndKind,
       TellGateway, EndFrame, AgentSend, HandlerReturns, Forgotten, Ends
  <2>4. UpstreamTypes'
    BY <1>1, <1>2, <1>3, <1>4, <1>37 DEF UpstreamTypes, GatewayClosed, NextFrame,
       EndKind, TellGateway, EndFrame, AgentSend, HandlerReturns, Forgotten, Ends
  <2>5. GatewayTypes' /\ QueueTypes' /\ ClientTypes'
    BY <1>1, <1>2, <1>37 DEF GatewayTypes, QueueTypes, ClientTypes, GatewayClosed
  <2> QED
    BY <2>1, <2>2, <2>3, <2>4, <2>5
<1>38. CASE ReadUpstream
  <2>1. NetTypes'
    BY <1>1, <1>2, <1>3, <1>4, <1>38 DEF NetTypes, UpstreamTypes, ReadUpstream,
       AgentSend
  <2>2. AgentTypes'
    BY <1>1, <1>2, <1>3, <1>4, <1>38 DEF AgentTypes, ReadUpstream, AgentSend
  <2>3. UpstreamTypes'
    BY <1>1, <1>2, <1>3, <1>4, <1>38 DEF UpstreamTypes, ReadUpstream, AgentSend, Ends
  <2>4. GatewayTypes' /\ QueueTypes' /\ ClientTypes' /\ ObjectTypes'
    BY <1>1, <1>2, <1>38 DEF GatewayTypes, QueueTypes, ClientTypes, ObjectTypes,
       ReadUpstream
  <2> QED
    BY <2>1, <2>2, <2>3, <2>4
<1>39. CASE UpstreamEnds
  <2>1. NetTypes'
    BY <1>1, <1>2, <1>3, <1>4, <1>39 DEF NetTypes, UpstreamEnds, TellGateway, EndFrame,
       AgentSend
  <2>2. ObjectTypes'
    <3>1. /\ aclosed' \in {aclosed, aclosed \cup ({main} \ {None})}
          /\ UNCHANGED <<amap, ast, arx>>
      BY <1>39 DEF UpstreamEnds
    <3>2. aclosed' \in SUBSET Objs
      BY <1>2, <3>1 DEF ObjectTypes, AgentTypes
    <3> QED
      BY <1>1, <1>2, <3>1, <3>2 DEF ObjectTypes
  <2>3. AgentTypes'
    BY <1>1, <1>2, <1>3, <1>4, <1>39 DEF AgentTypes, UpstreamEnds, TellGateway,
       EndFrame, AgentSend
  <2>4. GatewayTypes' /\ QueueTypes' /\ ClientTypes' /\ UpstreamTypes'
    BY <1>1, <1>2, <1>39 DEF GatewayTypes, QueueTypes, ClientTypes, UpstreamTypes,
       UpstreamEnds
  <2> QED
    BY <2>1, <2>2, <2>3, <2>4
<1>40. CASE UpstreamCloses
  <2>1. UpstreamTypes'
    BY <1>1, <1>2, <1>3, <1>4, <1>40 DEF UpstreamTypes, UpstreamCloses, Ends
  <2>2. GatewayTypes' /\ QueueTypes' /\ ClientTypes' /\ NetTypes' /\ ObjectTypes' /\
        AgentTypes'
    BY <1>1, <1>2, <1>40 DEF GatewayTypes, QueueTypes, ClientTypes, NetTypes,
       ObjectTypes, AgentTypes, UpstreamCloses
  <2> QED
    BY <2>1, <2>2
<1>41. CASE ForgetStream
  BY <1>1, <1>2, <1>41 DEF ForgetStream, GatewayTypes, ClientTypes, QueueTypes, NetTypes,
     ObjectTypes, AgentTypes, UpstreamTypes
<1>42. CASE UNCHANGED vars
  BY <1>1, <1>2, <1>42 DEF vars, GatewayTypes, ClientTypes, QueueTypes, NetTypes, ObjectTypes,
     AgentTypes, UpstreamTypes
<1> QED
  BY StepCases, <1>5, <1>6, <1>7, <1>8, <1>9, <1>10, <1>11, <1>12, <1>13, <1>14, <1>15,
     <1>16, <1>17, <1>18, <1>19, <1>20, <1>21, <1>22, <1>23, <1>24, <1>25, <1>26, <1>27,
     <1>28, <1>29, <1>30, <1>31, <1>32, <1>33, <1>34, <1>35, <1>36, <1>37, <1>38, <1>39,
     <1>40, <1>41, <1>42

-----------------------------------------------------------------------------
(* Control.                                                                *)

\* The head of a queue that holds no close that was passed on is none.
LEMMA HeadNotPassedOn ==
  ASSUME NEW S, NEW q \in Seq(S), q # <<>>, NonePassedOn(q)
  PROVE  ~PassedOn(Head(q))
<1>1. 1 \in 1..Len(q) /\ Head(q) = q[1]
  BY EmptyFacts, TailFacts
<1> QED
  BY <1>1 DEF NonePassedOn

\* Where the websocket handler runs there is an object.
LEMMA MainServes ==
  ASSUME TypeOK, ObjectsOK, hpc # "off"
  PROVE  main \in Objs /\ main # None /\ ast[main] = "ws" /\ arx[main] \in Seq(Frames)
BY WsAssumption DEF TypeOK, ObjectsOK

\* The goroutines of both sides stay where they may be together.
LEMMA ControlStep ==
  ASSUME TypeOK, ObjectsOK, OneStart, GatewayControl, AgentControl, ClosesLast, [Next]_vars
  PROVE  GatewayControl' /\ AgentControl'
<1>1. /\ grx \in Seq(Frames) /\ cSent \in Nat /\ uSent \in Nat
      /\ ur \in {"off", "read", "done"} /\ rdr \in {"off", "read", "write", "close", "done"}
      /\ uGone \in {"no", "close", "drop"}
  BY FrameFacts DEF TypeOK
<1>2. CASE ContextDone \/ ContextResets \/ ContextCloses \/ PingFails \/ ClientCloses \/
          GatewayReads \/ ForgetStream \/ SendReset \/ GatewayDisconnects \/
          TunnelBreaks \/ AgentReads \/ AgentDisconnects \/ UNCHANGED vars
  BY <1>2
     DEF GatewayControl, AgentControl, vars, gw, gs, cl, net, ags, ag, ups, ContextDone,
         ContextResets, ContextCloses, PingFails, ClientCloses, GatewayReads,
         ForgetStream, SendReset, GatewayDisconnects, TunnelBreaks, AgentReads,
         AgentDisconnects
<1>3. CASE SendReqStart \/ OpenRefused \/ OpenFails \/ Opened \/ Top \/ RecvFails \/
          RelayToClient \/ ClientWriteFails \/ Return \/ CloseStream
  <2>1. /\ UNCHANGED <<hpc, ur, uGot, uSent, uGone, uEnd, cSent>>
        /\ rdr' = rdr \/ (gpc = "open" /\ rdr' = "read")
        /\ cGot' = cGot \/ gpc = "recv"
        /\ cEnd' \in {cEnd, "cut"}
        /\ gpc' \in {"start", "open"} => gpc = "start" /\ cGot' = cGot /\ rdr' = rdr
        /\ gpc' \in {"top", "recv"} => gpc \in {"top", "recv"} \/ rdr' = "read"
        /\ gpc \in {"return", "defer", "done"} => gpc' \in {"defer", "done"}
    BY <1>3
       DEF gw, gs, cl, net, ags, ag, ups, SendReqStart, OpenRefused, OpenFails, Opened,
           Top, RecvFails, RelayToClient, ClientWriteFails, Return, CloseStream
  <2> QED
    BY <1>1, <2>1 DEF GatewayControl, AgentControl
<1>4. CASE UpstreamClosed
  <2>1. /\ UNCHANGED <<hpc, ur, uGot, uSent, uGone, uEnd, cSent, rdr, cGot>>
        /\ gpc = "recv" /\ gpc' = "return" /\ grx # <<>>
        /\ cEnd' = EndKind(Head(grx), cGone) /\ Head(grx).t \in {"WsClose", "Rst"}
    BY <1>4 DEF UpstreamClosed, ag, ups
  <2>2. cEnd' = "peer" => PassedOn(Head(grx))
    BY <2>1 DEF EndKind, PassedOn
  <2>3. cEnd' = "peer" => ur = "done"
    BY <1>1, <2>1, <2>2, HeadNotPassedOn DEF ClosesLast
  <2> QED
    BY <2>1, <2>3 DEF GatewayControl, AgentControl
<1>5. CASE ReadClient \/ WriteToAgent \/ ReaderEnds \/ ReaderCancels
  <2>1. /\ UNCHANGED <<hpc, ur, uGot, uSent, uGone, uEnd, gpc, cGot, cEnd>>
        /\ rdr \in {"read", "write", "close"}
        /\ rdr \in {"close", "done"} => rdr' \in {"close", "done"}
        /\ rdr' \in {"read", "write", "close", "done"}
        /\ cSent' = cSent \/ (rdr' # "off" /\ cSent' = cSent + 1)
        /\ rdr' = "write" => cSent' = cSent + 1
    BY <1>5
       DEF gw, gs, cl, net, ags, ag, ups, ReadClient, WriteToAgent, ReaderEnds,
           ReaderCancels
  <2> QED
    BY <1>1, <2>1 DEF GatewayControl, AgentControl
<1>6. ASSUME NEW o \in Objs, FirstFrame(o) PROVE GatewayControl' /\ AgentControl'
  <2>1. /\ UNCHANGED <<gpc, rdr, cSent, cGot, cEnd, uGot, uSent, uGone, uEnd, ur>>
        /\ hpc' = hpc \/ (hpc' = "dial" /\ arx[o] # <<>> /\ Head(arx[o]).t = "ReqStart")
    BY <1>6 DEF FirstFrame, gw, cl, ups, ag
  <2>2. arx[o] # <<>> => Head(arx[o]) = arx[o][1]
    <3>1. arx[o] \in Seq(Frames)
      BY DEF TypeOK
    <3> QED
      BY <3>1, TailFacts
  <2>3. hpc' = "dial" /\ hpc' # hpc => hpc = "off"
    BY <2>1, <2>2 DEF OneStart, HasStart, ObjectsOK
  <2> QED
    BY <2>1, <2>3 DEF GatewayControl, AgentControl
<1>7. CASE DialFails \/ Dialed \/ StreamClosed \/ UpstreamWriteFails \/ RelayToUpstream
          \/ ReadUpstream \/ UpstreamEnds \/ UpstreamCloses
  <2>1. /\ UNCHANGED <<gpc, rdr, cSent, cGot, cEnd>>
        /\ uEnd' \in {uEnd, "cut"}
        /\ hpc' = hpc \/ hpc' = "done" \/ (hpc' = "relay" /\ ur' = "read")
        /\ hpc = "done" => hpc' = "done"
        /\ uGot' = uGot \/ hpc = "relay"
        /\ ur' = ur \/ (ur = "read" /\ ur' = "done") \/ (hpc' = "relay" /\ ur' = "read" /\ ur # "done")
        /\ ur = "done" => ur' = "done"
        /\ uSent' = uSent \/ ur = "read"
        /\ uGone' = uGone \/ ur = "read"
    BY <1>1, <1>7
       DEF gw, gs, cl, net, ags, ag, ups, AgentControl, DialFails, Dialed,
           HandlerReturns, StreamClosed, UpstreamWriteFails, NextFrame, RelayToUpstream,
           ReadUpstream, UpstreamEnds, UpstreamCloses
  <2> QED
    BY <1>1, <2>1 DEF GatewayControl, AgentControl
<1>8. CASE GatewayClosed
  <2>1. /\ UNCHANGED <<gpc, rdr, cSent, cGot, cEnd, uGot, uSent, uGone, ur>>
        /\ hpc = "relay" /\ hpc' = "done" /\ arx[main] # <<>>
        /\ uEnd' \in {uEnd, EndKind(Head(arx[main]), uGone)}
        /\ Head(arx[main]).t \in {"WsClose", "Rst"}
    BY <1>8 DEF GatewayClosed, NextFrame, HandlerReturns, gw, cl
  <2>2. main \in Objs /\ arx[main] \in Seq(Frames)
    BY <2>1, MainServes
  <2>3. EndKind(Head(arx[main]), uGone) = "peer" => PassedOn(Head(arx[main]))
    BY <2>1 DEF EndKind, PassedOn
  <2>4. NonePassedOn(arx[main]) => ~PassedOn(Head(arx[main]))
    BY <2>1, <2>2, HeadNotPassedOn
  <2>5. uEnd' = "peer" => rdr \in {"close", "done"}
    BY <1>1, <2>1, <2>2, <2>3, <2>4 DEF ClosesLast, MayRead, AgentControl
  <2> QED
    BY <2>1, <2>5 DEF GatewayControl, AgentControl
<1> QED
  BY StepCases, <1>2, <1>3, <1>4, <1>5, <1>6, <1>7, <1>8

\* A session that was given up stays so, and a stream is closed, and a frame
\* dropped, in no other.
LEMMA GivenUpStep ==
  ASSUME TypeOK, ObjectsOK, GivenUp, [Next]_vars
  PROVE  GivenUp'
<1>1. /\ ctx => ctx' = TRUE
      /\ gpc' \in {"defer", "done"} => gpc \in {"defer", "done"} \/ ctx'
      /\ cw' \in {"checked", "close", "done"} => cw \in {"checked", "close", "done"} \/ ctx
      /\ gst' = "closing" => gst = "closing" \/ ctx' \/ gpc = "defer" \/ cw = "close"
  BY StepCases
     DEF vars, gw, gs, cl, net, ags, ag, ups, SendReqStart, OpenRefused, OpenFails, Opened,
         Top, RecvFails, RelayToClient, ClientWriteFails, UpstreamClosed, Return,
         CloseStream, ReadClient, WriteToAgent, ReaderEnds, ReaderCancels, ContextDone,
         ContextResets, ContextCloses, PingFails, ClientCloses, GatewayReads, Deliver,
         ForgetStream, SendReset, GatewayDisconnects, TunnelBreaks, AgentReads,
         FirstFrame, AgentDisconnects, DialFails, Dialed, StreamClosed, RelayToUpstream,
         UpstreamWriteFails, GatewayClosed, ReadUpstream, UpstreamEnds, UpstreamCloses,
         CloseStreamRaw, CloseGst
<1>2. gSkip' => gSkip \/ gst = "closing"
  BY PastStays
<1>3. aSkip' => aSkip \/ uGone # "no"
  <2>1. CASE aSkip' = aSkip
    BY <2>1
  <2>2. CASE AgentReads
    <3> DEFINE o == IF amap # None THEN amap ELSE CHOOSE x \in Objs : ast[x] = "free"
    <3>1. DeliverFrame(o, Head(g2a)) /\ (amap # None \/ \E x \in Objs : ast[x] = "free")
      BY <2>2 DEF AgentReads
    <3>2. o \in Objs /\ (amap = o \/ ast[o] = "free")
      BY <3>1 DEF TypeOK
    <3> HIDE DEF o
    <3>3. aSkip' => aSkip \/ o \in aclosed
      BY <3>1 DEF DeliverFrame
    <3> QED
      BY <3>2, <3>3 DEF ObjectsOK
  <2> QED
    BY <2>1, <2>2, PastStays
<1>4. uGone # "no" => uGone' # "no"
  BY PastStays DEF UpstreamCloses
<1> QED
  BY <1>1, <1>2, <1>3, <1>4 DEF GivenUp

-----------------------------------------------------------------------------
(* What the steps of the gateway write.                                    *)

GatewayStep == SendReqStart \/ OpenRefused \/ OpenFails \/ Opened \/ Top \/ RecvFails \/
               RelayToClient \/ ClientWriteFails \/ UpstreamClosed \/ Return \/
               CloseStream \/ ReaderCancels \/ ContextDone \/ ContextResets \/
               ContextCloses \/ PingFails \/ ClientCloses \/ GatewayReads \/ ForgetStream
               \/ SendReset \/ GatewayDisconnects \/ ReadClient \/ WriteToAgent \/ ReaderEnds

\* A close that the gateway made up is written.
WritesMadeUp == \E f \in Frames : MadeUp(f) /\ g2a' = Append(g2a, f)

\* A step of the gateway writes at most one frame: what its reader has read, in
\* turn, or a close; it leaves the agent alone.
LEMMA GatewayWrites ==
  ASSUME TypeOK, Untouched, GatewayControl, GatewayStep
  PROVE  /\ UNCHANGED <<amap, ast, arx, aclosed, aSkip, main, hpc, aonce, ur, uSent, uGone, uGot,
                        uEnd, up>>
         /\ a2g' = a2g \/ GatewayReads
         /\ gpc' = "start" => gpc = "start" /\ g2a' = g2a /\ cw' = cw
         /\ \/ /\ g2a' = g2a \/ (gpc # "start" /\ up /\ WritesMadeUp)
               /\ cSent' = cSent /\ (MayRead' => MayRead /\ Written' = Written)
            \/ /\ gpc = "start" /\ g2a' = Append(g2a, Frame("ReqStart", 0))
               /\ UNCHANGED <<cSent, rdr>>
            \/ /\ rdr = "write" /\ rdr' = "read" /\ up /\ g2a' = Append(g2a, Frame("C2A", cSent))
               /\ UNCHANGED <<cSent, gpc>>
            \/ /\ rdr = "read" /\ rdr' \in {"close", "done"} /\ up
               /\ \E f \in Frames : PassedOn(f) /\ g2a' = Append(g2a, f)
               /\ UNCHANGED <<cSent, gpc>>
            \/ /\ rdr = "read" /\ cSent' = cSent + 1 /\ g2a' = g2a /\ gpc' = gpc
               /\ MayRead' => Written' = Written
<1>1. /\ Frame("Rst", Local) \in Frames /\ MadeUp(Frame("Rst", Local))
      /\ Frame("WsClose", Local) \in Frames /\ MadeUp(Frame("WsClose", Local))
      /\ Frame("Rst", Relayed) \in Frames /\ PassedOn(Frame("Rst", Relayed))
      /\ Frame("WsClose", Relayed) \in Frames /\ PassedOn(Frame("WsClose", Relayed))
      /\ cSent \in Nat
  BY FrameFacts DEF TypeOK
<1>2. UNCHANGED <<amap, ast, arx, aclosed, aSkip, main, hpc, aonce, ur, uSent, uGone, uGot,
                        uEnd, up>>
      /\ (a2g' = a2g \/ GatewayReads)
  BY DEF GatewayStep, SendReqStart, OpenRefused, OpenFails, Opened, Top, RecvFails,
         RelayToClient, ClientWriteFails, UpstreamClosed, Return, CloseStream,
         ReaderCancels, ContextDone, ContextResets, ContextCloses, PingFails,
         ClientCloses, GatewayReads, ForgetStream, SendReset, GatewayDisconnects,
         ReadClient, WriteToAgent, ReaderEnds, gw, gs, cl, net, ags, ag, ups
<1>3. gpc' = "start" => gpc = "start"
  BY DEF GatewayStep, SendReqStart, OpenRefused, OpenFails, Opened, Top, RecvFails,
         RelayToClient, ClientWriteFails, UpstreamClosed, Return, CloseStream,
         ReaderCancels, ContextDone, ContextResets, ContextCloses, PingFails,
         ClientCloses, GatewayReads, ForgetStream, SendReset, GatewayDisconnects,
         ReadClient, WriteToAgent, ReaderEnds, gw, gs, cl, net, ags, ag, ups
<1>4. gpc = "start" => cw = "off" /\ ~grst /\ rdr = "off"
  BY DEF Untouched, GatewayControl
<1>5. CASE SendReqStart
  <2>1. gpc = "start" /\ gpc' # "start" /\ UNCHANGED <<cSent, rdr>>
        /\ g2a' \in {g2a, Append(g2a, Frame("ReqStart", 0))}
    BY <1>5 DEF SendReqStart, Send, Write, cl
  <2> QED
    BY <1>2, <2>1 DEF MayRead, Written
<1>6. CASE OpenRefused \/ OpenFails \/ Opened \/ Top \/ RecvFails \/ RelayToClient \/
          ClientWriteFails \/ UpstreamClosed \/ Return \/ CloseStream \/ ReaderCancels
          \/ ContextDone \/ ContextResets \/ ContextCloses \/ PingFails \/ ClientCloses
          \/ GatewayReads \/ ForgetStream \/ SendReset \/ GatewayDisconnects
  <2>1. /\ g2a' \in {g2a, Append(g2a, Frame("Rst", Local)), Append(g2a, Frame("WsClose", Local))}
        /\ g2a' # g2a => up
    BY <1>6
       DEF gw, gs, cl, net, ags, ag, ups, OpenRefused, Send, Write, OpenFails, Opened,
           Top, RecvFails, CloseStreamRaw, RelayToClient, ClientWriteFails,
           SendCloseToAgent, UpstreamClosed, Return, CloseStream, ReaderCancels,
           ContextDone, ContextResets, ContextCloses, PingFails, ClientCloses,
           GatewayReads, ForgetStream, SendReset, GatewayDisconnects
  <2>2. /\ cSent' = cSent
        /\ rdr' = rdr \/ rdr' = "done" \/ (gpc = "open" /\ rdr' = "read")
        /\ gpc = "start" => (gpc' = "start" /\ g2a' = g2a /\ cw' = cw) \/ ContextResets \/ SendReset \/ ContextDone \/ ContextCloses
    BY <1>6
       DEF gw, gs, cl, net, ags, ag, ups, OpenRefused, OpenFails, Opened, Top,
           RecvFails, RelayToClient, ClientWriteFails, UpstreamClosed, Return,
           CloseStream, ReaderCancels, ContextDone, ContextResets, ContextCloses,
           PingFails, ClientCloses, GatewayReads, ForgetStream, SendReset,
           GatewayDisconnects
  <2>3. gpc = "start" => gpc' = "start" /\ g2a' = g2a /\ cw' = cw
    BY <1>4, <2>2 DEF ContextResets, SendReset, ContextDone, ContextCloses
  <2>4. MayRead' => MayRead /\ Written' = Written
    BY <2>2 DEF MayRead, Written, GatewayControl
  <2>5. g2a' # g2a => WritesMadeUp
    BY <1>1, <2>1 DEF WritesMadeUp
  <2> QED
    BY <1>2, <1>3, <2>1, <2>2, <2>3, <2>4, <2>5
<1>7. CASE ReadClient
  <2>1. rdr = "read" /\ cSent' = cSent + 1 /\ g2a' = g2a /\ gpc' = gpc /\ rdr' \in {"write", "done"}
    BY <1>7 DEF ReadClient, CloseStreamRaw, Send
  <2>2. MayRead' => Written' = Written
    BY <1>1, <2>1 DEF MayRead, Written
  <2> QED
    BY <1>2, <1>3, <1>4, <2>1, <2>2
<1>8. CASE WriteToAgent
  <2>1. /\ rdr = "write" /\ UNCHANGED <<cSent, gpc>>
        /\ \/ up /\ rdr' = "read" /\ g2a' = Append(g2a, Frame("C2A", cSent))
           \/ rdr' = "done" /\ g2a' = g2a
    BY <1>8 DEF WriteToAgent, CloseStreamRaw, Send, Write, cl
  <2>2. rdr' = "done" => ~MayRead'
    BY DEF MayRead
  <2> QED
    BY <1>2, <1>3, <1>4, <2>1, <2>2
<1>9. CASE ReaderEnds
  <2>1. /\ rdr = "read" /\ rdr' \in {"close", "done"} /\ UNCHANGED <<cSent, gpc>>
        /\ g2a' \in {g2a, Append(g2a, Frame("Rst", Local)), Append(g2a, Frame("WsClose", Local)),
                     Append(g2a, Frame("Rst", Relayed)), Append(g2a, Frame("WsClose", Relayed))}
        /\ g2a' # g2a => up
    BY <1>9 DEF ReaderEnds, CloseStreamRaw, SendCloseToAgent, Send, Write, cl
  <2>2. ~MayRead'
    BY <2>1 DEF MayRead
  <2>3. \/ g2a' = g2a \/ WritesMadeUp
        \/ \E f \in Frames : PassedOn(f) /\ g2a' = Append(g2a, f)
    BY <1>1, <2>1 DEF WritesMadeUp
  <2>4. gpc # "start"
    BY <1>4, <2>1
  <2> QED
    BY <1>2, <2>1, <2>2, <2>3, <2>4
<1> QED
  BY <1>5, <1>6, <1>7, <1>8, <1>9 DEF GatewayStep

\* The gateway's side of the line to the client: readLoop delivers a frame, drops it
\* or gives the stream up, the handler takes one, or the stream is closed.
LEMMA GatewayTakes ==
  ASSUME TypeOK, GatewayStep
  PROVE  /\ gst = "closed" => gst' = "closed"
         /\ \/ /\ UNCHANGED <<grx, a2g, cGot, gSkip>>
               /\ Relaying' => Relaying
            \/ /\ grx # <<>> /\ grx' = Tail(grx) /\ UNCHANGED <<a2g, gSkip>>
               /\ cGot' = cGot \/ Relaying'
               /\ Relaying' => \/ /\ Relaying /\ Head(grx).t = "A2C"
                                  /\ cGot' = Append(cGot, Head(grx).n)
                               \/ /\ gpc = "open" /\ Head(grx).t = "OpenOK" /\ cGot' = cGot
            \/ /\ a2g # <<>> /\ a2g' = Tail(a2g) /\ cGot' = cGot
               /\ Relaying' => Relaying
               /\ \/ /\ gst # "closed" /\ gst' = gst /\ grx' = Append(grx, Head(a2g))
                     /\ gSkip' = gSkip
                  \/ gst' = "closed" /\ grx' = grx /\ gSkip' = gSkip
                  \/ grx' = grx /\ gSkip'
<1>1. CASE SendReqStart \/ OpenFails \/ Top \/ RecvFails \/ Return \/ CloseStream \/
          ReaderCancels \/ ContextDone \/ ContextResets \/ ContextCloses \/ PingFails \/
          ClientCloses \/ ForgetStream \/ SendReset \/ GatewayDisconnects \/ ReadClient \/
          WriteToAgent \/ ReaderEnds
  <2>1. /\ UNCHANGED <<grx, a2g, cGot, gSkip>> /\ (gst = "closed" => gst' = "closed")
        /\ cGone' \notin {"drop", "ping"} => cGone \notin {"drop", "ping"}
        /\ gpc' \in {"top", "recv"} => gpc \in {"top", "recv"}
    BY <1>1
       DEF gw, gs, cl, net, ags, ag, ups, CloseStreamRaw, CloseGst, SendReqStart, OpenFails,
           Top, RecvFails, Return, CloseStream, ReaderCancels, ContextDone, ContextResets,
           ContextCloses, PingFails, ClientCloses, ForgetStream, SendReset,
           GatewayDisconnects, ReadClient, WriteToAgent, ReaderEnds
  <2> QED
    BY <2>1 DEF Relaying
<1>2. CASE OpenRefused \/ Opened \/ RelayToClient \/ ClientWriteFails \/ UpstreamClosed
  <2>1. /\ grx # <<>> /\ grx' = Tail(grx) /\ UNCHANGED <<a2g, gSkip>>
        /\ gst = "closed" => gst' = "closed"
        /\ cGone' = cGone
        /\ cGot' = cGot \/ (gpc' \in {"top", "recv"} /\ cGone \notin {"drop", "ping"})
        /\ gpc' \in {"top", "recv"} =>
             \/ /\ gpc = "recv" /\ Head(grx).t = "A2C"
                /\ cGone \notin {"drop", "ping"} => cGot' = Append(cGot, Head(grx).n)
             \/ /\ gpc = "open" /\ Head(grx).t = "OpenOK" /\ cGot' = cGot
    BY <1>2
       DEF gw, gs, cl, net, ags, ag, ups, CloseStreamRaw, CloseGst, OpenRefused, Opened,
           RelayToClient, ClientWriteFails, UpstreamClosed
  <2> QED
    BY <2>1 DEF Relaying
<1>3. CASE GatewayReads
  <2>1. /\ a2g # <<>> /\ a2g' = Tail(a2g) /\ UNCHANGED <<cGot, cGone, gpc>>
        /\ gst = "closed" => gst' = "closed"
        /\ \/ /\ gst # "closed" /\ gst' = gst /\ grx' = Append(grx, Head(a2g))
              /\ gSkip' = gSkip
           \/ gst' = "closed" /\ grx' = grx /\ gSkip' = gSkip
           \/ grx' = grx /\ gSkip'
    BY <1>3 DEF GatewayReads, Deliver, gw, cl, gs
  <2> QED
    BY <2>1 DEF Relaying
<1> QED
  BY <1>1, <1>2, <1>3 DEF GatewayStep

AgentStep == TunnelBreaks \/ AgentReads \/ (\E o \in Objs : FirstFrame(o)) \/
             AgentDisconnects \/ DialFails \/ Dialed \/ StreamClosed \/ RelayToUpstream
             \/ UpstreamWriteFails \/ GatewayClosed \/ ReadUpstream \/ UpstreamEnds \/
             UpstreamCloses \/ UNCHANGED vars

\* A close that the agent made up is written.
AgentMadeUp == \E f \in Frames : MadeUp(f) /\ a2g' = Append(a2g, f)

\* A step of the agent writes at most one frame: what its reader has read, in turn,
\* the answer to the opening, or a close.
LEMMA AgentWrites ==
  ASSUME TypeOK, ObjectsOK, OneStart, AgentControl, AgentStep
  PROVE  /\ up' = up \/ TunnelBreaks
         /\ ur' = "read" => ur = "read" \/ hpc = "dial"
         /\ ur = "done" => ur' = "done"
         /\ \/ /\ (a2g' = a2g \/ (up /\ AgentMadeUp)) /\ uSent' = uSent
               /\ ur' # "read" \/ ur = "read"
               /\ hpc' \in {"off", "dial"} => hpc \in {"off", "dial"}
            \/ /\ hpc = "dial" /\ hpc' = "done" /\ up /\ a2g' = Append(a2g, Frame("OpenErr", 0))
               /\ ur' = "off" /\ uSent' = uSent
            \/ /\ hpc = "dial" /\ hpc' = "relay" /\ up /\ a2g' = Append(a2g, Frame("OpenOK", 0))
               /\ ur' = "read" /\ uSent' = uSent
            \/ /\ ur = "read" /\ uSent' = uSent + 1 /\ uSent' <= NUp /\ hpc' = hpc
               /\ \/ up /\ ur' = "read" /\ a2g' = Append(a2g, Frame("A2C", uSent + 1))
                  \/ ~up /\ ur' = "done" /\ a2g' = a2g
            \/ /\ ur = "read" /\ ur' = "done" /\ up /\ uSent' = uSent /\ hpc' = hpc
               /\ \E f \in Frames : PassedOn(f) /\ a2g' = Append(a2g, f)
            \/ /\ TunnelBreaks /\ UNCHANGED <<uSent, ur, hpc>>
<1>1. /\ Frame("Rst", Local) \in Frames /\ MadeUp(Frame("Rst", Local))
      /\ Frame("WsClose", Local) \in Frames /\ MadeUp(Frame("WsClose", Local))
      /\ Frame("Rst", Relayed) \in Frames /\ PassedOn(Frame("Rst", Relayed))
      /\ Frame("WsClose", Relayed) \in Frames /\ PassedOn(Frame("WsClose", Relayed))
      /\ uSent \in 0..NUp /\ NUp \in Nat /\ EndFrame(Local) \in Frames /\ MadeUp(EndFrame(Local))
      /\ EndFrame(Relayed) \in Frames /\ PassedOn(EndFrame(Relayed))
  BY FrameFacts DEF TypeOK, EndFrame
<1>2. CASE TunnelBreaks
  BY <1>2 DEF TunnelBreaks, ups, ag
<1>3. CASE DialFails
  <2>1. /\ hpc = "dial" /\ hpc' = "done" /\ UNCHANGED <<up, ur, uSent>>
        /\ a2g' = IF up THEN Append(a2g, Frame("OpenErr", 0)) ELSE a2g
    BY <1>3 DEF DialFails, AgentSend, ups
  <2> QED
    BY <2>1 DEF AgentControl
<1>4. CASE Dialed
  <2>1. /\ hpc = "dial" /\ UNCHANGED <<up, uSent>>
        /\ \/ /\ up /\ a2g' = Append(a2g, Frame("OpenOK", 0)) /\ hpc' = "relay" /\ ur' = "read"
           \/ ~up /\ a2g' = a2g /\ hpc' = "done" /\ ur' = ur
    BY <1>4 DEF Dialed, AgentSend, HandlerReturns
  <2> QED
    BY <2>1 DEF AgentControl
<1>5. CASE ReadUpstream
  <2>1. /\ ur = "read" /\ uSent < NUp /\ uSent' = uSent + 1 /\ UNCHANGED <<up, hpc>>
        /\ \/ up /\ ur' = "read" /\ a2g' = Append(a2g, Frame("A2C", uSent + 1))
           \/ ~up /\ ur' = "done" /\ a2g' = a2g
    BY <1>5 DEF ReadUpstream, AgentSend
  <2> QED
    BY <1>1, <2>1
<1>6. CASE UpstreamEnds
  <2>1. /\ ur = "read" /\ ur' = "done" /\ UNCHANGED <<up, hpc, uSent>>
        /\ a2g' \in {a2g, Append(a2g, EndFrame(Local)), Append(a2g, EndFrame(Relayed))}
        /\ a2g' # a2g => up
    BY <1>6 DEF UpstreamEnds, TellGateway, AgentSend, ups
  <2> QED
    BY <1>1, <2>1 DEF AgentMadeUp
<1>7. CASE AgentReads \/ (\E o \in Objs : FirstFrame(o)) \/ AgentDisconnects \/
          StreamClosed \/ RelayToUpstream \/ UpstreamWriteFails \/ GatewayClosed \/
          UpstreamCloses \/ UNCHANGED vars
  <2>1. /\ a2g' \in {a2g, Append(a2g, Frame("Rst", Local)), Append(a2g, EndFrame(Local))}
        /\ a2g' # a2g => up
        /\ UNCHANGED <<up, uSent, ur>>
    BY <1>7
       DEF gw, gs, cl, net, ags, ag, ups, vars, AgentReads, DeliverFrame, AgentSend,
           FirstFrame, AgentDisconnects, StreamClosed, RelayToUpstream,
           UpstreamWriteFails, TellGateway, GatewayClosed, UpstreamCloses
  <2>2. hpc' = hpc \/ hpc' = "done" \/ \E o \in Objs : FirstFrame(o) /\ hpc' = "dial"
    <3>1. ASSUME NEW o \in Objs, FirstFrame(o) PROVE hpc' = hpc \/ hpc' = "dial"
      BY <3>1 DEF FirstFrame, ag
    <3>2. CASE AgentReads \/ AgentDisconnects \/ StreamClosed \/ RelayToUpstream \/
              UpstreamWriteFails \/ GatewayClosed \/ UpstreamCloses \/ UNCHANGED vars
      BY <3>2
         DEF ag, vars, HandlerReturns, AgentReads, AgentDisconnects, StreamClosed,
             RelayToUpstream, UpstreamWriteFails, GatewayClosed, UpstreamCloses
    <3> QED
      BY <1>7, <3>1, <3>2
  <2>3. ASSUME NEW o \in Objs, FirstFrame(o), hpc' = "dial" PROVE hpc \in {"off", "dial"}
    <3>1. hpc' = hpc \/ (arx[o] # <<>> /\ Head(arx[o]).t = "ReqStart")
      BY <2>3 DEF FirstFrame, ag
    <3>2. arx[o] \in Seq(Frames)
      BY DEF TypeOK
    <3>3. arx[o] # <<>> => Head(arx[o]) = arx[o][1]
      BY <3>2, TailFacts
    <3> QED
      BY <2>3, <3>1, <3>3 DEF OneStart, HasStart, ObjectsOK
  <2>4. a2g' = a2g \/ AgentMadeUp
    BY <1>1, <2>1 DEF AgentMadeUp
  <2> QED
    BY <2>1, <2>2, <2>3, <2>4
<1> QED
  BY <1>2, <1>3, <1>4, <1>5, <1>6, <1>7 DEF AgentStep

\* A step is one of the gateway, or leaves the gateway and the client alone.
LEMMA TwoSides ==
  ASSUME [Next]_vars
  PROVE  \/ GatewayStep
         \/ /\ AgentStep
            /\ UNCHANGED <<gpc, once, closeDone, ctx, rdr, cw, gst, grx, grst, gSkip, cSent,
                           cGone, cGot, cEnd>>
BY StepCases
   DEF GatewayStep, AgentStep, vars, gw, gs, cl, net, ags, ag, ups, TunnelBreaks,
       AgentReads, FirstFrame, AgentDisconnects, DialFails, Dialed, StreamClosed,
       RelayToUpstream, UpstreamWriteFails, GatewayClosed, ReadUpstream, UpstreamEnds,
       UpstreamCloses

-----------------------------------------------------------------------------
(* What the steps of the agent do to its stream objects.                   *)

\* The queues stay as they are; the id may be forgotten.
Keeps ==
  /\ UNCHANGED <<g2a, arx, ast, aSkip, main, uGot, up>> /\ amap' \in {amap, None}
  /\ hpc' = hpc \/ (hpc \in {"dial", "relay"} /\ hpc' \in {"relay", "done"})
  /\ aclosed \subseteq aclosed' /\ aclosed' \subseteq aclosed \cup ({amap, main} \ {None})
  /\ amap' # None => aclosed' = aclosed \/ uGone # "no"

\* readLoop delivers a frame to the object with the id, or to a new one.
Reads(o) ==
  /\ amap = o \/ (amap = None /\ ast[o] = "free")
  /\ g2a # <<>> /\ g2a' = Tail(g2a) /\ UNCHANGED <<main, hpc, uGot, uGone, up>>
  /\ ast' = IF amap = None THEN [ast EXCEPT ![o] = "first"] ELSE ast
  /\ \/ amap' = o /\ aclosed' = aclosed /\ arx' = [arx EXCEPT ![o] = Append(@, Head(g2a))]
     \/ amap' = o /\ o \in aclosed /\ aSkip' /\ UNCHANGED <<arx, aclosed>>
     \/ amap' = None /\ o \notin aclosed /\ aclosed' = aclosed \cup {o} /\ arx' = arx

\* handleStream returns without a handler.
Returns(o) ==
  /\ ast[o] = "first" /\ ast' = [ast EXCEPT ![o] = "free"]
  /\ amap' = None /\ arx' = [arx EXCEPT ![o] = <<>>]
  /\ aclosed' = (aclosed \cup ({amap} \ {None})) \ {o}
  /\ UNCHANGED <<g2a, aSkip, main, hpc, uGot, uGone, up>>

\* handleStream gets TReqStart and starts the handler.
Starts(o) ==
  /\ ast[o] = "first" /\ arx[o] # <<>> /\ Head(arx[o]).t = "ReqStart"
  /\ ast' = [ast EXCEPT ![o] = "ws"] /\ arx' = [arx EXCEPT ![o] = Tail(@)]
  /\ main' = o /\ hpc' = "dial" /\ UNCHANGED <<amap, aclosed, aSkip, g2a, uGot, uGone, up>>

\* The handler takes a message and passes it on, or a frame and ends.
Takes ==
  /\ hpc = "relay" /\ arx[main] # <<>> /\ arx' = [arx EXCEPT ![main] = Tail(@)]
  /\ UNCHANGED <<ast, aSkip, main, g2a, uGone, up>>
  /\ \/ /\ Head(arx[main]).t = "C2A" /\ UNCHANGED <<amap, aclosed, hpc>>
        /\ uGot' = IF uGone = "drop" THEN uGot ELSE Append(uGot, Head(arx[main]).n)
     \/ /\ amap' = None /\ hpc' = "done" /\ uGot' = uGot
        /\ aclosed' \subseteq aclosed \cup ({amap, main} \ {None})

\* A step of the agent does one of these, or the tunnel breaks.
LEMMA ObjectMoves ==
  ASSUME TypeOK, ObjectsOK, AgentStep
  PROVE  \/ Keeps \/ Takes
         \/ TunnelBreaks /\ UNCHANGED <<amap, ast, arx, aclosed, aSkip, main, hpc, uGot, uGone>>
         \/ \E o \in Objs : Reads(o) \/ Returns(o) \/ Starts(o)
<1>1. main \in Objs \cup {None} /\ (hpc # "off" => main \in Objs) /\ None \notin Objs
  BY WsAssumption DEF TypeOK, ObjectsOK
<1>2. CASE AgentDisconnects
  BY <1>1, <1>2
     DEF AgentDisconnects, Forgotten, gw, gs, cl, net, ags, ag, ups, Keeps
<1>3. CASE DialFails
  BY <1>1, <1>3
     DEF DialFails, Forgotten, gw, gs, cl, net, ags, ag, ups, Keeps
<1>4. CASE Dialed
  BY <1>1, <1>4
     DEF Dialed, HandlerReturns, Forgotten, gw, gs, cl, net, ags, ag, ups, Keeps
<1>5. CASE StreamClosed
  BY <1>1, <1>5
     DEF StreamClosed, HandlerReturns, Forgotten, gw, gs, cl, net, ags, ag, ups, Keeps
<1>6. CASE ReadUpstream
  BY <1>1, <1>6
     DEF ReadUpstream, Forgotten, gw, gs, cl, net, ags, ag, ups, Keeps
<1>7. CASE UpstreamEnds
  BY <1>1, <1>7
     DEF UpstreamEnds, Forgotten, gw, gs, cl, net, ags, ag, ups, Keeps
<1>8. CASE UpstreamCloses
  BY <1>1, <1>8
     DEF UpstreamCloses, Forgotten, gw, gs, cl, net, ags, ag, ups, Keeps
<1>9. CASE UNCHANGED vars
  BY <1>9
     DEF vars, gw, gs, cl, net, ags, ag, ups, Keeps
<1>10. CASE TunnelBreaks
  BY <1>10
     DEF TunnelBreaks, gw, gs, cl, net, ags, ag, ups
<1>11. CASE AgentReads
  <2>1. PICK o \in Objs :
               /\ amap = o \/ (amap = None /\ ast[o] = "free")
               /\ ast' = IF amap = None THEN [ast EXCEPT ![o] = "first"] ELSE ast
               /\ DeliverFrame(o, Head(g2a))
    <3> DEFINE o == IF amap # None THEN amap ELSE CHOOSE x \in Objs : ast[x] = "free"
    <3>1. o \in Objs /\ (amap = o \/ (amap = None /\ ast[o] = "free"))
      <4>1. CASE amap # None
        BY <4>1 DEF TypeOK
      <4>2. CASE amap = None
        <5>1. \E x \in Objs : ast[x] = "free"
          BY <1>11, <4>2 DEF AgentReads
        <5> QED
          BY <4>2, <5>1
      <4> QED
        BY <4>1, <4>2
    <3>2. /\ ast' = IF amap = None THEN [ast EXCEPT ![o] = "first"] ELSE ast
          /\ DeliverFrame(o, Head(g2a))
      BY <1>11 DEF AgentReads
    <3> QED
      BY <3>1, <3>2
  <2>2. g2a # <<>> /\ g2a' = Tail(g2a) /\ UNCHANGED <<main, hpc, uGot, uGone, up>>
    BY <1>11 DEF AgentReads, ag, ups
  <2>3. Reads(o)
    BY <2>1, <2>2 DEF DeliverFrame, Reads
  <2> QED
    BY <2>3
<1>12. ASSUME NEW o \in Objs, FirstFrame(o) PROVE Returns(o) \/ Starts(o)
  BY <1>12 DEF FirstFrame, StreamReturns, Forgotten, Returns, Starts, ag, ups
<1>13. CASE RelayToUpstream
  BY <1>1, <1>13
     DEF RelayToUpstream, NextFrame, gw, gs, cl, net, ags, ag, ups, Takes
<1>14. CASE UpstreamWriteFails
  BY <1>1, <1>14
     DEF UpstreamWriteFails, NextFrame, HandlerReturns, Forgotten, gw, gs, cl, net, ags,
         ag, ups, Takes
<1>15. CASE GatewayClosed
  BY <1>1, <1>15
     DEF GatewayClosed, NextFrame, HandlerReturns, Forgotten, gw, gs, cl, net, ags, ag,
         ups, Takes
<1> QED
  BY <1>2, <1>3, <1>4, <1>5, <1>6, <1>7, <1>8, <1>9, <1>10, <1>11, <1>12, <1>13, <1>14,
     <1>15
     DEF AgentStep

\* Nothing moves before TReqStart is written.
LEMMA UntouchedStep ==
  ASSUME TypeOK, Untouched, ObjectsOK, GatewayControl, AgentControl, [Next]_vars
  PROVE  Untouched'
<1> SUFFICES ASSUME gpc' = "start"
             PROVE  /\ g2a' = <<>> /\ a2g' = <<>> /\ ~grst' /\ cw' = "off"
                    /\ main' = None /\ amap' = None /\ \A o \in Objs : ast'[o] = "free"
  BY DEF Untouched
<1>1. CASE GatewayStep
  <2>1. gpc = "start" /\ g2a' = g2a /\ cw' = cw /\ (a2g' = a2g \/ GatewayReads)
        /\ UNCHANGED <<main, amap, ast>>
    BY <1>1, GatewayWrites
  <2>2. g2a = <<>> /\ a2g = <<>> /\ ~grst /\ cw = "off" /\ main = None /\ amap = None
        /\ \A o \in Objs : ast[o] = "free"
    BY <2>1 DEF Untouched
  <2>3. ~GatewayReads
    BY <2>2 DEF GatewayReads
  <2>4. grst' = grst \/ grst' = FALSE
    BY <1>1, <2>3
       DEF GatewayStep, SendReqStart, OpenRefused, OpenFails, Opened, Top, RecvFails,
           RelayToClient, ClientWriteFails, UpstreamClosed, Return, CloseStream,
           ReaderCancels, ContextDone, ContextResets, ContextCloses, PingFails,
           ClientCloses, ForgetStream, SendReset, GatewayDisconnects, ReadClient,
           WriteToAgent, ReaderEnds, gw, gs, cl, net, ags, ag, ups
  <2> QED
    BY <2>1, <2>2, <2>3, <2>4
<1>2. CASE AgentStep /\ UNCHANGED <<gpc, grst, cw>>
  <2>1. g2a = <<>> /\ a2g = <<>> /\ ~grst /\ cw = "off" /\ main = None /\ amap = None
        /\ \A o \in Objs : ast[o] = "free"
    BY <1>2 DEF Untouched
  <2>2. hpc = "off" /\ ur = "off"
    BY <2>1 DEF ObjectsOK, AgentControl
  <2>3. TunnelBreaks \/ AgentDisconnects \/ UNCHANGED vars
    BY <1>2, <2>1, <2>2
       DEF AgentStep, AgentReads, FirstFrame, DialFails, Dialed, StreamClosed,
           RelayToUpstream, UpstreamWriteFails, GatewayClosed, NextFrame, ReadUpstream,
           UpstreamEnds, UpstreamCloses
  <2>4. CASE TunnelBreaks
    <3>1. g2a' = <<>> /\ UNCHANGED <<main, amap, ast>>
          /\ \E k \in 0..Len(a2g) : a2g' = SubSeq(a2g, 1, k)
      BY <2>4 DEF TunnelBreaks, ags, ag
    <3>2. a2g' = <<>>
      BY <2>1, <3>1
    <3> QED
      BY <1>2, <2>1, <3>1, <3>2
  <2>5. CASE AgentDisconnects \/ UNCHANGED vars
    BY <1>2, <2>1, <2>5 DEF AgentDisconnects, vars, net, ags, ag
  <2> QED
    BY <2>3, <2>4, <2>5
<1> QED
  BY <1>1, <1>2, TwoSides

\* The objects stay in order.
LEMMA ObjectsStep ==
  ASSUME TypeOK, ObjectsOK, OneStart, Untouched, GatewayControl, TypeOK', [Next]_vars
  PROVE  ObjectsOK'
<1>1. /\ amap \in Objs \cup {None} /\ ast \in [Objs -> {"free", "first", "ws"}]
      /\ arx \in [Objs -> Seq(Frames)] /\ main \in Objs \cup {None} /\ None \notin Objs
      /\ aclosed \subseteq Objs /\ aclosed' \subseteq Objs
  BY WsAssumption DEF TypeOK
<1>2. uGone' = "no" => uGone = "no"
  BY PastStays DEF UpstreamCloses
<1>3. CASE GatewayStep
  <2>1. UNCHANGED <<amap, ast, arx, aclosed, main, hpc, uGone>>
    BY <1>3, GatewayWrites
  <2> QED
    BY <2>1 DEF ObjectsOK
<1>4. CASE Keeps
  BY <1>1, <1>2, <1>4 DEF Keeps, ObjectsOK
<1>5. CASE TunnelBreaks /\ UNCHANGED <<amap, ast, arx, aclosed, main, hpc, uGot>>
  BY <1>1, <1>2, <1>5 DEF ObjectsOK
<1>6. ASSUME NEW o \in Objs, Reads(o) PROVE ObjectsOK'
  <2>1. /\ ast' = IF amap = None THEN [ast EXCEPT ![o] = "first"] ELSE ast
        /\ UNCHANGED <<main, hpc>> /\ amap' \in {o, None}
        /\ amap = o \/ (amap = None /\ ast[o] = "free")
        /\ arx' \in {arx, [arx EXCEPT ![o] = Append(@, Head(g2a))]}
        /\ aclosed' \in {aclosed, aclosed \cup {o}}
    BY <1>6 DEF Reads
  <2>2. ast'[o] # "free" /\ \A p \in Objs \ {o} : ast'[p] = ast[p] /\ arx'[p] = arx[p]
    BY <1>1, <2>1 DEF ObjectsOK
  <2>3. \A p \in Objs : ast'[p] = "ws" => ast[p] = "ws"
    BY <1>1, <2>1
  <2>4. main # None => ast'[main] = "ws"
    BY <1>1, <2>1 DEF ObjectsOK
  <2>5. uGone = "no" => o \notin aclosed
    BY <1>1, <2>1 DEF ObjectsOK
  <2>6. uGone = "no" => amap' \notin aclosed'
    BY <1>1, <1>6, <2>5 DEF Reads
  <2> QED
    BY <1>1, <1>2, <2>1, <2>2, <2>3, <2>4, <2>6 DEF ObjectsOK
<1>7. ASSUME NEW o \in Objs, Returns(o) PROVE ObjectsOK'
  BY <1>1, <1>2, <1>7 DEF Returns, ObjectsOK
<1>8. ASSUME NEW o \in Objs, Starts(o) PROVE ObjectsOK'
  <2>1. arx[o] # <<>> /\ Head(arx[o]) = arx[o][1]
    <3>1. arx[o] \in Seq(Frames) /\ arx[o] # <<>>
      BY <1>1, <1>8 DEF Starts
    <3> QED
      BY <3>1, TailFacts
  <2>2. main = None
    BY <1>8, <2>1 DEF Starts, OneStart, HasStart
  <2> QED
    BY <1>1, <1>2, <1>8, <2>2 DEF Starts, ObjectsOK
<1>9. CASE Takes
  <2>1. main \in Objs /\ main # None /\ ast[main] = "ws"
    BY <1>9, MainServes DEF Takes
  <2> QED
    BY <1>1, <1>2, <1>9, <2>1 DEF Takes, ObjectsOK
<1> QED
  BY TwoSides, ObjectMoves, <1>3, <1>4, <1>5, <1>6, <1>7, <1>8, <1>9

-----------------------------------------------------------------------------
(* TReqStart, and the closes that are passed on.                           *)

\* The head of a line is taken.
LEMMA MarksTail ==
  ASSUME NEW q \in Seq(Frames), q # <<>>
  PROVE  /\ StartFirst(q) => StartFirst(Tail(q)) /\ ~HasStart(Tail(q))
         /\ NonePassedOn(q) => NonePassedOn(Tail(q)) /\ ~PassedOn(Head(q))
         /\ HasStart(q) <=> Head(q).t = "ReqStart"
<1>1. /\ Tail(q) \in Seq(Frames) /\ Len(Tail(q)) = Len(q) - 1 /\ Len(q) \in Nat /\ Len(q) > 0
      /\ \A i \in 1..(Len(q) - 1) : Tail(q)[i] = q[i + 1]
      /\ Head(q) = q[1]
  BY TailFacts
<1> DEFINE a == Tail(q)
<1>2. a = <<>> <=> Len(a) = 0
  BY <1>1, EmptyFacts
<1> HIDE DEF a
<1>3. ASSUME StartFirst(q) PROVE StartFirst(a) /\ ~HasStart(a)
  <2>1. ASSUME NEW i \in 1..Len(a) PROVE a[i].t # "ReqStart"
    <3>1. i \in 1..(Len(q) - 1) /\ i + 1 \in 2..Len(q) /\ a[i] = q[i + 1]
      BY <1>1 DEF a
    <3> QED
      BY <1>3, <3>1 DEF StartFirst
  <2>2. Len(a) \in Nat
    BY <1>1 DEF a
  <2> QED
    BY <1>2, <2>1, <2>2 DEF StartFirst, HasStart
<1>4. ASSUME NonePassedOn(q) PROVE NonePassedOn(a) /\ ~PassedOn(Head(q))
  <2>1. ASSUME NEW i \in 1..Len(a) PROVE ~PassedOn(a[i])
    <3>1. i \in 1..(Len(q) - 1) /\ i + 1 \in 1..Len(q) /\ a[i] = q[i + 1]
      BY <1>1 DEF a
    <3> QED
      BY <1>4, <3>1 DEF NonePassedOn
  <2> QED
    BY <1>4, <2>1, HeadNotPassedOn DEF NonePassedOn
<1> QED
  BY <1>1, <1>3, <1>4 DEF HasStart, a

\* A frame is appended.
LEMMA MarksAppend ==
  ASSUME NEW q \in Seq(Frames), NEW f \in Frames
  PROVE  /\ StartFirst(q) /\ (q = <<>> \/ f.t # "ReqStart") => StartFirst(Append(q, f))
         /\ HasStart(Append(q, f)) => HasStart(q) \/ (q = <<>> /\ f.t = "ReqStart")
         /\ NonePassedOn(q) /\ ~PassedOn(f) => NonePassedOn(Append(q, f))
<1> DEFINE a == Append(q, f)
<1>1. /\ Len(a) = Len(q) + 1 /\ Len(q) \in Nat /\ a # <<>>
      /\ \A i \in 1..Len(q) : a[i] = q[i]
      /\ a[Len(q) + 1] = f
  BY AppendFacts
<1>2. q = <<>> <=> Len(q) = 0
  BY EmptyFacts
<1> HIDE DEF a
<1>3. \A i \in 1..Len(a) : i \in 1..Len(q) \/ i = Len(q) + 1
  BY <1>1
<1>4. StartFirst(q) /\ (q = <<>> \/ f.t # "ReqStart") => StartFirst(a)
  <2> SUFFICES ASSUME StartFirst(q), q = <<>> \/ f.t # "ReqStart", NEW i \in 2..Len(a)
               PROVE  a[i].t # "ReqStart"
    BY DEF StartFirst
  <2>1. CASE i = Len(q) + 1
    BY <1>1, <1>2, <2>1
  <2>2. CASE i # Len(q) + 1
    <3>1. i \in 2..Len(q) /\ i \in 1..Len(q)
      BY <1>1, <2>2
    <3> QED
      BY <1>1, <3>1 DEF StartFirst
  <2> QED
    BY <2>1, <2>2
<1>5. HasStart(a) => HasStart(q) \/ (q = <<>> /\ f.t = "ReqStart")
  BY <1>1, <1>2 DEF HasStart
<1>6. NonePassedOn(q) /\ ~PassedOn(f) => NonePassedOn(a)
  BY <1>1, <1>3 DEF NonePassedOn
<1> QED
  BY <1>4, <1>5, <1>6 DEF a

\* An empty line holds neither.
LEMMA MarksEmpty == StartFirst(<<>>) /\ ~HasStart(<<>>) /\ NonePassedOn(<<>>)
BY DEF StartFirst, HasStart, NonePassedOn

\* Two lines without a close that is passed on make one.
LEMMA MarksConcat ==
  ASSUME NEW q \in Seq(Frames), NEW r \in Seq(Frames), NonePassedOn(q), NonePassedOn(r)
  PROVE  NonePassedOn(q \o r)
<1>1. /\ Len(q \o r) = Len(q) + Len(r) /\ Len(q) \in Nat /\ Len(r) \in Nat
      /\ \A i \in 1..Len(q) : (q \o r)[i] = q[i]
      /\ \A i \in 1..Len(r) : (q \o r)[Len(q) + i] = r[i]
  BY ConcatFacts
<1>2. ASSUME NEW i \in 1..(Len(q) + Len(r)) PROVE ~PassedOn((q \o r)[i])
  <2>1. CASE i \in 1..Len(q)
    BY <1>1, <2>1 DEF NonePassedOn
  <2>2. CASE i \notin 1..Len(q)
    <3>1. i - Len(q) \in 1..Len(r) /\ Len(q) + (i - Len(q)) = i
      BY <1>1, <2>2
    <3>2. (q \o r)[i] = r[i - Len(q)]
      BY <1>1, <3>1
    <3> QED
      BY <3>1, <3>2 DEF NonePassedOn
  <2> QED
    BY <2>1, <2>2
<1> QED
  BY <1>1, <1>2 DEF NonePassedOn

\* A close is not TReqStart, nor is a message.
LEMMA NotStart ==
  \A f : MadeUp(f) \/ PassedOn(f) \/ f.t = "C2A" => f.t # "ReqStart"
BY DEF MadeUp, PassedOn

\* TReqStart stays in one place.
LEMMA OneStartStep ==
  ASSUME TypeOK, ObjectsOK, OneStart, Untouched, GatewayControl, [Next]_vars
  PROVE  OneStart'
<1>1. /\ amap \in Objs \cup {None} /\ ast \in [Objs -> {"free", "first", "ws"}]
      /\ arx \in [Objs -> Seq(Frames)] /\ main \in Objs \cup {None} /\ None \notin Objs
      /\ g2a \in Seq(Frames) /\ \A o \in Objs : arx[o] \in Seq(Frames)
  BY WsAssumption DEF TypeOK
<1>2. CASE GatewayStep
  <2>1. UNCHANGED <<amap, ast, arx, main>>
    BY <1>2, GatewayWrites
  <2>2. ASSUME NEW f \in Frames, g2a' = Append(g2a, f), f.t # "ReqStart" PROVE OneStart'
    <3>1. StartFirst(g2a') /\ (HasStart(g2a') => HasStart(g2a))
      BY <1>1, <2>2, MarksAppend DEF OneStart
    <3> QED
      BY <2>1, <3>1 DEF OneStart
  <2>3. CASE gpc = "start" /\ g2a' = Append(g2a, Frame("ReqStart", 0))
    <3>1. g2a = <<>> /\ main = None /\ amap = None /\ \A o \in Objs : ast[o] = "free"
      BY <2>3 DEF Untouched
    <3>2. Frame("ReqStart", 0) \in Frames
      BY FrameFacts DEF TypeOK
    <3>3. StartFirst(g2a')
      BY <1>1, <2>3, <3>1, <3>2, MarksAppend DEF OneStart
    <3> QED
      BY <2>1, <3>1, <3>3 DEF OneStart
  <2>4. CASE g2a' = g2a
    BY <2>1, <2>4 DEF OneStart
  <2>5. rdr = "write" => Frame("C2A", cSent) \in Frames /\ Frame("C2A", cSent).t = "C2A"
    BY FrameFacts DEF TypeOK, GatewayControl
  <2>6. \/ g2a' = g2a \/ (gpc = "start" /\ g2a' = Append(g2a, Frame("ReqStart", 0)))
        \/ \E f \in Frames : g2a' = Append(g2a, f) /\ f.t # "ReqStart"
    BY <1>2, <2>5, GatewayWrites, NotStart DEF WritesMadeUp
  <2> QED
    BY <2>2, <2>3, <2>4, <2>6
<1>3. CASE Keeps
  BY <1>1, <1>3 DEF Keeps, OneStart
<1>4. CASE TunnelBreaks /\ UNCHANGED <<amap, ast, arx, aclosed, main, hpc, uGot>>
  <2>1. g2a' = <<>>
    BY <1>4 DEF TunnelBreaks
  <2> QED
    BY <1>4, <2>1, MarksEmpty DEF OneStart
<1>5. ASSUME NEW o \in Objs, Reads(o) PROVE OneStart'
  <2>1. /\ ast' = IF amap = None THEN [ast EXCEPT ![o] = "first"] ELSE ast
        /\ main' = main /\ g2a # <<>> /\ g2a' = Tail(g2a)
        /\ amap = o \/ (amap = None /\ ast[o] = "free")
        /\ arx' = arx \/ arx' = [arx EXCEPT ![o] = Append(@, Head(g2a))]
    BY <1>5 DEF Reads
  <2>2. StartFirst(g2a') /\ ~HasStart(g2a') /\ Head(g2a) \in Frames
        /\ (HasStart(g2a) <=> Head(g2a).t = "ReqStart")
    BY <1>1, <2>1, MarksTail, TailFacts DEF OneStart
  <2>3. \A p \in Objs : ast[p] = "first" => ast'[p] = "first"
    BY <1>1, <2>1
  <2>4. CASE arx' = arx
    BY <2>1, <2>2, <2>3, <2>4 DEF OneStart
  <2>5. CASE arx' = [arx EXCEPT ![o] = Append(@, Head(g2a))]
    <3>1. arx'[o] = Append(arx[o], Head(g2a)) /\ \A p \in Objs \ {o} : arx'[p] = arx[p]
      BY <1>1, <2>5
    <3>2. CASE HasStart(g2a)
      <4>1. main = None /\ amap = None /\ \A p \in Objs : ast[p] = "free" /\ arx[p] = <<>>
        BY <3>2 DEF OneStart, ObjectsOK
      <4>2. ast'[o] = "first" /\ StartFirst(arx'[o])
        BY <1>1, <2>1, <2>2, <3>1, <4>1, MarksAppend, MarksEmpty
      <4>3. \A p \in Objs \ {o} : StartFirst(arx'[p]) /\ ~HasStart(arx'[p])
        BY <3>1, <4>1, MarksEmpty
      <4> QED
        BY <2>1, <2>2, <4>1, <4>2, <4>3 DEF OneStart
    <3>3. CASE ~HasStart(g2a)
      <4>1. StartFirst(arx'[o]) /\ (HasStart(arx'[o]) => HasStart(arx[o]))
        BY <1>1, <2>2, <3>1, <3>3, MarksAppend DEF OneStart
      <4>2. \A p \in Objs : StartFirst(arx'[p]) /\ (HasStart(arx'[p]) => HasStart(arx[p]))
        BY <3>1, <4>1 DEF OneStart
      <4> QED
        BY <2>1, <2>2, <2>3, <4>2 DEF OneStart
    <3> QED
      BY <3>2, <3>3
  <2> QED
    BY <2>1, <2>4, <2>5
<1>6. ASSUME NEW o \in Objs, Returns(o) PROVE OneStart'
  <2>1. /\ ast[o] = "first" /\ ast' = [ast EXCEPT ![o] = "free"] /\ amap' = None
        /\ arx' = [arx EXCEPT ![o] = <<>>] /\ UNCHANGED <<g2a, main>>
    BY <1>6 DEF Returns
  <2>2. ~HasStart(g2a)
    BY <2>1 DEF OneStart
  <2>3. arx'[o] = <<>> /\ \A p \in Objs \ {o} : arx'[p] = arx[p] /\ ast'[p] = ast[p]
    BY <1>1, <2>1
  <2> QED
    BY <2>1, <2>2, <2>3, MarksEmpty DEF OneStart
<1>7. ASSUME NEW o \in Objs, Starts(o) PROVE OneStart'
  <2>1. /\ ast[o] = "first" /\ arx[o] # <<>> /\ Head(arx[o]).t = "ReqStart"
        /\ arx' = [arx EXCEPT ![o] = Tail(@)] /\ g2a' = g2a
    BY <1>7 DEF Starts
  <2>2. ~HasStart(g2a) /\ HasStart(arx[o])
    BY <1>1, <2>1, MarksTail DEF OneStart
  <2>3. StartFirst(Tail(arx[o])) /\ ~HasStart(Tail(arx[o]))
    BY <1>1, <2>1, MarksTail DEF OneStart
  <2>4. \A p \in Objs : StartFirst(arx'[p]) /\ ~HasStart(arx'[p])
    BY <1>1, <2>1, <2>2, <2>3 DEF OneStart
  <2> QED
    BY <2>1, <2>2, <2>4 DEF OneStart
<1>8. CASE Takes
  <2>1. main \in Objs /\ main # None
    BY <1>8, MainServes DEF Takes
  <2>2. arx[main] # <<>> /\ arx' = [arx EXCEPT ![main] = Tail(@)] /\ g2a' = g2a
    BY <1>8 DEF Takes
  <2>3. StartFirst(Tail(arx[main])) /\ ~HasStart(Tail(arx[main]))
    BY <1>1, <2>1, <2>2, MarksTail DEF OneStart
  <2>4. ~HasStart(g2a) /\ \A p \in Objs : ~HasStart(arx[p])
    BY <2>1 DEF OneStart
  <2>5. \A p \in Objs : StartFirst(arx'[p]) /\ ~HasStart(arx'[p])
    BY <1>1, <2>1, <2>2, <2>3, <2>4 DEF OneStart
  <2> QED
    BY <2>2, <2>4, <2>5 DEF OneStart
<1> QED
  BY TwoSides, ObjectMoves, <1>2, <1>3, <1>4, <1>5, <1>6, <1>7, <1>8

\* A close that is passed on stays the last thing its reader does.
LEMMA ClosesLastStep ==
  ASSUME TypeOK, ObjectsOK, OneStart, Untouched, GatewayControl, AgentControl, ClosesLast,
         [Next]_vars
  PROVE  ClosesLast'
<1>1. /\ arx \in [Objs -> Seq(Frames)] /\ g2a \in Seq(Frames) /\ a2g \in Seq(Frames)
      /\ grx \in Seq(Frames) /\ (\A o \in Objs : arx[o] \in Seq(Frames))
      /\ rdr \in {"off", "read", "write", "close", "done"} /\ cSent \in 0..NClient
      /\ uSent \in 0..NUp /\ NUp \in Nat /\ NClient \in Nat
  BY FrameFacts DEF TypeOK
<1>2. MayRead' => MayRead /\ NonePassedOn(g2a') /\ \A o \in Objs : NonePassedOn(arx'[o])
  <2>1. CASE GatewayStep
    <3>1. arx' = arx
      BY <2>1, GatewayWrites
    <3>2. MayRead => NonePassedOn(g2a) /\ \A o \in Objs : NonePassedOn(arx[o])
      BY DEF ClosesLast
    <3>3. MayRead' => MayRead
      BY <2>1, GatewayWrites DEF MayRead
    <3>4. Frame("ReqStart", 0) \in Frames /\ ~PassedOn(Frame("ReqStart", 0))
      BY FrameFacts DEF TypeOK, PassedOn
    <3>5. rdr = "write" => Frame("C2A", cSent) \in Frames /\ ~PassedOn(Frame("C2A", cSent))
      BY FrameFacts DEF TypeOK, GatewayControl, PassedOn
    <3>6. \A f \in Frames : MadeUp(f) => ~PassedOn(f)
      BY DEF MadeUp, PassedOn, Local, Relayed
    <3>7. MayRead' => g2a' = g2a \/ \E f \in Frames : g2a' = Append(g2a, f) /\ ~PassedOn(f)
      BY <2>1, <3>4, <3>5, <3>6, GatewayWrites DEF WritesMadeUp, MayRead
    <3> QED
      BY <1>1, <3>1, <3>2, <3>3, <3>7, MarksAppend
  <2>2. CASE AgentStep /\ rdr' = rdr
    <3> SUFFICES ASSUME MayRead'
                 PROVE  MayRead /\ NonePassedOn(g2a') /\ \A o \in Objs : NonePassedOn(arx'[o])
      OBVIOUS
    <3>1. MayRead /\ NonePassedOn(g2a) /\ \A o \in Objs : NonePassedOn(arx[o])
      BY <2>2 DEF MayRead, ClosesLast
    <3>2. CASE Keeps
      BY <3>1, <3>2 DEF Keeps
    <3>3. CASE TunnelBreaks /\ UNCHANGED <<amap, ast, arx, aclosed, main, hpc, uGot>>
      BY <3>1, <3>3, MarksEmpty DEF TunnelBreaks
    <3>4. ASSUME NEW o \in Objs, Reads(o)
          PROVE  NonePassedOn(g2a') /\ \A p \in Objs : NonePassedOn(arx'[p])
      <4>1. /\ g2a # <<>> /\ g2a' = Tail(g2a)
            /\ arx' = arx \/ arx' = [arx EXCEPT ![o] = Append(@, Head(g2a))]
        BY <3>4 DEF Reads
      <4>2. NonePassedOn(g2a') /\ ~PassedOn(Head(g2a)) /\ Head(g2a) \in Frames
        BY <1>1, <3>1, <4>1, MarksTail, TailFacts
      <4>3. NonePassedOn(Append(arx[o], Head(g2a)))
        BY <1>1, <3>1, <4>2, MarksAppend
      <4> QED
        BY <1>1, <3>1, <4>1, <4>2, <4>3
    <3>5. ASSUME NEW o \in Objs, Returns(o)
          PROVE  NonePassedOn(g2a') /\ \A p \in Objs : NonePassedOn(arx'[p])
      BY <1>1, <3>1, <3>5, MarksEmpty DEF Returns
    <3>6. ASSUME NEW o \in Objs, Starts(o)
          PROVE  NonePassedOn(g2a') /\ \A p \in Objs : NonePassedOn(arx'[p])
      <4>1. arx[o] # <<>> /\ arx' = [arx EXCEPT ![o] = Tail(@)] /\ g2a' = g2a
        BY <3>6 DEF Starts
      <4>2. NonePassedOn(Tail(arx[o]))
        BY <1>1, <3>1, <4>1, MarksTail
      <4> QED
        BY <1>1, <3>1, <4>1, <4>2
    <3>7. CASE Takes
      <4>1. main \in Objs
        BY <3>7, MainServes DEF Takes
      <4>2. arx[main] # <<>> /\ arx' = [arx EXCEPT ![main] = Tail(@)] /\ g2a' = g2a
        BY <3>7 DEF Takes
      <4>3. NonePassedOn(Tail(arx[main]))
        BY <1>1, <3>1, <4>1, <4>2, MarksTail
      <4> QED
        BY <1>1, <3>1, <4>1, <4>2, <4>3
    <3> QED
      BY <2>2, <3>1, <3>2, <3>3, <3>4, <3>5, <3>6, <3>7, ObjectMoves
  <2> QED
    BY <2>1, <2>2, TwoSides
<1>3. ur' # "done" => NonePassedOn(a2g') /\ NonePassedOn(grx')
  <2> SUFFICES ASSUME ur' # "done" PROVE NonePassedOn(a2g') /\ NonePassedOn(grx')
    OBVIOUS
  <2>1. CASE GatewayStep
    <3>1. ur' = ur
      BY <2>1, GatewayWrites
    <3>2. NonePassedOn(a2g) /\ NonePassedOn(grx)
      BY <3>1 DEF ClosesLast
    <3>3. \/ a2g' = a2g /\ (grx' = grx \/ (grx # <<>> /\ grx' = Tail(grx)))
          \/ /\ a2g # <<>> /\ a2g' = Tail(a2g)
             /\ grx' = grx \/ grx' = Append(grx, Head(a2g))
      BY <2>1, GatewayTakes
    <3>4. a2g # <<>> => ~PassedOn(Head(a2g)) /\ NonePassedOn(Tail(a2g)) /\ Head(a2g) \in Frames
      BY <1>1, <3>2, MarksTail, TailFacts
    <3>5. grx # <<>> => NonePassedOn(Tail(grx))
      BY <1>1, <3>2, MarksTail
    <3>6. a2g # <<>> => NonePassedOn(Append(grx, Head(a2g)))
      BY <1>1, <3>2, <3>4, MarksAppend
    <3> QED
      BY <3>2, <3>3, <3>4, <3>5, <3>6
  <2>2. CASE AgentStep /\ grx' = grx
    <3>1. ur # "done"
      BY <2>2, AgentWrites
    <3>2. NonePassedOn(a2g) /\ NonePassedOn(grx)
      BY <3>1 DEF ClosesLast
    <3>3. /\ \A t \in {"OpenErr", "OpenOK"} : Frame(t, 0) \in Frames /\ ~PassedOn(Frame(t, 0))
          /\ \A n \in 1..NUp : Frame("A2C", n) \in Frames /\ ~PassedOn(Frame("A2C", n))
          /\ \A f \in Frames : MadeUp(f) => ~PassedOn(f)
      BY FrameFacts DEF TypeOK, PassedOn, MadeUp, Local, Relayed
    <3>4. ur = "read" /\ uSent + 1 <= NUp => uSent + 1 \in 1..NUp
      BY <1>1
    <3>5. \/ TunnelBreaks \/ a2g' = a2g
          \/ \E f \in Frames : ~PassedOn(f) /\ a2g' = Append(a2g, f)
      BY <2>2, <3>3, <3>4, AgentWrites DEF AgentMadeUp
    <3>6. CASE TunnelBreaks
      <4>1. PICK k \in 0..Len(a2g) : a2g' = SubSeq(a2g, 1, k)
        BY <3>6 DEF TunnelBreaks
      <4>2. /\ Len(a2g') = k /\ k \in Nat /\ k <= Len(a2g) /\ Len(a2g) \in Nat
            /\ \A i \in 1..k : a2g'[i] = a2g[i]
        BY <1>1, <4>1, SubSeqFacts, EmptyFacts
      <4>3. NonePassedOn(a2g')
        BY <3>2, <4>2 DEF NonePassedOn
      <4> QED
        BY <2>2, <3>2, <4>3
    <3> QED
      BY <1>1, <2>2, <3>2, <3>5, <3>6, MarksAppend
  <2> QED
    BY <2>1, <2>2, TwoSides
<1> QED
  BY <1>2, <1>3 DEF ClosesLast

-----------------------------------------------------------------------------
(* Lines as they are written and taken.                                    *)

\* A close that was made up is neither a message nor passed on.
LEMMA MadeUpFacts ==
  ASSUME NEW d \in {Req, Res}, NEW f, MadeUp(f)
  PROVE  f.t # d.msg /\ f.t # d.start /\ ~PassedOn(f)
BY DEF MadeUp, PassedOn, Req, Res, Local, Relayed

\* Neither is a close the opening frame or a message.
LEMMA PassedOnFacts ==
  ASSUME NEW d \in {Req, Res}, NEW f, PassedOn(f)
  PROVE  f.t # d.msg /\ f.t # d.start
BY DEF PassedOn, Req, Res

\* What the sender appends in turn keeps the line: the next message, the close of
\* its peer behind the last one, or a close made up.
LEMMA LineAppend ==
  ASSUME NEW d \in {Req, Res}, NEW S, NEW q \in Seq(S), NEW f \in S, NEW n, NEW w,
         Orderly(q, d, n),
         MadeUp(f) \/ (EndsAt(q, d, w) /\ ((f.t = d.msg /\ f.n = w + 1) \/ (PassedOn(f) /\ w = n)))
  PROVE  /\ Orderly(Append(q, f), d, n) /\ Append(q, f) # <<>>
         /\ \A v : MadeUp(f) \/ (f.t = d.msg /\ f.n = v) => EndsAt(Append(q, f), d, v)
         /\ \A k : BeginsAt(q, d, k, n) /\ (q = <<>> => MadeUp(f) \/ k = w)
                   => BeginsAt(Append(q, f), d, k, n)
<1>1. q # <<>> => Follows(q[Len(q)], f, d, n)
  BY DEF EndsAt, Follows
<1>2. /\ Orderly(Append(q, f), d, n) /\ Append(q, f) # <<>>
      /\ Append(q, f)[Len(Append(q, f))] = f
      /\ q # <<>> => Append(q, f)[1] = q[1]
      /\ q = <<>> => Append(q, f)[1] = f
  BY <1>1, OrderlyAppend
<1> DEFINE a == Append(q, f)
<1> HIDE DEF a
<1>3. ASSUME NEW v, MadeUp(f) \/ (f.t = d.msg /\ f.n = v) PROVE EndsAt(a, d, v)
  BY <1>2, <1>3 DEF EndsAt, a
<1>4. ASSUME NEW k, BeginsAt(q, d, k, n), q = <<>> => MadeUp(f) \/ k = w
      PROVE  BeginsAt(a, d, k, n)
  <2>1. CASE q # <<>>
    BY <1>2, <1>4, <2>1 DEF BeginsAt, a
  <2>2. CASE q = <<>>
    <3>1. a[1] = f
      BY <1>2, <2>2 DEF a
    <3>2. CASE MadeUp(f)
      BY <3>1, <3>2, MadeUpFacts DEF BeginsAt
    <3>3. CASE f.t = d.msg /\ f.n = w + 1 /\ k = w
      BY <3>1, <3>3, PassedOnFacts DEF BeginsAt
    <3>4. CASE PassedOn(f) /\ w = n /\ k = w
      BY <3>1, <3>4, PassedOnFacts DEF BeginsAt
    <3> QED
      BY <1>4, <2>2, <3>2, <3>3, <3>4
  <2> QED
    BY <2>1, <2>2
<1> QED
  BY <1>2, <1>3, <1>4 DEF a

\* The opening or a message is taken: what is left follows it.
LEMMA LineTaken ==
  ASSUME NEW d \in {Req, Res}, NEW S, NEW q \in Seq(S), q # <<>>, NEW n,
         Orderly(q, d, n), q[1].t \in {d.start, d.msg}
  PROVE  /\ Tail(q) \in Seq(S) /\ Orderly(Tail(q), d, n) /\ BeginsAt(Tail(q), d, q[1].n, n)
         /\ \A w : EndsAt(q, d, w) => EndsAt(Tail(q), d, w) /\ (Tail(q) = <<>> => q[1].n = w)
<1>1. /\ Tail(q) \in Seq(S) /\ Orderly(Tail(q), d, n)
      /\ Tail(q) # <<>> => /\ Follows(q[1], Tail(q)[1], d, n)
                           /\ Tail(q)[Len(Tail(q))] = q[Len(q)]
      /\ Tail(q) = <<>> => q[Len(q)] = q[1]
  BY OrderlyTail
<1> DEFINE a == Tail(q)
<1> HIDE DEF a
<1>2. ~MadeUp(q[1])
  BY MadeUpFacts
<1>3. BeginsAt(a, d, q[1].n, n)
  <2> SUFFICES ASSUME a # <<>>
               PROVE  (a[1].t = d.msg => a[1].n = q[1].n + 1) /\ (PassedOn(a[1]) => q[1].n = n)
    BY DEF BeginsAt
  <2>1. \/ MadeUp(a[1]) \/ (a[1].t = d.msg /\ a[1].n = q[1].n + 1)
        \/ (PassedOn(a[1]) /\ q[1].n = n)
    BY <1>1, <1>2 DEF Follows, a
  <2> QED
    BY <2>1, MadeUpFacts, PassedOnFacts
<1>4. ASSUME NEW w, EndsAt(q, d, w) PROVE EndsAt(a, d, w) /\ (a = <<>> => q[1].n = w)
  BY <1>1, <1>2, <1>4 DEF EndsAt, a
<1> QED
  BY <1>1, <1>3, <1>4 DEF a

\* Any frame is taken: the end of the line stays.
LEMMA LineShorter ==
  ASSUME NEW S, NEW q \in Seq(S), q # <<>>, NEW d, NEW n, Orderly(q, d, n)
  PROVE  /\ Orderly(Tail(q), d, n)
         /\ \A w : EndsAt(q, d, w) => EndsAt(Tail(q), d, w)
<1>1. /\ Orderly(Tail(q), d, n)
      /\ Tail(q) # <<>> => Tail(q)[Len(Tail(q))] = q[Len(q)]
  BY OrderlyTail
<1> DEFINE a == Tail(q)
<1> HIDE DEF a
<1>2. ASSUME NEW w, EndsAt(q, d, w) PROVE EndsAt(a, d, w)
  BY <1>1, <1>2 DEF EndsAt, a
<1> QED
  BY <1>1, <1>2 DEF a

\* The second of two queues is lost.
LEMMA LineCut ==
  ASSUME NEW S, NEW s \in Seq(S), NEW t \in Seq(S), NEW d, NEW n, Orderly(s \o t, d, n)
  PROVE  Orderly(s, d, n) /\ \A k : BeginsAt(s \o t, d, k, n) => BeginsAt(s, d, k, n)
<1>1. Orderly(s, d, n) /\ (s # <<>> => s \o t # <<>> /\ s[1] = (s \o t)[1])
  BY OrderlyFirst
<1> DEFINE a == s \o t
<1> HIDE DEF a
<1>2. ASSUME NEW k, BeginsAt(a, d, k, n) PROVE BeginsAt(s, d, k, n)
  BY <1>1, <1>2 DEF BeginsAt, a
<1> QED
  BY <1>1, <1>2 DEF a

\* The second of two queues loses its end.
LEMMA LineBroken ==
  ASSUME NEW S, NEW s \in Seq(S), NEW t \in Seq(S), NEW k \in 0..Len(t), NEW d, NEW n,
         Orderly(s \o t, d, n)
  PROVE  /\ Orderly(s \o SubSeq(t, 1, k), d, n)
         /\ \A m : BeginsAt(s \o t, d, m, n) => BeginsAt(s \o SubSeq(t, 1, k), d, m, n)
<1> DEFINE b == SubSeq(t, 1, k)
<1>1. b \in Seq(S) /\ Len(b) = k /\ \A i \in 1..k : b[i] = t[i]
  BY SubSeqFacts
<1>2. k \in Nat /\ k <= Len(t) /\ Len(t) \in Nat
  BY EmptyFacts
<1> HIDE DEF b
<1> DEFINE p == s \o b
           q == s \o t
<1>3. /\ p \in Seq(S) /\ Len(p) = Len(s) + Len(b) /\ Len(s) \in Nat /\ Len(b) \in Nat
      /\ \A i \in 1..Len(s) : p[i] = s[i]
      /\ \A i \in 1..Len(b) : p[Len(s) + i] = b[i]
  <2>1. b \in Seq(S)
    BY <1>1
  <2> QED
    BY <2>1, ConcatFacts
<1>4. /\ q \in Seq(S) /\ Len(q) = Len(s) + Len(t)
      /\ \A i \in 1..Len(s) : q[i] = s[i]
      /\ \A i \in 1..Len(t) : q[Len(s) + i] = t[i]
  BY ConcatFacts
<1>5. Orderly(q, d, n)
  OBVIOUS
<1> HIDE DEF p, q
<1>6. ASSUME NEW i \in 1..Len(p) PROVE p[i] = q[i]
  <2>1. CASE i \in 1..Len(s)
    BY <1>3, <1>4, <2>1
  <2>2. CASE i \notin 1..Len(s)
    <3>1. /\ i - Len(s) \in 1..Len(b) /\ Len(s) + (i - Len(s)) = i
          /\ i - Len(s) \in 1..Len(t)
      BY <1>1, <1>2, <1>3, <2>2
    <3>2. p[i] = b[i - Len(s)] /\ q[i] = t[i - Len(s)]
      BY <1>3, <1>4, <3>1
    <3> QED
      BY <1>1, <3>1, <3>2
  <2> QED
    BY <2>1, <2>2
<1>7. Len(p) <= Len(q)
  BY <1>1, <1>2, <1>3, <1>4
<1>8. Orderly(p, d, n) /\ (p # <<>> => q # <<>> /\ p[1] = q[1])
  BY <1>3, <1>4, <1>5, <1>6, <1>7, OrderlyFront
<1>9. ASSUME NEW m, BeginsAt(q, d, m, n) PROVE BeginsAt(p, d, m, n)
  BY <1>8, <1>9 DEF BeginsAt
<1> QED
  BY <1>8, <1>9 DEF p, q, b

\* An empty queue is an orderly line.
LEMMA LineEmpty ==
  ASSUME NEW d, NEW n, NEW w, NEW k
  PROVE  Orderly(<<>>, d, n) /\ EndsAt(<<>>, d, w) /\ BeginsAt(<<>>, d, k, n)
BY DEF Orderly, EndsAt, BeginsAt

-----------------------------------------------------------------------------
(* The line to the upstream.                                               *)

\* What the objects will get is a queue of frames.
LEMMA FeedTypes ==
  ASSUME TypeOK
  PROVE  /\ g2a \in Seq(Frames) /\ arx \in [Objs -> Seq(Frames)]
         /\ \A o \in Objs : arx[o] \in Seq(Frames) /\ Feed(o) \in Seq(Frames)
         /\ amap \in Objs \cup {None} /\ main \in Objs \cup {None} /\ None \notin Objs
         /\ ast \in [Objs -> {"free", "first", "ws"}]
         /\ cSent \in Nat /\ NClient \in Nat /\ Len(uGot) \in Nat
<1>1. g2a \in Seq(Frames) /\ arx \in [Objs -> Seq(Frames)]
  BY DEF TypeOK
<1>2. ASSUME NEW o \in Objs PROVE arx[o] \in Seq(Frames) /\ Feed(o) \in Seq(Frames)
  <2>1. arx[o] \in Seq(Frames) /\ arx[o] \o g2a \in Seq(Frames)
    BY <1>1, ConcatFacts
  <2> QED
    BY <2>1 DEF Feed
<1>3. cSent \in Nat /\ NClient \in Nat /\ Len(uGot) \in Nat
  BY FrameFacts, EmptyFacts DEF TypeOK
<1> QED
  BY <1>1, <1>2, <1>3, WsAssumption DEF TypeOK

\* The gateway writes a frame in turn.
LEMMA ReqAppend ==
  ASSUME TypeOK, ObjectsOK, ReqLine, NEW f \in Frames, g2a' = Append(g2a, f), cSent' = cSent,
         UNCHANGED <<amap, arx, main, hpc, uGot, uGone>>,
         \/ MadeUp(f) /\ (Sending' => Sending /\ Written' = Written)
         \/ Sending /\ f.t = "C2A" /\ f.n = Written + 1 /\ Written' = f.n
         \/ Sending /\ PassedOn(f) /\ Written = cSent /\ ~Sending'
  PROVE  ReqLine'
<1>1. /\ g2a \in Seq(Frames) /\ (\A o \in Objs : arx[o] \in Seq(Frames) /\ Feed(o) \in Seq(Frames))
      /\ main \in Objs \cup {None}
  BY FeedTypes
<1>2. Req \in {Req, Res} /\ Req.msg = "C2A"
  BY DEF Req
<1>3. ASSUME NEW q \in Seq(Frames), Orderly(q, Req, cSent), Sending => EndsAt(q, Req, Written)
      PROVE  /\ Orderly(Append(q, f), Req, cSent) /\ Append(q, f) # <<>>
             /\ Sending' => EndsAt(Append(q, f), Req, Written')
             /\ \A k : BeginsAt(q, Req, k, cSent) /\ (q = <<>> /\ Sending => k = Written)
                       => BeginsAt(Append(q, f), Req, k, cSent)
  <2>1. MadeUp(f) \/ (EndsAt(q, Req, Written) /\
                        ((f.t = Req.msg /\ f.n = Written + 1) \/ (PassedOn(f) /\ Written = cSent)))
    BY <1>2, <1>3
  <2>2. /\ Orderly(Append(q, f), Req, cSent) /\ Append(q, f) # <<>>
        /\ \A v : MadeUp(f) \/ (f.t = Req.msg /\ f.n = v) => EndsAt(Append(q, f), Req, v)
        /\ \A k : BeginsAt(q, Req, k, cSent) /\ (q = <<>> => MadeUp(f) \/ k = Written)
                  => BeginsAt(Append(q, f), Req, k, cSent)
    BY <1>2, <1>3, <2>1, LineAppend
  <2>3. Sending' => MadeUp(f) \/ (f.t = Req.msg /\ f.n = Written')
    BY <1>2
  <2>4. Sending' => EndsAt(Append(q, f), Req, Written')
    BY <2>2, <2>3
  <2>5. MadeUp(f) \/ Sending
    OBVIOUS
  <2> QED
    BY <2>2, <2>4, <2>5
<1>4. ASSUME NEW o \in Objs
      PROVE  Feed(o)' = IF amap = o THEN Append(Feed(o), f) ELSE Feed(o)
  <2>1. arx[o] \o Append(g2a, f) = Append(arx[o] \o g2a, f)
    <3>1. arx[o] \in Seq(Frames) /\ g2a \in Seq(Frames)
      BY <1>1
    <3>2. \A s, t \in Seq(Frames) : s \o Append(t, f) = Append(s \o t, f)
      BY AppendConcat
    <3> QED
      BY <3>1, <3>2, Zenon
  <2> QED
    BY <2>1 DEF Feed
<1>5. Orderly(g2a', Req, cSent) /\ (Sending' => EndsAt(g2a', Req, Written'))
  BY <1>1, <1>3 DEF ReqLine
<1>6. ASSUME NEW o \in Objs, amap = o
      PROVE  /\ Orderly(Feed(o)', Req, cSent) /\ Feed(o)' # <<>>
             /\ Sending' => EndsAt(Feed(o)', Req, Written')
             /\ \A k : BeginsAt(Feed(o), Req, k, cSent) /\ (Feed(o) = <<>> /\ Sending => k = Written)
                       => BeginsAt(Feed(o)', Req, k, cSent)
  <2>1. /\ Feed(o) \in Seq(Frames) /\ Orderly(Feed(o), Req, cSent)
        /\ Sending => EndsAt(Feed(o), Req, Written)
    BY <1>1, <1>6 DEF ReqLine
  <2>2. Feed(o)' = Append(Feed(o), f)
    BY <1>4, <1>6
  <2> QED
    BY <1>3, <2>1, <2>2
<1>7. ASSUME NEW o \in Objs, amap # o PROVE Feed(o)' = Feed(o)
  BY <1>4, <1>7
<1>8. Serves' => Serves /\ main \in Objs /\ main' = main
  BY <1>1 DEF Serves, ObjectsOK
<1>9. Serves' => BeginsAt(Feed(main)', Req, Len(uGot), cSent)
  BY <1>6, <1>7, <1>8 DEF ReqLine
<1>10. Serves' /\ amap = main => Feed(main)' # <<>>
  BY <1>6, <1>8
<1>11. \A o \in Objs : Orderly(Feed(o)', Req, cSent)
  BY <1>6, <1>7 DEF ReqLine
<1>12. \A o \in Objs : Sending' /\ amap = o => EndsAt(Feed(o)', Req, Written')
  BY <1>6
<1> QED
  BY <1>5, <1>8, <1>9, <1>10, <1>11, <1>12 DEF ReqLine

\* A step of the gateway keeps the line.
LEMMA ReqGateway ==
  ASSUME TypeOK, Untouched, ObjectsOK, GatewayControl, ClosesLast, ReqLine, GatewayStep
  PROVE  ReqLine'
<1>1. /\ g2a \in Seq(Frames) /\ (\A o \in Objs : arx[o] \in Seq(Frames) /\ Feed(o) \in Seq(Frames))
      /\ main \in Objs \cup {None} /\ cSent \in Nat
  BY FeedTypes
<1>2. /\ UNCHANGED <<amap, ast, arx, main, hpc, uGot, uGone, up>>
      /\ gpc' = "start" => gpc = "start"
  BY GatewayWrites
<1>3. /\ \A o \in Objs : Feed(o)' = IF amap = o THEN arx[o] \o g2a' ELSE arx[o]
      /\ Serves' = Serves
  BY <1>2 DEF Feed, Serves
<1>4. CASE gpc = "start"
  <2>1. /\ g2a = <<>> /\ amap = None /\ main = None /\ hpc = "off"
        /\ \A o \in Objs : arx[o] = <<>>
    BY <1>4 DEF Untouched, ObjectsOK
  <2>2. rdr = "off" /\ cSent = 0
    BY <1>4 DEF GatewayControl
  <2>3. /\ g2a' = g2a \/ g2a' = Append(g2a, Frame("ReqStart", 0))
        /\ cSent' = cSent /\ (MayRead' => Written' = Written)
    BY <1>4, <2>2, GatewayWrites DEF MayRead, Written
  <2>4. MayRead' => Written' = 0
    BY <2>2, <2>3 DEF Written
  <2>5. Orderly(g2a', Req, cSent) /\ EndsAt(g2a', Req, 0)
    <3>1. CASE g2a' = g2a
      BY <2>1, <3>1, LineEmpty
    <3>2. CASE g2a' = Append(g2a, Frame("ReqStart", 0))
      <4>1. Frame("ReqStart", 0) \in Frames /\ Frame("ReqStart", 0).t = Req.start
            /\ Frame("ReqStart", 0).n = 0
        BY FrameFacts DEF TypeOK, Req
      <4>2. Orderly(g2a, Req, cSent)
        BY <2>1, LineEmpty
      <4>3. Orderly(g2a', Req, cSent) /\ g2a'[Len(g2a')] = Frame("ReqStart", 0)
        BY <1>1, <2>1, <3>2, <4>1, <4>2, OrderlyAppend
      <4> QED
        BY <4>1, <4>3 DEF EndsAt
    <3> QED
      BY <2>3, <3>1, <3>2
  <2>6. \A o \in Objs : Feed(o)' = <<>> /\ amap' # o
    BY <1>1, <1>2, <1>3, <2>1, FeedTypes
  <2>7. ~Serves'
    BY <1>3, <2>1 DEF Serves
  <2>8. Sending' => MayRead'
    BY DEF Sending
  <2> QED
    BY <2>3, <2>4, <2>5, <2>6, <2>7, <2>8, LineEmpty DEF ReqLine
<1>5. CASE gpc # "start"
  <2>1. Sending' <=> up /\ MayRead'
    BY <1>2, <1>5 DEF Sending
  <2>2. CASE g2a' = g2a /\ cSent' = cSent /\ (MayRead' => MayRead /\ Written' = Written)
    <3>1. Sending' => Sending /\ Written' = Written
      BY <1>5, <2>1, <2>2 DEF Sending
    <3>2. \A o \in Objs : Feed(o)' = Feed(o)
      BY <1>2, <2>2 DEF Feed
    <3>3. Serves => main \in Objs /\ Feed(main)' = Feed(main)
      BY <1>1, <1>2, <3>2 DEF Serves, ObjectsOK
    <3> QED
      BY <1>2, <1>3, <2>2, <3>1, <3>2, <3>3 DEF ReqLine
  <2>3. CASE /\ up /\ WritesMadeUp /\ cSent' = cSent
             /\ MayRead' => MayRead /\ Written' = Written
    <3>1. Sending' => Sending /\ Written' = Written
      BY <1>5, <2>1, <2>3 DEF Sending
    <3> QED
      BY <1>2, <2>3, <3>1, ReqAppend DEF WritesMadeUp
  <2>4. CASE /\ rdr = "write" /\ rdr' = "read" /\ up /\ g2a' = Append(g2a, Frame("C2A", cSent))
             /\ UNCHANGED <<cSent, gpc>>
    <3>1. /\ Frame("C2A", cSent) \in Frames /\ Frame("C2A", cSent).t = "C2A"
          /\ Frame("C2A", cSent).n = cSent
      BY <2>4, FrameFacts DEF TypeOK, GatewayControl
    <3>2. Sending /\ cSent = Written + 1 /\ Written' = cSent
      BY <1>1, <1>5, <2>4 DEF Sending, MayRead, Written
    <3> QED
      BY <1>2, <2>4, <3>1, <3>2, ReqAppend
  <2>5. CASE /\ rdr = "read" /\ rdr' \in {"close", "done"} /\ up
             /\ \E f \in Frames : PassedOn(f) /\ g2a' = Append(g2a, f)
             /\ UNCHANGED <<cSent, gpc>>
    <3>1. Sending /\ Written = cSent /\ ~Sending'
      BY <1>5, <2>5 DEF Sending, MayRead, Written
    <3> QED
      BY <1>2, <2>5, <3>1, ReqAppend
  <2>6. CASE /\ rdr = "read" /\ cSent' = cSent + 1 /\ g2a' = g2a
             /\ MayRead' => Written' = Written
    <3>1. Sending' => Sending /\ Written' = Written
      BY <1>5, <2>1, <2>6 DEF Sending, MayRead
    <3>2. \A o \in Objs : Feed(o)' = Feed(o)
      BY <1>2, <2>6 DEF Feed
    <3>3. Serves => main \in Objs /\ Feed(main)' = Feed(main)
      BY <1>1, <1>2, <3>2 DEF Serves, ObjectsOK
    <3>4. NonePassedOn(g2a) /\ \A o \in Objs : NonePassedOn(arx[o])
      BY <2>6 DEF ClosesLast, MayRead
    <3>5. ASSUME NEW o \in Objs PROVE NonePassedOn(Feed(o))
      <4>1. NonePassedOn(arx[o] \o g2a)
        BY <1>1, <3>4, MarksConcat
      <4> QED
        BY <3>4, <4>1 DEF Feed
    <3>6. ASSUME NEW q \in Seq(Frames), NonePassedOn(q), Orderly(q, Req, cSent)
          PROVE  Orderly(q, Req, cSent') /\
                 \A k : BeginsAt(q, Req, k, cSent) => BeginsAt(q, Req, k, cSent')
      BY <3>6, OrderlyLonger
    <3>7. Orderly(g2a', Req, cSent') /\ (Sending' => EndsAt(g2a', Req, Written'))
      BY <1>1, <2>6, <3>1, <3>4, <3>6 DEF ReqLine
    <3>8. \A o \in Objs : /\ Orderly(Feed(o), Req, cSent')
                          /\ \A k : BeginsAt(Feed(o), Req, k, cSent) => BeginsAt(Feed(o), Req, k, cSent')
      BY <1>1, <3>5, <3>6 DEF ReqLine
    <3>9. \A o \in Objs : Sending' /\ amap' = o => EndsAt(Feed(o), Req, Written')
      BY <1>2, <3>1 DEF ReqLine
    <3>10. Serves => BeginsAt(Feed(main), Req, Len(uGot), cSent')
      BY <3>3, <3>8 DEF ReqLine
    <3>11. Serves /\ Sending' /\ amap' = main /\ Feed(main) = <<>> => Len(uGot) = Written'
      BY <1>2, <3>1 DEF ReqLine
    <3> QED
      BY <1>2, <1>3, <3>2, <3>3, <3>7, <3>8, <3>9, <3>10, <3>11 DEF ReqLine
  <2> QED
    BY <1>5, <2>2, <2>3, <2>4, <2>5, <2>6, GatewayWrites
<1> QED
  BY <1>4, <1>5

\* The id is forgotten or the tunnel breaks: what the objects have is all they get.
LEMMA ReqCut ==
  ASSUME TypeOK, ObjectsOK, ReqLine, cSent' = cSent,
         Orderly(g2a', Req, cSent), Sending' => EndsAt(g2a', Req, Written'),
         \A o \in Objs : Feed(o)' \in {arx[o], <<>>},
         Sending' => amap' = None,
         Serves' => Serves /\ main' = main /\ uGot' = uGot
  PROVE  ReqLine'
<1>1. /\ \A o \in Objs : arx[o] \in Seq(Frames) /\ Feed(o) \in Seq(Frames)
      /\ main \in Objs \cup {None} /\ g2a \in Seq(Frames) /\ None \notin Objs
  BY FeedTypes
<1>2. ASSUME NEW o \in Objs
      PROVE  Orderly(arx[o], Req, cSent) /\
             \A k : BeginsAt(Feed(o), Req, k, cSent) => BeginsAt(arx[o], Req, k, cSent)
  <2>1. Orderly(Feed(o), Req, cSent)
    BY DEF ReqLine
  <2>2. CASE amap = o
    <3>1. Feed(o) = arx[o] \o g2a
      BY <2>2 DEF Feed
    <3>2. arx[o] \in Seq(Frames)
      BY <1>1
    <3> QED
      BY <1>1, <2>1, <3>1, <3>2, LineCut
  <2>3. CASE amap # o
    BY <2>1, <2>3 DEF Feed
  <2> QED
    BY <2>2, <2>3
<1>3. \A o \in Objs : Orderly(Feed(o)', Req, cSent)
  BY <1>2, LineEmpty
<1>4. Serves' => BeginsAt(Feed(main)', Req, Len(uGot), cSent)
  <2> SUFFICES ASSUME Serves' PROVE BeginsAt(Feed(main)', Req, Len(uGot), cSent)
    OBVIOUS
  <2>1. Serves /\ main' = main /\ main \in Objs
    BY <1>1 DEF Serves, ObjectsOK
  <2>2. PICK o \in Objs : o = main
    BY <2>1
  <2>3. BeginsAt(arx[o], Req, Len(uGot), cSent)
    BY <1>2, <2>1, <2>2 DEF ReqLine
  <2>4. Feed(o)' \in {arx[o], <<>>}
    OBVIOUS
  <2>5. Feed(main)' = Feed(o)'
    BY <2>1, <2>2 DEF Feed
  <2> QED
    BY <2>3, <2>4, <2>5, LineEmpty
<1>5. Serves' => main' \in Objs /\ uGot' = uGot
  BY <1>1 DEF Serves, ObjectsOK
<1> QED
  BY <1>1, <1>3, <1>4, <1>5 DEF ReqLine

\* readLoop delivers a frame.
LEMMA ReqReads ==
  ASSUME TypeOK, ObjectsOK, ReqLine, ~aSkip', UNCHANGED <<gpc, rdr, cSent>>,
         NEW o \in Objs, Reads(o)
  PROVE  ReqLine'
<1>1. /\ (\A p \in Objs : arx[p] \in Seq(Frames) /\ Feed(p) \in Seq(Frames))
      /\ main \in Objs \cup {None} /\ g2a \in Seq(Frames) /\ None \notin Objs
      /\ arx \in [Objs -> Seq(Frames)]
  BY FeedTypes
<1>2. /\ amap = o \/ (amap = None /\ ast[o] = "free")
      /\ g2a # <<>> /\ g2a' = Tail(g2a) /\ UNCHANGED <<main, hpc, uGot, uGone, up>>
  BY DEF Reads
<1>3. Sending' = Sending /\ Written' = Written /\ Serves' = Serves
  BY <1>2 DEF Sending, MayRead, Written, Serves
<1>4. /\ Orderly(g2a', Req, cSent) /\ (Sending => EndsAt(g2a', Req, Written))
  BY <1>1, <1>2, LineShorter DEF ReqLine
<1>6. Serves => main \in Objs /\ ast[main] = "ws"
  BY <1>1 DEF Serves, ObjectsOK
<1>7. CASE amap' = o /\ arx' = [arx EXCEPT ![o] = Append(@, Head(g2a))]
  <2>1. Feed(o)' = arx[o] \o g2a
    <3>1. arx'[o] = Append(arx[o], Head(g2a))
      BY <1>1, <1>7
    <3>2. arx[o] \in Seq(Frames)
      BY <1>1
    <3>3. Append(arx[o], Head(g2a)) \o Tail(g2a) = arx[o] \o g2a
      BY <1>1, <1>2, <3>2, MoveHead
    <3> QED
      BY <1>2, <1>7, <3>1, <3>3 DEF Feed
  <2>2. \A p \in Objs \ {o} : Feed(p)' = arx[p] /\ Feed(p) = arx[p]
    BY <1>1, <1>2, <1>7 DEF Feed
  <2>3. CASE amap = o
    <3>1. \A p \in Objs : Feed(p)' = Feed(p)
      BY <2>1, <2>2, <2>3 DEF Feed
    <3>2. Serves => Feed(main)' = Feed(main)
      BY <1>2, <1>6, <3>1
    <3> QED
      BY <1>2, <1>3, <1>4, <1>7, <2>3, <3>1, <3>2 DEF ReqLine
  <2>4. CASE amap # o
    <3>1. arx[o] = <<>> /\ amap = None /\ (Serves => main # o)
      BY <1>2, <1>6, <2>4 DEF ObjectsOK
    <3>2. Feed(o)' = g2a
      BY <1>1, <2>1, <3>1, EmptyConcat
    <3>3. Serves => main # o /\ Feed(main)' = Feed(main)
      BY <1>2, <1>6, <2>2, <3>1
    <3>4. \A p \in Objs : Orderly(Feed(p)', Req, cSent)
      BY <2>2, <3>2 DEF ReqLine
    <3>5. Sending => EndsAt(Feed(o)', Req, Written)
      BY <3>2 DEF ReqLine
    <3> QED
      BY <1>2, <1>3, <1>4, <1>7, <3>3, <3>4, <3>5 DEF ReqLine
  <2> QED
    BY <2>3, <2>4
<1>8. CASE amap' = None /\ arx' = arx
  <2>1. \A p \in Objs : Feed(p)' = arx[p]
    BY <1>1, <1>8 DEF Feed
  <2> QED
    BY <1>2, <1>3, <1>4, <1>8, <2>1, ReqCut
<1> QED
  BY <1>7, <1>8 DEF Reads

\* The head of what an object has is the head of what it will get.
LEMMA FeedTaken ==
  ASSUME TypeOK, NEW o \in Objs, arx[o] # <<>>, arx' = [arx EXCEPT ![o] = Tail(@)],
         g2a' = g2a, amap' = amap
  PROVE  /\ Feed(o) # <<>> /\ Feed(o)[1] = Head(arx[o]) /\ Feed(o)' = Tail(Feed(o))
         /\ \A p \in Objs \ {o} : Feed(p)' = Feed(p)
<1>1. arx[o] \in Seq(Frames) /\ g2a \in Seq(Frames) /\ arx \in [Objs -> Seq(Frames)]
  BY FeedTypes
<1>2. arx'[o] = Tail(arx[o]) /\ \A p \in Objs \ {o} : arx'[p] = arx[p]
  BY <1>1
<1>3. /\ Tail(arx[o]) \o g2a = Tail(arx[o] \o g2a) /\ arx[o] \o g2a # <<>>
      /\ (arx[o] \o g2a)[1] = arx[o][1]
  BY <1>1, TailConcat
<1>4. Head(arx[o]) = arx[o][1]
  BY <1>1, TailFacts
<1>5. Feed(o)' = IF amap = o THEN Tail(arx[o]) \o g2a ELSE Tail(arx[o])
  BY <1>2 DEF Feed
<1>6. Feed(o) = IF amap = o THEN arx[o] \o g2a ELSE arx[o]
  BY DEF Feed
<1>7. \A p \in Objs \ {o} : Feed(p)' = Feed(p)
  BY <1>2 DEF Feed
<1>8. CASE amap = o
  BY <1>3, <1>4, <1>5, <1>6, <1>7, <1>8, Zenon
<1>9. CASE amap # o
  BY <1>4, <1>5, <1>6, <1>7, <1>9, Zenon
<1> QED
  BY <1>8, <1>9

\* TReqStart makes an object the one the handler runs on.
LEMMA ReqStarts ==
  ASSUME TypeOK, ObjectsOK, OneStart, AgentControl, ReqLine, UNCHANGED <<gpc, rdr, cSent>>,
         NEW o \in Objs, Starts(o)
  PROVE  ReqLine'
<1>1. (\A p \in Objs : Feed(p) \in Seq(Frames)) /\ None \notin Objs
  BY FeedTypes
<1>2. /\ arx[o] # <<>> /\ Head(arx[o]).t = "ReqStart" /\ arx' = [arx EXCEPT ![o] = Tail(@)]
      /\ main' = o /\ hpc' = "dial" /\ UNCHANGED <<amap, g2a, uGot, up>>
  BY DEF Starts
<1>3. /\ Feed(o) # <<>> /\ Feed(o)[1] = Head(arx[o]) /\ Feed(o)' = Tail(Feed(o))
      /\ \A p \in Objs \ {o} : Feed(p)' = Feed(p)
  BY <1>2, FeedTaken
<1>4. Head(arx[o]) \in Frames /\ Head(arx[o]) = arx[o][1]
  <2>1. arx[o] \in Seq(Frames)
    BY FeedTypes
  <2> QED
    BY <1>2, <2>1, TailFacts
<1>5. Head(arx[o]).n = 0
  BY <1>2, <1>4, FrameFacts DEF TypeOK
<1>6. main = None /\ uGot = <<>> /\ Len(uGot) = 0
  BY <1>2, <1>4 DEF OneStart, HasStart, ObjectsOK, AgentControl
<1>7. Sending' = Sending /\ Written' = Written
  BY <1>2 DEF Sending, MayRead, Written
<1>8. /\ Orderly(Tail(Feed(o)), Req, cSent) /\ BeginsAt(Tail(Feed(o)), Req, 0, cSent)
      /\ \A w : EndsAt(Feed(o), Req, w) =>
                  EndsAt(Tail(Feed(o)), Req, w) /\ (Tail(Feed(o)) = <<>> => 0 = w)
  <2>1. Req \in {Req, Res} /\ Feed(o)[1].t \in {Req.start, Req.msg} /\ Feed(o) \in Seq(Frames)
    BY <1>1, <1>2, <1>3 DEF Req
  <2>2. Orderly(Feed(o), Req, cSent) /\ Feed(o)[1].n = 0
    BY <1>3, <1>5 DEF ReqLine
  <2> QED
    BY <1>3, <2>1, <2>2, LineTaken
<1>9. \A p \in Objs : Orderly(Feed(p)', Req, cSent)
  BY <1>3, <1>8 DEF ReqLine
<1>10. \A p \in Objs : Sending /\ amap = p => EndsAt(Feed(p)', Req, Written)
  BY <1>3, <1>8 DEF ReqLine
<1>11. Sending /\ amap = o /\ Feed(o)' = <<>> => 0 = Written
  BY <1>3, <1>8 DEF ReqLine
<1>12. Feed(main)' = Feed(o)'
  BY <1>2 DEF Feed
<1> QED
  BY <1>2, <1>3, <1>6, <1>7, <1>8, <1>9, <1>10, <1>11, <1>12 DEF ReqLine

\* The handler takes a frame.
LEMMA ReqTakes ==
  ASSUME TypeOK, ObjectsOK, ReqLine, UNCHANGED <<gpc, rdr, cSent>>, Takes
  PROVE  ReqLine' /\ (uGot' = uGot \/ uGot' = Append(uGot, Len(uGot) + 1))
<1>1. PICK o \in Objs : o = main
  BY MainServes DEF Takes
<1>2. /\ (\A p \in Objs : Feed(p) \in Seq(Frames) /\ arx[p] \in Seq(Frames))
      /\ None \notin Objs /\ g2a \in Seq(Frames) /\ arx \in [Objs -> Seq(Frames)]
      /\ uGot \in Seq(1..NClient) /\ Len(uGot) \in Nat
  BY FeedTypes DEF TypeOK
<1>3. /\ hpc = "relay" /\ arx[o] # <<>> /\ arx' = [arx EXCEPT ![o] = Tail(@)]
      /\ UNCHANGED <<main, g2a, up, uGone>>
  BY <1>1 DEF Takes
<1>4. Sending' = Sending /\ Written' = Written
  BY <1>3 DEF Sending, MayRead, Written
<1>5. CASE /\ uGone # "drop" /\ Head(arx[o]).t = "C2A" /\ UNCHANGED <<amap, hpc>>
           /\ uGot' = Append(uGot, Head(arx[o]).n)
  <2>1. /\ Feed(o) # <<>> /\ Feed(o)[1] = Head(arx[o]) /\ Feed(o)' = Tail(Feed(o))
        /\ \A p \in Objs \ {o} : Feed(p)' = Feed(p)
    BY <1>3, <1>5, FeedTaken
  <2>2. Feed(o)[1].n = Len(uGot) + 1
    BY <1>1, <1>3, <1>5, <2>1 DEF ReqLine, BeginsAt, Req, Serves
  <2>3. uGot' = Append(uGot, Len(uGot) + 1) /\ Len(uGot') = Len(uGot) + 1
    <3>1. arx[o] \in Seq(Frames)
      BY <1>2
    <3>2. Head(arx[o]) \in Frames
      BY <1>3, <3>1, TailFacts
    <3>3. Head(arx[o]).n \in 1..NClient
      BY <1>5, <3>2, FrameFacts DEF TypeOK
    <3> QED
      BY <1>2, <1>5, <2>1, <2>2, <3>3, AppendFacts
  <2>4. /\ Orderly(Tail(Feed(o)), Req, cSent) /\ BeginsAt(Tail(Feed(o)), Req, Len(uGot'), cSent)
        /\ \A w : EndsAt(Feed(o), Req, w) =>
                    EndsAt(Tail(Feed(o)), Req, w) /\ (Tail(Feed(o)) = <<>> => Len(uGot') = w)
    <3>1. Req \in {Req, Res} /\ Feed(o)[1].t \in {Req.start, Req.msg} /\ Feed(o) \in Seq(Frames)
      BY <1>2, <1>5, <2>1 DEF Req
    <3>2. Orderly(Feed(o), Req, cSent) /\ Feed(o)[1].n = Len(uGot')
      BY <2>2, <2>3 DEF ReqLine
    <3> QED
      BY <2>1, <3>1, <3>2, LineTaken
  <2>5. \A p \in Objs : Orderly(Feed(p)', Req, cSent)
    BY <2>1, <2>4 DEF ReqLine
  <2>6. \A p \in Objs : Sending /\ amap = p => EndsAt(Feed(p)', Req, Written)
    BY <2>1, <2>4 DEF ReqLine
  <2>7. Sending /\ amap = o /\ Feed(o)' = <<>> => Len(uGot') = Written
    BY <2>1, <2>4 DEF ReqLine
  <2>8. Feed(main)' = Feed(o)'
    BY <1>1, <1>3 DEF Feed
  <2> QED
    BY <1>1, <1>3, <1>4, <1>5, <2>1, <2>3, <2>4, <2>5, <2>6, <2>7, <2>8 DEF ReqLine
<1>7. CASE uGone = "drop" /\ UNCHANGED <<amap, hpc, uGot>>
  <2>1. /\ Feed(o) # <<>> /\ Feed(o)' = Tail(Feed(o))
        /\ \A p \in Objs \ {o} : Feed(p)' = Feed(p)
    BY <1>3, <1>7, FeedTaken
  <2>2. /\ Orderly(Tail(Feed(o)), Req, cSent)
        /\ \A w : EndsAt(Feed(o), Req, w) => EndsAt(Tail(Feed(o)), Req, w)
    <3>1. Feed(o) \in Seq(Frames) /\ Orderly(Feed(o), Req, cSent)
      BY <1>2 DEF ReqLine
    <3> QED
      BY <2>1, <3>1, LineShorter
  <2>3. \A p \in Objs : Orderly(Feed(p)', Req, cSent)
    BY <2>1, <2>2 DEF ReqLine
  <2>4. \A p \in Objs : Sending /\ amap = p => EndsAt(Feed(p)', Req, Written)
    BY <2>1, <2>2 DEF ReqLine
  <2>5. ~Serves'
    BY <1>3, <1>7 DEF Serves
  <2> QED
    BY <1>3, <1>4, <1>7, <2>3, <2>4, <2>5 DEF ReqLine
<1>6. CASE amap' = None /\ hpc' = "done" /\ uGot' = uGot
  <2>1. ASSUME NEW p \in Objs PROVE Orderly(arx[p], Req, cSent)
    <3>1. Orderly(Feed(p), Req, cSent) /\ arx[p] \in Seq(Frames)
      BY <1>2 DEF ReqLine
    <3>2. CASE amap = p
      BY <1>2, <3>1, <3>2, LineCut DEF Feed
    <3>3. CASE amap # p
      BY <3>1, <3>3 DEF Feed
    <3> QED
      BY <3>2, <3>3
  <2>2. arx[o] \in Seq(Frames) /\ Orderly(arx[o], Req, cSent)
    BY <1>2, <2>1
  <2>3. Orderly(Tail(arx[o]), Req, cSent)
    BY <1>3, <2>2, LineShorter
  <2>4. \A p \in Objs : Orderly(arx'[p], Req, cSent)
    BY <1>2, <1>3, <2>1, <2>3
  <2>5. \A p \in Objs : Feed(p)' = arx'[p] /\ amap' # p
    BY <1>2, <1>6 DEF Feed
  <2>6. ~Serves'
    BY <1>6 DEF Serves
  <2>7. Orderly(g2a', Req, cSent) /\ (Sending' => EndsAt(g2a', Req, Written'))
    BY <1>3, <1>4 DEF ReqLine
  <2> QED
    BY <1>6, <2>4, <2>5, <2>6, <2>7 DEF ReqLine
<1> QED
  BY <1>1, <1>5, <1>6, <1>7 DEF Takes

\* Every step keeps the line to the upstream, and gives the upstream at most the
\* message that is next, until a frame is dropped.
LEMMA ReqLinesStep ==
  ASSUME TypeOK, Untouched, ObjectsOK, OneStart, GatewayControl, AgentControl, ClosesLast,
         ReqLines, [Next]_vars
  PROVE  ReqLines' /\ (~aSkip' => uGot' = uGot \/ uGot' = Append(uGot, Len(uGot) + 1))
<1>1. CASE GatewayStep
  <2>1. aSkip' = aSkip /\ uGot' = uGot
    BY <1>1, GatewayWrites
  <2> QED
    BY <1>1, <2>1, ReqGateway DEF ReqLines
<1>2. CASE AgentStep /\ UNCHANGED <<gpc, rdr, cSent>>
  <2>1. CASE aSkip'
    BY <2>1 DEF ReqLines
  <2>2. CASE ~aSkip'
    <3>1. ReqLine
      BY <2>2, PastStays DEF ReqLines
    <3>2. MayRead' = MayRead /\ Written' = Written
      BY <1>2 DEF MayRead, Written
    <3>3. Orderly(g2a, Req, cSent) /\ (Sending => EndsAt(g2a, Req, Written)) /\ None \notin Objs
      BY <3>1, FeedTypes DEF ReqLine
    <3>4. CASE Keeps
      <4>1. UNCHANGED <<g2a, arx, main, uGot, up>> /\ (Serves' => Serves)
        BY <3>4, PastStays DEF Keeps, Serves, UpstreamCloses
      <4>2. Sending' = Sending
        BY <1>2, <3>2, <4>1 DEF Sending
      <4>3. CASE amap' = amap
        <5>1. \A o \in Objs : Feed(o)' = Feed(o)
          BY <4>1, <4>3 DEF Feed
        <5>2. Serves => main \in Objs /\ Feed(main)' = Feed(main)
          BY <4>1, <5>1, MainServes DEF Serves
        <5> QED
          BY <1>2, <3>1, <3>2, <4>1, <4>2, <4>3, <5>1, <5>2 DEF ReqLine, ReqLines
      <4>4. CASE amap' = None
        <5>1. \A o \in Objs : Feed(o)' = arx[o]
          BY <3>3, <4>1, <4>4 DEF Feed
        <5>2. ReqLine'
          BY <1>2, <3>1, <3>2, <3>3, <4>1, <4>2, <4>4, <5>1, ReqCut
        <5> QED
          BY <4>1, <5>2 DEF ReqLines
      <4> QED
        BY <3>4, <4>3, <4>4 DEF Keeps
    <3>5. CASE TunnelBreaks /\ UNCHANGED <<amap, ast, arx, aclosed, main, hpc, uGot, uGone>>
      <4>1. g2a' = <<>> /\ up' = FALSE
        BY <3>5 DEF TunnelBreaks
      <4>2. ~Sending' /\ Serves' = Serves
        BY <3>5, <4>1 DEF Sending, Serves
      <4>3. \A o \in Objs : Feed(o)' = arx[o]
        <5>1. ASSUME NEW o \in Objs PROVE Feed(o)' = arx[o]
          <6>1. arx[o] \o <<>> = arx[o]
            BY FeedTypes, EmptyConcat
          <6> QED
            BY <3>5, <4>1, <6>1 DEF Feed
        <5> QED
          BY <5>1
      <4>4. ReqLine'
        BY <1>2, <3>1, <3>5, <4>1, <4>2, <4>3, LineEmpty, ReqCut
      <4> QED
        BY <3>5, <4>4 DEF ReqLines
    <3>6. ASSUME NEW o \in Objs, Reads(o) PROVE ReqLine' /\ uGot' = uGot
      <4>1. uGot' = uGot
        BY <3>6 DEF Reads
      <4> QED
        BY <1>2, <2>2, <3>1, <3>6, <4>1, ReqReads
    <3>7. ASSUME NEW o \in Objs, Returns(o) PROVE ReqLine' /\ uGot' = uGot
      <4>1. /\ UNCHANGED <<g2a, main, hpc, uGot, uGone, up>> /\ amap' = None
            /\ arx' = [arx EXCEPT ![o] = <<>>]
        BY <3>7 DEF Returns
      <4>2. Sending' = Sending /\ Serves' = Serves
        BY <1>2, <3>2, <4>1 DEF Sending, Serves
      <4>3. arx'[o] = <<>> /\ \A p \in Objs \ {o} : arx'[p] = arx[p]
        BY <4>1, FeedTypes
      <4>4. \A p \in Objs : Feed(p)' \in {arx[p], <<>>}
        BY <3>3, <4>1, <4>3 DEF Feed
      <4> QED
        BY <1>2, <3>1, <3>2, <3>3, <4>1, <4>2, <4>4, ReqCut
    <3>8. ASSUME NEW o \in Objs, Starts(o) PROVE ReqLine' /\ uGot' = uGot
      <4>1. uGot' = uGot
        BY <3>8 DEF Starts
      <4> QED
        BY <1>2, <3>1, <3>8, <4>1, ReqStarts
    <3>9. CASE Takes
      BY <1>2, <2>2, <3>1, <3>9, ReqTakes DEF ReqLines
    <3> QED
      BY <1>2, <3>4, <3>5, <3>6, <3>7, <3>8, <3>9, ObjectMoves DEF ReqLines
  <2> QED
    BY <2>1, <2>2
<1> QED
  BY <1>1, <1>2, TwoSides

-----------------------------------------------------------------------------
(* The line to the client.                                                 *)

\* What the handler of the gateway will get is a queue of frames.
LEMMA ResTypes ==
  ASSUME TypeOK
  PROVE  /\ a2g \in Seq(Frames) /\ grx \in Seq(Frames) /\ ResFeed \in Seq(Frames)
         /\ uSent \in Nat /\ NUp \in Nat /\ uSent \in 0..NUp
         /\ cGot \in Seq(1..NUp) /\ Len(cGot) \in Nat
<1>1. a2g \in Seq(Frames) /\ grx \in Seq(Frames) /\ grx \o a2g \in Seq(Frames)
  BY ConcatFacts DEF TypeOK
<1>2. uSent \in 0..NUp /\ NUp \in Nat /\ cGot \in Seq(1..NUp) /\ Len(cGot) \in Nat
  BY FrameFacts, EmptyFacts DEF TypeOK
<1> QED
  BY <1>1, <1>2 DEF ResFeed

\* The queue of the handler is a line by itself, what the client gets next included.
LEMMA ResQueue ==
  ASSUME TypeOK, ResLine
  PROVE  Orderly(grx, Res, uSent) /\ (Relaying => BeginsAt(grx, Res, Len(cGot), uSent))
<1>1. a2g \in Seq(Frames) /\ grx \in Seq(Frames)
  BY ResTypes
<1>2. CASE gst # "closed"
  <2>1. ResFeed = grx \o a2g
    BY <1>2 DEF ResFeed
  <2> QED
    BY <1>1, <2>1, LineCut DEF ResLine
<1>3. CASE gst = "closed"
  BY <1>3 DEF ResFeed, ResLine
<1> QED
  BY <1>2, <1>3

\* The handler takes a frame: the client gets the message that is next.
LEMMA ResTaken ==
  ASSUME TypeOK, GatewayControl, NEW q \in Seq(Frames), q # <<>>, Orderly(q, Res, uSent),
         Relaying => BeginsAt(q, Res, Len(cGot), uSent),
         \/ Relaying /\ q[1].t = "A2C" /\ cGot' = Append(cGot, q[1].n)
         \/ gpc = "open" /\ q[1].t = "OpenOK" /\ cGot' = cGot
  PROVE  /\ BeginsAt(Tail(q), Res, Len(cGot'), uSent)
         /\ \A w : EndsAt(q, Res, w) /\ Tail(q) = <<>> => Len(cGot') = w
         /\ cGot' = cGot \/ cGot' = Append(cGot, Len(cGot) + 1)
<1>1. cGot \in Seq(1..NUp) /\ Len(cGot) \in Nat
  BY ResTypes
<1>2. q[1] \in Frames
  BY EmptyFacts
<1>3. Len(cGot') = q[1].n /\ (cGot' = cGot \/ cGot' = Append(cGot, Len(cGot) + 1))
  <2>1. CASE Relaying /\ q[1].t = "A2C" /\ cGot' = Append(cGot, q[1].n)
    <3>1. q[1].n = Len(cGot) + 1
      BY <2>1 DEF BeginsAt, Res
    <3>2. q[1].n \in 1..NUp
      BY <1>2, <2>1, FrameFacts DEF TypeOK
    <3> QED
      BY <1>1, <2>1, <3>1, <3>2, AppendFacts
  <2>2. CASE gpc = "open" /\ q[1].t = "OpenOK" /\ cGot' = cGot
    <3>1. q[1].n = 0
      BY <1>2, <2>2, FrameFacts DEF TypeOK
    <3>2. cGot = <<>>
      BY <2>2 DEF GatewayControl
    <3> QED
      BY <2>2, <3>1, <3>2
  <2> QED
    BY <2>1, <2>2
<1>4. Res \in {Req, Res} /\ q[1].t \in {Res.start, Res.msg}
  BY DEF Res
<1>5. /\ BeginsAt(Tail(q), Res, q[1].n, uSent)
      /\ \A w : EndsAt(q, Res, w) => (Tail(q) = <<>> => q[1].n = w)
  BY <1>4, LineTaken
<1> QED
  BY <1>3, <1>5

\* A step of the gateway keeps the line, and gives the client at most the message
\* that is next.
LEMMA ResGateway ==
  ASSUME TypeOK, Untouched, GatewayControl, ResLine, ~gSkip', GatewayStep
  PROVE  ResLine' /\ (cGot' = cGot \/ cGot' = Append(cGot, Len(cGot) + 1))
<1>1. a2g \in Seq(Frames) /\ grx \in Seq(Frames) /\ ResFeed \in Seq(Frames)
  BY ResTypes
<1>2. UNCHANGED <<hpc, ur, uSent, up>>
  BY GatewayWrites
<1>3. Orderly(grx, Res, uSent) /\ (Relaying => BeginsAt(grx, Res, Len(cGot), uSent))
  BY ResQueue
<1>4. CASE UNCHANGED <<grx, a2g, cGot>> /\ (gst' = "closed" <=> gst = "closed")
           /\ (Relaying' => Relaying)
  <2>1. ResFeed' = ResFeed
    BY <1>4 DEF ResFeed
  <2> QED
    BY <1>2, <1>4, <2>1 DEF ResLine
<1>5. CASE grx' = grx /\ cGot' = cGot /\ gst' = "closed" /\ (Relaying' => Relaying)
  <2>1. ResFeed' = grx
    BY <1>5 DEF ResFeed
  <2> QED
    BY <1>2, <1>3, <1>5, <2>1 DEF ResLine
<1>6. CASE /\ a2g # <<>> /\ a2g' = Tail(a2g) /\ cGot' = cGot /\ (Relaying' => Relaying)
           /\ gst # "closed" /\ gst' = gst /\ grx' = Append(grx, Head(a2g))
  <2>1. Append(grx, Head(a2g)) \o Tail(a2g) = grx \o a2g
    BY <1>1, <1>6, MoveHead
  <2>2. ResFeed' = ResFeed
    BY <1>6, <2>1 DEF ResFeed
  <2> QED
    BY <1>2, <1>6, <2>2 DEF ResLine
<1>7. CASE /\ grx # <<>> /\ grx' = Tail(grx) /\ a2g' = a2g
           /\ cGot' = cGot \/ Relaying'
           /\ Relaying' => \/ /\ Relaying /\ Head(grx).t = "A2C"
                              /\ cGot' = Append(cGot, Head(grx).n)
                           \/ /\ gpc = "open" /\ Head(grx).t = "OpenOK" /\ cGot' = cGot
  <2>1. Head(grx) = grx[1]
    BY <1>1, <1>7, TailFacts
  <2>2. Relaying' => /\ BeginsAt(Tail(grx), Res, Len(cGot'), uSent)
                     /\ cGot' = cGot \/ cGot' = Append(cGot, Len(cGot) + 1)
    BY <1>1, <1>3, <1>7, <2>1, ResTaken
  <2>3. CASE gst' = "closed"
    <3>1. ResFeed' = Tail(grx)
      BY <1>7, <2>3 DEF ResFeed
    <3>2. Orderly(Tail(grx), Res, uSent)
      BY <1>1, <1>3, <1>7, LineShorter
    <3> QED
      BY <1>2, <1>7, <2>2, <2>3, <3>1, <3>2 DEF ResLine
  <2>4. CASE gst' # "closed" /\ gst # "closed"
    <3>1. /\ ResFeed # <<>> /\ ResFeed[1] = grx[1] /\ ResFeed' = Tail(ResFeed)
      <4>1. Tail(grx) \o a2g = Tail(grx \o a2g) /\ grx \o a2g # <<>> /\ (grx \o a2g)[1] = grx[1]
        BY <1>1, <1>7, TailConcat
      <4>2. ResFeed' = Tail(grx) \o a2g /\ ResFeed = grx \o a2g
        BY <1>7, <2>4 DEF ResFeed
      <4> QED
        BY <4>1, <4>2, Zenon
    <3>2. /\ Orderly(Tail(ResFeed), Res, uSent)
          /\ \A w : EndsAt(ResFeed, Res, w) => EndsAt(Tail(ResFeed), Res, w)
          /\ Tail(ResFeed) # <<>> => Tail(ResFeed)[Len(Tail(ResFeed))] = ResFeed[Len(ResFeed)]
      BY <1>1, <3>1, LineShorter, OrderlyTail DEF ResLine
    <3>3. Relaying' => /\ BeginsAt(Tail(ResFeed), Res, Len(cGot'), uSent)
                       /\ \A w : EndsAt(ResFeed, Res, w) /\ Tail(ResFeed) = <<>> => Len(cGot') = w
      BY <1>1, <1>7, <2>1, <3>1, ResTaken DEF ResLine
    <3>4. up => /\ ur = "read" => EndsAt(Tail(ResFeed), Res, uSent)
                /\ hpc \in {"off", "dial"} /\ Tail(ResFeed) # <<>>
                     => MadeUp(Tail(ResFeed)[Len(Tail(ResFeed))])
      BY <2>4, <3>1, <3>2 DEF ResLine
    <3>5. Relaying' /\ up /\ ur = "read" /\ Tail(ResFeed) = <<>> => Len(cGot') = uSent
      BY <2>4, <3>3 DEF ResLine
    <3> QED
      BY <1>2, <1>7, <2>2, <3>1, <3>2, <3>3, <3>4, <3>5 DEF ResLine
  <2> QED
    BY <1>7, <2>3, <2>4, GatewayTakes
<1> QED
  BY <1>4, <1>5, <1>6, <1>7, GatewayTakes

\* The agent writes a frame: the line to the client, if it still is one, gets it.
LEMMA ResFed ==
  ASSUME TypeOK, NEW f \in Frames, a2g' = Append(a2g, f), UNCHANGED <<grx, gst>>
  PROVE  ResFeed' = IF gst # "closed" THEN Append(ResFeed, f) ELSE ResFeed
<1>1. grx \in Seq(Frames) /\ a2g \in Seq(Frames)
  BY ResTypes
<1>2. \A s, t \in Seq(Frames) : s \o Append(t, f) = Append(s \o t, f)
  BY AppendConcat
<1>3. grx \o Append(a2g, f) = Append(grx \o a2g, f)
  BY <1>1, <1>2, Zenon
<1> QED
  BY <1>3 DEF ResFeed

\* The agent writes in turn what its reader has, or a close: the line is kept.
LEMMA ResAppend ==
  ASSUME TypeOK, ResLine, NEW f \in Frames, a2g' = Append(a2g, f), up, up' = up,
         UNCHANGED <<grx, gst, gpc, cGone, cGot>>,
         Orderly(ResFeed, Res, uSent'),
         Relaying => BeginsAt(ResFeed, Res, Len(cGot), uSent'),
         \/ /\ MadeUp(f) /\ uSent' = uSent /\ (ur' = "read" => ur = "read")
            /\ hpc' \in {"off", "dial"} => hpc \in {"off", "dial"}
         \/ /\ ur = "read" /\ ur' = "read" /\ f.t = "A2C" /\ f.n = uSent + 1 /\ uSent' = f.n
            /\ hpc' \notin {"off", "dial"}
         \/ /\ ur = "read" /\ ur' = "done" /\ PassedOn(f) /\ uSent' = uSent
            /\ hpc' \notin {"off", "dial"}
  PROVE  ResLine'
<1>1. Relaying' = Relaying /\ ResFeed \in Seq(Frames)
  BY ResTypes DEF Relaying
<1>2. ResFeed' = IF gst # "closed" THEN Append(ResFeed, f) ELSE ResFeed
  BY ResFed
<1>3. CASE gst = "closed"
  BY <1>1, <1>2, <1>3 DEF ResLine
<1>4. CASE gst # "closed"
  <2>1. Res \in {Req, Res} /\ Res.msg = "A2C"
    BY DEF Res
  <2>2. ur = "read" => EndsAt(ResFeed, Res, uSent)
    BY <1>4 DEF ResLine
  <2>3. MadeUp(f) \/ (EndsAt(ResFeed, Res, uSent) /\
                        ((f.t = Res.msg /\ f.n = uSent + 1) \/ (PassedOn(f) /\ uSent = uSent')))
    BY <2>1, <2>2
  <2>4. /\ Orderly(Append(ResFeed, f), Res, uSent') /\ Append(ResFeed, f) # <<>>
        /\ \A v : MadeUp(f) \/ (f.t = Res.msg /\ f.n = v) => EndsAt(Append(ResFeed, f), Res, v)
        /\ \A k : BeginsAt(ResFeed, Res, k, uSent') /\ (ResFeed = <<>> => MadeUp(f) \/ k = uSent)
                  => BeginsAt(Append(ResFeed, f), Res, k, uSent')
    BY <1>1, <2>1, <2>3, LineAppend
  <2>5. ur' = "read" => EndsAt(Append(ResFeed, f), Res, uSent')
    BY <2>1, <2>4, PassedOnFacts
  <2>6. hpc' \in {"off", "dial"} => MadeUp(Append(ResFeed, f)[Len(Append(ResFeed, f))])
    <3>1. Append(ResFeed, f)[Len(Append(ResFeed, f))] = f
      BY <1>1, AppendFacts
    <3> QED
      BY <3>1
  <2>7. Relaying => BeginsAt(Append(ResFeed, f), Res, Len(cGot), uSent')
    <3>1. Relaying /\ ResFeed = <<>> => MadeUp(f) \/ Len(cGot) = uSent
      BY <1>4 DEF ResLine
    <3> QED
      BY <2>4, <3>1
  <2> QED
    BY <1>1, <1>2, <1>4, <2>4, <2>5, <2>6, <2>7 DEF ResLine
<1> QED
  BY <1>3, <1>4

\* The agent answers the opening: nothing but closes made up is before the answer.
LEMMA ResOpen ==
  ASSUME TypeOK, AgentControl, ResLine, NEW f \in Frames, a2g' = Append(a2g, f), up' = up,
         UNCHANGED <<grx, gst, gpc, cGone, cGot, uSent>>, up, hpc = "dial", f.n = 0,
         \/ f.t = "OpenErr" /\ ur' = "off" /\ hpc' = "done"
         \/ f.t = "OpenOK" /\ ur' = "read" /\ hpc' = "relay"
  PROVE  ResLine'
<1>1. Relaying' = Relaying /\ ResFeed \in Seq(Frames)
  BY ResTypes DEF Relaying
<1>2. ResFeed' = IF gst # "closed" THEN Append(ResFeed, f) ELSE ResFeed
  BY ResFed
<1>3. CASE gst = "closed"
  BY <1>1, <1>2, <1>3 DEF ResLine
<1>4. CASE gst # "closed"
  <2>1. ResFeed # <<>> => Follows(ResFeed[Len(ResFeed)], f, Res, uSent)
    BY <1>4 DEF ResLine, Follows
  <2>2. Orderly(ResFeed, Res, uSent)
    BY DEF ResLine
  <2>3. /\ Orderly(Append(ResFeed, f), Res, uSent) /\ Append(ResFeed, f) # <<>>
        /\ Append(ResFeed, f)[Len(Append(ResFeed, f))] = f
        /\ ResFeed # <<>> => Append(ResFeed, f)[1] = ResFeed[1]
        /\ ResFeed = <<>> => Append(ResFeed, f)[1] = f
    BY <1>1, <2>1, <2>2, OrderlyAppend
  <2> DEFINE a == Append(ResFeed, f)
  <2> HIDE DEF a
  <2>4. ur' = "read" => EndsAt(a, Res, uSent)
    BY <2>3 DEF EndsAt, Res, AgentControl, a
  <2>5. Relaying => BeginsAt(a, Res, Len(cGot), uSent)
    BY <2>3 DEF ResLine, BeginsAt, Res, PassedOn, a
  <2>6. a # <<>> /\ Orderly(a, Res, uSent) /\ ResFeed' = a
    BY <1>2, <1>4, <2>3 DEF a
  <2> QED
    BY <1>1, <1>4, <2>4, <2>5, <2>6 DEF ResLine
<1> QED
  BY <1>3, <1>4

\* A step of the agent keeps the line.
LEMMA ResAgent ==
  ASSUME TypeOK, ObjectsOK, OneStart, AgentControl, ClosesLast, ResLine, AgentStep,
         UNCHANGED <<grx, gst, gpc, cGone, cGot>>
  PROVE  ResLine'
<1>1. /\ a2g \in Seq(Frames) /\ grx \in Seq(Frames) /\ ResFeed \in Seq(Frames)
      /\ uSent \in 0..NUp /\ NUp \in Nat /\ uSent \in Nat
  BY ResTypes
<1>2. Relaying' = Relaying
  BY DEF Relaying
<1>3. up' = up \/ TunnelBreaks
  BY AgentWrites
<1>4. Orderly(ResFeed, Res, uSent) /\ (Relaying => BeginsAt(ResFeed, Res, Len(cGot), uSent))
  BY DEF ResLine
<1>5. ur = "read" => hpc \notin {"off", "dial"}
  BY DEF AgentControl
<1>6. CASE TunnelBreaks /\ UNCHANGED <<uSent, ur, hpc>>
  <2>1. up' = FALSE /\ \E k \in 0..Len(a2g) : a2g' = SubSeq(a2g, 1, k)
    BY <1>6 DEF TunnelBreaks
  <2>2. PICK k \in 0..Len(a2g) : a2g' = SubSeq(a2g, 1, k)
    BY <2>1
  <2>3. CASE gst = "closed"
    <3>1. ResFeed' = ResFeed
      BY <2>3 DEF ResFeed
    <3> QED
      BY <1>2, <1>4, <1>6, <2>1, <3>1 DEF ResLine
  <2>4. CASE gst # "closed"
    <3>1. ResFeed = grx \o a2g /\ ResFeed' = grx \o SubSeq(a2g, 1, k)
      BY <2>2, <2>4 DEF ResFeed
    <3>2. /\ Orderly(ResFeed', Res, uSent)
          /\ \A m : BeginsAt(ResFeed, Res, m, uSent) => BeginsAt(ResFeed', Res, m, uSent)
      BY <1>1, <1>4, <3>1, LineBroken
    <3> QED
      BY <1>2, <1>4, <1>6, <2>1, <3>2 DEF ResLine
  <2> QED
    BY <2>3, <2>4
<1>7. CASE ~TunnelBreaks
  <2>1. up' = up
    BY <1>3, <1>7
  <2>2. CASE /\ a2g' = a2g /\ uSent' = uSent /\ (ur' # "read" \/ ur = "read")
             /\ hpc' \in {"off", "dial"} => hpc \in {"off", "dial"}
    <3>1. ResFeed' = ResFeed
      BY <2>2 DEF ResFeed
    <3> QED
      BY <1>2, <2>1, <2>2, <3>1 DEF ResLine
  <2>3. CASE /\ up /\ AgentMadeUp /\ uSent' = uSent /\ (ur' # "read" \/ ur = "read")
             /\ hpc' \in {"off", "dial"} => hpc \in {"off", "dial"}
    BY <1>4, <2>1, <2>3, ResAppend DEF AgentMadeUp
  <2>4. CASE \/ /\ hpc = "dial" /\ hpc' = "done" /\ up /\ a2g' = Append(a2g, Frame("OpenErr", 0))
                /\ ur' = "off" /\ uSent' = uSent
             \/ /\ hpc = "dial" /\ hpc' = "relay" /\ up /\ a2g' = Append(a2g, Frame("OpenOK", 0))
                /\ ur' = "read" /\ uSent' = uSent
    <3>1. \A t \in {"OpenErr", "OpenOK"} :
            Frame(t, 0) \in Frames /\ Frame(t, 0).t = t /\ Frame(t, 0).n = 0
      BY FrameFacts DEF TypeOK
    <3> QED
      BY <2>1, <2>4, <3>1, ResOpen
  <2>5. CASE /\ ur = "read" /\ uSent' = uSent + 1 /\ uSent' <= NUp /\ hpc' = hpc
             /\ \/ up /\ ur' = "read" /\ a2g' = Append(a2g, Frame("A2C", uSent + 1))
                \/ ~up /\ ur' = "done" /\ a2g' = a2g
    <3>1. NonePassedOn(ResFeed)
      <4>1. NonePassedOn(a2g) /\ NonePassedOn(grx)
        BY <2>5 DEF ClosesLast
      <4>2. NonePassedOn(grx \o a2g)
        BY <1>1, <4>1, MarksConcat
      <4> QED
        BY <4>1, <4>2 DEF ResFeed
    <3>2. /\ Orderly(ResFeed, Res, uSent')
          /\ Relaying => BeginsAt(ResFeed, Res, Len(cGot), uSent')
      BY <1>1, <1>4, <3>1, OrderlyLonger
    <3>3. CASE up /\ ur' = "read" /\ a2g' = Append(a2g, Frame("A2C", uSent + 1))
      <4>1. /\ Frame("A2C", uSent + 1) \in Frames /\ Frame("A2C", uSent + 1).t = "A2C"
            /\ Frame("A2C", uSent + 1).n = uSent + 1
        <5>1. uSent + 1 \in 1..NUp
          BY <1>1, <2>5
        <5> QED
          BY <5>1, FrameFacts DEF TypeOK
      <4> QED
        BY <1>5, <2>1, <2>5, <3>2, <3>3, <4>1, ResAppend
    <3>4. CASE ~up /\ ur' = "done" /\ a2g' = a2g
      <4>1. ResFeed' = ResFeed
        BY <3>4 DEF ResFeed
      <4> QED
        BY <1>2, <2>1, <3>2, <3>4, <4>1 DEF ResLine
    <3> QED
      BY <2>5, <3>3, <3>4
  <2>6. CASE /\ ur = "read" /\ ur' = "done" /\ up /\ uSent' = uSent /\ hpc' = hpc
             /\ \E f \in Frames : PassedOn(f) /\ a2g' = Append(a2g, f)
    BY <1>4, <1>5, <2>1, <2>6, ResAppend
  <2> QED
    BY <1>7, <2>2, <2>3, <2>4, <2>5, <2>6, AgentWrites
<1> QED
  BY <1>6, <1>7, AgentWrites DEF TunnelBreaks, ups, ag

\* Every step keeps the line to the client, and gives the client at most the
\* message that is next, until a frame is dropped.
LEMMA ResLineStep ==
  ASSUME TypeOK, Untouched, ObjectsOK, OneStart, GatewayControl, AgentControl, ClosesLast,
         ResLines, [Next]_vars
  PROVE  ResLines' /\ (~gSkip' => cGot' = cGot \/ cGot' = Append(cGot, Len(cGot) + 1))
<1>1. CASE gSkip'
  BY <1>1 DEF ResLines
<1>2. CASE ~gSkip'
  <2>1. ResLine
    BY <1>2, PastStays DEF ResLines
  <2> QED
    BY <1>2, <2>1, TwoSides, ResGateway, ResAgent DEF ResLines
<1> QED
  BY <1>1, <1>2

-----------------------------------------------------------------------------
(* Messages ascend.                                                        *)

\* The elements of a queue are its head and those of its tail.
LEMMA ElemsTail ==
  ASSUME NEW S, NEW q \in Seq(S), q # <<>>
  PROVE  /\ Head(q) \in Elems(q) /\ Head(q) \in S
         /\ Elems(Tail(q)) \subseteq Elems(q)
<1>1. /\ Len(Tail(q)) = Len(q) - 1 /\ Len(q) \in Nat /\ Len(q) > 0
      /\ \A i \in 1..(Len(q) - 1) : Tail(q)[i] = q[i + 1]
      /\ Head(q) = q[1] /\ Head(q) \in S
  BY TailFacts
<1>2. Head(q) \in Elems(q)
  BY <1>1 DEF Elems
<1>3. ASSUME NEW i \in 1..Len(Tail(q)) PROVE Tail(q)[i] \in Elems(q)
  <2>1. i \in 1..(Len(q) - 1) /\ i + 1 \in 1..Len(q)
    BY <1>1
  <2> QED
    BY <1>1, <2>1 DEF Elems
<1> QED
  BY <1>1, <1>2, <1>3 DEF Elems

\* Appending adds one element.
LEMMA ElemsAppend ==
  ASSUME NEW S, NEW q \in Seq(S), NEW f \in S
  PROVE  Elems(Append(q, f)) = Elems(q) \cup {f}
<1>1. /\ Len(Append(q, f)) = Len(q) + 1 /\ Len(q) \in Nat
      /\ \A i \in 1..Len(q) : Append(q, f)[i] = q[i]
      /\ Append(q, f)[Len(q) + 1] = f
  BY AppendFacts
<1>2. 1..(Len(q) + 1) = 1..Len(q) \cup {Len(q) + 1}
  BY <1>1
<1> QED
  BY <1>1, <1>2 DEF Elems

\* The elements of a queue are of its type.
LEMMA ElemsTyped ==
  ASSUME NEW S, NEW q \in Seq(S)
  PROVE  Elems(q) \subseteq S /\ (q = <<>> => Elems(q) = {})
BY EmptyFacts DEF Elems

\* A queue without its head stays sorted.
LEMMA SortedTail ==
  ASSUME NEW S, NEW q \in Seq(S), q # <<>>, NEW m, Sorted(q, m)
  PROVE  Sorted(Tail(q), m) /\ \A h \in Elems(Tail(q)) : Before(Head(q), h, m)
<1>1. /\ Len(Tail(q)) = Len(q) - 1 /\ Len(q) \in Nat /\ Len(q) > 0
      /\ \A i \in 1..(Len(q) - 1) : Tail(q)[i] = q[i + 1]
      /\ Head(q) = q[1]
  BY TailFacts
<1>2. ASSUME NEW i \in 1..Len(Tail(q)), NEW j \in 1..Len(Tail(q)), i < j
      PROVE  Before(Tail(q)[i], Tail(q)[j], m)
  <2>1. i + 1 \in 1..Len(q) /\ j + 1 \in 1..Len(q) /\ i + 1 < j + 1
    BY <1>1, <1>2
  <2>2. Before(q[i + 1], q[j + 1], m)
    BY <2>1 DEF Sorted
  <2> QED
    BY <1>1, <2>2
<1>3. ASSUME NEW i \in 1..Len(Tail(q)) PROVE Before(Head(q), Tail(q)[i], m)
  <2>1. 1 \in 1..Len(q) /\ i + 1 \in 1..Len(q) /\ 1 < i + 1
    BY <1>1
  <2>2. Before(q[1], q[i + 1], m)
    BY <2>1 DEF Sorted
  <2> QED
    BY <1>1, <2>2
<1> QED
  BY <1>2, <1>3 DEF Sorted, Elems

\* A sorted queue grows by a later message.
LEMMA SortedAppend ==
  ASSUME NEW S, NEW q \in Seq(S), NEW f \in S, NEW m, Sorted(q, m),
         \A h \in Elems(q) : Before(h, f, m)
  PROVE  Sorted(Append(q, f), m)
<1>1. /\ Len(Append(q, f)) = Len(q) + 1 /\ Len(q) \in Nat
      /\ \A i \in 1..Len(q) : Append(q, f)[i] = q[i]
      /\ Append(q, f)[Len(q) + 1] = f
  BY AppendFacts
<1>2. ASSUME NEW i \in 1..(Len(q) + 1), NEW j \in 1..(Len(q) + 1), i < j
      PROVE  Before(Append(q, f)[i], Append(q, f)[j], m)
  <2>1. i \in 1..Len(q) /\ Append(q, f)[i] = q[i]
    BY <1>1, <1>2
  <2>2. CASE j = Len(q) + 1
    BY <1>1, <2>1, <2>2 DEF Elems
  <2>3. CASE j # Len(q) + 1
    <3>1. j \in 1..Len(q) /\ Append(q, f)[j] = q[j]
      BY <1>1, <2>3
    <3> QED
      BY <1>2, <2>1, <3>1 DEF Sorted
  <2> QED
    BY <2>2, <2>3
<1> QED
  BY <1>1, <1>2 DEF Sorted

\* A front of a sorted queue is sorted, and has no other elements.
LEMMA SortedFront ==
  ASSUME NEW S, NEW q \in Seq(S), NEW k \in 0..Len(q), NEW m, Sorted(q, m)
  PROVE  Sorted(SubSeq(q, 1, k), m) /\ Elems(SubSeq(q, 1, k)) \subseteq Elems(q)
<1>1. /\ Len(SubSeq(q, 1, k)) = k /\ k \in Nat /\ Len(q) \in Nat /\ k <= Len(q)
      /\ \A i \in 1..k : SubSeq(q, 1, k)[i] = q[i]
  BY SubSeqFacts, EmptyFacts
<1>2. ASSUME NEW i \in 1..k, NEW j \in 1..k, i < j
      PROVE  Before(SubSeq(q, 1, k)[i], SubSeq(q, 1, k)[j], m)
  <2>1. i \in 1..Len(q) /\ j \in 1..Len(q)
    BY <1>1
  <2> QED
    BY <1>1, <1>2, <2>1 DEF Sorted
<1> QED
  BY <1>1, <1>2 DEF Sorted, Elems

\* The sender writes a frame: no message, or the next one.
LEMMA AscendAppend ==
  ASSUME TypeOK, NEW q \in Seq(Frames), NEW r \in Seq(Frames), NEW f \in Frames, NEW m,
         NEW lo \in Nat, NEW hi \in Nat, NEW to \in Nat, lo <= hi, hi <= to,
         Ascend(q, r, m, lo, hi), f.t = m => f.n = hi + 1 /\ to = f.n
  PROVE  Ascend(q, Append(r, f), m, lo, to)
<1>1. \A h \in Frames : h.n \in Nat
  BY FrameFacts DEF TypeOK
<1>2. Elems(q) \subseteq Frames /\ Elems(r) \subseteq Frames
  BY ElemsTyped
<1>3. \A h \in Elems(q) \cup Elems(r) : Before(h, f, m) /\ Within(h, m, lo, to)
  BY <1>1, <1>2 DEF Ascend, Before, Within
<1>4. Within(f, m, lo, to)
  BY <1>1 DEF Within
<1>5. Elems(Append(r, f)) = Elems(r) \cup {f} /\ Sorted(Append(r, f), m)
  BY <1>3, ElemsAppend, SortedAppend DEF Ascend
<1> QED
  BY <1>3, <1>4, <1>5 DEF Ascend

\* The bound of what was written grows.
LEMMA AscendHigher ==
  ASSUME TypeOK, NEW q \in Seq(Frames), NEW r \in Seq(Frames), NEW m, NEW lo, NEW hi \in Nat,
         NEW to \in Nat, hi <= to, Ascend(q, r, m, lo, hi)
  PROVE  Ascend(q, r, m, lo, to)
<1>1. \A h \in Frames : h.n \in Nat
  BY FrameFacts DEF TypeOK
<1>2. Elems(q) \subseteq Frames /\ Elems(r) \subseteq Frames
  BY ElemsTyped
<1>3. \A h \in Elems(q) \cup Elems(r) : Within(h, m, lo, to)
  BY <1>1, <1>2 DEF Ascend, Within
<1> QED
  BY <1>3 DEF Ascend

\* A frame moves from the second queue to the first, or is dropped.
LEMMA AscendMove ==
  ASSUME NEW S, NEW q \in Seq(S), NEW r \in Seq(S), r # <<>>, NEW m, NEW lo, NEW hi,
         Ascend(q, r, m, lo, hi)
  PROVE  /\ Ascend(Append(q, Head(r)), Tail(r), m, lo, hi)
         /\ Ascend(q, Tail(r), m, lo, hi)
<1>1. /\ Head(r) \in Elems(r) /\ Head(r) \in S /\ Elems(Tail(r)) \subseteq Elems(r)
      /\ Sorted(Tail(r), m) /\ \A h \in Elems(Tail(r)) : Before(Head(r), h, m)
  BY ElemsTail, SortedTail DEF Ascend
<1>2. Elems(Append(q, Head(r))) = Elems(q) \cup {Head(r)}
  BY <1>1, ElemsAppend
<1>3. Sorted(Append(q, Head(r)), m)
  BY <1>1, SortedAppend DEF Ascend
<1> QED
  BY <1>1, <1>2, <1>3 DEF Ascend

\* The head of the first queue is taken, and is below everything that is left.
LEMMA AscendTake ==
  ASSUME NEW S, NEW q \in Seq(S), NEW r \in Seq(S), q # <<>>, NEW m, NEW lo, NEW hi,
         Ascend(q, r, m, lo, hi)
  PROVE  /\ Ascend(Tail(q), r, m, lo, hi)
         /\ Head(q).t = m => /\ Ascend(Tail(q), r, m, Head(q).n, hi)
                             /\ lo < Head(q).n /\ Head(q).n <= hi
<1>1. /\ Head(q) \in Elems(q) /\ Elems(Tail(q)) \subseteq Elems(q)
      /\ Sorted(Tail(q), m) /\ \A h \in Elems(Tail(q)) : Before(Head(q), h, m)
  BY ElemsTail, SortedTail DEF Ascend
<1>2. Ascend(Tail(q), r, m, lo, hi)
  BY <1>1 DEF Ascend
<1>3. ASSUME Head(q).t = m
      PROVE  Ascend(Tail(q), r, m, Head(q).n, hi) /\ lo < Head(q).n /\ Head(q).n <= hi
  <2>1. \A h \in Elems(Tail(q)) \cup Elems(r) : Within(h, m, Head(q).n, hi)
    BY <1>1, <1>3 DEF Ascend, Before, Within
  <2> QED
    BY <1>1, <1>2, <1>3, <2>1 DEF Ascend, Within
<1> QED
  BY <1>2, <1>3

\* A queue loses its end, or everything.
LEMMA AscendCut ==
  ASSUME NEW S, NEW q \in Seq(S), NEW r \in Seq(S), NEW k \in 0..Len(r), NEW m, NEW lo, NEW hi,
         Ascend(q, r, m, lo, hi)
  PROVE  /\ Ascend(q, SubSeq(r, 1, k), m, lo, hi)
         /\ Ascend(q, <<>>, m, lo, hi) /\ Ascend(<<>>, r, m, lo, hi)
<1>1. Sorted(SubSeq(r, 1, k), m) /\ Elems(SubSeq(r, 1, k)) \subseteq Elems(r)
  BY SortedFront DEF Ascend
<1>2. Sorted(<<>>, m) /\ Elems(<<>>) = {}
  BY DEF Sorted, Elems
<1> QED
  BY <1>1, <1>2 DEF Ascend

\* An end is given a later message.
LEMMA NewestAppend ==
  ASSUME NEW q \in Seq(Nat), InOrder(q), NEW n \in Nat, Newest(q) < n
  PROVE  InOrder(Append(q, n)) /\ Newest(Append(q, n)) = n
<1>1. /\ Len(Append(q, n)) = Len(q) + 1 /\ Len(q) \in Nat /\ Append(q, n) # <<>>
      /\ DOMAIN Append(q, n) = 1..(Len(q) + 1) /\ DOMAIN q = 1..Len(q)
      /\ \A i \in 1..Len(q) : Append(q, n)[i] = q[i]
      /\ Append(q, n)[Len(q) + 1] = n
  <2>1. \A s \in Seq(Nat) : DOMAIN s = 1..Len(s)
    OBVIOUS
  <2>2. Append(q, n) \in Seq(Nat)
    BY AppendFacts
  <2> QED
    BY <2>1, <2>2, AppendFacts
<1>2. q # <<>> => Len(q) \in 1..Len(q)
  BY EmptyFacts
<1>3. \A i \in 1..Len(q) : q[i] <= Newest(q) /\ q[i] \in Nat
  <2>1. \A i \in 1..Len(q) : q[i] \in Nat
    BY EmptyFacts
  <2>2. ASSUME NEW i \in 1..Len(q) PROVE q[i] <= Newest(q)
    <3>1. q # <<>> /\ Newest(q) = q[Len(q)] /\ (i = Len(q) \/ i < Len(q))
      BY EmptyFacts DEF Newest
    <3>2. i < Len(q) => q[i] < q[Len(q)]
      BY <1>1, <1>2, <3>1 DEF InOrder
    <3>3. q[i] \in Nat /\ q[Len(q)] \in Nat
      BY <1>2, <2>1, <3>1
    <3> QED
      BY <3>1, <3>2, <3>3
  <2> QED
    BY <2>1, <2>2
<1>4. Newest(q) \in Nat
  BY <1>2, <1>3 DEF Newest
<1>5. ASSUME NEW i \in 1..(Len(q) + 1), NEW j \in 1..(Len(q) + 1), i < j
      PROVE  Append(q, n)[i] < Append(q, n)[j]
  <2>1. i \in 1..Len(q) /\ (j \in 1..Len(q) \/ j = Len(q) + 1)
    BY <1>1, <1>5
  <2>2. CASE j \in 1..Len(q)
    BY <1>1, <1>5, <2>1, <2>2 DEF InOrder
  <2>3. CASE j = Len(q) + 1
    BY <1>1, <1>3, <1>4, <2>1, <2>3
  <2> QED
    BY <2>1, <2>2, <2>3
<1>6. InOrder(Append(q, n))
  BY <1>1, <1>5 DEF InOrder
<1> QED
  BY <1>1, <1>6 DEF Newest

\* Messages of the upstream ascend towards the client.
LEMMA ResAscendsStep ==
  ASSUME TypeOK, Untouched, ObjectsOK, OneStart, GatewayControl, AgentControl, ResAscends,
         [Next]_vars
  PROVE  ResAscends'
<1>1. /\ a2g \in Seq(Frames) /\ grx \in Seq(Frames) /\ uSent \in Nat /\ cGot \in Seq(1..NUp)
      /\ cGot \in Seq(Nat) /\ uSent \in 0..NUp /\ NUp \in Nat
  BY ResTypes
<1>2. Newest(cGot) \in Nat
  BY <1>1, EmptyFacts DEF Newest
<1>3. CASE GatewayStep
  <2>1. uSent' = uSent
    BY <1>3, GatewayWrites
  <2>2. CASE UNCHANGED <<grx, a2g, cGot>>
    BY <2>1, <2>2 DEF ResAscends
  <2>3. CASE /\ grx # <<>> /\ grx' = Tail(grx) /\ a2g' = a2g
             /\ \/ cGot' = cGot
                \/ Head(grx).t = "A2C" /\ cGot' = Append(cGot, Head(grx).n)
    <3>1. /\ Ascend(Tail(grx), a2g, "A2C", Newest(cGot), uSent)
          /\ Head(grx).t = "A2C" => /\ Ascend(Tail(grx), a2g, "A2C", Head(grx).n, uSent)
                                    /\ Newest(cGot) < Head(grx).n /\ Head(grx).n <= uSent
      BY <1>1, <2>3, AscendTake DEF ResAscends
    <3>2. CASE cGot' = cGot
      BY <2>1, <2>3, <3>1, <3>2 DEF ResAscends
    <3>3. CASE Head(grx).t = "A2C" /\ cGot' = Append(cGot, Head(grx).n)
      <4>1. Head(grx) \in Frames
        BY <1>1, <2>3, TailFacts
      <4>2. Head(grx).n \in Nat
        BY <4>1, FrameFacts DEF TypeOK
      <4>3. InOrder(cGot') /\ Newest(cGot') = Head(grx).n
        BY <1>1, <3>1, <3>3, <4>2, NewestAppend DEF ResAscends
      <4> QED
        BY <2>1, <2>3, <3>1, <3>3, <4>3 DEF ResAscends
    <3> QED
      BY <2>3, <3>2, <3>3
  <2>4. CASE /\ a2g # <<>> /\ a2g' = Tail(a2g) /\ cGot' = cGot
             /\ grx' \in {grx, Append(grx, Head(a2g))}
    <3>1. /\ Ascend(Append(grx, Head(a2g)), Tail(a2g), "A2C", Newest(cGot), uSent)
          /\ Ascend(grx, Tail(a2g), "A2C", Newest(cGot), uSent)
      BY <1>1, <2>4, AscendMove DEF ResAscends
    <3> QED
      BY <2>1, <2>4, <3>1 DEF ResAscends
  <2> QED
    BY <1>3, <2>2, <2>3, <2>4, GatewayTakes
<1>4. CASE AgentStep /\ UNCHANGED <<grx, cGot>>
  <2>1. CASE a2g' = a2g /\ uSent' \in {uSent, uSent + 1}
    BY <1>1, <1>2, <1>4, <2>1, AscendHigher DEF ResAscends
  <2>2. ASSUME NEW f \in Frames, a2g' = Append(a2g, f), uSent' \in {uSent, uSent + 1},
               f.t = "A2C" => f.n = uSent + 1 /\ uSent' = f.n
        PROVE  ResAscends'
    <3>1. Ascend(grx, Append(a2g, f), "A2C", Newest(cGot), uSent')
      BY <1>1, <1>2, <2>2, AscendAppend DEF ResAscends
    <3> QED
      BY <1>1, <1>2, <1>4, <2>2, <3>1 DEF ResAscends
  <2>3. CASE uSent' = uSent /\ \E k \in 0..Len(a2g) : a2g' = SubSeq(a2g, 1, k)
    BY <1>1, <1>4, <2>3, AscendCut DEF ResAscends
  <2>4. /\ \A f \in Frames : MadeUp(f) \/ PassedOn(f) => f.t # "A2C"
        /\ \A t \in {"OpenErr", "OpenOK"} : Frame(t, 0) \in Frames /\ Frame(t, 0).t = t
        /\ uSent + 1 <= NUp => /\ Frame("A2C", uSent + 1) \in Frames
                               /\ Frame("A2C", uSent + 1).n = uSent + 1
    <3>1. uSent + 1 <= NUp => uSent + 1 \in 1..NUp
      BY <1>1
    <3> QED
      BY <3>1, FrameFacts DEF TypeOK, MadeUp, PassedOn
  <2>5. TunnelBreaks => \E k \in 0..Len(a2g) : a2g' = SubSeq(a2g, 1, k)
    BY DEF TunnelBreaks
  <2>6. \/ a2g' = a2g /\ uSent' \in {uSent, uSent + 1}
        \/ \E f \in Frames : /\ a2g' = Append(a2g, f) /\ uSent' \in {uSent, uSent + 1}
                             /\ f.t = "A2C" => f.n = uSent + 1 /\ uSent' = f.n
        \/ uSent' = uSent /\ TunnelBreaks
    BY <1>4, <2>4, AgentWrites DEF AgentMadeUp
  <2> QED
    BY <2>1, <2>2, <2>3, <2>5, <2>6
<1> QED
  BY <1>3, <1>4, TwoSides

\* What was written only grows.
LEMMA WrittenGrows ==
  ASSUME TypeOK, Untouched, GatewayControl, GatewayStep
  PROVE  /\ Written \in Nat /\ Written' \in Nat /\ Written <= Written'
         /\ \/ g2a' = g2a
            \/ \E f \in Frames : /\ g2a' = Append(g2a, f)
                                 /\ f.t = "C2A" => f.n = Written + 1 /\ Written' = f.n
<1>1. cSent \in Nat /\ (rdr = "write" => cSent > 0)
  BY FeedTypes DEF GatewayControl
<1>2. Written \in Nat /\ Written <= cSent
  BY <1>1 DEF Written
<1>3. cSent' \in {cSent, cSent + 1} /\ (MayRead' => Written' = Written \/ rdr' # "write")
  BY GatewayWrites DEF Written
<1>4. rdr' # "write" => Written' = cSent'
  BY DEF Written
<1>5. rdr' = "write" => MayRead'
  BY DEF MayRead
<1>6. Written' \in Nat /\ Written <= Written'
  BY <1>1, <1>2, <1>3, <1>4, <1>5
<1>7. /\ \A f \in Frames : MadeUp(f) \/ PassedOn(f) => f.t # "C2A"
      /\ Frame("ReqStart", 0) \in Frames /\ Frame("ReqStart", 0).t # "C2A"
      /\ rdr = "write" => Frame("C2A", cSent) \in Frames /\ Frame("C2A", cSent).n = cSent
  <2>1. rdr = "write" => cSent \in 1..NClient
    BY <1>1 DEF TypeOK
  <2> QED
    BY <2>1, FrameFacts DEF TypeOK, MadeUp, PassedOn
<1>8. rdr = "write" => cSent = Written + 1
  BY <1>1 DEF Written
<1>9. rdr' = "read" /\ cSent' = cSent => Written' = cSent
  BY DEF Written
<1>10. \/ g2a' = g2a
       \/ \E f \in Frames : /\ g2a' = Append(g2a, f)
                            /\ f.t = "C2A" => f.n = Written + 1 /\ Written' = f.n
  BY <1>7, <1>8, <1>9, GatewayWrites DEF WritesMadeUp
<1> QED
  BY <1>2, <1>6, <1>10

\* Messages of the client ascend towards the upstream.
LEMMA ReqAscendsStep ==
  ASSUME TypeOK, Untouched, ObjectsOK, OneStart, GatewayControl, AgentControl, ReqAscends,
         [Next]_vars
  PROVE  ReqAscends'
<1>1. /\ g2a \in Seq(Frames) /\ arx \in [Objs -> Seq(Frames)]
      /\ \A o \in Objs : arx[o] \in Seq(Frames)
      /\ main \in Objs \cup {None} /\ None \notin Objs
      /\ uGot \in Seq(1..NClient) /\ uGot \in Seq(Nat) /\ NClient \in Nat
  BY FeedTypes DEF TypeOK
<1>2. Newest(uGot) \in Nat /\ \A o \in Objs : Passed(o) \in Nat
  BY <1>1, EmptyFacts DEF Newest, Passed
<1>3. CASE GatewayStep
  <2>1. UNCHANGED <<arx, main, uGot>>
    BY <1>3, GatewayWrites
  <2>2. /\ Written \in Nat /\ Written' \in Nat /\ Written <= Written'
        /\ \/ g2a' = g2a
           \/ \E f \in Frames : /\ g2a' = Append(g2a, f)
                                /\ f.t = "C2A" => f.n = Written + 1 /\ Written' = f.n
    BY <1>3, WrittenGrows
  <2>3. ASSUME NEW o \in Objs PROVE Ascend(arx[o], g2a', "C2A", Passed(o), Written')
    <3>1. Ascend(arx[o], g2a, "C2A", Passed(o), Written) /\ arx[o] \in Seq(Frames)
      BY <1>1 DEF ReqAscends
    <3>2. Passed(o) <= Written
      BY <2>2 DEF Passed, ReqAscends
    <3>3. CASE g2a' = g2a
      BY <1>1, <1>2, <2>2, <3>1, <3>3, AscendHigher
    <3>4. CASE \E f \in Frames : /\ g2a' = Append(g2a, f)
                                 /\ f.t = "C2A" => f.n = Written + 1 /\ Written' = f.n
      BY <1>1, <1>2, <2>2, <3>1, <3>2, <3>4, AscendAppend
    <3> QED
      BY <2>2, <3>3, <3>4
  <2>4. \A o \in Objs : Passed(o)' = Passed(o)
    BY <2>1 DEF Passed
  <2> QED
    BY <1>2, <2>1, <2>2, <2>3, <2>4 DEF ReqAscends
<1>4. CASE AgentStep /\ UNCHANGED <<rdr, cSent>>
  <2>1. Written' = Written
    BY <1>4 DEF Written
  <2>2. CASE UNCHANGED <<g2a, arx, main, uGot>>
    BY <2>1, <2>2 DEF ReqAscends, Passed
  <2>3. CASE TunnelBreaks /\ UNCHANGED <<arx, main, uGot>>
    <3>1. g2a' = <<>>
      BY <2>3 DEF TunnelBreaks
    <3>2. ASSUME NEW o \in Objs PROVE Ascend(arx[o], <<>>, "C2A", Passed(o), Written)
      <4>1. Ascend(arx[o], g2a, "C2A", Passed(o), Written) /\ arx[o] \in Seq(Frames)
            /\ 0 \in 0..Len(g2a)
        BY <1>1, EmptyFacts DEF ReqAscends
      <4> QED
        BY <1>1, <4>1, AscendCut
    <3> QED
      BY <2>1, <2>3, <3>1, <3>2 DEF ReqAscends, Passed
  <2>4. ASSUME NEW o \in Objs, Reads(o) PROVE ReqAscends'
    <3>1. /\ g2a # <<>> /\ g2a' = Tail(g2a) /\ UNCHANGED <<main, uGot>>
          /\ arx' = arx \/ arx' = [arx EXCEPT ![o] = Append(@, Head(g2a))]
      BY <2>4 DEF Reads
    <3>2. ASSUME NEW p \in Objs PROVE Ascend(arx'[p], Tail(g2a), "C2A", Passed(p), Written)
      <4>1. Ascend(arx[p], g2a, "C2A", Passed(p), Written) /\ arx[p] \in Seq(Frames)
        BY <1>1 DEF ReqAscends
      <4>2. /\ Ascend(Append(arx[p], Head(g2a)), Tail(g2a), "C2A", Passed(p), Written)
            /\ Ascend(arx[p], Tail(g2a), "C2A", Passed(p), Written)
        BY <1>1, <3>1, <4>1, AscendMove
      <4>3. arx'[p] = arx[p] \/ arx'[p] = Append(arx[p], Head(g2a))
        BY <1>1, <3>1
      <4> QED
        BY <4>2, <4>3
    <3> QED
      BY <2>1, <3>1, <3>2 DEF ReqAscends, Passed
  <2>5. ASSUME NEW o \in Objs, Returns(o) PROVE ReqAscends'
    <3>1. UNCHANGED <<g2a, main, uGot>> /\ arx' = [arx EXCEPT ![o] = <<>>]
      BY <2>5 DEF Returns
    <3>2. ASSUME NEW p \in Objs PROVE Ascend(arx'[p], g2a, "C2A", Passed(p), Written)
      <4>1. Ascend(arx[p], g2a, "C2A", Passed(p), Written) /\ arx[p] \in Seq(Frames)
            /\ 0 \in 0..Len(g2a)
        BY <1>1, EmptyFacts DEF ReqAscends
      <4>2. Ascend(<<>>, g2a, "C2A", Passed(p), Written)
        BY <1>1, <4>1, AscendCut
      <4>3. arx'[p] = arx[p] \/ arx'[p] = <<>>
        BY <1>1, <3>1
      <4> QED
        BY <4>1, <4>2, <4>3
    <3> QED
      BY <2>1, <3>1, <3>2 DEF ReqAscends, Passed
  <2>6. ASSUME NEW o \in Objs, Starts(o) PROVE ReqAscends'
    <3>1. /\ arx[o] # <<>> /\ Head(arx[o]).t = "ReqStart" /\ main' = o /\ UNCHANGED <<g2a, uGot>>
          /\ arx' = [arx EXCEPT ![o] = Tail(@)]
      BY <2>6 DEF Starts
    <3>2. Head(arx[o]) = arx[o][1] /\ arx[o] \in Seq(Frames)
      BY <1>1, <3>1, TailFacts
    <3>3. main = None /\ uGot = <<>>
      BY <3>1, <3>2 DEF OneStart, HasStart, ObjectsOK, AgentControl
    <3>4. \A p \in Objs : Passed(p)' = 0 /\ Passed(p) = 0
      BY <3>1, <3>3 DEF Passed, Newest
    <3>5. ASSUME NEW p \in Objs PROVE Ascend(arx'[p], g2a, "C2A", 0, Written)
      <4>1. Ascend(arx[p], g2a, "C2A", 0, Written) /\ arx[p] \in Seq(Frames)
        BY <1>1, <3>4 DEF ReqAscends
      <4>2. CASE p = o
        <5>1. arx'[p] = Tail(arx[p]) /\ arx[p] # <<>>
          BY <1>1, <3>1, <4>2
        <5> QED
          BY <1>1, <4>1, <5>1, AscendTake
      <4>3. CASE p # o
        <5>1. arx'[p] = arx[p]
          BY <1>1, <3>1, <4>3
        <5> QED
          BY <4>1, <5>1
      <4> QED
        BY <4>2, <4>3
    <3> QED
      BY <2>1, <3>1, <3>4, <3>5 DEF ReqAscends
  <2>7. CASE Takes
    <3>1. PICK o \in Objs : o = main
      BY <2>7, MainServes DEF Takes
    <3>2. /\ arx[o] # <<>> /\ arx' = [arx EXCEPT ![o] = Tail(@)] /\ UNCHANGED <<main, g2a>>
          /\ \/ uGot' = uGot
             \/ Head(arx[o]).t = "C2A" /\ uGot' = Append(uGot, Head(arx[o]).n)
      BY <2>7, <3>1 DEF Takes
    <3>3. arx[o] \in Seq(Frames) /\ Passed(o) = Newest(uGot) /\ \A p \in Objs \ {o} : Passed(p) = 0
      BY <1>1, <3>1 DEF Passed
    <3>4. arx'[o] = Tail(arx[o]) /\ \A p \in Objs \ {o} : arx'[p] = arx[p]
      BY <1>1, <3>2
    <3>5. Ascend(arx[o], g2a, "C2A", Newest(uGot), Written)
      BY <3>3 DEF ReqAscends
    <3>6. /\ Ascend(Tail(arx[o]), g2a, "C2A", Newest(uGot), Written)
          /\ Head(arx[o]).t = "C2A" =>
               /\ Ascend(Tail(arx[o]), g2a, "C2A", Head(arx[o]).n, Written)
               /\ Newest(uGot) < Head(arx[o]).n /\ Head(arx[o]).n <= Written
      BY <1>1, <3>2, <3>3, <3>5, AscendTake
    <3>7. /\ Passed(o)' = Newest(uGot') /\ \A p \in Objs \ {o} : Passed(p)' = 0
      BY <3>1, <3>2 DEF Passed
    <3>8. \A p \in Objs \ {o} : Ascend(arx'[p], g2a, "C2A", Passed(p)', Written)
      BY <3>3, <3>4, <3>7 DEF ReqAscends
    <3>9. /\ InOrder(uGot') /\ Newest(uGot') <= Written
          /\ Ascend(arx'[o], g2a, "C2A", Newest(uGot'), Written)
      <4>1. CASE uGot' = uGot
        BY <3>4, <3>6, <4>1 DEF ReqAscends
      <4>2. CASE Head(arx[o]).t = "C2A" /\ uGot' = Append(uGot, Head(arx[o]).n)
        <5>1. Head(arx[o]) \in Frames
          BY <3>2, <3>3, TailFacts
        <5>2. Head(arx[o]).n \in Nat
          BY <5>1, FrameFacts DEF TypeOK
        <5>3. InOrder(uGot') /\ Newest(uGot') = Head(arx[o]).n
          BY <1>1, <3>6, <4>2, <5>2, NewestAppend DEF ReqAscends
        <5> QED
          BY <3>4, <3>6, <4>2, <5>3
      <4> QED
        BY <3>2, <4>1, <4>2
    <3> QED
      BY <2>1, <3>2, <3>7, <3>8, <3>9 DEF ReqAscends
  <2> QED
    BY <1>4, <2>2, <2>3, <2>4, <2>5, <2>6, <2>7, ObjectMoves DEF Keeps
<1> QED
  BY <1>3, <1>4, TwoSides

-----------------------------------------------------------------------------
(* The promises.                                                           *)

\* A list of messages without gaps stays one when the next is appended.
LEMMA InTurn ==
  ASSUME NEW S, NEW q \in Seq(S), NEW r \in Seq(S), \A i \in DOMAIN q : q[i] = i,
         r = q \/ r = Append(q, Len(q) + 1)
  PROVE  \A i \in DOMAIN r : r[i] = i
OBVIOUS

\* What the ends get stays in order, and without gaps while nothing is dropped.
LEMMA OrderedStep ==
  ASSUME TypeOK, Untouched, ObjectsOK, OneStart, GatewayControl, AgentControl, ClosesLast,
         ReqLines, ResLines, Ordered, TypeOK', GivenUp', ResAscends', ReqAscends', [Next]_vars
  PROVE  Ordered'
<1>1. /\ uGot \in Seq(1..NClient) /\ uGot' \in Seq(1..NClient)
      /\ cGot \in Seq(1..NUp) /\ cGot' \in Seq(1..NUp)
  BY ScenarioStays DEF TypeOK
<1>2. ~aSkip' => NoGap(uGot')
  <2> SUFFICES ASSUME ~aSkip' PROVE NoGap(uGot')
    OBVIOUS
  <2>1. uGot' = uGot \/ uGot' = Append(uGot, Len(uGot) + 1)
    BY ReqLinesStep
  <2>2. NoGap(uGot)
    BY PastStays DEF Ordered
  <2> QED
    BY <1>1, <2>1, <2>2, InTurn DEF NoGap
<1>3. ~gSkip' => NoGap(cGot')
  <2> SUFFICES ASSUME ~gSkip' PROVE NoGap(cGot')
    OBVIOUS
  <2>1. cGot' = cGot \/ cGot' = Append(cGot, Len(cGot) + 1)
    BY ResLineStep
  <2>2. NoGap(cGot)
    BY PastStays DEF Ordered
  <2> QED
    BY <1>1, <2>1, <2>2, InTurn DEF NoGap
<1>4. InOrder(cGot') /\ InOrder(uGot')
  BY DEF ResAscends, ReqAscends
<1>5. (gSkip' => ctx') /\ (aSkip' => uGone' # "no")
  BY DEF GivenUp
<1> QED
  BY <1>2, <1>3, <1>4, <1>5 DEF Ordered

\* A close that an end is told of comes behind everything its peer sent, but for
\* what was dropped, and nothing comes after it.
LEMMA CloseStep ==
  ASSUME TypeOK, Untouched, ObjectsOK, OneStart, GatewayControl, AgentControl, ClosesLast,
         ReqLines, ResLines, CloseCarriesAll, [Next]_vars
  PROVE  CloseCarriesAll'
<1>0. (gSkip => gSkip') /\ (aSkip => aSkip')
  <2>1. ASSUME ~gSkip' PROVE ~gSkip
    BY <2>1, PastStays
  <2>2. ASSUME ~aSkip' PROVE ~aSkip
    BY <2>2, PastStays
  <2> QED
    BY <2>1, <2>2
<1>1. cEnd' = "peer" => gSkip' \/ Len(cGot') = uSent'
  <2>1. CASE UpstreamClosed
    <3>1. /\ gpc = "recv" /\ grx # <<>> /\ cEnd' = EndKind(Head(grx), cGone)
          /\ Head(grx).t \in {"WsClose", "Rst"} /\ UNCHANGED <<cGot, uSent>>
      BY <2>1 DEF UpstreamClosed, ups
    <3>2. grx \in Seq(Frames)
      BY ResTypes
    <3>3. Head(grx) = grx[1]
      BY <3>1, <3>2, TailFacts
    <3>4. cEnd' = "peer" => PassedOn(grx[1]) /\ cGone \notin {"drop", "ping"}
      BY <3>1, <3>3 DEF EndKind, PassedOn
    <3>5. ~gSkip' /\ Relaying => BeginsAt(grx, Res, Len(cGot), uSent)
      BY <1>0, ResQueue DEF ResLines
    <3> QED
      BY <3>1, <3>4, <3>5 DEF Relaying, BeginsAt
  <2>2. CASE GatewayStep /\ ~UpstreamClosed
    <3>1. cEnd' \in {cEnd, "cut"} /\ (cGot' = cGot \/ gpc = "recv")
      BY <2>2
         DEF GatewayStep, SendReqStart, OpenRefused, OpenFails, Opened, Top, RecvFails,
             RelayToClient, ClientWriteFails, Return, CloseStream, ReaderCancels,
             ContextDone, ContextResets, ContextCloses, PingFails, ClientCloses,
             GatewayReads, ForgetStream, SendReset, GatewayDisconnects, ReadClient, WriteToAgent,
             ReaderEnds, gw, gs, cl, net, ags, ag, ups
    <3>2. uSent' = uSent
      BY <2>2, GatewayWrites
    <3> QED
      BY <1>0, <3>1, <3>2 DEF GatewayControl, CloseCarriesAll
  <2>3. CASE AgentStep /\ UNCHANGED <<cEnd, cGot>>
    <3>1. ur = "done" => uSent' = uSent
      BY <2>3, AgentWrites DEF TunnelBreaks, ups
    <3> QED
      BY <1>0, <2>3, <3>1 DEF GatewayControl, CloseCarriesAll
  <2> QED
    BY <2>1, <2>2, <2>3, TwoSides
<1>2. uEnd' = "peer" => aSkip' \/ Len(uGot') = cSent'
  <2>1. CASE GatewayClosed
    <3>1. PICK o \in Objs : o = main
      BY <2>1, MainServes DEF GatewayClosed, NextFrame
    <3>2. /\ hpc = "relay" /\ arx[o] # <<>> /\ Head(arx[o]).t \in {"WsClose", "Rst"}
          /\ uEnd' = IF uEnd = "no" THEN EndKind(Head(arx[o]), uGone) ELSE uEnd
          /\ UNCHANGED <<uGot, cSent>>
      BY <2>1, <3>1 DEF GatewayClosed, NextFrame, HandlerReturns, cl
    <3>3. uEnd # "peer"
      BY <3>2 DEF AgentControl
    <3>4. arx[o] \in Seq(Frames) /\ g2a \in Seq(Frames)
      BY FeedTypes
    <3>5. Head(arx[o]) = arx[o][1]
      BY <3>2, <3>4, TailFacts
    <3>6. uEnd' = "peer" => PassedOn(arx[o][1]) /\ uGone # "drop"
      BY <3>2, <3>3, <3>5 DEF EndKind, PassedOn
    <3>7. Feed(o) # <<>> /\ Feed(o)[1] = arx[o][1]
      <4>1. arx[o] \o g2a # <<>> /\ (arx[o] \o g2a)[1] = arx[o][1]
        BY <3>2, <3>4, TailConcat
      <4> QED
        BY <3>2, <4>1 DEF Feed
    <3>8. ~aSkip' /\ uGone # "drop" => BeginsAt(Feed(o), Req, Len(uGot), cSent)
      BY <1>0, <3>1, <3>2 DEF ReqLines, ReqLine, Serves
    <3> QED
      BY <3>2, <3>6, <3>7, <3>8 DEF BeginsAt
  <2>2. CASE AgentStep /\ ~GatewayClosed /\ cSent' = cSent
    <3>1. uEnd' \in {uEnd, "cut"} /\ (uGot' = uGot \/ hpc = "relay")
      <4>1. ASSUME NEW o \in Objs, FirstFrame(o) PROVE UNCHANGED <<uEnd, uGot>>
        BY <4>1 DEF FirstFrame, ups
      <4>2. CASE TunnelBreaks \/ AgentReads \/ AgentDisconnects \/ DialFails \/ Dialed \/
                StreamClosed \/ RelayToUpstream \/ UpstreamWriteFails \/ ReadUpstream \/
                UpstreamEnds \/ UpstreamCloses \/ UNCHANGED vars
        BY <4>2
           DEF TunnelBreaks, AgentReads, AgentDisconnects, DialFails, Dialed, StreamClosed,
               RelayToUpstream, NextFrame, UpstreamWriteFails, HandlerReturns, ReadUpstream,
               UpstreamEnds, UpstreamCloses, vars, ups
      <4> QED
        BY <2>2, <4>1, <4>2 DEF AgentStep
    <3> QED
      BY <1>0, <2>2, <3>1 DEF AgentControl, CloseCarriesAll
  <2>3. CASE GatewayStep
    <3>1. UNCHANGED <<uEnd, uGot>>
      BY <2>3, GatewayWrites
    <3>2. rdr \in {"close", "done"} => cSent' = cSent
      BY <2>3, GatewayWrites
    <3> QED
      BY <1>0, <3>1, <3>2 DEF AgentControl, CloseCarriesAll
  <2> QED
    BY <2>1, <2>2, <2>3, TwoSides DEF GatewayClosed, cl
<1> QED
  BY <1>1, <1>2 DEF CloseCarriesAll

\* The invariant holds at the start.
LEMMA InitHolds == Init => IndInv
<1> SUFFICES ASSUME Init PROVE IndInv
  OBVIOUS
<1>1. TypeOK
  <2>1. NClient \in Nat /\ NUp \in Nat /\ sc \in Scenarios
    BY FrameFacts DEF Init
  <2>2. /\ gpc = "start" /\ rdr = "off" /\ cw = "off" /\ gst = "open" /\ grx = <<>>
        /\ cSent = 0 /\ cGone = "no" /\ cGot = <<>> /\ cEnd = "no" /\ g2a = <<>> /\ a2g = <<>>
        /\ amap = None /\ ast = [o \in Objs |-> "free"] /\ arx = [o \in Objs |-> <<>>]
        /\ aclosed = {} /\ main = None /\ hpc = "off" /\ ur = "off"
        /\ uSent = 0 /\ uGone = "no" /\ uGot = <<>> /\ uEnd = "no"
    BY DEF Init
  <2>3. once \in BOOLEAN /\ closeDone \in BOOLEAN /\ ctx \in BOOLEAN /\ grst \in BOOLEAN
        /\ up \in BOOLEAN /\ adown \in BOOLEAN /\ aonce \in BOOLEAN
        /\ gSkip \in BOOLEAN /\ aSkip \in BOOLEAN
    BY Zenon DEF Init
  <2> QED
    BY <2>1, <2>2, <2>3, WsAssumption DEF TypeOK, Ends
<1>2. Untouched /\ GatewayControl /\ AgentControl /\ GivenUp /\ ObjectsOK /\ CloseCarriesAll
  BY WsAssumption DEF Init, Untouched, GatewayControl, AgentControl, GivenUp, ObjectsOK,
     CloseCarriesAll
<1>3. OneStart /\ ClosesLast
  BY MarksEmpty DEF Init, OneStart, ClosesLast
<1>4. g2a = <<>> /\ ResFeed = <<>> /\ ~Serves /\ ~Sending /\ ~Relaying /\ ur # "read"
      /\ \A o \in Objs : Feed(o) = <<>>
  <2>1. <<>> \o <<>> = <<>>
    OBVIOUS
  <2>2. None \notin Objs
    BY WsAssumption
  <2> QED
    BY <2>1, <2>2 DEF Init, ResFeed, Serves, Sending, Relaying, Feed
<1>5. ReqLines /\ ResLines
  BY <1>4, LineEmpty DEF ReqLines, ReqLine, ResLines, ResLine
<1>6. /\ cGot = <<>> /\ uGot = <<>> /\ grx = <<>> /\ a2g = <<>> /\ g2a = <<>>
      /\ \A o \in Objs : arx[o] = <<>>
      /\ uSent = 0 /\ cSent = 0 /\ rdr = "off" /\ main = None
  BY DEF Init
<1>7. InOrder(<<>>) /\ NoGap(<<>>) /\ Newest(<<>>) = 0 /\ Elems(<<>>) = {}
      /\ \A m : Sorted(<<>>, m)
  BY DEF InOrder, NoGap, Newest, Elems, Sorted
<1>8. \A m, lo, hi : Ascend(<<>>, <<>>, m, lo, hi)
  BY <1>7 DEF Ascend
<1>9. ResAscends /\ ReqAscends
  BY <1>6, <1>7, <1>8 DEF ResAscends, ReqAscends, Written
<1>10. Ordered
  BY <1>6, <1>7, <1>2 DEF Ordered, GivenUp
<1> QED
  BY <1>1, <1>2, <1>3, <1>5, <1>9, <1>10 DEF IndInv

\* Every step keeps the invariant.
LEMMA IndStep == IndInv /\ [Next]_vars => IndInv'
<1> SUFFICES ASSUME IndInv, [Next]_vars PROVE IndInv'
  OBVIOUS
<1>1. /\ TypeOK /\ Untouched /\ OneStart /\ ObjectsOK /\ GatewayControl /\ AgentControl
      /\ GivenUp /\ ClosesLast /\ ReqLines /\ ResLines /\ ResAscends /\ ReqAscends
      /\ Ordered /\ CloseCarriesAll
  BY DEF IndInv
<1>2. TypeOK'
  BY <1>1, TypeStep
<1>3. Untouched' /\ OneStart'
  BY <1>1, UntouchedStep, OneStartStep
<1>4. ObjectsOK'
  BY <1>1, <1>2, ObjectsStep
<1>5. GatewayControl' /\ AgentControl' /\ GivenUp'
  BY <1>1, ControlStep, GivenUpStep
<1>6. ClosesLast'
  BY <1>1, ClosesLastStep
<1>7. ReqLines' /\ ResLines'
  BY <1>1, ReqLinesStep, ResLineStep
<1>8. ResAscends' /\ ReqAscends'
  BY <1>1, ResAscendsStep, ReqAscendsStep
<1>9. Ordered'
  BY <1>1, <1>2, <1>5, <1>8, OrderedStep
<1>10. CloseCarriesAll'
  BY <1>1, CloseStep
<1> QED
  BY <1>2, <1>3, <1>4, <1>5, <1>6, <1>7, <1>8, <1>9, <1>10 DEF IndInv

\* The invariant holds in every reachable state.
THEOREM Inductive == Spec => []IndInv
BY InitHolds, IndStep, PTL DEF Spec

\* Every variable keeps its type, the queues their bounds included.
THEOREM TypeCorrect == Spec => []TypeOK
<1>1. IndInv => TypeOK
  BY DEF IndInv
<1> QED
  BY <1>1, Inductive, PTL

\* Both ends get the messages of the other in order, whatever overflows, breaks or
\* is closed, and without gaps but for what deliver dropped once closedCh was
\* closed; that takes a cancelled context or an upstream that closed
\* (stream.go:39-58, server.go:790-811, agent.go:518-530, 780-815).
THEOREM OrderedTheorem == Spec => []Ordered
<1>1. IndInv => Ordered
  BY DEF IndInv
<1> QED
  BY <1>1, Inductive, PTL

\* An end that is told its peer closed has got everything the peer sent, but for
\* what deliver dropped on a stream that was being closed, and never takes a close
\* that the relay made up for the peer's (server.go:794-801, 842-852,
\* agent.go:783-790, 825-832).
THEOREM CloseCarriesAllTheorem == Spec => []CloseCarriesAll
<1>1. IndInv => CloseCarriesAll
  BY DEF IndInv
<1> QED
  BY <1>1, Inductive, PTL

=============================================================================
