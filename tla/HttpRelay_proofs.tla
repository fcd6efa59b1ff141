--------------------------- MODULE HttpRelay_proofs ---------------------------
(***************************************************************************)
(* What HttpRelay promises, for every scenario, queue length and number of *)
(* stream objects.  The argument follows each body along its way: what is  *)
(* queued at the receiver, followed by what is on the tunnel, is one line  *)
(* of frames in which every frame is the one the sender writes after the   *)
(* frame before it.  An overflow or a disconnect cuts a line off at its    *)
(* end and lets nothing in behind the cut; a reset may come anywhere.  So  *)
(* the receiver, who knows what it took last, gets the next chunk or the   *)
(* end of the body, never a chunk after a gap.                             *)
(***************************************************************************)
EXTENDS HttpRelay, TLAPS

-----------------------------------------------------------------------------
(* Queues.  A chain is a sequence whose neighbours are related.            *)

Chain(q, R) == \A i \in 1..(Len(q) - 1) : <<q[i], q[i + 1]>> \in R

Last(q) == q[Len(q)]

Elems(q) == {q[i] : i \in 1..Len(q)}

\* Appending a frame.
LEMMA AppendFacts ==
  ASSUME NEW S, NEW s \in Seq(S), NEW f \in S
  PROVE  /\ Append(s, f) \in Seq(S) /\ Len(Append(s, f)) = Len(s) + 1
         /\ \A i \in 1..Len(s) : Append(s, f)[i] = s[i]
         /\ Append(s, f)[Len(s) + 1] = f
         /\ Append(s, f) # <<>> /\ Len(s) \in Nat
OBVIOUS

\* Taking a frame.
LEMMA TailFacts ==
  ASSUME NEW S, NEW s \in Seq(S), s # <<>>
  PROVE  /\ Tail(s) \in Seq(S) /\ Len(Tail(s)) = Len(s) - 1
         /\ Len(s) \in Nat /\ Len(s) > 0
         /\ \A i \in 1..(Len(s) - 1) : Tail(s)[i] = s[i + 1]
         /\ Head(s) = s[1] /\ Head(s) \in S
OBVIOUS

\* One queue after the other.
LEMMA ConcatFacts ==
  ASSUME NEW S, NEW s \in Seq(S), NEW t \in Seq(S)
  PROVE  /\ s \o t \in Seq(S) /\ Len(s \o t) = Len(s) + Len(t)
         /\ Len(s) \in Nat /\ Len(t) \in Nat
         /\ \A i \in 1..Len(s) : (s \o t)[i] = s[i]
         /\ \A i \in 1..Len(t) : (s \o t)[Len(s) + i] = t[i]
OBVIOUS

\* A queue has its elements, and is empty when it has none.
LEMMA EmptyFacts ==
  ASSUME NEW S, NEW s \in Seq(S)
  PROVE  /\ Len(s) \in Nat /\ (s = <<>> <=> Len(s) = 0)
         /\ \A i \in 1..Len(s) : s[i] \in S
         /\ s # <<>> => Len(s) > 0 /\ s[1] \in S /\ s[Len(s)] \in S
OBVIOUS

\* Two sequences with the same elements are the same.
LEMMA SeqEqual ==
  ASSUME NEW S, NEW s \in Seq(S), NEW t \in Seq(S), Len(s) = Len(t),
         \A i \in 1..Len(s) : s[i] = t[i]
  PROVE  s = t
OBVIOUS

\* Moving the head of the second queue to the end of the first.
LEMMA MoveHead ==
  ASSUME NEW S, NEW s \in Seq(S), NEW t \in Seq(S), t # <<>>
  PROVE  Append(s, Head(t)) \o Tail(t) = s \o t
<1> DEFINE a == Append(s, Head(t)) \o Tail(t)
           b == s \o t
<1>1. a \in Seq(S) /\ b \in Seq(S) /\ Len(a) = Len(b)
  OBVIOUS
<1>2. ASSUME NEW i \in 1..Len(a) PROVE a[i] = b[i]
  OBVIOUS
<1> QED
  BY <1>1, <1>2, SeqEqual

\* Taking the head of the first of two queues takes the head of both.
LEMMA TailConcat ==
  ASSUME NEW S, NEW s \in Seq(S), NEW t \in Seq(S), s # <<>>
  PROVE  Tail(s) \o t = Tail(s \o t) /\ s \o t # <<>> /\ (s \o t)[1] = s[1]
OBVIOUS

\* Appending to the second of two queues appends to both.
LEMMA AppendConcat ==
  ASSUME NEW S, NEW s \in Seq(S), NEW t \in Seq(S), NEW f \in S
  PROVE  s \o Append(t, f) = Append(s \o t, f)
OBVIOUS

\* An empty queue adds nothing.
LEMMA EmptyConcat ==
  ASSUME NEW S, NEW s \in Seq(S)
  PROVE  <<>> \o s = s /\ s \o <<>> = s
OBVIOUS

\* A chain grows by an element its last one is related to.
LEMMA ChainAppend ==
  ASSUME NEW S, NEW q \in Seq(S), NEW f \in S, NEW R, Chain(q, R),
         q # <<>> => <<Last(q), f>> \in R
  PROVE  Chain(Append(q, f), R) /\ Last(Append(q, f)) = f /\ Append(q, f) # <<>>
         /\ Append(q, f) \in Seq(S) /\ (q # <<>> => Append(q, f)[1] = q[1])
         /\ (q = <<>> => Append(q, f)[1] = f)
<1> DEFINE a == Append(q, f)
<1>1. /\ a \in Seq(S) /\ Len(a) = Len(q) + 1 /\ Len(q) \in Nat
      /\ \A i \in 1..Len(q) : a[i] = q[i]
      /\ a[Len(q) + 1] = f /\ a # <<>>
  BY AppendFacts
<1>2. q = <<>> <=> Len(q) = 0
  BY EmptyFacts
<1> HIDE DEF a
<1>3. ASSUME NEW i \in 1..(Len(a) - 1) PROVE <<a[i], a[i + 1]>> \in R
  <2>1. CASE i = Len(q)
    BY <1>1, <1>2, <2>1 DEF Last
  <2>2. CASE i # Len(q)
    <3>1. i \in 1..(Len(q) - 1) /\ i \in 1..Len(q) /\ i + 1 \in 1..Len(q)
      BY <1>1, <2>2
    <3> QED
      BY <1>1, <3>1 DEF Chain
  <2> QED
    BY <2>1, <2>2
<1>4. Last(a) = f /\ (q # <<>> => a[1] = q[1]) /\ (q = <<>> => a[1] = f)
  BY <1>1, <1>2 DEF Last
<1> QED
  BY <1>1, <1>3, <1>4 DEF Chain, a

\* A chain without its head is a chain, and its new head is related to the old.
LEMMA ChainTail ==
  ASSUME NEW S, NEW q \in Seq(S), q # <<>>, NEW R, Chain(q, R)
  PROVE  /\ Tail(q) \in Seq(S) /\ Chain(Tail(q), R)
         /\ Tail(q) # <<>> => Last(Tail(q)) = Last(q) /\ <<q[1], Tail(q)[1]>> \in R
         /\ Tail(q) = <<>> => Last(q) = q[1]
<1> DEFINE a == Tail(q)
<1>1. /\ a \in Seq(S) /\ Len(a) = Len(q) - 1 /\ Len(q) \in Nat /\ Len(q) > 0
      /\ \A i \in 1..(Len(q) - 1) : a[i] = q[i + 1]
  BY TailFacts
<1>2. a = <<>> <=> Len(a) = 0
  BY <1>1, EmptyFacts
<1> HIDE DEF a
<1>3. ASSUME NEW i \in 1..(Len(a) - 1) PROVE <<a[i], a[i + 1]>> \in R
  <2>1. /\ i \in 1..(Len(q) - 1) /\ i + 1 \in 1..(Len(q) - 1)
        /\ a[i] = q[i + 1] /\ a[i + 1] = q[(i + 1) + 1]
    BY <1>1
  <2> QED
    BY <2>1 DEF Chain
<1>4. a # <<>> => Last(a) = Last(q) /\ <<q[1], a[1]>> \in R
  <2> SUFFICES ASSUME a # <<>> PROVE Last(a) = Last(q) /\ <<q[1], a[1]>> \in R
    OBVIOUS
  <2>1. 1 \in 1..(Len(q) - 1) /\ Len(q) - 1 \in 1..(Len(q) - 1)
    BY <1>1, <1>2
  <2>2. a[1] = q[1 + 1] /\ a[Len(q) - 1] = q[(Len(q) - 1) + 1]
    BY <1>1, <2>1
  <2>3. (Len(q) - 1) + 1 = Len(q)
    BY <1>1
  <2> QED
    BY <1>1, <2>1, <2>2, <2>3 DEF Chain, Last
<1>5. a = <<>> => Last(q) = q[1]
  <2> SUFFICES ASSUME a = <<>> PROVE Len(q) = 1
    BY DEF Last
  <2> QED
    BY <1>1, <1>2
<1> QED
  BY <1>1, <1>3, <1>4, <1>5 DEF Chain, a

\* A chain in two parts.
LEMMA ChainFront ==
  ASSUME NEW S, NEW s \in Seq(S), NEW t \in Seq(S), NEW R, Chain(s \o t, R)
  PROVE  /\ Chain(s, R) /\ Chain(t, R)
         /\ s # <<>> => s \o t # <<>> /\ (s \o t)[1] = s[1]
         /\ t # <<>> => s \o t # <<>> /\ Last(s \o t) = Last(t)
         /\ t = <<>> => s \o t = s
<1> DEFINE a == s \o t
<1>1. /\ a \in Seq(S) /\ Len(a) = Len(s) + Len(t) /\ Len(s) \in Nat /\ Len(t) \in Nat
      /\ \A i \in 1..Len(s) : a[i] = s[i]
      /\ \A i \in 1..Len(t) : a[Len(s) + i] = t[i]
  BY ConcatFacts
<1>2. (a = <<>> <=> Len(a) = 0) /\ (s = <<>> <=> Len(s) = 0) /\ (t = <<>> <=> Len(t) = 0)
  BY <1>1, EmptyFacts
<1>3. t = <<>> => a = s
  BY EmptyConcat
<1> HIDE DEF a
<1>4. Chain(s, R)
  <2> SUFFICES ASSUME NEW i \in 1..(Len(s) - 1) PROVE <<s[i], s[i + 1]>> \in R
    BY DEF Chain
  <2>1. i \in 1..Len(s) /\ i + 1 \in 1..Len(s) /\ i \in 1..(Len(a) - 1)
    BY <1>1
  <2> QED
    BY <1>1, <2>1 DEF Chain, a
<1>5. Chain(t, R)
  <2> SUFFICES ASSUME NEW i \in 1..(Len(t) - 1) PROVE <<t[i], t[i + 1]>> \in R
    BY DEF Chain
  <2>1. /\ i \in 1..Len(t) /\ i + 1 \in 1..Len(t) /\ Len(s) + i \in 1..(Len(a) - 1)
        /\ Len(s) + (i + 1) = (Len(s) + i) + 1
    BY <1>1
  <2>2. a[Len(s) + i] = t[i] /\ a[(Len(s) + i) + 1] = t[i + 1]
    BY <1>1, <2>1
  <2>3. <<a[Len(s) + i], a[(Len(s) + i) + 1]>> \in R
    BY <2>1 DEF Chain, a
  <2> QED
    BY <2>2, <2>3
<1>6. s # <<>> => a # <<>> /\ a[1] = s[1]
  BY <1>1, <1>2
<1>7. t # <<>> => a # <<>> /\ Last(a) = Last(t)
  BY <1>1, <1>2 DEF Last
<1> QED
  BY <1>3, <1>4, <1>5, <1>6, <1>7 DEF a

\* The elements of a queue are its head and those of its tail.
LEMMA ElemsTail ==
  ASSUME NEW S, NEW q \in Seq(S), q # <<>>
  PROVE  /\ Head(q) \in Elems(q) /\ Head(q) \in S
         /\ Elems(Tail(q)) \subseteq Elems(q)
<1>1. /\ Len(Tail(q)) = Len(q) - 1 /\ Len(q) \in Nat /\ Len(q) > 0
      /\ \A i \in 1..(Len(q) - 1) : Tail(q)[i] = q[i + 1]
      /\ Head(q) = q[1] /\ Head(q) \in S
  BY TailFacts
<1>2. Head(q) \in Elems(q)
  BY <1>1 DEF Elems
<1>3. ASSUME NEW i \in 1..Len(Tail(q)) PROVE Tail(q)[i] \in Elems(q)
  <2>1. i \in 1..(Len(q) - 1) /\ i + 1 \in 1..Len(q)
    BY <1>1
  <2> QED
    BY <1>1, <2>1 DEF Elems
<1> QED
  BY <1>1, <1>2, <1>3 DEF Elems

\* Appending adds one element.
LEMMA ElemsAppend ==
  ASSUME NEW S, NEW q \in Seq(S), NEW f \in S
  PROVE  Elems(Append(q, f)) = Elems(q) \cup {f}
<1>1. /\ Len(Append(q, f)) = Len(q) + 1 /\ Len(q) \in Nat
      /\ \A i \in 1..Len(q) : Append(q, f)[i] = q[i]
      /\ Append(q, f)[Len(q) + 1] = f
  BY AppendFacts
<1>2. 1..(Len(q) + 1) = 1..Len(q) \cup {Len(q) + 1}
  BY <1>1
<1> QED
  BY <1>1, <1>2 DEF Elems

\* The elements of a queue are of its type.
LEMMA ElemsTyped ==
  ASSUME NEW S, NEW q \in Seq(S)
  PROVE  Elems(q) \subseteq S /\ (q = <<>> => Elems(q) = {})
BY EmptyFacts DEF Elems

\* The beginning of a queue.
LEMMA SubSeqFacts ==
  ASSUME NEW S, NEW q \in Seq(S), NEW k \in 0..Len(q)
  PROVE  /\ SubSeq(q, 1, k) \in Seq(S) /\ Len(SubSeq(q, 1, k)) = k
         /\ k \in Nat /\ Len(q) \in Nat /\ k <= Len(q)
         /\ \A i \in 1..k : SubSeq(q, 1, k)[i] = q[i]
OBVIOUS

\* A part of a queue has no other elements.
LEMMA ElemsSubSeq ==
  ASSUME NEW S, NEW q \in Seq(S), NEW k \in 0..Len(q)
  PROVE  Elems(SubSeq(q, 1, k)) \subseteq Elems(q)
BY SubSeqFacts DEF Elems

\* A chain stays one when its end is cut off.
LEMMA ChainCut ==
  ASSUME NEW S, NEW s \in Seq(S), NEW t \in Seq(S), NEW k \in 0..Len(t), NEW R,
         Chain(s \o t, R)
  PROVE  /\ s \o SubSeq(t, 1, k) \in Seq(S) /\ Chain(s \o SubSeq(t, 1, k), R)
         /\ s \o SubSeq(t, 1, k) # <<>> =>
              /\ s \o t # <<>>
              /\ (s \o SubSeq(t, 1, k))[1] = (s \o t)[1]
<1> DEFINE u == SubSeq(t, 1, k)
           a == s \o u
           b == s \o t
<1>1. /\ u \in Seq(S) /\ Len(u) = k /\ k \in Nat /\ Len(t) \in Nat /\ k <= Len(t)
      /\ \A i \in 1..k : u[i] = t[i]
  BY SubSeqFacts
<1> HIDE DEF u
<1>2. /\ b \in Seq(S) /\ Len(b) = Len(s) + Len(t) /\ Len(s) \in Nat
      /\ \A i \in 1..Len(s) : b[i] = s[i]
      /\ \A i \in 1..Len(t) : b[Len(s) + i] = t[i]
  BY ConcatFacts
<1>3. /\ a \in Seq(S) /\ Len(a) = Len(s) + k
      /\ \A i \in 1..Len(s) : a[i] = s[i]
      /\ \A i \in 1..k : a[Len(s) + i] = u[i]
  <2>1. /\ a \in Seq(S) /\ Len(a) = Len(s) + Len(u)
        /\ \A i \in 1..Len(s) : a[i] = s[i]
        /\ \A i \in 1..Len(u) : a[Len(s) + i] = u[i]
    <3>1. u \in Seq(S)
      BY <1>1
    <3> QED
      BY <3>1, ConcatFacts
  <2> QED
    BY <1>1, <2>1
<1>4. (a = <<>> <=> Len(a) = 0) /\ (b = <<>> <=> Len(b) = 0)
  BY <1>2, <1>3, EmptyFacts
<1> HIDE DEF a
<1>5. ASSUME NEW i \in 1..Len(a) PROVE a[i] = b[i]
  <2>1. CASE i \in 1..Len(s)
    BY <1>2, <1>3, <2>1
  <2>2. CASE i \notin 1..Len(s)
    <3>1. i - Len(s) \in 1..k /\ i - Len(s) \in 1..Len(t) /\ Len(s) + (i - Len(s)) = i
      BY <1>1, <1>2, <1>3, <2>2
    <3> QED
      BY <1>1, <1>2, <1>3, <3>1
  <2> QED
    BY <2>1, <2>2
<1>6. ASSUME NEW i \in 1..(Len(a) - 1) PROVE <<a[i], a[i + 1]>> \in R
  <2>1. i \in 1..Len(a) /\ i + 1 \in 1..Len(a) /\ i \in 1..(Len(b) - 1)
    BY <1>1, <1>2, <1>3
  <2> QED
    BY <1>5, <2>1 DEF Chain, b
<1>7. a # <<>> => b # <<>> /\ a[1] = b[1]
  BY <1>1, <1>2, <1>3, <1>4, <1>5
<1> QED
  BY <1>3, <1>6, <1>7 DEF Chain, a, u, b

-----------------------------------------------------------------------------
(* The request body on its way to the upstream.                            *)

\* Chunks of the request body that were written to the tunnel.
Written == IF pend # <<>> /\ pend[1].t = "ReqData" THEN sent - 1 ELSE sent

\* Chunks the body goroutine has taken from its queue.
Taken == Len(uGot) + (IF bpc = "write" THEN 1 ELSE 0)

BodyRuns == bpc \in {"run", "write"}

\* What an object has in its queue and will yet get, if it keeps the id.
Feed(o) == IF amap = o THEN arx[o] \o g2a ELSE arx[o]

HasStart(q) == q # <<>> /\ q[1].t = "ReqStart"

\* The whole body is before a frame that comes after f.
BodyBefore(f) == badBody \/ (f.t \in {"ReqStart", "ReqData"} /\ f.n = NReq)

ReqNext(f, g) ==
  \/ g.t = "Rst"
  \/ f.t = "Rst" /\ g.t \in {"ReqData", "ReqTrailer", "ReqEnd"}
  \/ g.t = "ReqData" /\ f.t \in {"ReqStart", "ReqData"} /\ g.n = f.n + 1
  \/ g.t = "ReqTrailer" /\ BodyBefore(f)
  \/ g.t = "ReqEnd" /\ (f.t = "ReqTrailer" \/ BodyBefore(f))

ReqOrder == {p \in Frames \X Frames : ReqNext(p[1], p[2])}

\* The pending frame is the one its place in the handler sends.
PendOK ==
  pend # <<>> =>
    \/ gpc = "start" /\ pend = <<Frame("ReqStart"), "body", "return">>
    \/ gpc = "body" /\ sent > 0 /\ pend = <<Data("ReqData", sent), "body", "return">>
    \/ gpc = "trailer" /\ pend = <<Frame("ReqTrailer"), "reqEnd", "reqEnd">>
    \/ gpc = "reqEnd" /\ pend = <<Frame("ReqEnd"), "head", "head">>
    \/ /\ gpc \in {"start", "body", "head", "relay"}
       /\ pend = <<Frame("Rst"), "return", "return">>

BodyRead ==
  /\ gpc \in {"start", "body"} => ~badBody
  /\ gpc = "start" => sent = 0
  /\ gpc \in {"trailer", "reqEnd"} => badBody \/ sent = NReq

\* Nothing moves before TReqStart is written.
Untouched ==
  gpc = "start" => /\ g2a = <<>> /\ a2g = <<>> /\ ~grst /\ watch = "off"
                   /\ main = None /\ amap = None /\ \A o \in Objs : ast[o] = "free"

\* TReqStart is in one place, and makes one object main.
OneStart ==
  /\ HasStart(g2a) => main = None /\ amap = None /\ \A o \in Objs : ast[o] = "free"
  /\ \A o \in Objs : HasStart(arx[o]) =>
       /\ ast[o] = "first" /\ main = None
       /\ \A p \in Objs : HasStart(arx[p]) => p = o

ObjectsOK ==
  /\ \A o \in Objs : ast[o] = "free" => arx[o] = <<>>
  /\ \A o \in Objs : ast[o] = "http" => main = o
  /\ amap # None => ast[amap] # "free"
  /\ main # None => ast[main] = "http" /\ bpc # "off" /\ hpc # "off"
  /\ main = None => bpc = "off" /\ hpc = "off" /\ uGot = <<>> /\ uEof = "no"

Sending == up /\ gpc \in {"body", "trailer", "reqEnd"}

\* f is the last frame that was written.
LastOK(f) ==
  \/ f.t = "Rst"
  \/ f.t \in {"ReqStart", "ReqData"} /\ f.n = Written
  \/ f.t = "ReqTrailer" /\ gpc = "reqEnd"

ReqLines ==
  /\ Chain(g2a, ReqOrder)
  /\ \A o \in Objs : Chain(Feed(o), ReqOrder)
  /\ Sending /\ g2a # <<>> => LastOK(Last(g2a))
  /\ \A o \in Objs : Sending /\ amap = o /\ Feed(o) # <<>> => LastOK(Last(Feed(o)))

\* The first frame the body goroutine has not taken.
HeadOK(f) ==
  /\ f.t # "ReqStart"
  /\ f.t = "ReqData" => f.n = Taken + 1
  /\ f.t \in {"ReqTrailer", "ReqEnd"} => badBody \/ Taken = NReq

BodyFront ==
  /\ BodyRuns /\ Feed(main) # <<>> => HeadOK(Feed(main)[1])
  /\ BodyRuns /\ Sending /\ amap = main /\ Feed(main) = <<>> => badBody \/ Taken = Written

\* What the body goroutine has done.
BodyDone ==
  /\ bpc = "write" => chunk = Len(uGot) + 1
  /\ bpc = "done" => badBody \/ cancelled \/ Len(uGot) = NReq
  /\ uEof = "eof" => bpc = "done"

ReqInv ==
  /\ PendOK /\ BodyRead /\ Untouched /\ OneStart /\ ObjectsOK
  /\ ReqLines /\ BodyFront /\ BodyDone /\ RequestPrefix

-----------------------------------------------------------------------------
(* The response on its way to the client.                                  *)

\* What the handler has in its queue and will yet get.
ResFeed == IF gst = "open" THEN grx \o a2g ELSE grx

ResponseBefore(f, n) == f.t \in {"ResStart", "ResData"} /\ f.n = n

ResNext(f, g, n) ==
  \/ g.t = "Rst"
  \/ f.t = "Rst" /\ g.t \in {"Interim", "ResStart", "ResData", "ResTrailer", "ResEnd"}
  \/ f.t = "Interim" /\ g.t \in {"Interim", "ResStart"}
  \/ g.t = "ResData" /\ f.t \in {"ResStart", "ResData"} /\ g.n = f.n + 1
  \/ g.t = "ResTrailer" /\ ResponseBefore(f, n)
  \/ g.t = "ResEnd" /\ (f.t = "ResTrailer" \/ ResponseBefore(f, n))

AnyFrames == [t : {"ReqStart", "ReqTrailer", "ReqEnd", "Rst", "Interim", "ResStart",
                   "ResTrailer", "ResEnd", "ReqData", "ResData"}, n : Nat]

ResOrder(n) == {p \in AnyFrames \X AnyFrames : ResNext(p[1], p[2], n)}

NotBegun == hpc \in {"off", "setup", "do"}

ResLastOK(f) ==
  \/ f.t = "Rst"
  \/ f.t = "Interim" /\ NotBegun
  \/ hpc \in {"resp", "trailer", "end"} /\ ResponseBefore(f, uSent)
  \/ hpc = "end" /\ f.t = "ResTrailer"
  \/ hpc \in {"waitBody", "done"}

\* The client is there and its handler reads.
Listening == ~gone /\ gpc # "done"

ResHeadOK(f) ==
  /\ f.t \in {"ResData", "ResTrailer", "ResEnd", "Rst"}
  /\ f.t = "ResData" => f.n = Len(got) + 1
  /\ f.t \in {"ResTrailer", "ResEnd"} => Len(got) = uSent

ResLine ==
  Listening =>
    /\ gst # "closing"
    /\ Chain(ResFeed, ResOrder(uSent))
    /\ up /\ gst = "open" /\ ResFeed # <<>> => ResLastOK(Last(ResFeed))
    /\ gpc = "relay" /\ ResFeed # <<>> => ResHeadOK(ResFeed[1])
    /\ gpc = "relay" /\ up /\ gst = "open" /\ ResFeed = <<>>
         /\ hpc \in {"resp", "trailer", "end"} => Len(got) = uSent

\* The kinds of frames the agent may have sent so far.
SentSoFar(f) ==
  /\ NotBegun => f.t \in {"Interim", "Rst"}
  /\ hpc \in {"resp", "trailer"} => f.t # "ResTrailer"
  /\ hpc \in {"resp", "trailer", "end"} => f.t # "ResEnd"

ResControl ==
  /\ NotBegun => uSent = 0 /\ gpc # "relay"
  /\ why = "resEnd" => gpc \in {"return", "done"} /\ hpc \in {"waitBody", "done"}
  /\ gpc \in {"start", "body", "trailer", "reqEnd", "head"} => got = <<>>
  /\ watch \in {"checked", "sent"} => gone

SoFar == \A f \in Elems(grx) \cup Elems(a2g) : SentSoFar(f)

\* Chunks of the response are never reordered.
Before(f, g) == f.t = "ResData" /\ g.t = "ResData" => f.n < g.n
InRange(f) == f.t = "ResData" => Len(got) < f.n /\ f.n <= uSent

Sorted(q) == \A i, j \in 1..Len(q) : i < j => Before(q[i], q[j])

Ascending ==
  /\ Sorted(grx) /\ Sorted(a2g)
  /\ \A f \in Elems(grx), h \in Elems(a2g) : Before(f, h)
  /\ \A f \in Elems(grx) \cup Elems(a2g) : InRange(f)
  /\ Len(got) <= uSent

ResInv ==
  ResControl /\ SoFar /\ ResLine /\ Ascending /\ ResponsePrefix /\ ResEndMeansAllSent

-----------------------------------------------------------------------------
(* Types.                                                                  *)

\* The frames there are, and what they carry.
LEMMA FrameFacts ==
  ASSUME sc \in Scenarios
  PROVE  /\ NReq \in Nat /\ NRes \in Nat /\ Trailers \in BOOLEAN
         /\ \A t \in {"ReqStart", "ReqTrailer", "ReqEnd", "Rst", "Interim", "ResStart",
                      "ResTrailer", "ResEnd"} :
              Frame(t) \in Frames /\ Frame(t).t = t /\ Frame(t).n = 0
         /\ \A n \in 1..NReq : /\ Data("ReqData", n) \in Frames
                               /\ Data("ReqData", n).t = "ReqData" /\ Data("ReqData", n).n = n
         /\ \A n \in 1..NRes : /\ Data("ResData", n) \in Frames
                               /\ Data("ResData", n).t = "ResData" /\ Data("ResData", n).n = n
         /\ \A f \in Frames :
              /\ f.t \in {"ReqStart", "ReqTrailer", "ReqEnd", "Rst", "Interim", "ResStart",
                          "ResTrailer", "ResEnd", "ReqData", "ResData"}
              /\ f.n \in Nat
              /\ f.t = "ReqData" => f.n \in 1..NReq
              /\ f.t = "ResData" => f.n \in 1..NRes
              /\ f.t \notin {"ReqData", "ResData"} => f.n = 0
<1>1. NReq \in Nat /\ NRes \in Nat /\ Trailers \in BOOLEAN
  BY RelayAssumption DEF NReq, NRes, Trailers
<1> HIDE DEF NReq, NRes
<1>2. \A f \in Frames :
              /\ f.t \in {"ReqStart", "ReqTrailer", "ReqEnd", "Rst", "Interim", "ResStart",
                          "ResTrailer", "ResEnd", "ReqData", "ResData"}
              /\ f.n \in Nat
              /\ f.t = "ReqData" => f.n \in 1..NReq
              /\ f.t = "ResData" => f.n \in 1..NRes
              /\ f.t \notin {"ReqData", "ResData"} => f.n = 0
  BY <1>1 DEF Frames
<1> QED
  BY <1>1, <1>2 DEF Frames, Frame, Data

\* No step changes the scenario.
LEMMA ScenarioStays ==
  ASSUME [Next]_vars
  PROVE  sc' = sc /\ Frames' = Frames /\ NReq' = NReq /\ NRes' = NRes
         /\ Trailers' = Trailers /\ Faults' = Faults
<1>1. sc' = sc
  BY DEF Next, Gateway, Handler, Agent, BodyGoroutine, Http, HandlerWrite, SendReqStart,
         RefuseLarge, StartWatcher, ReadBody, BodyTooLarge, BodyEnds, SendTrailer,
         SendReqEnd, RecvHead, RecvData, RecvFails, HandlerReturns, ForgetStream, Watcher,
         GatewayReads, SendReset, GatewayDisconnects, AgentReads, FirstFrame,
         AgentDisconnects, BodyQuits, BodyFrame, BodyWriteFails, Setup, Got1xxResponse,
         DoFails, DoReturns, CopyResponse, ResponseEnds, SendResTrailer, SendResEnd,
         WaitBody, ClientGoes, TunnelBreaks, UpstreamReads, UpstreamSeesEnd, Finished, vars
<1> QED
  BY <1>1 DEF Frames, NReq, NRes, Trailers, Faults

\* Next, one disjunct for each action.
LEMMA StepCases ==
  ASSUME [Next]_vars
  PROVE  \/ HandlerWrite \/ SendReqStart \/ RefuseLarge \/ StartWatcher \/ ReadBody
         \/ BodyTooLarge \/ BodyEnds \/ SendTrailer \/ SendReqEnd \/ RecvHead
         \/ RecvData \/ RecvFails \/ HandlerReturns \/ ForgetStream \/ Watcher
         \/ GatewayReads \/ SendReset \/ GatewayDisconnects \/ AgentReads
         \/ (\E o \in Objs : FirstFrame(o)) \/ AgentDisconnects \/ BodyQuits
         \/ BodyFrame \/ BodyWriteFails \/ Setup \/ Got1xxResponse \/ DoFails
         \/ DoReturns \/ CopyResponse \/ ResponseEnds \/ SendResTrailer \/ SendResEnd
         \/ WaitBody \/ ClientGoes \/ TunnelBreaks \/ UpstreamReads \/ UpstreamSeesEnd
         \/ UNCHANGED vars
BY DEF Next, Gateway, Handler, Agent, BodyGoroutine, Http, Finished

\* The types, by who keeps the variable.
GatewayTypes ==
  /\ gpc \in GPcs
  /\ pend = <<>> \/ pend \in Frames \X GPcs \X GPcs
  /\ sent \in 0..NReq /\ badBody \in BOOLEAN
  /\ why \in {"none", "resEnd", "cut", "error"}

ClientTypes == got \in Seq(1..NRes) /\ Len(got) <= NRes

QueueTypes ==
  /\ gst \in {"open", "closing", "closed"}
  /\ grx \in Seq(Frames) /\ Len(grx) <= GQueue
  /\ grst \in BOOLEAN

NetTypes ==
  /\ watch \in {"off", "wait", "checked", "sent", "done"} /\ gone \in BOOLEAN
  /\ g2a \in Seq(Frames) /\ a2g \in Seq(Frames)
  /\ up \in BOOLEAN /\ adown \in BOOLEAN

ObjectTypes ==
  /\ amap \in Objs \cup {None}
  /\ ast \in [Objs -> {"free", "first", "http"}]
  /\ arx \in [Objs -> Seq(Frames)] /\ \A o \in Objs : Len(arx[o]) <= AQueue
  /\ aclosed \in SUBSET Objs

AgentTypes ==
  /\ main \in Objs \cup {None}
  /\ hpc \in {"off", "setup", "do", "resp", "trailer", "end", "waitBody", "done"}
  /\ bpc \in {"off", "run", "write", "done"} /\ chunk \in 0..NReq
  /\ cancelled \in BOOLEAN /\ trailer \in {"none", "declared", "set"}

UpstreamTypes ==
  /\ uGot \in Seq(1..NReq) /\ uEof \in {"no", "eof", "abort"}
  /\ uSent \in 0..NRes /\ uEnd \in {"no", "eof", "err"}

\* The type invariant, by the variables the actions change together.
LEMMA TypeParts ==
  TypeOK <=> /\ sc \in Scenarios
             /\ GatewayTypes /\ ClientTypes /\ QueueTypes /\ NetTypes /\ ObjectTypes
             /\ AgentTypes /\ UpstreamTypes
BY DEF TypeOK, GatewayTypes, ClientTypes, QueueTypes, NetTypes, ObjectTypes, AgentTypes,
       UpstreamTypes

\* Every step keeps the types.  That the response does not grow past its chunks
\* needs their order; what the body goroutine reads and writes needs its place.
LEMMA TypeStep ==
  ASSUME TypeOK, ObjectsOK, BodyDone, Ascending, [Next]_vars
  PROVE  TypeOK'
<1>1. /\ sc' = sc /\ Frames' = Frames /\ NReq' = NReq /\ NRes' = NRes
      /\ Trailers' = Trailers /\ Faults' = Faults
  BY ScenarioStays
<1>2. /\ sc \in Scenarios
      /\ GatewayTypes /\ ClientTypes /\ QueueTypes /\ NetTypes /\ ObjectTypes
      /\ AgentTypes /\ UpstreamTypes
  BY TypeParts
<1>3. /\ NReq \in Nat /\ NRes \in Nat
      /\ Frame("ReqStart") \in Frames /\ Frame("ReqTrailer") \in Frames
      /\ Frame("ReqEnd") \in Frames /\ Frame("Rst") \in Frames
      /\ Frame("Interim") \in Frames /\ Frame("ResStart") \in Frames
      /\ Frame("ResTrailer") \in Frames /\ Frame("ResEnd") \in Frames
      /\ \A n \in 1..NReq : Data("ReqData", n) \in Frames
      /\ \A n \in 1..NRes : Data("ResData", n) \in Frames
      /\ \A f \in Frames : /\ f.t = "ReqData" => f.n \in 1..NReq
                           /\ f.t = "ResData" => f.n \in 1..NRes
  BY <1>2, FrameFacts
<1> SUFFICES GatewayTypes' /\ ClientTypes' /\ QueueTypes' /\ NetTypes' /\ ObjectTypes'
             /\ AgentTypes' /\ UpstreamTypes'
  BY <1>1, <1>2 DEF TypeOK, GatewayTypes, ClientTypes, QueueTypes, NetTypes, ObjectTypes,
                    AgentTypes, UpstreamTypes
<1>4. /\ \A q \in Seq(Frames), f \in Frames :
           Append(q, f) \in Seq(Frames) /\ Len(Append(q, f)) = Len(q) + 1
      /\ \A q \in Seq(Frames) :
           /\ Len(q) \in Nat
           /\ q # <<>> => /\ Head(q) \in Frames /\ Tail(q) \in Seq(Frames)
                           /\ Len(Tail(q)) = Len(q) - 1
  BY AppendFacts, TailFacts, EmptyFacts
<1> USE RelayAssumption DEF gw, gs, wat, net, ags, ag, ups
<1>5. CASE HandlerWrite
  <2>1. GatewayTypes'
    BY <1>1, <1>2, <1>3, <1>4, <1>5 DEF GatewayTypes, GPcs, HandlerWrite
  <2>2. NetTypes'
    <3>1. pend[1] \in Frames
      BY <1>2, <1>5 DEF GatewayTypes, HandlerWrite
    <3> QED
      BY <1>1, <1>2, <1>4, <1>5, <3>1 DEF NetTypes, HandlerWrite
  <2>3. ClientTypes' /\ QueueTypes' /\ ObjectTypes' /\ AgentTypes' /\ UpstreamTypes'
    BY <1>1, <1>2, <1>5 DEF ClientTypes, QueueTypes, ObjectTypes, AgentTypes, UpstreamTypes, HandlerWrite
  <2> QED
    BY <2>1, <2>2, <2>3
<1>6. CASE SendReqStart
  <2>1. GatewayTypes'
    BY <1>1, <1>2, <1>3, <1>4, <1>6 DEF GatewayTypes, GPcs, SendReqStart, Send
  <2>2. ClientTypes' /\ QueueTypes' /\ NetTypes' /\ ObjectTypes' /\ AgentTypes' /\ UpstreamTypes'
    BY <1>1, <1>2, <1>6 DEF ClientTypes, QueueTypes, NetTypes, ObjectTypes, AgentTypes, UpstreamTypes, SendReqStart
  <2> QED
    BY <2>1, <2>2
<1>7. CASE RefuseLarge
  <2>1. GatewayTypes'
    BY <1>1, <1>2, <1>3, <1>4, <1>7 DEF GatewayTypes, GPcs, RefuseLarge, Send
  <2>2. ClientTypes' /\ QueueTypes' /\ NetTypes' /\ ObjectTypes' /\ AgentTypes' /\ UpstreamTypes'
    BY <1>1, <1>2, <1>7 DEF ClientTypes, QueueTypes, NetTypes, ObjectTypes, AgentTypes, UpstreamTypes, RefuseLarge
  <2> QED
    BY <2>1, <2>2
<1>8. CASE StartWatcher
  <2>1. NetTypes'
    BY <1>1, <1>2, <1>3, <1>4, <1>8 DEF NetTypes, StartWatcher
  <2>2. GatewayTypes' /\ ClientTypes' /\ QueueTypes' /\ ObjectTypes' /\ AgentTypes' /\ UpstreamTypes'
    BY <1>1, <1>2, <1>8 DEF GatewayTypes, ClientTypes, QueueTypes, ObjectTypes, AgentTypes, UpstreamTypes, StartWatcher
  <2> QED
    BY <2>1, <2>2
<1>9. CASE ReadBody
  <2>1. GatewayTypes'
    BY <1>1, <1>2, <1>3, <1>4, <1>9 DEF GatewayTypes, GPcs, ReadBody, Send, InBody
  <2>2. ClientTypes' /\ QueueTypes' /\ NetTypes' /\ ObjectTypes' /\ AgentTypes' /\ UpstreamTypes'
    BY <1>1, <1>2, <1>9 DEF ClientTypes, QueueTypes, NetTypes, ObjectTypes, AgentTypes, UpstreamTypes, ReadBody
  <2> QED
    BY <2>1, <2>2
<1>10. CASE BodyTooLarge
  <2>1. GatewayTypes'
    BY <1>1, <1>2, <1>3, <1>4, <1>10 DEF GatewayTypes, GPcs, BodyTooLarge, Send
  <2>2. ClientTypes' /\ QueueTypes' /\ NetTypes' /\ ObjectTypes' /\ AgentTypes' /\ UpstreamTypes'
    BY <1>1, <1>2, <1>10 DEF ClientTypes, QueueTypes, NetTypes, ObjectTypes, AgentTypes, UpstreamTypes, BodyTooLarge
  <2> QED
    BY <2>1, <2>2
<1>11. CASE BodyEnds
  <2>1. GatewayTypes'
    BY <1>1, <1>2, <1>3, <1>4, <1>11 DEF GatewayTypes, GPcs, BodyEnds
  <2>2. ClientTypes' /\ QueueTypes' /\ NetTypes' /\ ObjectTypes' /\ AgentTypes' /\ UpstreamTypes'
    BY <1>1, <1>2, <1>11 DEF ClientTypes, QueueTypes, NetTypes, ObjectTypes, AgentTypes, UpstreamTypes, BodyEnds
  <2> QED
    BY <2>1, <2>2
<1>12. CASE SendTrailer
  <2>1. GatewayTypes'
    BY <1>1, <1>2, <1>3, <1>4, <1>12 DEF GatewayTypes, GPcs, SendTrailer, Send
  <2>2. ClientTypes' /\ QueueTypes' /\ NetTypes' /\ ObjectTypes' /\ AgentTypes' /\ UpstreamTypes'
    BY <1>1, <1>2, <1>12 DEF ClientTypes, QueueTypes, NetTypes, ObjectTypes, AgentTypes, UpstreamTypes, SendTrailer
  <2> QED
    BY <2>1, <2>2
<1>13. CASE SendReqEnd
  <2>1. GatewayTypes'
    BY <1>1, <1>2, <1>3, <1>4, <1>13 DEF GatewayTypes, GPcs, SendReqEnd, Send
  <2>2. ClientTypes' /\ QueueTypes' /\ NetTypes' /\ ObjectTypes' /\ AgentTypes' /\ UpstreamTypes'
    BY <1>1, <1>2, <1>13 DEF ClientTypes, QueueTypes, NetTypes, ObjectTypes, AgentTypes, UpstreamTypes, SendReqEnd
  <2> QED
    BY <2>1, <2>2
<1>14. CASE RecvHead
  <2>1. GatewayTypes'
    BY <1>1, <1>2, <1>3, <1>4, <1>14 DEF GatewayTypes, GPcs, QueueTypes, RecvHead, Send
  <2>2. QueueTypes'
    BY <1>1, <1>2, <1>3, <1>4, <1>14 DEF QueueTypes, RecvHead, Send
  <2>3. ClientTypes' /\ NetTypes' /\ ObjectTypes' /\ AgentTypes' /\ UpstreamTypes'
    BY <1>1, <1>2, <1>14 DEF ClientTypes, NetTypes, ObjectTypes, AgentTypes, UpstreamTypes, RecvHead
  <2> QED
    BY <2>1, <2>2, <2>3
<1>15. CASE RecvData
  <2>1. GatewayTypes'
    BY <1>1, <1>2, <1>3, <1>4, <1>15 DEF GatewayTypes, GPcs, RecvData, Send
  <2>2. ClientTypes'
    <3>1. CASE got' = got
      BY <1>1, <1>2, <3>1 DEF ClientTypes
    <3>2. CASE Head(grx).t = "ResData" /\ got' = Append(got, Head(grx).n)
      <4>1. grx \in Seq(Frames) /\ grx # <<>>
        BY <1>2, <1>15 DEF QueueTypes, RecvData
      <4>2. Head(grx) \in Elems(grx) /\ Head(grx) \in Frames
        BY <4>1, ElemsTail
      <4>3. /\ Head(grx).n \in 1..NRes /\ Len(got) < Head(grx).n /\ Head(grx).n <= uSent
            /\ uSent \in 0..NRes
        BY <1>2, <1>3, <3>2, <4>2 DEF Ascending, InRange, UpstreamTypes
      <4>4. got \in Seq(1..NRes) /\ Len(got) \in Nat
        BY <1>2 DEF ClientTypes
      <4>5. got' \in Seq(1..NRes) /\ Len(got') = Len(got) + 1
        BY <3>2, <4>3, <4>4, AppendFacts
      <4> QED
        BY <1>1, <1>3, <4>3, <4>4, <4>5 DEF ClientTypes
    <3> QED
      BY <1>15, <3>1, <3>2 DEF RecvData
  <2>3. QueueTypes'
    BY <1>1, <1>2, <1>3, <1>4, <1>15 DEF QueueTypes, RecvData, Send
  <2>4. NetTypes' /\ ObjectTypes' /\ AgentTypes' /\ UpstreamTypes'
    BY <1>1, <1>2, <1>15 DEF NetTypes, ObjectTypes, AgentTypes, UpstreamTypes, RecvData
  <2> QED
    BY <2>1, <2>2, <2>3, <2>4
<1>16. CASE RecvFails
  <2>1. GatewayTypes'
    BY <1>1, <1>2, <1>3, <1>4, <1>16 DEF GatewayTypes, GPcs, RecvFails, Send
  <2>2. ClientTypes' /\ QueueTypes' /\ NetTypes' /\ ObjectTypes' /\ AgentTypes' /\ UpstreamTypes'
    BY <1>1, <1>2, <1>16 DEF ClientTypes, QueueTypes, NetTypes, ObjectTypes, AgentTypes, UpstreamTypes, RecvFails
  <2> QED
    BY <2>1, <2>2
<1>17. CASE HandlerReturns
  <2>1. GatewayTypes'
    BY <1>1, <1>2, <1>3, <1>4, <1>17 DEF GatewayTypes, GPcs, HandlerReturns, CloseStream
  <2>2. QueueTypes'
    BY <1>1, <1>2, <1>3, <1>4, <1>17 DEF QueueTypes, HandlerReturns, CloseStream
  <2>3. ClientTypes' /\ NetTypes' /\ ObjectTypes' /\ AgentTypes' /\ UpstreamTypes'
    BY <1>1, <1>2, <1>17 DEF ClientTypes, NetTypes, ObjectTypes, AgentTypes, UpstreamTypes, HandlerReturns
  <2> QED
    BY <2>1, <2>2, <2>3
<1>18. CASE ForgetStream
  <2>1. QueueTypes'
    BY <1>1, <1>2, <1>3, <1>4, <1>18 DEF QueueTypes, ForgetStream
  <2>2. GatewayTypes' /\ ClientTypes' /\ NetTypes' /\ ObjectTypes' /\ AgentTypes' /\ UpstreamTypes'
    BY <1>1, <1>2, <1>18 DEF GatewayTypes, ClientTypes, NetTypes, ObjectTypes, AgentTypes, UpstreamTypes, ForgetStream
  <2> QED
    BY <2>1, <2>2
<1>19. CASE Watcher
  <2>1. QueueTypes'
    BY <1>1, <1>2, <1>3, <1>4, <1>19 DEF QueueTypes, Watcher, CloseStream
  <2>2. NetTypes'
    <3>1. /\ watch' \in {"checked", "sent", "done"} /\ UNCHANGED <<gone, a2g, up, adown>>
          /\ g2a' \in {g2a, Append(g2a, Frame("Rst"))}
      BY <1>19 DEF Watcher
    <3>2. g2a' \in Seq(Frames)
      BY <1>2, <1>3, <1>4, <3>1 DEF NetTypes
    <3> QED
      BY <1>1, <1>2, <3>1, <3>2 DEF NetTypes
  <2>3. GatewayTypes' /\ ClientTypes' /\ ObjectTypes' /\ AgentTypes' /\ UpstreamTypes'
    BY <1>1, <1>2, <1>19 DEF GatewayTypes, ClientTypes, ObjectTypes, AgentTypes, UpstreamTypes, Watcher
  <2> QED
    BY <2>1, <2>2, <2>3
<1>20. CASE GatewayReads
  <2>1. QueueTypes'
    <3>1. Head(a2g) \in Frames
      BY <1>2, <1>4, <1>20 DEF NetTypes, GatewayReads
    <3>2. /\ Append(grx, Head(a2g)) \in Seq(Frames)
          /\ Len(Append(grx, Head(a2g))) = Len(grx) + 1 /\ Len(grx) \in Nat
      BY <1>2, <1>4, <3>1 DEF QueueTypes
    <3>3. /\ gst' \in {gst, "closed"} /\ grst' \in {grst, TRUE}
          /\ \/ grx' = grx
             \/ Len(grx) < GQueue /\ grx' = Append(grx, Head(a2g))
      BY <1>20 DEF GatewayReads, Deliver
    <3>4. grx' \in Seq(Frames) /\ Len(grx') <= GQueue
      BY <1>2, <3>2, <3>3 DEF QueueTypes
    <3> QED
      BY <1>1, <1>2, <3>3, <3>4 DEF QueueTypes
  <2>2. NetTypes'
    BY <1>1, <1>2, <1>3, <1>4, <1>20 DEF NetTypes, GatewayReads, Deliver
  <2>3. GatewayTypes' /\ ClientTypes' /\ ObjectTypes' /\ AgentTypes' /\ UpstreamTypes'
    BY <1>1, <1>2, <1>20 DEF GatewayTypes, ClientTypes, ObjectTypes, AgentTypes, UpstreamTypes, GatewayReads
  <2> QED
    BY <2>1, <2>2, <2>3
<1>21. CASE SendReset
  <2>1. QueueTypes'
    BY <1>1, <1>2, <1>3, <1>4, <1>21 DEF QueueTypes, SendReset
  <2>2. NetTypes'
    BY <1>1, <1>2, <1>3, <1>4, <1>21 DEF NetTypes, SendReset
  <2>3. GatewayTypes' /\ ClientTypes' /\ ObjectTypes' /\ AgentTypes' /\ UpstreamTypes'
    BY <1>1, <1>2, <1>21 DEF GatewayTypes, ClientTypes, ObjectTypes, AgentTypes, UpstreamTypes, SendReset
  <2> QED
    BY <2>1, <2>2, <2>3
<1>22. CASE GatewayDisconnects
  <2>1. QueueTypes'
    BY <1>1, <1>2, <1>3, <1>4, <1>22 DEF QueueTypes, GatewayDisconnects
  <2>2. GatewayTypes' /\ ClientTypes' /\ NetTypes' /\ ObjectTypes' /\ AgentTypes' /\ UpstreamTypes'
    BY <1>1, <1>2, <1>22 DEF GatewayTypes, ClientTypes, NetTypes, ObjectTypes, AgentTypes, UpstreamTypes, GatewayDisconnects
  <2> QED
    BY <2>1, <2>2
<1>23. CASE AgentReads
  <2>1. NetTypes'
    BY <1>1, <1>2, <1>3, <1>4, <1>23 DEF NetTypes, ObjectTypes, AgentReads, DeliverFrame, AgentSend, Forgotten
  <2>2. ObjectTypes'
    <3> DEFINE o == IF amap # None THEN amap ELSE CHOOSE x \in Objs : ast[x] = "free"
               f == Head(g2a)
    <3>1. o \in Objs
      BY <1>2, <1>23 DEF ObjectTypes, AgentReads
    <3>2. f \in Frames
      BY <1>2, <1>4, <1>23 DEF NetTypes, AgentReads
    <3>3. /\ ast' = IF amap = None THEN [ast EXCEPT ![o] = "first"] ELSE ast
          /\ DeliverFrame(o, f)
      BY <1>23 DEF AgentReads
    <3> HIDE DEF o, f
    <3>4. /\ amap' \in Objs \cup {None} /\ aclosed' \in SUBSET Objs
          /\ ast' \in [Objs -> {"free", "first", "http"}]
      BY <1>2, <3>1, <3>3 DEF ObjectTypes, DeliverFrame, Forgotten
    <3>5. arx' \in [Objs -> Seq(Frames)] /\ \A p \in Objs : Len(arx'[p]) <= AQueue
      <4>1. CASE arx' = arx
        BY <1>2, <4>1 DEF ObjectTypes
      <4>2. CASE Len(arx[o]) < AQueue /\ arx' = [arx EXCEPT ![o] = Append(@, f)]
        <5>1. arx[o] \in Seq(Frames)
          BY <1>2, <3>1 DEF ObjectTypes
        <5>2. Append(arx[o], f) \in Seq(Frames) /\ Len(Append(arx[o], f)) = Len(arx[o]) + 1
              /\ Len(arx[o]) \in Nat
          BY <1>4, <3>2, <5>1
        <5> QED
          BY <1>2, <3>1, <4>2, <5>2 DEF ObjectTypes
      <4> QED
        BY <3>3, <4>1, <4>2 DEF DeliverFrame
    <3> QED
      BY <1>1, <3>4, <3>5 DEF ObjectTypes
  <2>3. GatewayTypes' /\ ClientTypes' /\ QueueTypes' /\ AgentTypes' /\ UpstreamTypes'
    BY <1>1, <1>2, <1>23 DEF GatewayTypes, ClientTypes, QueueTypes, AgentTypes, UpstreamTypes, AgentReads
  <2> QED
    BY <2>1, <2>2, <2>3
<1>24. ASSUME NEW o \in Objs, FirstFrame(o)
     PROVE  /\ GatewayTypes' /\ ClientTypes' /\ QueueTypes' /\ NetTypes'
            /\ ObjectTypes' /\ AgentTypes' /\ UpstreamTypes'
  <2>1. NetTypes'
    <3>1. /\ a2g' \in {a2g, Append(a2g, Frame("Rst"))}
          /\ g2a' = g2a /\ up' = up /\ adown' = adown /\ watch' = watch /\ gone' = gone
      BY <1>24 DEF FirstFrame, AgentSend
    <3> QED
      BY <1>1, <1>2, <1>3, <1>4, <3>1 DEF NetTypes
  <2>2. ObjectTypes'
    <3>1. arx[o] \in Seq(Frames)
      BY <1>2 DEF ObjectTypes
    <3>2. CASE StreamReturns(o)
      <4>1. <<>> \in Seq(Frames) /\ Len(<<>>) = 0
        OBVIOUS
      <4> QED
        BY <1>1, <1>2, <3>2, <4>1 DEF ObjectTypes, StreamReturns, Forgotten
    <3>3. CASE /\ arx[o] # <<>> /\ ast' = [ast EXCEPT ![o] = "http"]
               /\ arx' = [arx EXCEPT ![o] = Tail(@)] /\ UNCHANGED <<amap, aclosed>>
      <4>1. Tail(arx[o]) \in Seq(Frames) /\ Len(Tail(arx[o])) = Len(arx[o]) - 1
            /\ Len(arx[o]) \in Nat
        BY <1>4, <3>1, <3>3
      <4> QED
        BY <1>1, <1>2, <3>3, <4>1 DEF ObjectTypes
    <3> QED
      BY <1>24, <3>2, <3>3 DEF FirstFrame
  <2>3. AgentTypes'
    BY <1>1, <1>2, <1>3, <1>4, <1>24 DEF AgentTypes, FirstFrame, StreamReturns, Forgotten, AgentSend
  <2>4. GatewayTypes' /\ ClientTypes' /\ QueueTypes' /\ UpstreamTypes'
    BY <1>1, <1>2, <1>24 DEF GatewayTypes, ClientTypes, QueueTypes, UpstreamTypes, FirstFrame
  <2> QED
    BY <2>1, <2>2, <2>3, <2>4
<1>25. CASE AgentDisconnects
  <2>1. NetTypes'
    BY <1>1, <1>2, <1>3, <1>4, <1>25 DEF NetTypes, AgentDisconnects, Forgotten
  <2>2. ObjectTypes'
    BY <1>1, <1>2, <1>3, <1>4, <1>25 DEF ObjectTypes, AgentDisconnects, Forgotten
  <2>3. AgentTypes'
    BY <1>1, <1>2, <1>3, <1>4, <1>25 DEF AgentTypes, AgentDisconnects, Forgotten
  <2>4. GatewayTypes' /\ ClientTypes' /\ QueueTypes' /\ UpstreamTypes'
    BY <1>1, <1>2, <1>25 DEF GatewayTypes, ClientTypes, QueueTypes, UpstreamTypes, AgentDisconnects
  <2> QED
    BY <2>1, <2>2, <2>3, <2>4
<1>26. CASE BodyQuits
  <2>1. AgentTypes'
    BY <1>1, <1>2, <1>3, <1>4, <1>26 DEF AgentTypes, BodyQuits
  <2>2. GatewayTypes' /\ ClientTypes' /\ QueueTypes' /\ NetTypes' /\ ObjectTypes' /\ UpstreamTypes'
    BY <1>1, <1>2, <1>26 DEF GatewayTypes, ClientTypes, QueueTypes, NetTypes, ObjectTypes, UpstreamTypes, BodyQuits
  <2> QED
    BY <2>1, <2>2
<1>27. CASE BodyFrame
  <2>1. ObjectTypes'
    <3>1. main \in Objs /\ arx[main] \in Seq(Frames) /\ arx[main] # <<>>
      BY <1>2, <1>27 DEF ObjectTypes, AgentTypes, ObjectsOK, BodyFrame
    <3>2. Tail(arx[main]) \in Seq(Frames) /\ Len(Tail(arx[main])) = Len(arx[main]) - 1
          /\ Len(arx[main]) \in Nat
      BY <1>4, <3>1
    <3> QED
      BY <1>1, <1>2, <1>27, <3>1, <3>2 DEF ObjectTypes, BodyFrame
  <2>2. AgentTypes'
    <3>1. main \in Objs /\ arx[main] \in Seq(Frames) /\ arx[main] # <<>>
      BY <1>2, <1>27 DEF ObjectTypes, AgentTypes, ObjectsOK, BodyFrame
    <3>2. Head(arx[main]) \in Frames
      BY <1>4, <3>1
    <3>3. Head(arx[main]).t = "ReqData" => Head(arx[main]).n \in 0..NReq
      BY <1>3, <3>2
    <3>4. /\ main' = main /\ hpc' = hpc /\ bpc' \in {bpc, "write", "done"}
          /\ \/ chunk' = chunk
             \/ Head(arx[main]).t = "ReqData" /\ chunk' = Head(arx[main]).n
          /\ cancelled' \in {cancelled, TRUE} /\ trailer' \in {trailer, "set"}
      BY <1>27 DEF BodyFrame
    <3> QED
      BY <1>1, <1>2, <3>3, <3>4 DEF AgentTypes
  <2>3. GatewayTypes' /\ ClientTypes' /\ QueueTypes' /\ NetTypes' /\ UpstreamTypes'
    BY <1>1, <1>2, <1>27 DEF GatewayTypes, ClientTypes, QueueTypes, NetTypes, UpstreamTypes, BodyFrame
  <2> QED
    BY <2>1, <2>2, <2>3
<1>28. CASE BodyWriteFails
  <2>1. AgentTypes'
    BY <1>1, <1>2, <1>3, <1>4, <1>28 DEF AgentTypes, BodyWriteFails
  <2>2. GatewayTypes' /\ ClientTypes' /\ QueueTypes' /\ NetTypes' /\ ObjectTypes' /\ UpstreamTypes'
    BY <1>1, <1>2, <1>28 DEF GatewayTypes, ClientTypes, QueueTypes, NetTypes, ObjectTypes, UpstreamTypes, BodyWriteFails
  <2> QED
    BY <2>1, <2>2
<1>29. CASE Setup
  <2>1. AgentTypes'
    BY <1>1, <1>2, <1>3, <1>4, <1>29 DEF AgentTypes, Setup
  <2>2. GatewayTypes' /\ ClientTypes' /\ QueueTypes' /\ NetTypes' /\ ObjectTypes' /\ UpstreamTypes'
    BY <1>1, <1>2, <1>29 DEF GatewayTypes, ClientTypes, QueueTypes, NetTypes, ObjectTypes, UpstreamTypes, Setup
  <2> QED
    BY <2>1, <2>2
<1>30. CASE Got1xxResponse
  <2>1. NetTypes'
    BY <1>1, <1>2, <1>3, <1>4, <1>30 DEF NetTypes, Got1xxResponse, AgentSend
  <2>2. GatewayTypes' /\ ClientTypes' /\ QueueTypes' /\ ObjectTypes' /\ AgentTypes' /\ UpstreamTypes'
    BY <1>1, <1>2, <1>30 DEF GatewayTypes, ClientTypes, QueueTypes, ObjectTypes, AgentTypes, UpstreamTypes, Got1xxResponse
  <2> QED
    BY <2>1, <2>2
<1>31. CASE DoFails
  <2>1. NetTypes'
    BY <1>1, <1>2, <1>3, <1>4, <1>31 DEF NetTypes, DoFails, HttpReturns, Forgotten
  <2>2. ObjectTypes'
    BY <1>1, <1>2, <1>3, <1>4, <1>31 DEF ObjectTypes, DoFails, HttpReturns, Forgotten
  <2>3. AgentTypes'
    BY <1>1, <1>2, <1>3, <1>4, <1>31 DEF AgentTypes, DoFails, HttpReturns, Forgotten
  <2>4. UpstreamTypes'
    BY <1>1, <1>2, <1>3, <1>4, <1>31 DEF UpstreamTypes, DoFails, HttpReturns, Forgotten
  <2>5. GatewayTypes' /\ ClientTypes' /\ QueueTypes'
    BY <1>1, <1>2, <1>31 DEF GatewayTypes, ClientTypes, QueueTypes, DoFails
  <2> QED
    BY <2>1, <2>2, <2>3, <2>4, <2>5
<1>32. CASE DoReturns
  <2>1. NetTypes'
    BY <1>1, <1>2, <1>3, <1>4, <1>32 DEF NetTypes, DoReturns, AgentSend, RespondOr, HttpReturns, Forgotten
  <2>2. ObjectTypes'
    BY <1>1, <1>2, <1>3, <1>4, <1>32 DEF ObjectTypes, DoReturns, AgentSend, RespondOr, HttpReturns, Forgotten
  <2>3. AgentTypes'
    BY <1>1, <1>2, <1>3, <1>4, <1>32 DEF AgentTypes, DoReturns, AgentSend, RespondOr, HttpReturns, Forgotten
  <2>4. GatewayTypes' /\ ClientTypes' /\ QueueTypes' /\ UpstreamTypes'
    BY <1>1, <1>2, <1>32 DEF GatewayTypes, ClientTypes, QueueTypes, UpstreamTypes, DoReturns
  <2> QED
    BY <2>1, <2>2, <2>3, <2>4
<1>33. CASE CopyResponse
  <2>1. NetTypes'
    BY <1>1, <1>2, <1>3, <1>4, <1>33 DEF NetTypes, UpstreamTypes, CopyResponse, AgentSend, RespondOr, HttpReturns, Forgotten
  <2>2. ObjectTypes'
    BY <1>1, <1>2, <1>3, <1>4, <1>33 DEF ObjectTypes, CopyResponse, AgentSend, RespondOr, HttpReturns, Forgotten
  <2>3. AgentTypes'
    BY <1>1, <1>2, <1>3, <1>4, <1>33 DEF AgentTypes, CopyResponse, AgentSend, RespondOr, HttpReturns, Forgotten
  <2>4. UpstreamTypes'
    BY <1>1, <1>2, <1>3, <1>4, <1>33 DEF UpstreamTypes, CopyResponse, AgentSend, RespondOr, HttpReturns, Forgotten
  <2>5. GatewayTypes' /\ ClientTypes' /\ QueueTypes'
    BY <1>1, <1>2, <1>33 DEF GatewayTypes, ClientTypes, QueueTypes, CopyResponse
  <2> QED
    BY <2>1, <2>2, <2>3, <2>4, <2>5
<1>34. CASE ResponseEnds
  <2>1. AgentTypes'
    BY <1>1, <1>2, <1>3, <1>4, <1>34 DEF AgentTypes, ResponseEnds
  <2>2. UpstreamTypes'
    BY <1>1, <1>2, <1>3, <1>4, <1>34 DEF UpstreamTypes, ResponseEnds
  <2>3. GatewayTypes' /\ ClientTypes' /\ QueueTypes' /\ NetTypes' /\ ObjectTypes'
    BY <1>1, <1>2, <1>34 DEF GatewayTypes, ClientTypes, QueueTypes, NetTypes, ObjectTypes, ResponseEnds
  <2> QED
    BY <2>1, <2>2, <2>3
<1>35. CASE SendResTrailer
  <2>1. NetTypes'
    BY <1>1, <1>2, <1>3, <1>4, <1>35 DEF NetTypes, SendResTrailer, AgentSend, RespondOr, HttpReturns, Forgotten
  <2>2. ObjectTypes'
    BY <1>1, <1>2, <1>3, <1>4, <1>35 DEF ObjectTypes, SendResTrailer, AgentSend, RespondOr, HttpReturns, Forgotten
  <2>3. AgentTypes'
    BY <1>1, <1>2, <1>3, <1>4, <1>35 DEF AgentTypes, SendResTrailer, AgentSend, RespondOr, HttpReturns, Forgotten
  <2>4. GatewayTypes' /\ ClientTypes' /\ QueueTypes' /\ UpstreamTypes'
    BY <1>1, <1>2, <1>35 DEF GatewayTypes, ClientTypes, QueueTypes, UpstreamTypes, SendResTrailer
  <2> QED
    BY <2>1, <2>2, <2>3, <2>4
<1>36. CASE SendResEnd
  <2>1. NetTypes'
    BY <1>1, <1>2, <1>3, <1>4, <1>36 DEF NetTypes, SendResEnd, AgentSend
  <2>2. AgentTypes'
    BY <1>1, <1>2, <1>3, <1>4, <1>36 DEF AgentTypes, SendResEnd, AgentSend
  <2>3. GatewayTypes' /\ ClientTypes' /\ QueueTypes' /\ ObjectTypes' /\ UpstreamTypes'
    BY <1>1, <1>2, <1>36 DEF GatewayTypes, ClientTypes, QueueTypes, ObjectTypes, UpstreamTypes, SendResEnd
  <2> QED
    BY <2>1, <2>2, <2>3
<1>37. CASE WaitBody
  <2>1. ObjectTypes'
    BY <1>1, <1>2, <1>3, <1>4, <1>37 DEF ObjectTypes, WaitBody, HttpReturns, Forgotten
  <2>2. AgentTypes'
    BY <1>1, <1>2, <1>3, <1>4, <1>37 DEF AgentTypes, WaitBody, HttpReturns, Forgotten
  <2>3. GatewayTypes' /\ ClientTypes' /\ QueueTypes' /\ NetTypes' /\ UpstreamTypes'
    BY <1>1, <1>2, <1>37 DEF GatewayTypes, ClientTypes, QueueTypes, NetTypes, UpstreamTypes, WaitBody
  <2> QED
    BY <2>1, <2>2, <2>3
<1>38. CASE ClientGoes
  <2>1. NetTypes'
    BY <1>1, <1>2, <1>3, <1>4, <1>38 DEF NetTypes, ClientGoes
  <2>2. GatewayTypes' /\ ClientTypes' /\ QueueTypes' /\ ObjectTypes' /\ AgentTypes' /\ UpstreamTypes'
    BY <1>1, <1>2, <1>38 DEF GatewayTypes, ClientTypes, QueueTypes, ObjectTypes, AgentTypes, UpstreamTypes, ClientGoes
  <2> QED
    BY <2>1, <2>2
<1>39. CASE TunnelBreaks
  <2>1. NetTypes'
    <3>1. PICK k \in 0..Len(a2g) : a2g' = SubSeq(a2g, 1, k)
      BY <1>39 DEF TunnelBreaks
    <3>2. a2g' \in Seq(Frames) /\ <<>> \in Seq(Frames)
      BY <1>2, <3>1 DEF NetTypes
    <3> QED
      BY <1>1, <1>2, <1>39, <3>2 DEF NetTypes, TunnelBreaks
  <2>2. GatewayTypes' /\ ClientTypes' /\ QueueTypes' /\ ObjectTypes' /\ AgentTypes' /\ UpstreamTypes'
    BY <1>1, <1>2, <1>39 DEF GatewayTypes, ClientTypes, QueueTypes, ObjectTypes, AgentTypes, UpstreamTypes, TunnelBreaks
  <2> QED
    BY <2>1, <2>2
<1>40. CASE UpstreamReads
  <2>1. AgentTypes'
    BY <1>1, <1>2, <1>3, <1>4, <1>40 DEF AgentTypes, UpstreamReads
  <2>2. UpstreamTypes'
    <3>1. chunk \in 1..NReq /\ uGot \in Seq(1..NReq)
      <4>1. uGot \in Seq(1..NReq) /\ chunk \in 0..NReq /\ chunk = Len(uGot) + 1
        BY <1>2, <1>40 DEF UpstreamTypes, AgentTypes, BodyDone, UpstreamReads
      <4> QED
        BY <4>1
    <3>2. Append(uGot, chunk) \in Seq(1..NReq)
      BY <3>1, AppendFacts
    <3> QED
      BY <1>1, <1>2, <1>40, <3>2 DEF UpstreamTypes, UpstreamReads
  <2>3. GatewayTypes' /\ ClientTypes' /\ QueueTypes' /\ NetTypes' /\ ObjectTypes'
    BY <1>1, <1>2, <1>40 DEF GatewayTypes, ClientTypes, QueueTypes, NetTypes, ObjectTypes, UpstreamReads
  <2> QED
    BY <2>1, <2>2, <2>3
<1>41. CASE UpstreamSeesEnd
  <2>1. UpstreamTypes'
    BY <1>1, <1>2, <1>3, <1>4, <1>41 DEF UpstreamTypes, UpstreamSeesEnd
  <2>2. GatewayTypes' /\ ClientTypes' /\ QueueTypes' /\ NetTypes' /\ ObjectTypes' /\ AgentTypes'
    BY <1>1, <1>2, <1>41 DEF GatewayTypes, ClientTypes, QueueTypes, NetTypes, ObjectTypes, AgentTypes, UpstreamSeesEnd
  <2> QED
    BY <2>1, <2>2
<1>42. CASE UNCHANGED vars
  BY <1>1, <1>2, <1>42 DEF vars, GatewayTypes, ClientTypes, QueueTypes, NetTypes, ObjectTypes, AgentTypes, UpstreamTypes
<1> QED
  BY StepCases, <1>5, <1>6, <1>7, <1>8, <1>9, <1>10, <1>11, <1>12, <1>13, <1>14, <1>15, <1>16, <1>17, <1>18, <1>19, <1>20, <1>21, <1>22, <1>23, <1>24, <1>25, <1>26, <1>27, <1>28, <1>29, <1>30, <1>31, <1>32, <1>33, <1>34, <1>35, <1>36, <1>37, <1>38, <1>39, <1>40, <1>41, <1>42

-----------------------------------------------------------------------------
(* What the steps do to the line of request frames.                        *)

\* The queues hold frames.
LEMMA FeedTypes ==
  ASSUME TypeOK
  PROVE  /\ g2a \in Seq(Frames)
         /\ \A o \in Objs : arx[o] \in Seq(Frames) /\ Feed(o) \in Seq(Frames)
         /\ \A o \in Objs : amap = o => Feed(o) = arx[o] \o g2a
         /\ \A o \in Objs : amap # o => Feed(o) = arx[o]
<1>1. g2a \in Seq(Frames) /\ \A o \in Objs : arx[o] \in Seq(Frames)
  BY DEF TypeOK
<1>2. \A o \in Objs : arx[o] \o g2a \in Seq(Frames)
  BY <1>1, ConcatFacts
<1> QED
  BY <1>1, <1>2 DEF Feed

\* Where the body goroutine runs there is an object.
LEMMA MainRuns ==
  ASSUME TypeOK, ObjectsOK, BodyRuns
  PROVE  main \in Objs /\ ast[main] = "http"
BY DEF TypeOK, ObjectsOK, BodyRuns

\* What may follow a frame stays allowed: only badBody changes, and only to TRUE.
LEMMA OrderGrows ==
  ASSUME [Next]_vars, badBody => badBody'
  PROVE  ReqOrder \subseteq ReqOrder'
BY ScenarioStays DEF ReqOrder, ReqNext, BodyBefore

\* The frames do not move: the handler, or the body goroutine, goes on alone.
LEMMA LinesKept ==
  ASSUME TypeOK, ObjectsOK, ReqLines, BodyFront, [Next]_vars,
         UNCHANGED <<g2a, arx, amap>>,
         badBody => badBody',
         BodyRuns' => BodyRuns /\ main' = main /\ Taken' = Taken,
         Sending' => /\ Sending /\ Written' = Written
                     /\ gpc = "reqEnd" => gpc' = "reqEnd"
  PROVE  ReqLines' /\ BodyFront'
<1>1. ReqOrder \subseteq ReqOrder' /\ NReq' = NReq
  BY OrderGrows, ScenarioStays
<1>2. \A o : Feed(o)' = Feed(o)
  BY DEF Feed
<1>3. ReqLines'
  <2>1. Chain(g2a, ReqOrder)' /\ \A o \in Objs : Chain(Feed(o), ReqOrder)'
    BY <1>1, <1>2 DEF ReqLines, Chain
  <2>2. \A f : Sending' /\ LastOK(f) => LastOK(f)'
    BY DEF LastOK, Sending
  <2> QED
    BY <1>2, <2>1, <2>2 DEF ReqLines, Last, LastOK
<1>4. BodyFront'
  BY <1>1, <1>2 DEF BodyFront, HeadOK
<1> QED
  BY <1>3, <1>4

\* A frame f is written to the tunnel.
LEMMA LinesAppend ==
  ASSUME TypeOK, ObjectsOK, ReqLines, BodyFront, [Next]_vars,
         NEW f \in Frames, g2a' = Append(g2a, f),
         UNCHANGED <<arx, amap, badBody, main, bpc, uGot>>,
         \/ g2a = <<>> /\ amap = None
         \/ \A x \in Frames : (Sending => LastOK(x)) => ReqNext(x, f),
         Sending' => LastOK(f)',
         BodyRuns /\ amap = main /\ (Sending => badBody \/ Taken = Written) => HeadOK(f)
  PROVE  ReqLines' /\ BodyFront'
<1>1. ReqOrder' = ReqOrder /\ NReq' = NReq
  BY ScenarioStays DEF ReqOrder, ReqNext, BodyBefore
<1>2. /\ g2a \in Seq(Frames)
      /\ \A o \in Objs : arx[o] \in Seq(Frames) /\ Feed(o) \in Seq(Frames)
      /\ \A o \in Objs : amap = o => Feed(o) = arx[o] \o g2a
      /\ \A o \in Objs : amap # o => Feed(o) = arx[o]
  BY FeedTypes
<1>3. ASSUME NEW o \in Objs, amap = o PROVE Feed(o)' = Append(Feed(o), f)
  <2>1. arx[o] \o Append(g2a, f) = Append(arx[o] \o g2a, f)
    <3>1. arx[o] \in Seq(Frames) /\ g2a \in Seq(Frames)
      BY <1>2
    <3>2. f \in Frames
      OBVIOUS
    <3> DEFINE s == arx[o]
    <3>3. s \in Seq(Frames)
      BY <3>1
    <3> HIDE DEF s
    <3>4. s \o Append(g2a, f) = Append(s \o g2a, f)
      BY <3>1, <3>2, <3>3, AppendConcat
    <3> QED
      BY <3>4 DEF s
  <2> QED
    BY <1>3, <2>1 DEF Feed
<1>4. \A o : amap # o => Feed(o)' = Feed(o)
  BY DEF Feed
<1>5. None \notin Objs
  BY RelayAssumption
<1>6. ASSUME NEW q \in Seq(Frames), Chain(q, ReqOrder), Sending /\ q # <<>> => LastOK(Last(q)),
             q = g2a \/ amap # None
      PROVE  Chain(Append(q, f), ReqOrder) /\ Last(Append(q, f)) = f
  <2>1. q # <<>> => Last(q) \in Frames
    BY EmptyFacts DEF Last
  <2>2. q # <<>> => <<Last(q), f>> \in ReqOrder
    BY <1>6, <2>1 DEF ReqOrder
  <2> QED
    BY <1>6, <2>2, ChainAppend
<1>7. Chain(g2a, ReqOrder)' /\ Last(g2a)' = f
  BY <1>1, <1>2, <1>6 DEF ReqLines, Chain, Last
<1>8. ASSUME NEW o \in Objs PROVE Chain(Feed(o), ReqOrder)' /\ (amap' = o => Last(Feed(o))' = f)
  <2>1. CASE amap # o
    BY <1>1, <1>4, <2>1 DEF ReqLines, Chain
  <2>2. CASE amap = o
    <3>1. Chain(Append(Feed(o), f), ReqOrder) /\ Last(Append(Feed(o), f)) = f
      BY <1>2, <1>5, <1>6, <2>2 DEF ReqLines
    <3> QED
      BY <1>1, <1>3, <2>2, <3>1 DEF Chain, Last
  <2> QED
    BY <2>1, <2>2
<1>9. ReqLines'
  BY <1>7, <1>8 DEF ReqLines, LastOK, Last
<1>10. BodyFront'
  <2>1. Taken' = Taken /\ BodyRuns' = BodyRuns /\ (HeadOK(f) => HeadOK(f)')
    BY <1>1 DEF Taken, BodyRuns, HeadOK
  <2>2. CASE ~BodyRuns
    BY <2>1, <2>2 DEF BodyFront
  <2>3. CASE BodyRuns /\ amap # main
    BY <1>1, <1>4, <2>1, <2>3 DEF BodyFront, HeadOK
  <2>4. CASE BodyRuns /\ amap = main
    <3>1. main \in Objs
      BY <2>4, MainRuns
    <3>2. Feed(main)' = Append(Feed(main), f) /\ Feed(main) \in Seq(Frames)
      BY <1>2, <1>3, <2>4, <3>1
    <3>3. /\ Append(Feed(main), f) # <<>>
          /\ Feed(main) # <<>> => Append(Feed(main), f)[1] = Feed(main)[1]
          /\ Feed(main) = <<>> => Append(Feed(main), f)[1] = f
      BY <3>2, AppendFacts, EmptyFacts
    <3>4. Feed(main) # <<>> => HeadOK(Feed(main)[1])
      BY <2>4 DEF BodyFront
    <3>5. Feed(main) = <<>> => HeadOK(f)
      BY <2>4 DEF BodyFront
    <3>6. HeadOK(Append(Feed(main), f)[1])
      BY <3>3, <3>4, <3>5
    <3> QED
      BY <1>1, <2>1, <3>2, <3>3, <3>6 DEF BodyFront, HeadOK
  <2> QED
    BY <2>2, <2>3, <2>4
<1> QED
  BY <1>9, <1>10


\* An object's stream is forgotten, its queue dropped, or the tunnel is lost:
\* every feed is cut behind what is in the object's queue.
LEMMA LinesCut ==
  ASSUME TypeOK, ObjectsOK, ReqLines, BodyFront, [Next]_vars,
         \A o \in Objs : Feed(o)' \in {arx[o], <<>>},
         amap' = None \/ ~up',
         \/ g2a' = g2a
         \/ g2a # <<>> /\ g2a' = Tail(g2a)
         \/ g2a' = <<>> /\ ~up',
         UNCHANGED <<gpc, pend, sent, badBody>>, up' => up,
         BodyRuns' => BodyRuns /\ main' = main /\ Taken' = Taken
  PROVE  ReqLines' /\ BodyFront'
<1>1. ReqOrder' = ReqOrder /\ NReq' = NReq /\ Written' = Written
  BY ScenarioStays DEF ReqOrder, ReqNext, BodyBefore, Written
<1>2. /\ g2a \in Seq(Frames)
      /\ \A o \in Objs : arx[o] \in Seq(Frames) /\ Feed(o) \in Seq(Frames)
      /\ \A o \in Objs : amap = o => Feed(o) = arx[o] \o g2a
      /\ \A o \in Objs : amap # o => Feed(o) = arx[o]
  BY FeedTypes
<1>3. \A R : Chain(<<>>, R)
  BY DEF Chain
<1>4. ASSUME NEW o \in Objs
      PROVE  /\ Chain(arx[o], ReqOrder)
             /\ arx[o] # <<>> => Feed(o) # <<>> /\ Feed(o)[1] = arx[o][1]
  <2>1. CASE amap = o
    <3>1. Chain(arx[o] \o g2a, ReqOrder)
      BY <1>2, <2>1 DEF ReqLines
    <3> QED
      BY <1>2, <2>1, <3>1, ChainFront
  <2>2. CASE amap # o
    BY <1>2, <2>2 DEF ReqLines
  <2> QED
    BY <2>1, <2>2
<1>5. ReqLines'
  <2>1. Chain(g2a, ReqOrder)' /\ (up' /\ g2a' # <<>> => g2a # <<>> /\ Last(g2a') = Last(g2a))
    <3>1. CASE g2a # <<>> /\ g2a' = Tail(g2a)
      BY <1>1, <1>2, <3>1, ChainTail DEF ReqLines, Chain
    <3>2. CASE ~(g2a # <<>> /\ g2a' = Tail(g2a))
      BY <1>1, <1>3, <3>2 DEF ReqLines, Chain
    <3> QED
      BY <3>1, <3>2
  <2>2. \A o \in Objs : Chain(Feed(o), ReqOrder)'
    BY <1>1, <1>3, <1>4 DEF Chain
  <2>3. (Sending /\ g2a # <<>> => LastOK(Last(g2a)))'
    BY <1>1, <2>1 DEF ReqLines, LastOK, Last, Sending
  <2>4. \A o \in Objs : (amap # o \/ ~Sending)'
    BY RelayAssumption DEF Sending
  <2> QED
    BY <2>1, <2>2, <2>3, <2>4 DEF ReqLines
<1>6. BodyFront'
  <2> SUFFICES ASSUME BodyRuns' PROVE BodyFront'
    BY DEF BodyFront
  <2>1. main \in Objs /\ main' = main /\ BodyRuns /\ Taken' = Taken
    BY MainRuns
  <2>2. Feed(main)' \in {arx[main], <<>>}
    BY <2>1 DEF Feed
  <2>3. (amap # main \/ ~Sending)'
    BY <2>1, RelayAssumption DEF Sending
  <2>4. Feed(main)' # <<>> => HeadOK(Feed(main)'[1])
    BY <1>4, <2>1, <2>2 DEF BodyFront
  <2> QED
    BY <1>1, <2>1, <2>3, <2>4 DEF BodyFront, HeadOK
<1> QED
  BY <1>5, <1>6

\* The agent's readLoop moves a frame from the tunnel to an object's queue.
LEMMA LinesDelivered ==
  ASSUME TypeOK, ObjectsOK, ReqLines, BodyFront, [Next]_vars,
         NEW o \in Objs, g2a # <<>>, g2a' = Tail(g2a),
         amap = o \/ (amap = None /\ ast[o] = "free"),
         arx' = [arx EXCEPT ![o] = Append(@, Head(g2a))], amap' = o,
         UNCHANGED <<gpc, pend, sent, badBody, up, main, bpc, uGot>>
  PROVE  ReqLines' /\ BodyFront'
<1>1. /\ ReqOrder' = ReqOrder /\ NReq' = NReq /\ Written' = Written
      /\ Taken' = Taken /\ BodyRuns' = BodyRuns /\ Sending' = Sending
  BY ScenarioStays DEF ReqOrder, ReqNext, BodyBefore, Written, Taken, BodyRuns, Sending
<1>2. /\ g2a \in Seq(Frames)
      /\ \A p \in Objs : arx[p] \in Seq(Frames) /\ Feed(p) \in Seq(Frames)
      /\ \A p \in Objs : amap = p => Feed(p) = arx[p] \o g2a
      /\ \A p \in Objs : amap # p => Feed(p) = arx[p]
  BY FeedTypes
<1>3. \A f : LastOK(f)' <=> LastOK(f)
  BY <1>1 DEF LastOK
<1>4. \A f : HeadOK(f)' <=> HeadOK(f)
  BY <1>1 DEF HeadOK
<1>5. Feed(o)' = arx[o] \o g2a
  <2>1. Append(arx[o], Head(g2a)) \o Tail(g2a) = arx[o] \o g2a
    BY <1>2, MoveHead
  <2>2. arx'[o] = Append(arx[o], Head(g2a))
    BY DEF TypeOK
  <2> QED
    BY <2>1, <2>2 DEF Feed
<1>6. \A p \in Objs \ {o} : Feed(p)' = arx[p] /\ Feed(p) = arx[p] /\ amap # p
  BY <1>2, RelayAssumption DEF Feed, TypeOK
<1>7. (Feed(o)' = Feed(o) /\ amap = o) \/ (Feed(o)' = g2a /\ ast[o] = "free")
  <2>1. CASE amap = o
    <3>1. Feed(o) = arx[o] \o g2a
      BY <1>2, <2>1
    <3> QED
      BY <1>5, <2>1, <3>1
  <2>2. CASE amap = None /\ ast[o] = "free"
    BY <1>2, <1>5, <2>2, EmptyConcat DEF ObjectsOK
  <2> QED
    BY <2>1, <2>2
<1>8. /\ Tail(g2a) \in Seq(Frames) /\ Chain(Tail(g2a), ReqOrder)
      /\ Tail(g2a) # <<>> => Last(Tail(g2a)) = Last(g2a)
  BY <1>2, ChainTail DEF ReqLines
<1>9. ReqLines'
  <2>1. Chain(g2a, ReqOrder)' /\ (Sending /\ g2a # <<>> => LastOK(Last(g2a)))'
    BY <1>1, <1>3, <1>8 DEF ReqLines, Chain, Last, LastOK
  <2>2. Chain(Feed(o), ReqOrder)' /\ (Sending /\ Feed(o) # <<>> => LastOK(Last(Feed(o))))'
    BY <1>1, <1>3, <1>7 DEF ReqLines, Chain, Last, LastOK
  <2>3. \A p \in Objs \ {o} : Chain(Feed(p), ReqOrder)'
    BY <1>1, <1>6 DEF ReqLines, Chain
  <2> QED
    BY <2>1, <2>2, <2>3 DEF ReqLines
<1>10. BodyFront'
  <2> SUFFICES ASSUME BodyRuns PROVE BodyFront'
    BY <1>1 DEF BodyFront
  <2>1. main \in Objs /\ ast[main] = "http"
    BY MainRuns
  <2>2. Feed(main)' = Feed(main) /\ (amap' = main => amap = main)
    BY <1>6, <1>7, <2>1
  <2> QED
    BY <1>1, <2>2 DEF BodyFront, HeadOK
<1> QED
  BY <1>9, <1>10

\* An object takes the first frame of its queue.
LEMMA LinesTaken ==
  ASSUME TypeOK, ReqLines, [Next]_vars,
         NEW o \in Objs, arx[o] # <<>>, arx' = [arx EXCEPT ![o] = Tail(@)],
         UNCHANGED <<gpc, pend, sent, badBody, up, g2a, amap>>
  PROVE  /\ ReqLines'
         /\ Feed(o) # <<>> /\ Feed(o)[1] = arx[o][1] /\ Head(arx[o]) = arx[o][1]
         /\ arx[o][1] \in Frames
         /\ Feed(o)' # <<>> => <<arx[o][1], Feed(o)'[1]>> \in ReqOrder
         /\ Feed(o)' = <<>> => Last(Feed(o)) = arx[o][1]
<1>1. /\ ReqOrder' = ReqOrder /\ Written' = Written /\ Sending' = Sending
  BY ScenarioStays DEF ReqOrder, ReqNext, BodyBefore, Written, Sending
<1>2. /\ g2a \in Seq(Frames)
      /\ \A p \in Objs : arx[p] \in Seq(Frames) /\ Feed(p) \in Seq(Frames)
      /\ \A p \in Objs : amap = p => Feed(p) = arx[p] \o g2a
      /\ \A p \in Objs : amap # p => Feed(p) = arx[p]
  BY FeedTypes
<1>3. \A f : LastOK(f)' <=> LastOK(f)
  BY <1>1 DEF LastOK
<1>4. arx'[o] = Tail(arx[o])
  BY DEF TypeOK
<1>5. Feed(o)' = Tail(Feed(o)) /\ Feed(o) # <<>> /\ Feed(o)[1] = arx[o][1]
  <2>1. CASE amap = o
    BY <1>2, <1>4, <2>1, TailConcat DEF Feed
  <2>2. CASE amap # o
    BY <1>2, <1>4, <2>2 DEF Feed
  <2> QED
    BY <2>1, <2>2
<1>6. \A p \in Objs \ {o} : Feed(p)' = Feed(p)
  BY DEF Feed, TypeOK
<1>7. Head(arx[o]) = arx[o][1] /\ arx[o][1] \in Frames
  BY <1>2, TailFacts
<1>8. Chain(Feed(o), ReqOrder)
  BY DEF ReqLines
<1>9. /\ Chain(Tail(Feed(o)), ReqOrder)
      /\ Tail(Feed(o)) # <<>> => /\ Last(Tail(Feed(o))) = Last(Feed(o))
                                 /\ <<Feed(o)[1], Tail(Feed(o))[1]>> \in ReqOrder
      /\ Tail(Feed(o)) = <<>> => Last(Feed(o)) = Feed(o)[1]
  BY <1>2, <1>5, <1>8, ChainTail
<1>10. Chain(Feed(o), ReqOrder)' /\ (Sending /\ amap = o /\ Feed(o) # <<>> => LastOK(Last(Feed(o))))'
  BY <1>1, <1>3, <1>5, <1>9 DEF ReqLines, Chain, Last, LastOK
<1>11. \A p \in Objs \ {o} : /\ Chain(Feed(p), ReqOrder)'
                             /\ (Sending /\ amap = p /\ Feed(p) # <<>> => LastOK(Last(Feed(p))))'
  BY <1>1, <1>3, <1>6 DEF ReqLines, Chain, Last, LastOK
<1>12. Chain(g2a, ReqOrder)' /\ (Sending /\ g2a # <<>> => LastOK(Last(g2a)))'
  BY <1>1, <1>3 DEF ReqLines, Chain, Last, LastOK
<1>13. ReqLines'
  BY <1>10, <1>11, <1>12 DEF ReqLines
<1> QED
  BY <1>5, <1>7, <1>9, <1>13


-----------------------------------------------------------------------------
(* The gateway's handler.                                                  *)

\* The handler sends what its place says, and reads the body before its end.
LEMMA HandlerStep ==
  ASSUME TypeOK, PendOK, BodyRead, [Next]_vars
  PROVE  PendOK' /\ BodyRead'
<1>1. NReq' = NReq /\ NReq \in Nat
  BY ScenarioStays, FrameFacts DEF TypeOK
<1>2. sent \in Nat /\ sent <= NReq
  BY <1>1 DEF TypeOK
<1>3. CASE HandlerWrite
  BY <1>1, <1>2, <1>3 DEF PendOK, BodyRead, HandlerWrite
<1>4. CASE SendReqStart
  BY <1>1, <1>2, <1>4 DEF PendOK, BodyRead, SendReqStart, Send, Idle
<1>5. CASE RefuseLarge
  BY <1>1, <1>2, <1>5 DEF PendOK, BodyRead, RefuseLarge, Send, Idle
<1>6. CASE StartWatcher
  BY <1>1, <1>2, <1>6 DEF PendOK, BodyRead, StartWatcher, gw
<1>7. CASE ReadBody
  BY <1>1, <1>2, <1>7 DEF PendOK, BodyRead, ReadBody, Send, InBody, Idle
<1>8. CASE BodyTooLarge
  BY <1>1, <1>2, <1>8 DEF PendOK, BodyRead, BodyTooLarge, Send, Idle, InBody
<1>9. CASE BodyEnds
  BY <1>1, <1>2, <1>9 DEF PendOK, BodyRead, BodyEnds, Idle, InBody
<1>10. CASE SendTrailer
  BY <1>1, <1>2, <1>10 DEF PendOK, BodyRead, SendTrailer, Send, Idle
<1>11. CASE SendReqEnd
  BY <1>1, <1>2, <1>11 DEF PendOK, BodyRead, SendReqEnd, Send, Idle
<1>12. CASE RecvHead
  BY <1>1, <1>2, <1>12 DEF PendOK, BodyRead, RecvHead, Send, Idle
<1>13. CASE RecvData
  BY <1>1, <1>2, <1>13 DEF PendOK, BodyRead, RecvData, Send, Idle
<1>14. CASE RecvFails
  BY <1>1, <1>2, <1>14 DEF PendOK, BodyRead, RecvFails, Send, Idle
<1>15. CASE HandlerReturns
  BY <1>1, <1>2, <1>15 DEF PendOK, BodyRead, HandlerReturns, CloseStream, Idle
<1>16. CASE ForgetStream \/ Watcher \/ GatewayReads \/ SendReset \/ GatewayDisconnects
          \/ AgentReads \/ (\E o \in Objs : FirstFrame(o)) \/ AgentDisconnects \/
          BodyQuits \/ BodyFrame \/ BodyWriteFails \/ Setup \/ Got1xxResponse \/ DoFails
          \/ DoReturns \/ CopyResponse \/ ResponseEnds \/ SendResTrailer \/ SendResEnd
          \/ WaitBody \/ ClientGoes \/ TunnelBreaks \/ UpstreamReads \/ UpstreamSeesEnd
          \/ UNCHANGED vars
  <2>1. UNCHANGED gw
    BY <1>16 DEF ForgetStream, Watcher, GatewayReads, SendReset, GatewayDisconnects,
           AgentReads, FirstFrame, AgentDisconnects, BodyQuits, BodyFrame,
           BodyWriteFails, Setup, Got1xxResponse, DoFails, DoReturns, CopyResponse,
           ResponseEnds, SendResTrailer, SendResEnd, WaitBody, ClientGoes, TunnelBreaks,
           UpstreamReads, UpstreamSeesEnd, vars
  <2> QED
    BY <1>1, <2>1 DEF PendOK, BodyRead, gw
<1> QED   BY StepCases, <1>3, <1>4, <1>5, <1>6, <1>7, <1>8, <1>9, <1>10, <1>11, <1>12,
     <1>13, <1>14, <1>15, <1>16

-----------------------------------------------------------------------------
(* The agent's objects.                                                    *)

\* An object's own queue is in order, and nothing comes before TReqStart.
LEMMA QueueInOrder ==
  ASSUME TypeOK, ReqLines, NEW o \in Objs
  PROVE  /\ arx[o] \in Seq(Frames) /\ Chain(arx[o], ReqOrder)
         /\ arx[o] # <<>> => Feed(o) # <<>> /\ Feed(o)[1] = arx[o][1]
<1>1. /\ g2a \in Seq(Frames) /\ arx[o] \in Seq(Frames)
      /\ amap = o => Feed(o) = arx[o] \o g2a
      /\ amap # o => Feed(o) = arx[o]
  BY FeedTypes
<1>2. CASE amap = o
  <2>1. Chain(arx[o] \o g2a, ReqOrder)
    BY <1>1, <1>2 DEF ReqLines
  <2> QED
    BY <1>1, <1>2, <2>1, ChainFront
<1>3. CASE amap # o
  BY <1>1, <1>3 DEF ReqLines
<1> QED
  BY <1>2, <1>3

\* TReqStart is the head of its queue or nowhere in it.
LEMMA NoSecondStart ==
  ASSUME NEW q \in Seq(Frames), Chain(q, ReqOrder), q # <<>>
  PROVE  ~HasStart(Tail(q))
<1>1. Tail(q) # <<>> => <<q[1], Tail(q)[1]>> \in ReqOrder
  BY ChainTail
<1>2. ASSUME NEW f, NEW h, <<f, h>> \in ReqOrder PROVE h.t # "ReqStart"
  BY <1>2 DEF ReqOrder, ReqNext
<1> QED
  BY <1>1, <1>2 DEF HasStart

\* Until TReqStart is written nothing happens but that the stream is lost.
LEMMA UntouchedStep ==
  ASSUME TypeOK, PendOK, Untouched, ObjectsOK, [Next]_vars
  PROVE  Untouched'
<1> SUFFICES ASSUME gpc' = "start" PROVE Untouched'
  BY DEF Untouched
<1>1. CASE HandlerWrite
  BY <1>1 DEF PendOK, HandlerWrite
<1>2. CASE SendReqStart \/ RefuseLarge \/ StartWatcher \/ ReadBody \/ BodyTooLarge \/
          BodyEnds \/ SendTrailer \/ SendReqEnd \/ RecvHead \/ RecvData \/ RecvFails \/
          HandlerReturns
  BY <1>2 DEF Untouched, SendReqStart, Send, RefuseLarge, StartWatcher, ReadBody,
         InBody, BodyTooLarge, BodyEnds, SendTrailer, SendReqEnd, RecvHead, RecvData,
         RecvFails, HandlerReturns, CloseStream, gw, gs, wat, net, ags, ag, ups, Idle
<1>3. CASE ForgetStream \/ GatewayReads \/ SendReset \/ GatewayDisconnects \/ Watcher \/
          TunnelBreaks \/ ClientGoes \/ UNCHANGED vars
  <2>1. gpc = "start"
    BY <1>3 DEF ForgetStream, GatewayReads, SendReset, GatewayDisconnects, Watcher,
           TunnelBreaks, ClientGoes, gw, gs, wat, net, ags, ag, ups, vars
  <2>2. g2a = <<>> /\ a2g = <<>> /\ ~grst /\ watch = "off" /\ main = None /\ amap = None
        /\ \A o \in Objs : ast[o] = "free"
    BY <2>1 DEF Untouched
  <2>3. \A k \in 0..Len(a2g) : SubSeq(a2g, 1, k) = <<>>
    BY <2>2
  <2> QED
    BY <1>3, <2>2, <2>3 DEF Untouched, ForgetStream, GatewayReads, Deliver,
           SendReset, GatewayDisconnects, Watcher, CloseStream, TunnelBreaks,
           ClientGoes, gw, gs, wat, net, ags, ag, ups, vars
<1>4. CASE AgentReads \/ (\E o \in Objs : FirstFrame(o)) \/ AgentDisconnects \/
          BodyQuits \/ BodyFrame \/ BodyWriteFails \/ Setup \/ Got1xxResponse \/ DoFails
          \/ DoReturns \/ CopyResponse \/ ResponseEnds \/ SendResTrailer \/ SendResEnd
          \/ WaitBody \/ UpstreamReads \/ UpstreamSeesEnd
  <2>1. gpc = "start"
    BY <1>4 DEF AgentReads, FirstFrame, AgentDisconnects, BodyQuits, BodyFrame,
           BodyWriteFails, Setup, Got1xxResponse, DoFails, DoReturns, CopyResponse,
           ResponseEnds, SendResTrailer, SendResEnd, WaitBody, UpstreamReads,
           UpstreamSeesEnd, gw, gs, wat, net, ags, ag, ups
  <2>2. /\ g2a = <<>> /\ main = None /\ amap = None /\ bpc = "off" /\ hpc = "off"
        /\ \A o \in Objs : ast[o] = "free"
    BY <2>1 DEF Untouched, ObjectsOK
  <2> QED
    BY <1>4, <2>2 DEF Untouched, AgentReads, DeliverFrame, AgentSend,
           Forgotten, FirstFrame, StreamReturns, AgentDisconnects, BodyQuits, BodyFrame,
           BodyWriteFails, Setup, Got1xxResponse, DoFails, HttpReturns, DoReturns,
           RespondOr, CopyResponse, ResponseEnds, SendResTrailer, SendResEnd, WaitBody,
           UpstreamReads, UpstreamSeesEnd, gw, gs, wat, net, ags, ag, ups, InFlight
<1> QED
  BY StepCases, <1>1, <1>2, <1>3, <1>4

\* What readLoop does with the first frame in the tunnel: o is the object that has
\* the id, or a new one.
LEMMA AgentReadsCases ==
  ASSUME TypeOK, ObjectsOK, AgentReads
  PROVE  \E o \in Objs :
           /\ amap = o \/ (amap = None /\ ast[o] = "free" /\ arx[o] = <<>>)
           /\ \A p \in Objs : ast'[p] = IF p = o /\ amap = None THEN "first" ELSE ast[p]
           /\ \/ /\ arx' = [arx EXCEPT ![o] = Append(@, Head(g2a))]
                 /\ amap' = o /\ UNCHANGED <<aclosed, a2g>>
              \/ /\ amap = o /\ AgentSend(Frame("Rst"))
                 /\ amap' = None /\ aclosed' = Forgotten /\ UNCHANGED arx
<1> DEFINE o == IF amap # None THEN amap ELSE CHOOSE x \in Objs : ast[x] = "free"
<1>1. o \in Objs /\ (amap = o \/ (amap = None /\ ast[o] = "free"))
  BY DEF TypeOK, AgentReads
<1>2. /\ ast' = IF amap = None THEN [ast EXCEPT ![o] = "first"] ELSE ast
      /\ DeliverFrame(o, Head(g2a))
  BY DEF AgentReads
<1> HIDE DEF o
<1>3. amap = None => ast[o] = "free" /\ arx[o] = <<>> /\ Len(arx[o]) # AQueue
  BY <1>1, RelayAssumption DEF ObjectsOK
<1>4. \A p \in Objs : ast'[p] = IF p = o /\ amap = None THEN "first" ELSE ast[p]
  BY <1>1, <1>2 DEF TypeOK
<1>5. \/ /\ arx' = [arx EXCEPT ![o] = Append(@, Head(g2a))]
         /\ amap' = o /\ UNCHANGED <<aclosed, a2g>>
      \/ /\ amap = o /\ AgentSend(Frame("Rst"))
         /\ amap' = None /\ aclosed' = Forgotten /\ UNCHANGED arx
  BY <1>1, <1>2, <1>3 DEF DeliverFrame
<1> QED
  BY <1>1, <1>3, <1>4, <1>5

\* A free object is empty, and the one that serves the request is main.
LEMMA ObjectsStep ==
  ASSUME TypeOK, OneStart, ObjectsOK, [Next]_vars
  PROVE  ObjectsOK'
<1>1. None \notin Objs /\ main \in Objs \cup {None} /\ amap \in Objs \cup {None}
      /\ ast \in [Objs -> {"free", "first", "http"}] /\ arx \in [Objs -> Seq(Frames)]
  BY RelayAssumption DEF TypeOK
<1>2. CASE HandlerWrite \/ SendReqStart \/ RefuseLarge \/ StartWatcher \/ ReadBody \/
          BodyTooLarge \/ BodyEnds \/ SendTrailer \/ SendReqEnd \/ RecvHead \/ RecvData
          \/ RecvFails \/ HandlerReturns \/ ForgetStream \/ Watcher \/ GatewayReads \/
          SendReset \/ GatewayDisconnects \/ ClientGoes \/ TunnelBreaks \/ UNCHANGED
          vars
  <2>1. UNCHANGED <<amap, ast, arx, main, bpc, hpc, uGot, uEof>>
    BY <1>2 DEF HandlerWrite, SendReqStart, RefuseLarge, StartWatcher, ReadBody,
           BodyTooLarge, BodyEnds, SendTrailer, SendReqEnd, RecvHead, RecvData,
           RecvFails, HandlerReturns, ForgetStream, Watcher, GatewayReads, SendReset,
           GatewayDisconnects, ClientGoes, TunnelBreaks, gw, gs, wat, net, ags, ag, ups,
           vars
  <2> QED
    BY <2>1 DEF ObjectsOK
<1>3. CASE AgentReads
  <2>1. PICK o \in Objs :
           /\ amap = o \/ (amap = None /\ ast[o] = "free" /\ arx[o] = <<>>)
           /\ \A p \in Objs : ast'[p] = IF p = o /\ amap = None THEN "first" ELSE ast[p]
           /\ \/ /\ arx' = [arx EXCEPT ![o] = Append(@, Head(g2a))]
                 /\ amap' = o /\ UNCHANGED <<aclosed, a2g>>
              \/ /\ amap = o /\ AgentSend(Frame("Rst"))
                 /\ amap' = None /\ aclosed' = Forgotten /\ UNCHANGED arx
    BY <1>3, AgentReadsCases
  <2>2. UNCHANGED <<main, bpc, hpc, uGot, uEof>>
    BY <1>3 DEF AgentReads, ag, ups
  <2>3. \A p \in Objs : p # o => arx'[p] = arx[p]
    BY <1>1, <2>1
  <2>4. ast'[o] # "free" /\ (amap' # None => amap' = o)
    BY <2>1, <1>1 DEF ObjectsOK
  <2> QED
    BY <1>1, <2>1, <2>2, <2>3, <2>4 DEF ObjectsOK
<1>4. ASSUME NEW o \in Objs, FirstFrame(o) PROVE ObjectsOK'
  <2>1. ast[o] = "first" /\ UNCHANGED <<uGot, uEof>>
    BY <1>4 DEF FirstFrame, ups
  <2>2. CASE StreamReturns(o) /\ UNCHANGED ag
    BY <1>1, <2>1, <2>2 DEF StreamReturns, ObjectsOK, ag
  <2>3. CASE /\ arx[o] # <<>> /\ Head(arx[o]).t = "ReqStart"
             /\ ast' = [ast EXCEPT ![o] = "http"]
             /\ arx' = [arx EXCEPT ![o] = Tail(@)]
             /\ main' = o /\ hpc' = "setup" /\ bpc' = "run" /\ UNCHANGED amap
    <3>1. main = None
      BY <1>1, <2>3 DEF OneStart, HasStart
    <3> QED
      BY <1>1, <2>1, <2>3, <3>1 DEF ObjectsOK
  <2> QED
    BY <1>4, <2>2, <2>3 DEF FirstFrame
<1>5. CASE AgentDisconnects \/ BodyQuits \/ BodyWriteFails \/ Setup \/ Got1xxResponse \/
          DoFails \/ DoReturns \/ CopyResponse \/ ResponseEnds \/ SendResTrailer \/
          SendResEnd \/ WaitBody \/ UpstreamReads \/ UpstreamSeesEnd
  <2>1. /\ UNCHANGED <<ast, arx, main>> /\ amap' \in {amap, None}
    BY <1>5 DEF AgentDisconnects, Forgotten, BodyQuits, BodyWriteFails, Setup,
           Got1xxResponse, AgentSend, DoFails, HttpReturns, DoReturns, RespondOr,
           CopyResponse, ResponseEnds, SendResTrailer, SendResEnd, WaitBody,
           UpstreamReads, UpstreamSeesEnd, gw, gs, wat, net, ags, ag, ups
  <2>2. /\ bpc = "off" <=> bpc' = "off"
        /\ hpc = "off" <=> hpc' = "off"
    BY <1>5 DEF AgentDisconnects, Forgotten, BodyQuits, BodyWriteFails, Setup,
           Got1xxResponse, AgentSend, DoFails, HttpReturns, DoReturns, RespondOr,
           CopyResponse, ResponseEnds, SendResTrailer, SendResEnd, WaitBody,
           UpstreamReads, UpstreamSeesEnd, gw, gs, wat, net, ags, ag, ups, InFlight
  <2>3. bpc = "off" /\ hpc = "off" => uGot' = uGot /\ uEof' = uEof
    BY <1>5 DEF AgentDisconnects, Forgotten, BodyQuits, BodyWriteFails, Setup,
           Got1xxResponse, AgentSend, DoFails, HttpReturns, DoReturns, RespondOr,
           CopyResponse, ResponseEnds, SendResTrailer, SendResEnd, WaitBody,
           UpstreamReads, UpstreamSeesEnd, gw, gs, wat, net, ags, ag, ups, InFlight
  <2> QED
    BY <1>1, <2>1, <2>2, <2>3 DEF ObjectsOK
<1>6. CASE BodyFrame
  <2>1. /\ bpc = "run" /\ bpc' # "off" /\ arx' = [arx EXCEPT ![main] = Tail(@)]
        /\ UNCHANGED <<amap, ast, main, hpc, uGot, uEof>>
    BY <1>6 DEF BodyFrame, ups
  <2>2. main # None /\ ast[main] = "http"
    BY <2>1 DEF ObjectsOK
  <2>3. \A p \in Objs : p # main => arx'[p] = arx[p]
    BY <1>1, <2>1
  <2> QED
    BY <1>1, <2>1, <2>2, <2>3 DEF ObjectsOK
<1> QED
  BY StepCases, <1>2, <1>3, <1>4, <1>5, <1>6

\* What a step may write to the tunnel: the handler its pending frame, the watcher
\* and sendReset a TRst.
LEMMA TunnelWrites ==
  ASSUME TypeOK, PendOK, Untouched, [Next]_vars
  PROVE  \/ g2a' = g2a
         \/ AgentReads /\ g2a' = Tail(g2a) /\ g2a # <<>>
         \/ TunnelBreaks /\ g2a' = <<>>
         \/ HandlerWrite /\ g2a' = Append(g2a, pend[1]) /\ pend[1] \in Frames /\ pend # <<>>
         \/ (Watcher \/ SendReset) /\ g2a' = Append(g2a, Frame("Rst")) /\ gpc # "start"
<1>1. CASE SendReqStart \/ RefuseLarge \/ StartWatcher \/ ReadBody \/ BodyTooLarge \/
          BodyEnds \/ SendTrailer \/ SendReqEnd \/ RecvHead \/ RecvData \/ RecvFails \/
          HandlerReturns \/ ForgetStream \/ GatewayReads \/ GatewayDisconnects \/ (\E o
          \in Objs : FirstFrame(o)) \/ AgentDisconnects \/ BodyQuits \/ BodyFrame \/
          BodyWriteFails \/ Setup \/ Got1xxResponse \/ DoFails \/ DoReturns \/
          CopyResponse \/ ResponseEnds \/ SendResTrailer \/ SendResEnd \/ WaitBody \/
          ClientGoes \/ UpstreamReads \/ UpstreamSeesEnd \/ UNCHANGED vars
  BY <1>1 DEF SendReqStart, RefuseLarge, StartWatcher, ReadBody, BodyTooLarge, BodyEnds,
         SendTrailer, SendReqEnd, RecvHead, RecvData, RecvFails, HandlerReturns,
         ForgetStream, GatewayReads, GatewayDisconnects, FirstFrame, AgentDisconnects,
         BodyQuits, BodyFrame, BodyWriteFails, Setup, Got1xxResponse, DoFails,
         DoReturns, CopyResponse, ResponseEnds, SendResTrailer, SendResEnd, WaitBody,
         ClientGoes, UpstreamReads, UpstreamSeesEnd, gw, gs, wat, net, ags, ag, ups,
         vars
<1>2. CASE HandlerWrite
  BY <1>2 DEF HandlerWrite, TypeOK
<1>3. CASE Watcher
  BY <1>3 DEF Watcher, Untouched
<1>4. CASE SendReset
  BY <1>4 DEF SendReset, Untouched
<1>5. CASE TunnelBreaks
  BY <1>5 DEF TunnelBreaks
<1>6. CASE AgentReads
  BY <1>6 DEF AgentReads
<1> QED
  BY StepCases, <1>1, <1>2, <1>3, <1>4, <1>5, <1>6

\* TReqStart stays in one place.
LEMMA OneStartStep ==
  ASSUME TypeOK, PendOK, Untouched, OneStart, ObjectsOK, ReqLines, [Next]_vars
  PROVE  OneStart'
<1>1. /\ None \notin Objs /\ main \in Objs \cup {None} /\ amap \in Objs \cup {None}
      /\ ast \in [Objs -> {"free", "first", "http"}] /\ arx \in [Objs -> Seq(Frames)]
      /\ g2a \in Seq(Frames)
  BY RelayAssumption DEF TypeOK
<1>2. HasStart(g2a') => HasStart(g2a) \/ HandlerWrite
  <2>1. Frame("Rst").t # "ReqStart" /\ Frame("Rst") \in Frames
    BY FrameFacts DEF TypeOK
  <2>2. CASE g2a' = Tail(g2a) /\ g2a # <<>>
    BY <1>1, <2>2, NoSecondStart DEF ReqLines
  <2>3. CASE g2a' = Append(g2a, Frame("Rst"))
    <3>1. /\ g2a # <<>> => g2a'[1] = g2a[1]
          /\ g2a = <<>> => g2a'[1] = Frame("Rst")
      BY <1>1, <2>1, <2>3, AppendFacts, EmptyFacts
    <3> QED
      BY <2>1, <3>1 DEF HasStart
  <2> QED
    BY <2>2, <2>3, TunnelWrites DEF HasStart
<1>3. CASE HandlerWrite
  <2>1. UNCHANGED <<main, amap, ast, arx>>
    BY <1>3 DEF HandlerWrite, ags, ag
  <2>2. CASE gpc = "start"
    BY <2>1, <2>2 DEF OneStart, Untouched
  <2>3. CASE gpc # "start"
    <3>1. g2a' = g2a \/ (g2a' = Append(g2a, pend[1]) /\ pend[1] \in Frames)
      BY <1>3 DEF HandlerWrite, TypeOK
    <3>2. pend[1].t # "ReqStart"
      BY <1>3, <2>3 DEF HandlerWrite, PendOK, Frame, Data
    <3>3. HasStart(g2a') => HasStart(g2a)
      <4>1. CASE g2a' = g2a
        BY <4>1
      <4>2. CASE g2a' = Append(g2a, pend[1]) /\ pend[1] \in Frames
        <5>1. /\ g2a # <<>> => g2a'[1] = g2a[1]
              /\ g2a = <<>> => g2a'[1] = pend[1]
          BY <1>1, <4>2, AppendFacts, EmptyFacts
        <5> QED
          BY <3>2, <5>1 DEF HasStart
      <4> QED
        BY <3>1, <4>1, <4>2
    <3> QED
      BY <2>1, <3>3 DEF OneStart, HasStart
  <2> QED
    BY <2>2, <2>3
<1>4. CASE SendReqStart \/ RefuseLarge \/ StartWatcher \/ ReadBody \/ BodyTooLarge \/
          BodyEnds \/ SendTrailer \/ SendReqEnd \/ RecvHead \/ RecvData \/ RecvFails \/
          HandlerReturns \/ ForgetStream \/ Watcher \/ GatewayReads \/ SendReset \/
          GatewayDisconnects \/ BodyQuits \/ BodyWriteFails \/ Setup \/ Got1xxResponse
          \/ ResponseEnds \/ SendResEnd \/ UpstreamReads \/ UpstreamSeesEnd \/
          ClientGoes \/ TunnelBreaks \/ UNCHANGED vars
  <2>1. UNCHANGED <<amap, ast, arx, main>>
    BY <1>4 DEF SendReqStart, RefuseLarge, StartWatcher, ReadBody, BodyTooLarge,
           BodyEnds, SendTrailer, SendReqEnd, RecvHead, RecvData, RecvFails,
           HandlerReturns, ForgetStream, Watcher, GatewayReads, SendReset,
           GatewayDisconnects, BodyQuits, BodyWriteFails, Setup, Got1xxResponse,
           ResponseEnds, SendResEnd, UpstreamReads, UpstreamSeesEnd, ClientGoes,
           TunnelBreaks, gw, gs, wat, net, ags, ag, ups, vars
  <2>2. CASE ~HandlerWrite
    BY <1>2, <2>1, <2>2 DEF OneStart, HasStart
  <2> QED
    BY <1>3, <2>2
<1>5. CASE AgentDisconnects \/ DoFails \/ DoReturns \/ CopyResponse \/ SendResTrailer \/
          WaitBody
  <2>1. UNCHANGED <<g2a, ast, arx, main>> /\ amap' \in {amap, None}
    BY <1>5 DEF AgentDisconnects, Forgotten, DoFails, HttpReturns, DoReturns, AgentSend,
           RespondOr, CopyResponse, SendResTrailer, WaitBody, gw, gs, wat, net, ags, ag,
           ups
  <2> QED
    BY <2>1 DEF OneStart, HasStart
<1>6. CASE AgentReads
  <2>1. PICK o \in Objs :
           /\ amap = o \/ (amap = None /\ ast[o] = "free" /\ arx[o] = <<>>)
           /\ \A p \in Objs : ast'[p] = IF p = o /\ amap = None THEN "first" ELSE ast[p]
           /\ \/ /\ arx' = [arx EXCEPT ![o] = Append(@, Head(g2a))]
                 /\ amap' = o /\ UNCHANGED <<aclosed, a2g>>
              \/ /\ amap = o /\ AgentSend(Frame("Rst"))
                 /\ amap' = None /\ aclosed' = Forgotten /\ UNCHANGED arx
    BY <1>6, AgentReadsCases
  <2>2. g2a # <<>> /\ g2a' = Tail(g2a) /\ main' = main /\ gpc' = gpc
    BY <1>6 DEF AgentReads, ag, gw
  <2>3. ~HasStart(g2a')
    BY <1>1, <2>2, NoSecondStart DEF ReqLines
  <2>4. Head(g2a) = g2a[1] /\ Head(g2a) \in Frames
    BY <1>1, <2>2, TailFacts
  <2>5. \A p \in Objs : p # o => arx'[p] = arx[p]
    BY <1>1, <2>1
  <2>6. HasStart(arx'[o]) => HasStart(arx[o]) \/ (arx[o] = <<>> /\ HasStart(g2a))
    <3>1. CASE arx' = arx
      BY <3>1
    <3>2. CASE arx' = [arx EXCEPT ![o] = Append(@, Head(g2a))]
      <4>1. arx'[o] = Append(arx[o], Head(g2a)) /\ arx[o] \in Seq(Frames)
        BY <1>1, <3>2
      <4>2. /\ arx[o] # <<>> => arx'[o][1] = arx[o][1]
            /\ arx[o] = <<>> => arx'[o][1] = Head(g2a)
        BY <2>4, <4>1, AppendFacts, EmptyFacts
      <4> QED
        BY <2>2, <2>4, <4>2 DEF HasStart
    <3> QED
      BY <2>1, <3>1, <3>2
  <2>7. CASE HasStart(g2a)
    <3>1. main = None /\ amap = None /\ \A p \in Objs : ast[p] = "free" /\ arx[p] = <<>>
      BY <2>7 DEF OneStart, ObjectsOK
    <3>2. \A p \in Objs : p # o => ~HasStart(arx'[p])
      BY <2>5, <3>1 DEF HasStart
    <3> QED
      BY <2>1, <2>2, <2>3, <3>1, <3>2 DEF OneStart, HasStart
  <2>8. CASE ~HasStart(g2a)
    <3>1. \A p \in Objs : HasStart(arx'[p]) => HasStart(arx[p])
      BY <2>5, <2>6, <2>8
    <3>2. \A p \in Objs : ast[p] = "first" => ast'[p] = "first"
      BY <2>1
    <3>3. \A p \in Objs : HasStart(arx'[p]) => /\ ast'[p] = "first" /\ main' = None
                                              /\ \A r \in Objs : HasStart(arx'[r]) => r = p
      BY <2>2, <3>1, <3>2 DEF OneStart
    <3> QED
      BY <2>3, <3>3 DEF OneStart, HasStart
  <2> QED
    BY <2>7, <2>8
<1>7. ASSUME NEW o \in Objs, FirstFrame(o) PROVE OneStart'
  <2>1. ast[o] = "first" /\ g2a' = g2a /\ ~HasStart(g2a)
    BY <1>7 DEF FirstFrame, OneStart
  <2>2. CASE StreamReturns(o) /\ UNCHANGED ag
    <3>1. \A p \in Objs : HasStart(arx'[p]) => HasStart(arx[p]) /\ p # o
      BY <1>1, <2>2 DEF StreamReturns, HasStart
    <3>2. \A p \in Objs : p # o => ast'[p] = ast[p]
      BY <1>1, <2>2 DEF StreamReturns
    <3>3. \A p \in Objs : HasStart(arx'[p]) => /\ ast'[p] = "first" /\ main' = None
                                              /\ \A r \in Objs : HasStart(arx'[r]) => r = p
      BY <2>2, <3>1, <3>2 DEF OneStart, ag
    <3> QED
      BY <2>1, <3>3 DEF OneStart, HasStart
  <2>3. CASE /\ arx[o] # <<>> /\ Head(arx[o]).t = "ReqStart"
             /\ arx' = [arx EXCEPT ![o] = Tail(@)]
    <3>1. HasStart(arx[o])
      BY <1>1, <2>3 DEF HasStart
    <3>2. arx'[o] = Tail(arx[o]) /\ \A p \in Objs : p # o => arx'[p] = arx[p]
      BY <1>1, <2>3
    <3>3. ~HasStart(arx'[o])
      BY <2>3, <3>2, QueueInOrder, NoSecondStart
    <3>4. \A p \in Objs : ~HasStart(arx'[p])
      BY <3>1, <3>2, <3>3 DEF OneStart
    <3> QED
      BY <2>1, <3>4 DEF OneStart, HasStart
  <2> QED
    BY <1>7, <2>2, <2>3 DEF FirstFrame
<1>8. CASE BodyFrame
  <2>1. /\ bpc = "run" /\ arx' = [arx EXCEPT ![main] = Tail(@)]
        /\ UNCHANGED <<g2a, amap, ast, main>>
    BY <1>8 DEF BodyFrame, net
  <2>2. main # None
    BY <2>1 DEF ObjectsOK
  <2>3. \A p \in Objs : ~HasStart(arx[p])
    BY <2>2 DEF OneStart
  <2>4. arx'[main] = Tail(arx[main]) /\ \A p \in Objs : p # main => arx'[p] = arx[p]
    BY <1>1, <2>1, <2>2
  <2>5. ~HasStart(Tail(arx[main]))
    BY <1>1, <1>8, <2>2, QueueInOrder, NoSecondStart DEF BodyFrame
  <2>6. \A p \in Objs : ~HasStart(arx'[p])
    BY <2>3, <2>4, <2>5
  <2> QED
    BY <2>1, <2>6 DEF OneStart, HasStart
<1> QED
  BY StepCases, <1>3, <1>4, <1>5, <1>6, <1>7, <1>8

-----------------------------------------------------------------------------
(* The line of request frames, step by step.                               *)

\* The handler writes its pending frame.
LEMMA WriteLines ==
  ASSUME TypeOK, PendOK, BodyRead, Untouched, ObjectsOK, ReqLines, BodyFront,
         [Next]_vars, HandlerWrite
  PROVE  ReqLines' /\ BodyFront'
<1>1. /\ pend # <<>> /\ pend' = <<>> /\ up' = up
      /\ UNCHANGED <<sent, badBody, arx, amap, main, bpc, uGot>>
  BY DEF HandlerWrite, ags, ag, ups
<1>2. BodyRuns' = BodyRuns /\ Taken' = Taken
  BY <1>1 DEF BodyRuns, Taken
<1>3. CASE ~up
  <2>1. g2a' = g2a /\ ~Sending'
    BY <1>1, <1>3 DEF HandlerWrite, Sending
  <2> QED
    BY <1>1, <1>2, <2>1, LinesKept
<1>4. CASE up
  <2>1. PICK f \in Frames : f = pend[1] /\ g2a' = Append(g2a, f) /\ gpc' = pend[2]
    BY <1>1, <1>4 DEF HandlerWrite, TypeOK
  <2>2. /\ Written' = sent /\ NReq' = NReq /\ sent \in Nat
        /\ Written = IF f.t = "ReqData" THEN sent - 1 ELSE sent
    BY <1>1, <2>1, ScenarioStays, FrameFacts DEF Written, TypeOK
  <2>3. CASE f.t = "Rst" /\ gpc' = "return"
    <3>1. \A x \in Frames : ReqNext(x, f)
      BY <2>3 DEF ReqNext
    <3>2. HeadOK(f) /\ ~Sending'
      BY <2>3 DEF HeadOK, Sending
    <3> QED
      BY <1>1, <2>1, <3>1, <3>2, LinesAppend
  <2>4. CASE gpc = "start" /\ f.t = "ReqStart" /\ f.n = 0
    <3>1. g2a = <<>> /\ amap = None /\ ~BodyRuns
      BY <2>4 DEF Untouched, ObjectsOK, BodyRuns
    <3>2. LastOK(f)'
      BY <2>2, <2>4 DEF BodyRead, LastOK
    <3> QED
      BY <1>1, <2>1, <3>1, <3>2, LinesAppend
  <2>5. CASE gpc = "body" /\ f.t = "ReqData" /\ f.n = sent
    <3>1. Sending /\ ~badBody
      BY <1>4, <2>5 DEF Sending, BodyRead
    <3>2. \A x \in Frames : LastOK(x) => ReqNext(x, f)
      BY <2>2, <2>5 DEF LastOK, ReqNext
    <3>3. LastOK(f)'
      BY <2>2, <2>5 DEF LastOK
    <3>4. badBody \/ Taken = Written => HeadOK(f)
      BY <2>2, <2>5, <3>1 DEF HeadOK
    <3> QED
      BY <1>1, <2>1, <3>1, <3>2, <3>3, <3>4, LinesAppend
  <2>6. CASE gpc = "trailer" /\ f.t = "ReqTrailer" /\ gpc' = "reqEnd"
    <3>1. Sending /\ (badBody \/ sent = NReq)
      BY <1>4, <2>6 DEF Sending, BodyRead
    <3>2. \A x \in Frames : LastOK(x) => ReqNext(x, f)
      BY <2>2, <2>6, <3>1 DEF LastOK, ReqNext, BodyBefore
    <3>3. LastOK(f)'
      BY <2>6 DEF LastOK
    <3>4. badBody \/ Taken = Written => HeadOK(f)
      BY <2>2, <2>6, <3>1 DEF HeadOK
    <3> QED
      BY <1>1, <2>1, <3>1, <3>2, <3>3, <3>4, LinesAppend
  <2>7. CASE gpc = "reqEnd" /\ f.t = "ReqEnd" /\ gpc' = "head"
    <3>1. Sending /\ (badBody \/ sent = NReq) /\ ~Sending'
      BY <1>4, <2>7 DEF Sending, BodyRead
    <3>2. \A x \in Frames : LastOK(x) => ReqNext(x, f)
      BY <2>2, <2>7, <3>1 DEF LastOK, ReqNext, BodyBefore
    <3>3. badBody \/ Taken = Written => HeadOK(f)
      BY <2>2, <2>7, <3>1 DEF HeadOK
    <3> QED
      BY <1>1, <2>1, <3>1, <3>2, <3>3, LinesAppend
  <2> QED
    BY <1>1, <2>1, <2>3, <2>4, <2>5, <2>6, <2>7 DEF PendOK, Frame, Data
<1> QED
  BY <1>3, <1>4

\* The watcher and the overflow reset write a TRst.
LEMMA ResetLines ==
  ASSUME TypeOK, ObjectsOK, ReqLines, BodyFront, [Next]_vars, Watcher \/ SendReset
  PROVE  ReqLines' /\ BodyFront'
<1>1. /\ UNCHANGED <<gpc, pend, sent, badBody, up, arx, amap, main, bpc, uGot>>
      /\ g2a' = g2a \/ g2a' = Append(g2a, Frame("Rst"))
  BY DEF Watcher, SendReset, gw, ags, ag, ups
<1>2. /\ BodyRuns' = BodyRuns /\ Taken' = Taken
      /\ Sending' = Sending /\ Written' = Written
  BY <1>1 DEF BodyRuns, Taken, Sending, Written
<1>3. CASE g2a' = g2a
  BY <1>1, <1>2, <1>3, LinesKept
<1>4. CASE g2a' = Append(g2a, Frame("Rst"))
  <2>1. Frame("Rst") \in Frames /\ Frame("Rst").t = "Rst"
    BY FrameFacts DEF TypeOK
  <2>2. /\ \A x \in Frames : ReqNext(x, Frame("Rst"))
        /\ HeadOK(Frame("Rst")) /\ LastOK(Frame("Rst"))'
    BY <2>1 DEF ReqNext, HeadOK, LastOK, Frame
  <2> QED
    BY <1>1, <1>4, <2>1, <2>2, LinesAppend
<1> QED
  BY <1>1, <1>3, <1>4

\* The agent's readLoop: a frame is moved on, or its stream is reset.
LEMMA ReadLines ==
  ASSUME TypeOK, ObjectsOK, ReqLines, BodyFront, [Next]_vars, AgentReads
  PROVE  ReqLines' /\ BodyFront'
<1>1. /\ g2a # <<>> /\ g2a' = Tail(g2a)
      /\ UNCHANGED <<gpc, pend, sent, badBody, up, main, bpc, uGot>>
  BY DEF AgentReads, gw, ag, ups
<1>2. PICK o \in Objs :
         /\ amap = o \/ (amap = None /\ ast[o] = "free" /\ arx[o] = <<>>)
         /\ \A p \in Objs : ast'[p] = IF p = o /\ amap = None THEN "first" ELSE ast[p]
         /\ \/ /\ arx' = [arx EXCEPT ![o] = Append(@, Head(g2a))]
               /\ amap' = o /\ UNCHANGED <<aclosed, a2g>>
            \/ /\ amap = o /\ AgentSend(Frame("Rst"))
               /\ amap' = None /\ aclosed' = Forgotten /\ UNCHANGED arx
  BY AgentReadsCases
<1>3. CASE arx' = [arx EXCEPT ![o] = Append(@, Head(g2a))] /\ amap' = o
  BY <1>1, <1>2, <1>3, LinesDelivered
<1>4. CASE amap' = None /\ arx' = arx
  <2>1. \A p \in Objs : Feed(p)' = arx[p]
    BY <1>4, RelayAssumption DEF Feed
  <2>2. BodyRuns' = BodyRuns /\ Taken' = Taken
    BY <1>1 DEF BodyRuns, Taken
  <2> QED
    BY <1>1, <1>4, <2>1, <2>2, LinesCut
<1> QED
  BY <1>2, <1>3, <1>4

\* handleStream takes the first frame of an object, or drops the object.
LEMMA FirstLines ==
  ASSUME TypeOK, OneStart, ObjectsOK, ReqLines, BodyFront, [Next]_vars,
         NEW o \in Objs, FirstFrame(o)
  PROVE  ReqLines' /\ BodyFront'
<1>1. /\ ast[o] = "first"
      /\ UNCHANGED <<gpc, pend, sent, badBody, g2a, up, uGot>>
  BY DEF FirstFrame, gw, ups
<1>2. CASE StreamReturns(o) /\ UNCHANGED ag
  <2>1. \A p \in Objs : Feed(p)' \in {arx[p], <<>>}
    BY <1>2, RelayAssumption DEF StreamReturns, Feed, TypeOK
  <2>2. amap' = None /\ (BodyRuns' => BodyRuns /\ main' = main /\ Taken' = Taken)
    BY <1>1, <1>2 DEF StreamReturns, ag, BodyRuns, Taken
  <2> QED
    BY <1>1, <2>1, <2>2, LinesCut
<1>3. CASE /\ arx[o] # <<>> /\ Head(arx[o]).t = "ReqStart"
           /\ arx' = [arx EXCEPT ![o] = Tail(@)]
           /\ main' = o /\ bpc' = "run" /\ UNCHANGED amap
  <2> DEFINE g == arx[o][1]
  <2>1. /\ ReqLines'
        /\ Feed(o) # <<>> /\ Feed(o)[1] = g /\ Head(arx[o]) = g
        /\ g \in Frames
        /\ Feed(o)' # <<>> => <<g, Feed(o)'[1]>> \in ReqOrder
        /\ Feed(o)' = <<>> => Last(Feed(o)) = g
    BY <1>1, <1>3, LinesTaken
  <2>2. main = None /\ uGot = <<>>
    BY <1>3, <2>1 DEF OneStart, HasStart, ObjectsOK
  <2>3. g.t = "ReqStart" /\ g.n = 0 /\ NReq' = NReq /\ NReq \in Nat
    BY <1>3, <2>1, ScenarioStays, FrameFacts DEF TypeOK
  <2>4. Taken' = 0 /\ Written' = Written
    BY <1>1, <1>3, <2>2 DEF Taken, Written
  <2> HIDE DEF g
  <2>5. Feed(o)' # <<>> => HeadOK(Feed(o)[1])'
    <3> SUFFICES ASSUME Feed(o)' # <<>> PROVE HeadOK(Feed(o)[1])'
      OBVIOUS
    <3>1. PICK h : h = Feed(o)'[1] /\ <<g, h>> \in ReqOrder
      BY <2>1
    <3>2. ReqNext(g, h)
      BY <3>1 DEF ReqOrder
    <3> QED
      BY <1>1, <2>3, <2>4, <3>1, <3>2 DEF HeadOK, ReqNext, BodyBefore
  <2>6. Sending /\ amap = o /\ Feed(o)' = <<>> => Written = 0
    BY <2>1, <2>3 DEF ReqLines, LastOK
  <2>7. BodyFront'
    <3>1. main' = o /\ Sending' = Sending /\ amap' = amap
      BY <1>1, <1>3 DEF Sending
    <3> QED
      BY <2>4, <2>5, <2>6, <3>1 DEF BodyFront, HeadOK, Feed
  <2> QED
    BY <2>1, <2>7
<1> QED
  BY <1>2, <1>3 DEF FirstFrame

\* The body goroutine takes the next frame.
LEMMA BodyLines ==
  ASSUME TypeOK, PendOK, BodyRead, ObjectsOK, ReqLines, BodyFront, [Next]_vars, BodyFrame
  PROVE  ReqLines' /\ BodyFront'
<1>1. /\ bpc = "run" /\ arx[main] # <<>> /\ arx' = [arx EXCEPT ![main] = Tail(@)]
      /\ UNCHANGED <<gpc, pend, sent, badBody, g2a, up, amap, main, uGot>>
  BY DEF BodyFrame, gw, net, ups
<1>2. BodyRuns /\ main \in Objs
  BY <1>1, MainRuns DEF BodyRuns
<1> DEFINE g == arx[main][1]
<1>3. /\ ReqLines'
      /\ Feed(main) # <<>> /\ Feed(main)[1] = g /\ Head(arx[main]) = g
      /\ g \in Frames
      /\ arx' = [arx EXCEPT ![main] = Tail(@)]
  <2>1. PICK o \in Objs : o = main
    BY <1>2
  <2> QED
    BY <1>1, <2>1, LinesTaken
<1>4. /\ Feed(main)' # <<>> => <<g, Feed(main)'[1]>> \in ReqOrder
      /\ Feed(main)' = <<>> => Last(Feed(main)) = g
  <2>1. PICK o \in Objs : o = main
    BY <1>2
  <2>2. Feed(o)' = Feed(main)'
    BY <1>1, <2>1 DEF Feed
  <2>3. /\ Feed(o)' # <<>> => <<arx[o][1], Feed(o)'[1]>> \in ReqOrder
        /\ Feed(o)' = <<>> => Last(Feed(o)) = arx[o][1]
    BY <1>1, <2>1, LinesTaken
  <2> QED
    BY <2>1, <2>2, <2>3
<1>5. HeadOK(g)
  BY <1>2, <1>3 DEF BodyFront
<1>6. /\ NReq' = NReq /\ NReq \in Nat /\ Written' = Written /\ Sending' = Sending
      /\ Taken = Len(uGot) /\ Len(uGot) \in Nat
  BY <1>1, ScenarioStays, FrameFacts DEF TypeOK, Written, Taken, Sending
<1> HIDE DEF g
<1>7. Sending /\ amap = main /\ Feed(main)' = <<>> => LastOK(g)
  BY <1>2, <1>3, <1>4 DEF ReqLines
<1>8. Feed(main)' # <<>> => ReqNext(g, Feed(main)'[1])
  BY <1>4 DEF ReqOrder
<1>9. CASE g.t = "ReqData" /\ bpc' = "write"
  <2>1. Taken' = Taken + 1 /\ g.n = Taken + 1
    BY <1>1, <1>5, <1>6, <1>9 DEF Taken, HeadOK
  <2>2. Feed(main)' # <<>> => HeadOK(Feed(main)[1])'
    BY <1>1, <1>6, <1>8, <1>9, <2>1 DEF HeadOK, ReqNext, BodyBefore
  <2>3. Sending /\ amap = main /\ Feed(main)' = <<>> => Taken' = Written
    BY <1>7, <1>9, <2>1 DEF LastOK
  <2> QED
    BY <1>1, <1>3, <1>6, <2>2, <2>3 DEF BodyFront
<1>10. CASE g.t = "ReqTrailer" /\ bpc' = bpc
  <2>1. Taken' = Taken /\ (badBody \/ Taken = NReq)
    BY <1>1, <1>5, <1>10 DEF Taken, HeadOK
  <2>2. Feed(main)' # <<>> => HeadOK(Feed(main)[1])'
    BY <1>1, <1>6, <1>8, <1>10, <2>1 DEF HeadOK, ReqNext, BodyBefore
  <2>3. gpc = "reqEnd" => Written = sent /\ (badBody \/ sent = NReq)
    BY DEF Written, PendOK, BodyRead, Frame
  <2>4. Sending /\ amap = main /\ Feed(main)' = <<>> => badBody \/ Taken' = Written
    BY <1>7, <1>10, <2>1, <2>3 DEF LastOK
  <2> QED
    BY <1>1, <1>3, <1>6, <2>2, <2>4 DEF BodyFront
<1>11. CASE bpc' = "done"
  BY <1>3, <1>11 DEF BodyFront, BodyRuns
<1> QED
  BY <1>3, <1>9, <1>10, <1>11 DEF BodyFrame

\* The frames of the request stay in order, and the body goroutine takes the chunk
\* after its last (agent.go:592-601).
LEMMA LinesStep ==
  ASSUME TypeOK, PendOK, BodyRead, Untouched, OneStart, ObjectsOK, ReqLines, BodyFront,
         [Next]_vars
  PROVE  ReqLines' /\ BodyFront'
<1>1. CASE HandlerWrite
  BY <1>1, WriteLines
<1>2. CASE Watcher \/ SendReset
  BY <1>2, ResetLines
<1>3. CASE AgentReads
  BY <1>3, ReadLines
<1>4. ASSUME NEW o \in Objs, FirstFrame(o) PROVE ReqLines' /\ BodyFront'
  BY <1>4, FirstLines
<1>5. CASE BodyFrame
  BY <1>5, BodyLines
<1>6. CASE SendReqStart \/ RefuseLarge \/ StartWatcher \/ ReadBody \/ BodyTooLarge \/
          BodyEnds \/ SendTrailer \/ SendReqEnd \/ RecvHead \/ RecvData \/ RecvFails \/
          HandlerReturns
  <2>1. UNCHANGED <<g2a, arx, amap, main, bpc, uGot, up>>
    BY <1>6 DEF SendReqStart, RefuseLarge, StartWatcher, ReadBody, BodyTooLarge,
           BodyEnds, SendTrailer, SendReqEnd, RecvHead, RecvData, RecvFails,
           HandlerReturns, gw, gs, wat, net, ags, ag, ups
  <2>2. (badBody => badBody') /\ (Sending' => gpc' = gpc \/ gpc' \in {"trailer", "reqEnd"})
    BY <1>6 DEF Sending, SendReqStart, Send, RefuseLarge, StartWatcher, ReadBody,
           InBody, BodyTooLarge, BodyEnds, SendTrailer, SendReqEnd, RecvHead, RecvData,
           RecvFails, HandlerReturns, CloseStream, gw, gs, wat, net, ags, ag, ups
  <2>3. Sending' => /\ gpc \in {"body", "trailer", "reqEnd"} /\ up
                    /\ gpc = "reqEnd" => gpc' = "reqEnd"
    BY <1>6, <2>1 DEF Sending, PendOK, SendReqStart, Send, RefuseLarge, StartWatcher,
           ReadBody, InBody, BodyTooLarge, BodyEnds, SendTrailer, SendReqEnd, RecvHead,
           RecvData, RecvFails, HandlerReturns, CloseStream, gw, gs, wat, net, ags, ag,
           ups, Idle
  <2>4. Sending' => Written' = Written
    <3>1. sent \in Nat
      BY FrameFacts DEF TypeOK
    <3>2. CASE StartWatcher
      BY <3>2 DEF StartWatcher, Written, gw
    <3>3. CASE ReadBody
      <4>1. pend = <<>> /\ sent' = sent + 1
        BY <3>3 DEF ReadBody, InBody, Idle
      <4>2. Sending' => pend' = <<Data("ReqData", sent + 1), "body", "return">>
        BY <3>3 DEF ReadBody, Send, Sending
      <4> QED
        BY <3>1, <4>1, <4>2 DEF Written, Data
    <3>4. CASE ~StartWatcher /\ ~ReadBody
      <4>1. pend = <<>> /\ sent' = sent
        BY <1>6, <3>4 DEF SendReqStart, RefuseLarge, BodyTooLarge, BodyEnds,
               SendTrailer, SendReqEnd, RecvHead, RecvData, RecvFails, HandlerReturns,
               InBody, Idle, gw, gs, wat, net, ags, ag, ups
      <4>2. pend' # <<>> => pend'[1].t # "ReqData"
        BY <1>6, <3>4, <4>1 DEF Frame, Send, SendReqStart, RefuseLarge, BodyTooLarge,
               BodyEnds, SendTrailer, SendReqEnd, RecvHead, RecvData, RecvFails,
               HandlerReturns, gw, gs, wat, net, ags, ag, ups
      <4> QED
        BY <4>1, <4>2 DEF Written
    <3> QED
      BY <3>2, <3>3, <3>4
  <2>5. BodyRuns' = BodyRuns /\ Taken' = Taken
    BY <2>1 DEF BodyRuns, Taken
  <2> QED
    BY <2>1, <2>2, <2>3, <2>4, <2>5, LinesKept DEF Sending
<1>7. CASE ForgetStream \/ GatewayReads \/ GatewayDisconnects \/ BodyQuits \/
          BodyWriteFails \/ Setup \/ Got1xxResponse \/ ResponseEnds \/ SendResEnd \/
          ClientGoes \/ UpstreamReads \/ UpstreamSeesEnd \/ UNCHANGED vars
  <2>1. UNCHANGED <<gpc, pend, sent, badBody, g2a, arx, amap, main, up>>
    BY <1>7 DEF ForgetStream, GatewayReads, GatewayDisconnects, BodyQuits,
           BodyWriteFails, Setup, Got1xxResponse, ResponseEnds, SendResEnd, ClientGoes,
           UpstreamReads, UpstreamSeesEnd, gw, gs, wat, net, ags, ag, ups, vars
  <2>2. Sending' = Sending /\ Written' = Written
    BY <2>1 DEF Sending, Written
  <2>3. BodyRuns' => BodyRuns /\ Taken' = Taken
    <3>1. uGot \in Seq(1..NReq) /\ chunk \in 0..NReq
      BY DEF TypeOK
    <3>2. CASE UpstreamReads
      <4>1. bpc = "write" /\ bpc' = "run" /\ uGot' = Append(uGot, chunk)
        BY <3>2 DEF UpstreamReads
      <4>2. Len(uGot') = Len(uGot) + 1
        BY <3>1, <4>1
      <4> QED
        BY <4>1, <4>2 DEF BodyRuns, Taken
    <3>3. CASE ~UpstreamReads
      <4>1. uGot' = uGot /\ bpc' \in {bpc, "done"}
        BY <1>7, <3>3 DEF ForgetStream, GatewayReads, GatewayDisconnects, BodyQuits,
               BodyWriteFails, Setup, Got1xxResponse, ResponseEnds, SendResEnd,
               ClientGoes, UpstreamSeesEnd, gw, gs, wat, net, ags, ag, ups, vars
      <4> QED
        BY <4>1 DEF BodyRuns, Taken
    <3> QED
      BY <3>2, <3>3
  <2> QED
    BY <2>1, <2>2, <2>3, LinesKept
<1>8. CASE AgentDisconnects \/ DoFails \/ DoReturns \/ CopyResponse \/ SendResTrailer \/
          WaitBody \/ TunnelBreaks
  <2>1. /\ UNCHANGED <<gpc, pend, sent, badBody, arx, main, bpc, uGot>>
        /\ \/ amap' = amap /\ g2a' = g2a /\ up' = up
           \/ amap' = None /\ g2a' = g2a /\ up' = up
           \/ amap' = amap /\ g2a' = <<>> /\ ~up'
    BY <1>8 DEF AgentDisconnects, Forgotten, DoFails, HttpReturns, DoReturns, AgentSend,
           RespondOr, CopyResponse, SendResTrailer, WaitBody, TunnelBreaks, gw, gs, wat,
           net, ags, ag, ups
  <2>2. BodyRuns' = BodyRuns /\ Taken' = Taken /\ Written' = Written
    BY <2>1 DEF BodyRuns, Taken, Written
  <2>3. CASE amap' = amap /\ g2a' = g2a /\ up' = up
    <3>1. Sending' = Sending
      BY <2>1, <2>3 DEF Sending
    <3> QED
      BY <2>1, <2>2, <2>3, <3>1, LinesKept
  <2>4. CASE amap' = None /\ g2a' = g2a /\ up' = up
    <3>1. \A p \in Objs : Feed(p)' = arx[p]
      BY <2>1, <2>4, RelayAssumption DEF Feed
    <3> QED
      BY <2>1, <2>2, <2>4, <3>1, LinesCut
  <2>5. CASE amap' = amap /\ g2a' = <<>> /\ ~up'
    <3>1. ASSUME NEW p \in Objs PROVE Feed(p)' = arx[p]
      <4>1. arx[p] \o <<>> = arx[p]
        BY FeedTypes, EmptyConcat
      <4> QED
        BY <2>1, <2>5, <4>1 DEF Feed
    <3> QED
      BY <2>1, <2>2, <2>5, <3>1, LinesCut
  <2> QED
    BY <2>1, <2>3, <2>4, <2>5
<1> QED
  BY StepCases, <1>1, <1>2, <1>3, <1>4, <1>5, <1>6, <1>7, <1>8

\* The body goroutine ends with the whole body, or cancelled.
LEMMA BodyDoneStep ==
  ASSUME TypeOK, OneStart, ObjectsOK, ReqLines, BodyFront, BodyDone, [Next]_vars
  PROVE  BodyDone'
<1>1. NReq' = NReq
  BY ScenarioStays
<1>2. CASE HandlerWrite \/ SendReqStart \/ RefuseLarge \/ StartWatcher \/ ReadBody \/
          BodyTooLarge \/ BodyEnds \/ SendTrailer \/ SendReqEnd \/ RecvHead \/ RecvData
          \/ RecvFails \/ HandlerReturns \/ ForgetStream \/ Watcher \/ GatewayReads \/
          SendReset \/ GatewayDisconnects \/ AgentReads \/ ClientGoes \/ TunnelBreaks \/
          Setup \/ Got1xxResponse \/ ResponseEnds \/ SendResEnd \/ DoFails \/ DoReturns
          \/ CopyResponse \/ SendResTrailer \/ WaitBody \/ AgentDisconnects \/ UNCHANGED
          vars
  <2>1. UNCHANGED <<bpc, chunk, uGot, uEof>>
    BY <1>2 DEF HandlerWrite, SendReqStart, RefuseLarge, StartWatcher, ReadBody,
           BodyTooLarge, BodyEnds, SendTrailer, SendReqEnd, RecvHead, RecvData,
           RecvFails, HandlerReturns, ForgetStream, Watcher, GatewayReads, SendReset,
           GatewayDisconnects, AgentReads, ClientGoes, TunnelBreaks, Setup,
           Got1xxResponse, ResponseEnds, SendResEnd, DoFails, DoReturns, CopyResponse,
           SendResTrailer, WaitBody, AgentDisconnects, gw, gs, wat, net, ags, ag, ups,
           vars
  <2>2. badBody => badBody'
    BY <1>2 DEF HandlerWrite, SendReqStart, RefuseLarge, StartWatcher, ReadBody,
           BodyTooLarge, BodyEnds, SendTrailer, SendReqEnd, RecvHead, RecvData,
           RecvFails, HandlerReturns, ForgetStream, Watcher, GatewayReads, SendReset,
           GatewayDisconnects, AgentReads, ClientGoes, TunnelBreaks, Setup,
           Got1xxResponse, ResponseEnds, SendResEnd, DoFails, DoReturns, CopyResponse,
           SendResTrailer, WaitBody, AgentDisconnects, gw, gs, wat, net, ags, ag, ups,
           vars
  <2>3. cancelled => cancelled'
    <3>1. CASE AgentDisconnects
      BY <3>1 DEF AgentDisconnects
    <3>2. CASE ~AgentDisconnects
      BY <1>2, <3>2 DEF HandlerWrite, SendReqStart, RefuseLarge, StartWatcher, ReadBody,
             BodyTooLarge, BodyEnds, SendTrailer, SendReqEnd, RecvHead, RecvData,
             RecvFails, HandlerReturns, ForgetStream, Watcher, GatewayReads, SendReset,
             GatewayDisconnects, AgentReads, ClientGoes, TunnelBreaks, Setup,
             Got1xxResponse, ResponseEnds, SendResEnd, DoFails, DoReturns, CopyResponse,
             SendResTrailer, WaitBody, gw, gs, wat, net, ags, ag, ups, vars, RespondOr,
             HttpReturns
    <3> QED
      BY <3>1, <3>2
  <2> QED
    BY <1>1, <2>1, <2>2, <2>3 DEF BodyDone
<1>3. ASSUME NEW o \in Objs, FirstFrame(o) PROVE BodyDone'
  <2>1. UNCHANGED <<badBody, cancelled, uGot, uEof>> /\ (bpc' = "run" \/ UNCHANGED <<bpc, chunk>>)
    BY <1>3 DEF FirstFrame, gw, ag, ups
  <2>2. CASE UNCHANGED <<bpc, chunk>>
    BY <1>1, <2>1, <2>2 DEF BodyDone
  <2>3. CASE ~UNCHANGED <<bpc, chunk>>
    <3>1. main' = o /\ bpc' = "run" /\ arx[o] # <<>> /\ Head(arx[o]).t = "ReqStart"
      BY <1>3, <2>3 DEF FirstFrame, ag
    <3>2. uEof = "no"
      BY <1>3, <3>1 DEF FirstFrame, ObjectsOK, OneStart, HasStart
    <3> QED
      BY <2>1, <3>1, <3>2 DEF BodyDone
  <2> QED
    BY <2>2, <2>3
<1>4. CASE BodyQuits
  BY <1>1, <1>4 DEF BodyQuits, BodyDone, gw, ups
<1>5. CASE BodyFrame
  <2>1. /\ bpc = "run" /\ arx[main] # <<>> /\ UNCHANGED <<badBody, uGot, uEof, main>>
        /\ cancelled => cancelled'
    BY <1>5 DEF BodyFrame, gw, ups
  <2>2. BodyRuns /\ main \in Objs /\ Taken = Len(uGot)
    BY <2>1, MainRuns DEF BodyRuns, Taken, TypeOK
  <2>3. HeadOK(Head(arx[main]))
    BY <2>1, <2>2, QueueInOrder, TailFacts DEF BodyFront
  <2>4. uEof # "eof"
    BY <2>1 DEF BodyDone
  <2>5. CASE Head(arx[main]).t = "ReqData" /\ bpc' = "write" /\ chunk' = Head(arx[main]).n
    BY <1>1, <2>1, <2>2, <2>3, <2>4, <2>5 DEF HeadOK, BodyDone
  <2>6. CASE Head(arx[main]).t = "ReqTrailer" /\ bpc' = bpc
    BY <2>1, <2>4, <2>6 DEF BodyDone
  <2>7. CASE Head(arx[main]).t = "ReqEnd" /\ bpc' = "done"
    BY <1>1, <2>1, <2>2, <2>3, <2>4, <2>7 DEF HeadOK, BodyDone
  <2>8. CASE bpc' = "done" /\ cancelled'
    BY <2>1, <2>4, <2>8 DEF BodyDone
  <2> QED
    BY <1>5, <2>5, <2>6, <2>7, <2>8 DEF BodyFrame
<1>6. CASE BodyWriteFails
  BY <1>1, <1>6 DEF BodyWriteFails, BodyDone, gw, ups
<1>7. CASE UpstreamReads
  <2>1. bpc = "write" /\ bpc' = "run" /\ uEof' = uEof
    BY <1>7 DEF UpstreamReads
  <2> QED
    BY <2>1 DEF BodyDone
<1>8. CASE UpstreamSeesEnd
  BY <1>1, <1>8 DEF UpstreamSeesEnd, BodyDone, gw, ag
<1> QED
  BY StepCases, <1>2, <1>3, <1>4, <1>5, <1>6, <1>7, <1>8

\* The upstream is handed the chunks in order.
LEMMA RequestPrefixStep ==
  ASSUME TypeOK, BodyDone, RequestPrefix, [Next]_vars
  PROVE  RequestPrefix'
<1>1. uGot \in Seq(1..NReq)
  BY DEF TypeOK
<1>2. CASE UpstreamReads
  <2>1. uGot' = Append(uGot, chunk) /\ chunk = Len(uGot) + 1
    BY <1>2 DEF UpstreamReads, BodyDone
  <2>2. chunk \in 1..NReq
    BY <1>1, <2>1 DEF TypeOK
  <2> QED
    BY <1>1, <2>1, <2>2 DEF RequestPrefix
<1>3. CASE HandlerWrite \/ SendReqStart \/ RefuseLarge \/ StartWatcher \/ ReadBody \/
          BodyTooLarge \/ BodyEnds \/ SendTrailer \/ SendReqEnd \/ RecvHead \/ RecvData
          \/ RecvFails \/ HandlerReturns \/ ForgetStream \/ Watcher \/ GatewayReads \/
          SendReset \/ GatewayDisconnects \/ AgentReads \/ (\E o \in Objs :
          FirstFrame(o)) \/ AgentDisconnects \/ BodyQuits \/ BodyFrame \/ BodyWriteFails
          \/ Setup \/ Got1xxResponse \/ DoFails \/ DoReturns \/ CopyResponse \/
          ResponseEnds \/ SendResTrailer \/ SendResEnd \/ WaitBody \/ ClientGoes \/
          TunnelBreaks \/ UpstreamSeesEnd \/ UNCHANGED vars
  <2>1. uGot' = uGot
    BY <1>3 DEF HandlerWrite, SendReqStart, RefuseLarge, StartWatcher, ReadBody,
           BodyTooLarge, BodyEnds, SendTrailer, SendReqEnd, RecvHead, RecvData,
           RecvFails, HandlerReturns, ForgetStream, Watcher, GatewayReads, SendReset,
           GatewayDisconnects, AgentReads, FirstFrame, AgentDisconnects, BodyQuits,
           BodyFrame, BodyWriteFails, Setup, Got1xxResponse, DoFails, DoReturns,
           CopyResponse, ResponseEnds, SendResTrailer, SendResEnd, WaitBody, ClientGoes,
           TunnelBreaks, UpstreamSeesEnd, ups, vars
  <2> QED
    BY <2>1 DEF RequestPrefix
<1> QED
  BY StepCases, <1>2, <1>3

-----------------------------------------------------------------------------
(* The response: what is where.                                            *)

\* handleHTTP only goes forward.
LEMMA HttpMoves ==
  ASSUME TypeOK, OneStart, ObjectsOK, [Next]_vars
  PROVE  \/ hpc' = hpc
         \/ hpc = "off" /\ hpc' = "setup"
         \/ hpc = "setup" /\ hpc' = "do"
         \/ hpc = "do" /\ hpc' = "resp"
         \/ hpc = "resp" /\ hpc' \in {"trailer", "end"}
         \/ hpc = "trailer" /\ hpc' = "end"
         \/ hpc = "end" /\ hpc' = "waitBody"
         \/ hpc # "off" /\ hpc' = "done"
<1>1. CASE HandlerWrite \/ SendReqStart \/ RefuseLarge \/ StartWatcher \/ ReadBody \/
          BodyTooLarge \/ BodyEnds \/ SendTrailer \/ SendReqEnd \/ RecvHead \/ RecvData
          \/ RecvFails \/ HandlerReturns \/ ForgetStream \/ Watcher \/ GatewayReads \/
          SendReset \/ GatewayDisconnects \/ AgentReads \/ AgentDisconnects \/ BodyQuits
          \/ BodyFrame \/ BodyWriteFails \/ Got1xxResponse \/ ClientGoes \/ TunnelBreaks
          \/ UpstreamReads \/ UpstreamSeesEnd \/ UNCHANGED vars
  BY <1>1 DEF HandlerWrite, SendReqStart, RefuseLarge, StartWatcher, ReadBody,
         BodyTooLarge, BodyEnds, SendTrailer, SendReqEnd, RecvHead, RecvData, RecvFails,
         HandlerReturns, ForgetStream, Watcher, GatewayReads, SendReset,
         GatewayDisconnects, AgentReads, AgentDisconnects, BodyQuits, BodyFrame,
         BodyWriteFails, Got1xxResponse, ClientGoes, TunnelBreaks, UpstreamReads,
         UpstreamSeesEnd, ag, vars
<1>2. ASSUME NEW o \in Objs, FirstFrame(o), hpc' # hpc PROVE hpc = "off" /\ hpc' = "setup"
  <2>1. arx[o] # <<>> /\ Head(arx[o]).t = "ReqStart" /\ hpc' = "setup"
    BY <1>2 DEF FirstFrame, ag
  <2>2. HasStart(arx[o])
    BY <2>1 DEF HasStart, TypeOK
  <2> QED
    BY <2>1, <2>2 DEF OneStart, ObjectsOK
<1>3. CASE Setup \/ DoFails \/ DoReturns \/ CopyResponse \/ ResponseEnds \/
          SendResTrailer \/ SendResEnd \/ WaitBody
  BY <1>3 DEF Setup, DoFails, DoReturns, CopyResponse, ResponseEnds, SendResTrailer,
         SendResEnd, WaitBody, RespondOr, HttpReturns
<1> QED
  BY StepCases, <1>1, <1>2, <1>3

\* The kinds of frames that were sent remain allowed.
LEMMA SentSoFarStays ==
  ASSUME TypeOK, OneStart, ObjectsOK, [Next]_vars, NEW f, SentSoFar(f)
  PROVE  SentSoFar(f)'
BY HttpMoves DEF SentSoFar, NotBegun

\* What a step may send to the gateway, and what the gateway takes.
LEMMA ResponseWrites ==
  ASSUME TypeOK, OneStart, ObjectsOK, [Next]_vars
  PROVE  \/ a2g' = a2g
         \/ GatewayReads /\ a2g # <<>> /\ a2g' = Tail(a2g)
         \/ TunnelBreaks /\ \E k \in 0..Len(a2g) : a2g' = SubSeq(a2g, 1, k)
         \/ DoFails /\ up /\ a2g' = a2g \o <<Frame("ResStart"), Frame("ResEnd")>>
         \/ /\ up
            /\ \E f \in Frames :
                 /\ a2g' = Append(a2g, f) /\ f.t \in {"Rst", "Interim", "ResStart", "ResData",
                                                     "ResTrailer", "ResEnd"}
                 /\ f.t = "Interim" => hpc' = "do"
                 /\ f.t = "ResStart" => hpc' = "resp"
                 /\ f.t = "ResData" => CopyResponse /\ f.n = uSent + 1 /\ hpc' = "resp"
                 /\ f.t = "ResTrailer" => hpc' = "end"
                 /\ f.t = "ResEnd" => hpc' = "waitBody"
<1>1. /\ \A t \in {"Rst", "Interim", "ResStart", "ResTrailer", "ResEnd"} :
           Frame(t) \in Frames /\ Frame(t).t = t
      /\ \A n \in 1..NRes : /\ Data("ResData", n) \in Frames
                            /\ Data("ResData", n).t = "ResData" /\ Data("ResData", n).n = n
      /\ NRes \in Nat
  BY FrameFacts DEF TypeOK
<1>2. CASE HandlerWrite \/ SendReqStart \/ RefuseLarge \/ StartWatcher \/ ReadBody \/
          BodyTooLarge \/ BodyEnds \/ SendTrailer \/ SendReqEnd \/ RecvHead \/ RecvData
          \/ RecvFails \/ HandlerReturns \/ ForgetStream \/ Watcher \/ SendReset \/
          GatewayDisconnects \/ AgentDisconnects \/ BodyQuits \/ BodyFrame \/
          BodyWriteFails \/ Setup \/ ResponseEnds \/ WaitBody \/ ClientGoes \/
          UpstreamReads \/ UpstreamSeesEnd \/ UNCHANGED vars
  BY <1>2 DEF HandlerWrite, SendReqStart, RefuseLarge, StartWatcher, ReadBody,
         BodyTooLarge, BodyEnds, SendTrailer, SendReqEnd, RecvHead, RecvData, RecvFails,
         HandlerReturns, ForgetStream, Watcher, SendReset, GatewayDisconnects,
         AgentDisconnects, BodyQuits, BodyFrame, BodyWriteFails, Setup, ResponseEnds,
         WaitBody, ClientGoes, UpstreamReads, UpstreamSeesEnd, net, vars
<1>3. CASE GatewayReads
  BY <1>3 DEF GatewayReads
<1>4. CASE TunnelBreaks
  BY <1>4 DEF TunnelBreaks
<1>5. CASE AgentReads
  <2>1. a2g' = a2g \/ (up /\ a2g' = Append(a2g, Frame("Rst")))
    BY <1>5 DEF AgentReads, DeliverFrame, AgentSend
  <2> QED
    BY <1>1, <2>1
<1>6. ASSUME NEW o \in Objs, FirstFrame(o)
      PROVE  a2g' = a2g \/ (up /\ a2g' = Append(a2g, Frame("Rst")))
  BY <1>6 DEF FirstFrame, AgentSend
<1>7. CASE Got1xxResponse
  <2>1. (a2g' = a2g \/ (up /\ a2g' = Append(a2g, Frame("Interim")))) /\ hpc' = "do"
    BY <1>7 DEF Got1xxResponse, AgentSend, ag
  <2> QED
    BY <1>1, <2>1
<1>8. CASE DoFails
  BY <1>8 DEF DoFails
<1>9. CASE DoReturns
  <2>1. a2g' = a2g \/ (up /\ a2g' = Append(a2g, Frame("ResStart")) /\ hpc' = "resp")
    BY <1>9 DEF DoReturns, AgentSend, RespondOr
  <2> QED
    BY <1>1, <2>1
<1>10. CASE CopyResponse
  <2>1. a2g' = a2g \/ (up /\ a2g' = Append(a2g, Data("ResData", uSent + 1)) /\ hpc' = "resp")
    BY <1>10 DEF CopyResponse, AgentSend, RespondOr
  <2>2. uSent + 1 \in 1..NRes
    BY <1>1, <1>10 DEF CopyResponse, TypeOK
  <2> QED
    BY <1>1, <1>10, <2>1, <2>2
<1>11. CASE SendResTrailer
  <2>1. a2g' = a2g \/ (up /\ a2g' = Append(a2g, Frame("ResTrailer")) /\ hpc' = "end")
    BY <1>11 DEF SendResTrailer, AgentSend, RespondOr
  <2> QED
    BY <1>1, <2>1
<1>12. CASE SendResEnd
  <2>1. a2g' = a2g \/ (up /\ a2g' = Append(a2g, Frame("ResEnd")) /\ hpc' = "waitBody")
    BY <1>12 DEF SendResEnd, AgentSend
  <2> QED
    BY <1>1, <2>1
<1> QED
  BY <1>1, StepCases, <1>2, <1>3, <1>4, <1>5, <1>6, <1>7, <1>8, <1>9, <1>10, <1>11, <1>12

\* What a step does to the handler's queue.
LEMMA QueueMoves ==
  ASSUME TypeOK, [Next]_vars
  PROVE  \/ grx' = grx
         \/ (RecvHead \/ RecvData) /\ grx # <<>> /\ grx' = Tail(grx) /\ a2g' = a2g
         \/ /\ GatewayReads /\ a2g # <<>> /\ gst' = gst
            /\ grx' = Append(grx, Head(a2g)) /\ a2g' = Tail(a2g)
<1>1. CASE HandlerWrite \/ SendReqStart \/ RefuseLarge \/ StartWatcher \/ ReadBody \/
          BodyTooLarge \/ BodyEnds \/ SendTrailer \/ SendReqEnd \/ RecvFails \/
          HandlerReturns \/ ForgetStream \/ Watcher \/ SendReset \/ GatewayDisconnects
          \/ AgentReads \/ (\E o \in Objs : FirstFrame(o)) \/ AgentDisconnects \/
          BodyQuits \/ BodyFrame \/ BodyWriteFails \/ Setup \/ Got1xxResponse \/ DoFails
          \/ DoReturns \/ CopyResponse \/ ResponseEnds \/ SendResTrailer \/ SendResEnd
          \/ WaitBody \/ ClientGoes \/ TunnelBreaks \/ UpstreamReads \/ UpstreamSeesEnd
          \/ UNCHANGED vars
  BY <1>1 DEF HandlerWrite, SendReqStart, RefuseLarge, StartWatcher, ReadBody,
         BodyTooLarge, BodyEnds, SendTrailer, SendReqEnd, RecvFails, HandlerReturns,
         ForgetStream, Watcher, SendReset, GatewayDisconnects, AgentReads, FirstFrame,
         AgentDisconnects, BodyQuits, BodyFrame, BodyWriteFails, Setup, Got1xxResponse,
         DoFails, DoReturns, CopyResponse, ResponseEnds, SendResTrailer, SendResEnd,
         WaitBody, ClientGoes, TunnelBreaks, UpstreamReads, UpstreamSeesEnd, gs, vars
<1>2. CASE RecvHead \/ RecvData
  BY <1>2 DEF RecvHead, RecvData, net
<1>3. CASE GatewayReads
  BY <1>3 DEF GatewayReads, Deliver, gs
<1> QED
  BY StepCases, <1>1, <1>2, <1>3

\* The frames on their way to the client are of the kinds the agent has sent.
LEMMA SoFarStep ==
  ASSUME TypeOK, OneStart, ObjectsOK, SoFar, [Next]_vars
  PROVE  SoFar'
<1>1. grx \in Seq(Frames) /\ a2g \in Seq(Frames)
  BY DEF TypeOK
<1>2. Elems(grx') \subseteq Elems(grx) \cup Elems(a2g)
  <2>1. CASE grx # <<>> /\ grx' = Tail(grx)
    BY <1>1, <2>1, ElemsTail
  <2>2. CASE a2g # <<>> /\ grx' = Append(grx, Head(a2g))
    BY <1>1, <2>2, ElemsTail, ElemsAppend
  <2> QED
    BY <2>1, <2>2, QueueMoves
<1>3. \A f \in Elems(a2g') : f \in Elems(a2g) \/ SentSoFar(f)'
  <2>1. CASE a2g # <<>> /\ a2g' = Tail(a2g)
    BY <1>1, <2>1, ElemsTail
  <2>2. CASE \E k \in 0..Len(a2g) : a2g' = SubSeq(a2g, 1, k)
    BY <1>1, <2>2, ElemsSubSeq
  <2>3. CASE DoFails
    BY <2>3 DEF DoFails, HttpReturns, SentSoFar, NotBegun
  <2>4. CASE \E f \in Frames :
                 /\ a2g' = Append(a2g, f)
                 /\ f.t \in {"Rst", "Interim", "ResStart", "ResData", "ResTrailer", "ResEnd"}
                 /\ f.t = "Interim" => hpc' = "do"
                 /\ f.t = "ResStart" => hpc' = "resp"
                 /\ f.t = "ResData" => CopyResponse /\ f.n = uSent + 1 /\ hpc' = "resp"
                 /\ f.t = "ResTrailer" => hpc' = "end"
                 /\ f.t = "ResEnd" => hpc' = "waitBody"
    <3>1. PICK f \in Frames :
                 /\ a2g' = Append(a2g, f)
                 /\ f.t \in {"Rst", "Interim", "ResStart", "ResData", "ResTrailer", "ResEnd"}
                 /\ f.t = "Interim" => hpc' = "do"
                 /\ f.t = "ResStart" => hpc' = "resp"
                 /\ f.t = "ResData" => CopyResponse /\ f.n = uSent + 1 /\ hpc' = "resp"
                 /\ f.t = "ResTrailer" => hpc' = "end"
                 /\ f.t = "ResEnd" => hpc' = "waitBody"
      BY <2>4
    <3>2. SentSoFar(f)'
      BY <3>1 DEF SentSoFar, NotBegun
    <3> QED
      BY <1>1, <3>1, <3>2, ElemsAppend
  <2>5. CASE a2g' = a2g
    BY <2>5
  <2> QED
    BY <2>1, <2>2, <2>3, <2>4, <2>5, ResponseWrites
<1>4. ASSUME NEW f \in Elems(grx) \cup Elems(a2g) PROVE SentSoFar(f)'
  BY SentSoFarStays DEF SoFar
<1> QED
  BY <1>2, <1>3, <1>4 DEF SoFar, Elems, SentSoFar, NotBegun

\* Where the handlers of the two sides are in the response.
LEMMA ControlStep ==
  ASSUME TypeOK, PendOK, OneStart, ObjectsOK, ResControl, SoFar, [Next]_vars
  PROVE  ResControl'
<1> DEFINE Early == {"start", "body", "trailer", "reqEnd", "head"}
<1>1. grx \in Seq(Frames)
  BY DEF TypeOK
<1>2. NotBegun' => NotBegun /\ uSent' = uSent
  <2>1. NotBegun' => NotBegun
    BY HttpMoves DEF NotBegun
  <2>2. uSent' = uSent \/ CopyResponse
    BY StepCases DEF HandlerWrite, SendReqStart, RefuseLarge, StartWatcher, ReadBody,
           BodyTooLarge, BodyEnds, SendTrailer, SendReqEnd, RecvHead, RecvData,
           RecvFails, HandlerReturns, ForgetStream, Watcher, GatewayReads, SendReset,
           GatewayDisconnects, AgentReads, FirstFrame, AgentDisconnects, BodyQuits,
           BodyFrame, BodyWriteFails, Setup, Got1xxResponse, DoFails, DoReturns,
           ResponseEnds, SendResTrailer, SendResEnd, WaitBody, ClientGoes, TunnelBreaks,
           UpstreamReads, UpstreamSeesEnd, ups, vars
  <2>3. CopyResponse => ~NotBegun
    BY DEF CopyResponse, NotBegun
  <2> QED
    BY <2>1, <2>2, <2>3
<1>3. gpc' = "relay" => gpc = "relay" \/ (RecvHead /\ grx # <<>> /\ Head(grx).t = "ResStart")
  <2>1. CASE HandlerWrite
    BY <2>1 DEF HandlerWrite, PendOK
  <2>2. CASE ~HandlerWrite
    BY <2>2, StepCases DEF SendReqStart, Send, RefuseLarge, StartWatcher, ReadBody,
           InBody, BodyTooLarge, BodyEnds, SendTrailer, SendReqEnd, RecvHead, RecvData,
           RecvFails, HandlerReturns, CloseStream, ForgetStream, Watcher, GatewayReads,
           SendReset, GatewayDisconnects, AgentReads, FirstFrame, AgentDisconnects,
           BodyQuits, BodyFrame, BodyWriteFails, Setup, Got1xxResponse, DoFails,
           DoReturns, CopyResponse, ResponseEnds, SendResTrailer, SendResEnd, WaitBody,
           ClientGoes, TunnelBreaks, UpstreamReads, UpstreamSeesEnd, gw, vars
  <2> QED
    BY <2>1, <2>2
<1>4. (NotBegun => uSent = 0 /\ gpc # "relay")'
  <2>1. grx # <<>> /\ Head(grx).t = "ResStart" => ~NotBegun
    BY <1>1, ElemsTail DEF SoFar, SentSoFar
  <2> QED
    BY <1>2, <1>3, <2>1 DEF ResControl
<1>5. gpc \in {"return", "done"} => gpc' \in {"return", "done"}
  BY StepCases DEF PendOK, Idle, InBody, HandlerWrite, SendReqStart, Send, RefuseLarge,
         StartWatcher, ReadBody, InBody, BodyTooLarge, BodyEnds, SendTrailer,
         SendReqEnd, RecvHead, RecvData, RecvFails, HandlerReturns, CloseStream,
         ForgetStream, Watcher, GatewayReads, SendReset, GatewayDisconnects, AgentReads,
         FirstFrame, AgentDisconnects, BodyQuits, BodyFrame, BodyWriteFails, Setup,
         Got1xxResponse, DoFails, DoReturns, CopyResponse, ResponseEnds, SendResTrailer,
         SendResEnd, WaitBody, ClientGoes, TunnelBreaks, UpstreamReads, UpstreamSeesEnd,
         gw, vars
<1>6. hpc \in {"waitBody", "done"} => hpc' \in {"waitBody", "done"}
  BY HttpMoves
<1>7. why' = "resEnd" => \/ why = "resEnd"
                         \/ /\ RecvData /\ grx # <<>> /\ Head(grx).t = "ResEnd"
                            /\ gpc' = "return" /\ hpc' = hpc
  BY StepCases DEF HandlerWrite, SendReqStart, RefuseLarge, StartWatcher, ReadBody,
         BodyTooLarge, BodyEnds, SendTrailer, SendReqEnd, RecvHead, RecvData, RecvFails,
         HandlerReturns, ForgetStream, Watcher, GatewayReads, SendReset,
         GatewayDisconnects, AgentReads, FirstFrame, AgentDisconnects, BodyQuits,
         BodyFrame, BodyWriteFails, Setup, Got1xxResponse, DoFails, DoReturns,
         CopyResponse, ResponseEnds, SendResTrailer, SendResEnd, WaitBody, ClientGoes,
         TunnelBreaks, UpstreamReads, UpstreamSeesEnd, gw, ag, vars
<1>8. (why = "resEnd" => gpc \in {"return", "done"} /\ hpc \in {"waitBody", "done"})'
  <2>1. grx # <<>> /\ Head(grx).t = "ResEnd" => hpc \in {"waitBody", "done"}
    BY <1>1, ElemsTail DEF SoFar, SentSoFar, NotBegun, TypeOK
  <2> QED
    BY <1>5, <1>6, <1>7, <2>1 DEF ResControl
<1>9. (gpc \in {"start", "body", "trailer", "reqEnd", "head"} => got = <<>>)'
  <2>1. got' = got \/ (RecvData /\ gpc = "relay")
    BY StepCases DEF HandlerWrite, SendReqStart, RefuseLarge, StartWatcher, ReadBody,
           BodyTooLarge, BodyEnds, SendTrailer, SendReqEnd, RecvHead, RecvData,
           RecvFails, HandlerReturns, ForgetStream, Watcher, GatewayReads, SendReset,
           GatewayDisconnects, AgentReads, FirstFrame, AgentDisconnects, BodyQuits,
           BodyFrame, BodyWriteFails, Setup, Got1xxResponse, DoFails, DoReturns,
           CopyResponse, ResponseEnds, SendResTrailer, SendResEnd, WaitBody, ClientGoes,
           TunnelBreaks, UpstreamReads, UpstreamSeesEnd, gw, vars
  <2>2. gpc' \in Early => gpc \in Early
    <3>1. CASE HandlerWrite
      BY <3>1 DEF HandlerWrite, PendOK
    <3>2. CASE SendReqStart \/ RefuseLarge \/ StartWatcher \/ ReadBody \/ BodyTooLarge
              \/ BodyEnds \/ SendTrailer \/ SendReqEnd
      BY <3>2 DEF SendReqStart, RefuseLarge, StartWatcher, ReadBody, BodyTooLarge,
             BodyEnds, SendTrailer, SendReqEnd, InBody, gw
    <3>3. CASE RecvHead \/ RecvData \/ RecvFails \/ HandlerReturns
      BY <3>3 DEF Send, RecvHead, RecvData, RecvFails, HandlerReturns
    <3>4. CASE ForgetStream \/ Watcher \/ GatewayReads \/ SendReset \/
              GatewayDisconnects \/ AgentReads \/ (\E o \in Objs : FirstFrame(o)) \/
              AgentDisconnects \/ BodyQuits \/ BodyFrame \/ BodyWriteFails \/ Setup \/
              Got1xxResponse \/ DoFails \/ DoReturns \/ CopyResponse \/ ResponseEnds \/
              SendResTrailer \/ SendResEnd \/ WaitBody \/ ClientGoes \/ TunnelBreaks \/
              UpstreamReads \/ UpstreamSeesEnd \/ UNCHANGED vars
      BY <3>4 DEF ForgetStream, Watcher, GatewayReads, SendReset, GatewayDisconnects,
             AgentReads, FirstFrame, AgentDisconnects, BodyQuits, BodyFrame,
             BodyWriteFails, Setup, Got1xxResponse, DoFails, DoReturns, CopyResponse,
             ResponseEnds, SendResTrailer, SendResEnd, WaitBody, ClientGoes,
             TunnelBreaks, UpstreamReads, UpstreamSeesEnd, gw, vars
    <3> QED
      BY StepCases, <3>1, <3>2, <3>3, <3>4
  <2> QED
    BY <2>1, <2>2 DEF ResControl
<1>10. (watch \in {"checked", "sent"} => gone)'
  <2>1. (gone => gone') /\ (watch' \in {"checked", "sent"} => watch \in {"checked", "sent"} \/ gone)
    <3>1. CASE HandlerWrite \/ SendReqStart \/ RefuseLarge \/ ReadBody \/ BodyTooLarge
              \/ BodyEnds \/ SendTrailer \/ SendReqEnd \/ RecvHead \/ RecvData \/
              RecvFails \/ HandlerReturns \/ ForgetStream \/ GatewayReads \/ SendReset
              \/ GatewayDisconnects \/ AgentReads \/ (\E o \in Objs : FirstFrame(o)) \/
              AgentDisconnects \/ BodyQuits \/ BodyFrame \/ BodyWriteFails \/ Setup \/
              Got1xxResponse \/ DoFails \/ DoReturns \/ CopyResponse \/ ResponseEnds \/
              SendResTrailer \/ SendResEnd \/ WaitBody \/ TunnelBreaks \/ UpstreamReads
              \/ UpstreamSeesEnd \/ UNCHANGED vars
      BY <3>1 DEF HandlerWrite, SendReqStart, RefuseLarge, ReadBody, BodyTooLarge,
             BodyEnds, SendTrailer, SendReqEnd, RecvHead, RecvData, RecvFails,
             HandlerReturns, ForgetStream, GatewayReads, SendReset, GatewayDisconnects,
             AgentReads, FirstFrame, AgentDisconnects, BodyQuits, BodyFrame,
             BodyWriteFails, Setup, Got1xxResponse, DoFails, DoReturns, CopyResponse,
             ResponseEnds, SendResTrailer, SendResEnd, WaitBody, TunnelBreaks,
             UpstreamReads, UpstreamSeesEnd, wat, vars
    <3>2. CASE StartWatcher \/ ClientGoes \/ Watcher
      BY <3>2 DEF StartWatcher, ClientGoes, Watcher
    <3> QED
      BY StepCases, <3>1, <3>2
  <2> QED
    BY <2>1 DEF ResControl
<1> QED
  BY <1>4, <1>8, <1>9, <1>10 DEF ResControl

-----------------------------------------------------------------------------
(* The chunks of the response ascend.                                      *)

\* A queue without its head stays sorted.
LEMMA SortedTail ==
  ASSUME NEW S, NEW q \in Seq(S), q # <<>>, Sorted(q)
  PROVE  Sorted(Tail(q)) /\ \A h \in Elems(Tail(q)) : Before(Head(q), h)
<1>1. /\ Len(Tail(q)) = Len(q) - 1 /\ Len(q) \in Nat /\ Len(q) > 0
      /\ \A i \in 1..(Len(q) - 1) : Tail(q)[i] = q[i + 1]
      /\ Head(q) = q[1]
  BY TailFacts
<1>2. ASSUME NEW i \in 1..Len(Tail(q)), NEW j \in 1..Len(Tail(q)), i < j
      PROVE  Before(Tail(q)[i], Tail(q)[j])
  <2>1. i + 1 \in 1..Len(q) /\ j + 1 \in 1..Len(q) /\ i + 1 < j + 1
    BY <1>1, <1>2
  <2>2. Before(q[i + 1], q[j + 1])
    BY <2>1 DEF Sorted
  <2> QED
    BY <1>1, <2>2
<1>3. ASSUME NEW i \in 1..Len(Tail(q)) PROVE Before(Head(q), Tail(q)[i])
  <2>1. 1 \in 1..Len(q) /\ i + 1 \in 1..Len(q) /\ 1 < i + 1
    BY <1>1
  <2>2. Before(q[1], q[i + 1])
    BY <2>1 DEF Sorted
  <2> QED
    BY <1>1, <2>2
<1> QED
  BY <1>2, <1>3 DEF Sorted, Elems

\* A sorted queue grows by a later chunk.
LEMMA SortedAppend ==
  ASSUME NEW S, NEW q \in Seq(S), NEW f \in S, Sorted(q), \A h \in Elems(q) : Before(h, f)
  PROVE  Sorted(Append(q, f))
<1>1. /\ Len(Append(q, f)) = Len(q) + 1 /\ Len(q) \in Nat
      /\ \A i \in 1..Len(q) : Append(q, f)[i] = q[i]
      /\ Append(q, f)[Len(q) + 1] = f
  BY AppendFacts
<1>2. ASSUME NEW i \in 1..(Len(q) + 1), NEW j \in 1..(Len(q) + 1), i < j
      PROVE  Before(Append(q, f)[i], Append(q, f)[j])
  <2>1. i \in 1..Len(q) /\ Append(q, f)[i] = q[i]
    BY <1>1, <1>2
  <2>2. CASE j = Len(q) + 1
    BY <1>1, <2>1, <2>2 DEF Elems
  <2>3. CASE j # Len(q) + 1
    <3>1. j \in 1..Len(q) /\ Append(q, f)[j] = q[j]
      BY <1>1, <2>3
    <3> QED
      BY <1>2, <2>1, <3>1 DEF Sorted
  <2> QED
    BY <2>2, <2>3
<1> QED
  BY <1>1, <1>2 DEF Sorted

\* A part of a sorted queue is sorted.
LEMMA SortedSubSeq ==
  ASSUME NEW S, NEW q \in Seq(S), NEW k \in 0..Len(q), Sorted(q)
  PROVE  Sorted(SubSeq(q, 1, k))
<1>1. /\ Len(SubSeq(q, 1, k)) = k /\ k \in Nat /\ Len(q) \in Nat /\ k <= Len(q)
      /\ \A i \in 1..k : SubSeq(q, 1, k)[i] = q[i]
  BY SubSeqFacts
<1>2. ASSUME NEW i \in 1..k, NEW j \in 1..k, i < j
      PROVE  Before(SubSeq(q, 1, k)[i], SubSeq(q, 1, k)[j])
  <2>1. i \in 1..Len(q) /\ j \in 1..Len(q)
    BY <1>1
  <2> QED
    BY <1>1, <1>2, <2>1 DEF Sorted
<1> QED
  BY <1>1, <1>2 DEF Sorted

\* The 502 of DoFails is two frames.
LEMMA AppendTwo ==
  ASSUME NEW S, NEW q \in Seq(S), NEW f \in S, NEW h \in S
  PROVE  q \o <<f, h>> = Append(Append(q, f), h) /\ Append(q, f) \in Seq(S)
OBVIOUS

\* Chunks of the response are not reordered, and none of them was written before.
LEMMA AscendingStep ==
  ASSUME TypeOK, OneStart, ObjectsOK, Ascending, [Next]_vars
  PROVE  Ascending'
<1>1. /\ grx \in Seq(Frames) /\ a2g \in Seq(Frames) /\ got \in Seq(1..NRes)
      /\ Len(got) \in Nat /\ uSent \in Nat /\ \A f \in Frames : f.n \in Nat
  BY FrameFacts DEF TypeOK
<1>2. Elems(grx) \subseteq Frames /\ Elems(a2g) \subseteq Frames
  BY <1>1, ElemsTyped
<1>3. got' = got \/ RecvData
  BY StepCases DEF HandlerWrite, SendReqStart, RefuseLarge, StartWatcher, ReadBody,
         BodyTooLarge, BodyEnds, SendTrailer, SendReqEnd, RecvHead, RecvFails,
         HandlerReturns, ForgetStream, Watcher, GatewayReads, SendReset,
         GatewayDisconnects, AgentReads, FirstFrame, AgentDisconnects, BodyQuits,
         BodyFrame, BodyWriteFails, Setup, Got1xxResponse, DoFails, DoReturns,
         CopyResponse, ResponseEnds, SendResTrailer, SendResEnd, WaitBody, ClientGoes,
         TunnelBreaks, UpstreamReads, UpstreamSeesEnd, gw, vars
<1>4. (uSent' = uSent /\ ~CopyResponse) \/ (CopyResponse /\ uSent' = uSent + 1)
  BY StepCases DEF CopyResponse, HandlerWrite, SendReqStart, RefuseLarge, StartWatcher,
         ReadBody, BodyTooLarge, BodyEnds, SendTrailer, SendReqEnd, RecvHead, RecvData,
         RecvFails, HandlerReturns, ForgetStream, Watcher, GatewayReads, SendReset,
         GatewayDisconnects, AgentReads, FirstFrame, AgentDisconnects, BodyQuits,
         BodyFrame, BodyWriteFails, Setup, Got1xxResponse, DoFails, DoReturns,
         ResponseEnds, SendResTrailer, SendResEnd, WaitBody, ClientGoes, TunnelBreaks,
         UpstreamReads, UpstreamSeesEnd, ups, vars
<1>5. RecvData \/ RecvHead \/ GatewayReads \/ TunnelBreaks \/ DoFails => uSent' = uSent
  BY DEF RecvData, RecvHead, GatewayReads, TunnelBreaks, DoFails, ups
<1>6. CopyResponse => grx' = grx /\ got' = got
  BY DEF CopyResponse, gs, gw
<1>7. GatewayReads \/ TunnelBreaks \/ DoFails => got' = got
  BY DEF GatewayReads, TunnelBreaks, DoFails, gw
<1>8. CASE (RecvHead \/ RecvData) /\ grx # <<>> /\ grx' = Tail(grx) /\ a2g' = a2g
  <2>1. /\ Head(grx) \in Elems(grx) /\ Head(grx) \in Frames
        /\ Elems(grx') \subseteq Elems(grx)
        /\ Sorted(grx') /\ \A h \in Elems(grx') : Before(Head(grx), h)
    BY <1>1, <1>8, ElemsTail, SortedTail DEF Ascending
  <2>2. uSent' = uSent
    BY <1>5, <1>8
  <2>3. CASE got' = got
    BY <1>8, <2>1, <2>2, <2>3 DEF Ascending, InRange
  <2>4. CASE Head(grx).t = "ResData" /\ got' = Append(got, Head(grx).n)
    <3>1. Len(got') = Len(got) + 1
      <4>1. Head(grx).n \in 1..NRes
        BY <2>1, <2>4, FrameFacts DEF TypeOK
      <4> QED
        BY <1>1, <2>4, <4>1
    <3>2. Len(got) < Head(grx).n /\ Head(grx).n <= uSent /\ Head(grx).n \in Nat
      BY <1>1, <2>1, <2>4 DEF Ascending, InRange
    <3>3. \A h \in Elems(grx') \cup Elems(a2g) : InRange(h)'
      <4>1. \A h \in Elems(grx') \cup Elems(a2g) : InRange(h) /\ Before(Head(grx), h) /\ h \in Frames
        BY <1>2, <2>1 DEF Ascending
      <4> QED
        BY <1>1, <2>2, <2>4, <3>1, <3>2, <4>1 DEF InRange, Before
    <3> QED
      BY <1>1, <1>8, <2>1, <2>2, <3>1, <3>2, <3>3 DEF Ascending, InRange
  <2> QED
    BY <1>3, <1>8, <2>3, <2>4 DEF RecvData
<1>9. CASE grx' = grx /\ ~RecvData /\ ~DoFails
  <2>1. got' = got
    BY <1>3, <1>9
  <2>2. CASE a2g' = a2g
    BY <1>1, <1>2, <1>4, <1>9, <2>1, <2>2 DEF Ascending, InRange
  <2>3. CASE GatewayReads /\ a2g # <<>> /\ a2g' = Tail(a2g)
    <3>1. Elems(a2g') \subseteq Elems(a2g) /\ Sorted(a2g') /\ uSent' = uSent
      BY <1>1, <1>5, <2>3, ElemsTail, SortedTail DEF Ascending
    <3> QED
      BY <1>9, <2>1, <3>1 DEF Ascending, InRange
  <2>4. CASE TunnelBreaks /\ \E k \in 0..Len(a2g) : a2g' = SubSeq(a2g, 1, k)
    <3>1. Elems(a2g') \subseteq Elems(a2g) /\ Sorted(a2g') /\ uSent' = uSent
      BY <1>1, <1>5, <2>4, ElemsSubSeq, SortedSubSeq DEF Ascending
    <3> QED
      BY <1>9, <2>1, <3>1 DEF Ascending, InRange
  <2>5. ASSUME NEW f \in Frames, a2g' = Append(a2g, f),
               f.t = "ResData" => CopyResponse /\ f.n = uSent + 1
        PROVE  Ascending'
    <3>1. Elems(a2g') = Elems(a2g) \cup {f}
      BY <1>1, <2>5, ElemsAppend
    <3>2. \A h \in Elems(grx) \cup Elems(a2g) : Before(h, f)
      BY <1>1, <1>2, <2>5 DEF Ascending, Before, InRange
    <3>3. Sorted(a2g')
      BY <1>1, <2>5, <3>2, SortedAppend DEF Ascending
    <3>4. InRange(f)' /\ \A h \in Elems(grx) \cup Elems(a2g) : InRange(h)'
      BY <1>1, <1>2, <1>4, <2>1, <2>5 DEF Ascending, InRange
    <3>5. Len(got') <= uSent'
      BY <1>1, <1>4, <2>1 DEF Ascending
    <3> QED
      BY <1>9, <3>1, <3>2, <3>3, <3>4, <3>5 DEF Ascending, InRange
  <2> QED
    BY <1>9, <2>2, <2>3, <2>4, <2>5, ResponseWrites
<1>10. CASE DoFails
  <2>1. got' = got /\ uSent' = uSent /\ grx' = grx
    BY <1>5, <1>7, <1>10 DEF DoFails, gs
  <2>2. CASE a2g' = a2g
    BY <2>1, <2>2 DEF Ascending, InRange
  <2>3. CASE a2g' = a2g \o <<Frame("ResStart"), Frame("ResEnd")>>
    <3> DEFINE x == Frame("ResStart")
               y == Frame("ResEnd")
               b == Append(a2g, x)
    <3>1. x \in Frames /\ y \in Frames /\ x.t = "ResStart" /\ y.t = "ResEnd"
      BY FrameFacts DEF TypeOK
    <3> HIDE DEF x, y
    <3>2. a2g' = Append(b, y) /\ b \in Seq(Frames)
      BY <1>1, <2>3, <3>1, AppendTwo DEF x, y
    <3>3. Sorted(b) /\ Elems(b) = Elems(a2g) \cup {x}
      <4>1. \A h \in Elems(a2g) : Before(h, x)
        BY <3>1 DEF Before
      <4> QED
        BY <1>1, <3>1, <4>1, SortedAppend, ElemsAppend DEF Ascending
    <3> HIDE DEF b
    <3>4. Sorted(a2g') /\ Elems(a2g') = Elems(a2g) \cup {x, y}
      <4>1. \A h \in Elems(b) : Before(h, y)
        BY <3>1 DEF Before
      <4>2. Sorted(Append(b, y)) /\ Elems(Append(b, y)) = Elems(b) \cup {y}
        BY <3>1, <3>2, <3>3, <4>1, SortedAppend, ElemsAppend
      <4> QED
        BY <3>2, <3>3, <4>2
    <3>5. \A h : Before(h, x) /\ Before(h, y) /\ InRange(x)' /\ InRange(y)'
      BY <3>1 DEF Before, InRange, x, y, Frame
    <3>6. \A h : InRange(h) => InRange(h)'
      BY <2>1 DEF InRange
    <3> QED
      BY <2>1, <3>4, <3>5, <3>6 DEF Ascending, InRange
  <2> QED
    BY <1>10, <2>2, <2>3 DEF DoFails
<1>11. CASE GatewayReads /\ a2g # <<>> /\ grx' = Append(grx, Head(a2g)) /\ a2g' = Tail(a2g)
  <2>1. /\ Head(a2g) \in Elems(a2g) /\ Head(a2g) \in Frames
        /\ Elems(a2g') \subseteq Elems(a2g)
        /\ Sorted(a2g') /\ \A h \in Elems(a2g') : Before(Head(a2g), h)
    BY <1>1, <1>11, ElemsTail, SortedTail DEF Ascending
  <2>2. Elems(grx') = Elems(grx) \cup {Head(a2g)}
    BY <1>1, <1>11, <2>1, ElemsAppend
  <2>3. Sorted(grx')
    BY <1>1, <1>11, <2>1, SortedAppend DEF Ascending
  <2>4. got' = got /\ uSent' = uSent
    BY <1>5, <1>7, <1>11
  <2> QED
    BY <2>1, <2>2, <2>3, <2>4 DEF Ascending, InRange
<1>12. CASE RecvData /\ grx' = grx
  BY <1>8, <1>12 DEF RecvData, net
<1> QED
  BY <1>8, <1>9, <1>10, <1>11, <1>12, QueueMoves

\* The client is written the chunks in order, and all of them before TResEnd.
LEMMA ClientStep ==
  ASSUME TypeOK, PendOK, ResControl, ResLine, Ascending, ResponsePrefix,
         ResEndMeansAllSent, [Next]_vars
  PROVE  ResponsePrefix' /\ ResEndMeansAllSent'
<1>1. grx \in Seq(Frames) /\ a2g \in Seq(Frames) /\ got \in Seq(1..NRes) /\ NRes' = NRes
  BY ScenarioStays DEF TypeOK
<1>2. gone => gone'
  BY StepCases DEF ClientGoes, HandlerWrite, SendReqStart, RefuseLarge, StartWatcher,
         ReadBody, BodyTooLarge, BodyEnds, SendTrailer, SendReqEnd, RecvHead, RecvData,
         RecvFails, HandlerReturns, ForgetStream, Watcher, GatewayReads, SendReset,
         GatewayDisconnects, AgentReads, FirstFrame, AgentDisconnects, BodyQuits,
         BodyFrame, BodyWriteFails, Setup, Got1xxResponse, DoFails, DoReturns,
         CopyResponse, ResponseEnds, SendResTrailer, SendResEnd, WaitBody, TunnelBreaks,
         UpstreamReads, UpstreamSeesEnd, wat, vars
<1>3. CASE RecvData
  <2>1. gpc = "relay" /\ grx # <<>> /\ uSent' = uSent /\ gone' = gone
    BY <1>3 DEF RecvData, ups, wat
  <2>2. /\ ResFeed # <<>> /\ ResFeed[1] = Head(grx)
    <3>1. grx \o a2g # <<>> /\ (grx \o a2g)[1] = grx[1] /\ Head(grx) = grx[1]
      BY <1>1, <2>1, TailConcat, TailFacts
    <3> QED
      BY <2>1, <3>1 DEF ResFeed
  <2>3. ~gone => ResHeadOK(Head(grx))
    BY <2>1, <2>2 DEF ResLine, Listening
  <2>4. CASE got' = got
    <3>1. ResponsePrefix'
      BY <1>2, <2>4 DEF ResponsePrefix
    <3>2. why' = "resEnd" => Head(grx).t = "ResEnd" \/ why = "resEnd"
      BY <1>3 DEF RecvData
    <3>3. why # "resEnd"
      BY <2>1 DEF ResControl
    <3> QED
      BY <2>1, <2>3, <2>4, <3>1, <3>2, <3>3 DEF ResEndMeansAllSent, ResHeadOK
  <2>5. CASE Head(grx).t = "ResData" /\ got' = Append(got, Head(grx).n) /\ why' = why
    <3>1. why # "resEnd"
      BY <2>1 DEF ResControl
    <3>2. ~gone => Head(grx).n = Len(got) + 1
      BY <2>3, <2>5 DEF ResHeadOK
    <3>3. Head(grx).n \in 1..NRes
      BY <1>1, <2>1, <2>5, TailFacts, FrameFacts DEF TypeOK
    <3>4. /\ Len(got') = Len(got) + 1 /\ Len(got) \in Nat
          /\ \A i \in 1..Len(got) : got'[i] = got[i]
          /\ got'[Len(got) + 1] = Head(grx).n
          /\ DOMAIN got' = 1..(Len(got) + 1) /\ DOMAIN got = 1..Len(got)
      BY <1>1, <2>5, <3>3
    <3>5. ~gone => \A i \in 1..(Len(got) + 1) : got'[i] = i
      BY <3>2, <3>4 DEF ResponsePrefix
    <3> QED
      BY <2>1, <2>5, <3>1, <3>4, <3>5 DEF ResponsePrefix, ResEndMeansAllSent
  <2> QED
    BY <1>3, <2>4, <2>5 DEF RecvData
<1>4. CASE ~RecvData
  <2>1. got' = got /\ (why' = "resEnd" => why = "resEnd")
    BY <1>4, StepCases DEF HandlerWrite, SendReqStart, RefuseLarge, StartWatcher,
           ReadBody, BodyTooLarge, BodyEnds, SendTrailer, SendReqEnd, RecvHead,
           RecvFails, HandlerReturns, ForgetStream, Watcher, GatewayReads, SendReset,
           GatewayDisconnects, AgentReads, FirstFrame, AgentDisconnects, BodyQuits,
           BodyFrame, BodyWriteFails, Setup, Got1xxResponse, DoFails, DoReturns,
           CopyResponse, ResponseEnds, SendResTrailer, SendResEnd, WaitBody, ClientGoes,
           TunnelBreaks, UpstreamReads, UpstreamSeesEnd, gw, vars
  <2>2. uSent' = uSent \/ hpc = "resp"
    BY StepCases DEF CopyResponse, HandlerWrite, SendReqStart, RefuseLarge,
           StartWatcher, ReadBody, BodyTooLarge, BodyEnds, SendTrailer, SendReqEnd,
           RecvHead, RecvData, RecvFails, HandlerReturns, ForgetStream, Watcher,
           GatewayReads, SendReset, GatewayDisconnects, AgentReads, FirstFrame,
           AgentDisconnects, BodyQuits, BodyFrame, BodyWriteFails, Setup,
           Got1xxResponse, DoFails, DoReturns, ResponseEnds, SendResTrailer, SendResEnd,
           WaitBody, ClientGoes, TunnelBreaks, UpstreamReads, UpstreamSeesEnd, ups, vars
  <2> QED
    BY <1>2, <2>1, <2>2 DEF ResponsePrefix, ResEndMeansAllSent, ResControl
<1> QED
  BY <1>3, <1>4

-----------------------------------------------------------------------------
(* The line of response frames.                                            *)

\* What the handler of the gateway will yet get.
LEMMA ResFeedTypes ==
  ASSUME TypeOK
  PROVE  /\ grx \in Seq(Frames) /\ a2g \in Seq(Frames) /\ ResFeed \in Seq(Frames)
         /\ Frames \subseteq AnyFrames
         /\ gst = "open" => ResFeed = grx \o a2g
         /\ gst # "open" => ResFeed = grx
         /\ Elems(ResFeed) \subseteq Elems(grx) \cup Elems(a2g)
         /\ uSent \in Nat /\ Len(got) \in Nat /\ NRes \in Nat
<1>1. grx \in Seq(Frames) /\ a2g \in Seq(Frames)
  BY DEF TypeOK
<1>2. grx \o a2g \in Seq(Frames)
  BY <1>1, ConcatFacts
<1>3. Frames \subseteq AnyFrames /\ uSent \in Nat /\ Len(got) \in Nat /\ NRes \in Nat
  BY FrameFacts DEF TypeOK, Frames, AnyFrames
<1>4. Elems(grx \o a2g) \subseteq Elems(grx) \cup Elems(a2g)
  <2>1. /\ Len(grx \o a2g) = Len(grx) + Len(a2g) /\ Len(grx) \in Nat /\ Len(a2g) \in Nat
        /\ \A i \in 1..Len(grx) : (grx \o a2g)[i] = grx[i]
        /\ \A i \in 1..Len(a2g) : (grx \o a2g)[Len(grx) + i] = a2g[i]
    BY <1>1, ConcatFacts
  <2>2. ASSUME NEW i \in 1..Len(grx \o a2g)
        PROVE  (grx \o a2g)[i] \in Elems(grx) \cup Elems(a2g)
    <3>1. CASE i \in 1..Len(grx)
      BY <2>1, <3>1 DEF Elems
    <3>2. CASE i \notin 1..Len(grx)
      <4>1. i - Len(grx) \in 1..Len(a2g) /\ Len(grx) + (i - Len(grx)) = i
        BY <2>1, <3>2
      <4> QED
        BY <2>1, <4>1 DEF Elems
    <3> QED
      BY <3>1, <3>2
  <2> QED
    BY <2>2 DEF Elems
<1> QED
  BY <1>1, <1>2, <1>3, <1>4 DEF ResFeed

\* Until the end of the response is sent the order does not depend on its length.
LEMMA OrderBeforeEnd ==
  ASSUME NEW S, NEW q \in Seq(S), NEW n, NEW m, Chain(q, ResOrder(n)),
         \A f \in Elems(q) : f.t \notin {"ResTrailer", "ResEnd"}
  PROVE  Chain(q, ResOrder(m))
<1> SUFFICES ASSUME NEW i \in 1..(Len(q) - 1) PROVE <<q[i], q[i + 1]>> \in ResOrder(m)
  BY DEF Chain
<1>1. i + 1 \in 1..Len(q)
  BY EmptyFacts
<1>2. q[i + 1].t \notin {"ResTrailer", "ResEnd"}
  BY <1>1 DEF Elems
<1>3. <<q[i], q[i + 1]>> \in ResOrder(n)
  BY DEF Chain
<1> QED
  BY <1>2, <1>3 DEF ResOrder, ResNext

\* The response may only get longer while its end is not on the way.
LEMMA LongerResponse ==
  ASSUME TypeOK, SoFar, ResLine, Listening, [Next]_vars,
         uSent' = uSent \/ hpc = "resp"
  PROVE  /\ Chain(ResFeed, ResOrder(uSent'))
         /\ \A f \in Elems(ResFeed) : f.t \in {"ResTrailer", "ResEnd"} => uSent' = uSent
<1>1. CASE uSent' = uSent
  BY <1>1 DEF ResLine
<1>2. CASE hpc = "resp"
  <2>1. \A f \in Elems(ResFeed) : f.t \notin {"ResTrailer", "ResEnd"}
    BY <1>2, ResFeedTypes DEF SoFar, SentSoFar
  <2>2. Chain(ResFeed, ResOrder(uSent)) /\ ResFeed \in Seq(Frames)
    BY ResFeedTypes DEF ResLine
  <2> QED
    BY <2>1, <2>2, OrderBeforeEnd
<1> QED
  BY <1>1, <1>2

\* The frames do not move.
LEMMA ResponseKept ==
  ASSUME TypeOK, SoFar, ResLine, Listening, [Next]_vars,
         ResFeed' = ResFeed, gst' # "closing",
         uSent' = uSent \/ hpc = "resp",
         gpc' = "relay" => gpc = "relay" /\ got' = got,
         up' /\ gst' = "open" =>
           /\ up /\ gst = "open" /\ uSent' = uSent
           /\ \/ hpc' = hpc
              \/ NotBegun /\ NotBegun'
              \/ hpc = "resp" /\ hpc' \in {"trailer", "end"}
              \/ hpc' \in {"waitBody", "done"}
  PROVE  ResLine'
<1>1. /\ Chain(ResFeed, ResOrder(uSent'))
      /\ \A f \in Elems(ResFeed) : f.t \in {"ResTrailer", "ResEnd"} => uSent' = uSent
  BY LongerResponse
<1>2. Chain(ResFeed, ResOrder(uSent))'
  BY <1>1 DEF Chain
<1>3. (up /\ gst = "open" /\ ResFeed # <<>> => ResLastOK(Last(ResFeed)))'
  <2>1. up' /\ gst' = "open" => \A f : ResLastOK(f) => ResLastOK(f)'
    BY DEF ResLastOK, NotBegun, ResponseBefore
  <2> QED
    BY <2>1 DEF ResLine, ResLastOK, Last
<1>4. (gpc = "relay" /\ ResFeed # <<>> => ResHeadOK(ResFeed[1]))'
  <2>1. ResFeed # <<>> => ResFeed[1] \in Elems(ResFeed)
    BY ResFeedTypes, EmptyFacts DEF Elems
  <2> QED
    BY <1>1, <2>1 DEF ResLine, ResHeadOK
<1>5. (gpc = "relay" /\ up /\ gst = "open" /\ ResFeed = <<>>
         /\ hpc \in {"resp", "trailer", "end"} => Len(got) = uSent)'
  BY DEF ResLine, NotBegun
<1> QED
  BY <1>2, <1>3, <1>4, <1>5 DEF ResLine

\* The agent sends a frame.
LEMMA ResponseAppended ==
  ASSUME TypeOK, SoFar, ResLine, Listening, [Next]_vars,
         NEW f \in Frames, a2g' = Append(a2g, f),
         UNCHANGED <<grx, gst, up, gpc, got>>,
         uSent' = uSent \/ hpc = "resp",
         \A x \in Frames : ResLastOK(x) => ResNext(x, f, uSent'),
         ResLastOK(f)', up,
         gpc = "relay" /\ (hpc \in {"resp", "trailer", "end"} => Len(got) = uSent)
           => ResHeadOK(f)'
  PROVE  ResLine'
<1>1. /\ Chain(ResFeed, ResOrder(uSent'))
      /\ \A h \in Elems(ResFeed) : h.t \in {"ResTrailer", "ResEnd"} => uSent' = uSent
  BY LongerResponse
<1>2. gst # "closing"
  BY DEF ResLine
<1>3. /\ grx \in Seq(Frames) /\ a2g \in Seq(Frames) /\ ResFeed \in Seq(Frames)
      /\ Frames \subseteq AnyFrames
      /\ gst = "open" => ResFeed = grx \o a2g
      /\ gst # "open" => ResFeed = grx
  BY ResFeedTypes
<1>4. ResFeed # <<>> /\ gpc = "relay" => \A h : h = ResFeed[1] => ResHeadOK(h)'
  <2>1. ResFeed # <<>> => ResFeed[1] \in Elems(ResFeed)
    BY <1>3, EmptyFacts DEF Elems
  <2>2. ResFeed # <<>> /\ gpc = "relay" => ResHeadOK(ResFeed[1])
    BY DEF ResLine
  <2>3. \A h \in Elems(ResFeed) : ResHeadOK(h) => ResHeadOK(h)'
    BY <1>1 DEF ResHeadOK
  <2> QED
    BY <2>1, <2>2, <2>3
<1>5. CASE gst # "open"
  <2>1. ResFeed' = ResFeed
    BY <1>3, <1>5 DEF ResFeed
  <2>2. Chain(ResFeed, ResOrder(uSent))'
    BY <1>1, <2>1 DEF Chain
  <2> QED
    BY <1>2, <1>4, <1>5, <2>1, <2>2 DEF ResLine, ResHeadOK
<1>6. CASE gst = "open"
  <2>1. ResFeed' = Append(ResFeed, f)
    <3>1. grx \o Append(a2g, f) = Append(grx \o a2g, f)
      BY <1>3, AppendConcat
    <3> QED
      BY <1>3, <1>6, <3>1 DEF ResFeed
  <2>2. ResFeed # <<>> => <<Last(ResFeed), f>> \in ResOrder(uSent')
    <3> SUFFICES ASSUME ResFeed # <<>> PROVE <<Last(ResFeed), f>> \in ResOrder(uSent')
      OBVIOUS
    <3>1. Last(ResFeed) \in Frames
      BY <1>3, EmptyFacts DEF Last
    <3>2. ResLastOK(Last(ResFeed))
      BY <1>6 DEF ResLine
    <3> QED
      BY <1>3, <3>1, <3>2 DEF ResOrder
  <2>3. /\ Chain(Append(ResFeed, f), ResOrder(uSent')) /\ Last(Append(ResFeed, f)) = f
        /\ ResFeed # <<>> => Append(ResFeed, f)[1] = ResFeed[1]
        /\ ResFeed = <<>> => Append(ResFeed, f)[1] = f
        /\ Append(ResFeed, f) # <<>>
    BY <1>1, <1>3, <2>2, ChainAppend
  <2>4. Chain(ResFeed, ResOrder(uSent))'
    BY <2>1, <2>3 DEF Chain
  <2>5. ResLastOK(Last(ResFeed))'
    BY <2>1, <2>3 DEF Last, ResLastOK
  <2>6. ResFeed = <<>> /\ gpc = "relay" => ResHeadOK(f)'
    BY <1>6 DEF ResLine
  <2>7. (gpc = "relay" => ResHeadOK(ResFeed[1]))'
    BY <1>4, <2>1, <2>3, <2>6 DEF ResHeadOK
  <2> QED
    BY <1>2, <2>1, <2>3, <2>4, <2>5, <2>7 DEF ResLine
<1> QED
  BY <1>5, <1>6

\* The handler takes the first frame.
LEMMA ResponseTaken ==
  ASSUME TypeOK, ResLine, Listening, grx # <<>>, grx' = Tail(grx),
         UNCHANGED <<a2g, gst, uSent, up, hpc>>
  PROVE  /\ Head(grx) \in Frames /\ ResFeed # <<>> /\ ResFeed[1] = Head(grx)
         /\ Chain(ResFeed, ResOrder(uSent))'
         /\ ResFeed' # <<>> => ResNext(Head(grx), ResFeed'[1], uSent)
         /\ ResFeed' = <<>> => Last(ResFeed) = Head(grx)
         /\ (up /\ gst = "open" /\ ResFeed # <<>> => ResLastOK(Last(ResFeed)))'
<1>1. /\ grx \in Seq(Frames) /\ a2g \in Seq(Frames) /\ ResFeed \in Seq(Frames)
      /\ gst = "open" => ResFeed = grx \o a2g
      /\ gst # "open" => ResFeed = grx
  BY ResFeedTypes
<1>2. Head(grx) = grx[1] /\ Head(grx) \in Frames
  BY <1>1, TailFacts
<1>3. ResFeed' = Tail(ResFeed) /\ ResFeed # <<>> /\ ResFeed[1] = grx[1]
  <2>1. CASE gst = "open"
    <3>1. Tail(grx) \o a2g = Tail(grx \o a2g) /\ grx \o a2g # <<>> /\ (grx \o a2g)[1] = grx[1]
      BY <1>1, TailConcat
    <3> QED
      BY <1>1, <2>1, <3>1 DEF ResFeed
  <2>2. CASE gst # "open"
    BY <1>1, <2>2 DEF ResFeed
  <2> QED
    BY <2>1, <2>2
<1>4. Chain(ResFeed, ResOrder(uSent))
  BY DEF ResLine
<1>5. /\ Chain(Tail(ResFeed), ResOrder(uSent))
      /\ Tail(ResFeed) # <<>> => /\ Last(Tail(ResFeed)) = Last(ResFeed)
                                 /\ <<ResFeed[1], Tail(ResFeed)[1]>> \in ResOrder(uSent)
      /\ Tail(ResFeed) = <<>> => Last(ResFeed) = ResFeed[1]
  BY <1>1, <1>3, <1>4, ChainTail
<1>6. Chain(ResFeed, ResOrder(uSent))'
  BY <1>3, <1>5 DEF Chain
<1>7. ResFeed' # <<>> => ResNext(Head(grx), ResFeed'[1], uSent)
  BY <1>2, <1>3, <1>5 DEF ResOrder
<1>8. (up /\ gst = "open" /\ ResFeed # <<>> => ResLastOK(Last(ResFeed)))'
  <2>1. \A f : ResLastOK(f) => ResLastOK(f)'
    BY DEF ResLastOK, NotBegun
  <2> QED
    BY <1>3, <1>5, <2>1 DEF ResLine, ResLastOK, Last
<1> QED
  BY <1>2, <1>3, <1>5, <1>6, <1>7, <1>8

\* The stream or the tunnel is lost: what is left is a beginning of the line.
LEMMA ResponseCut ==
  ASSUME TypeOK, ResLine, Listening, UNCHANGED <<gpc, got, uSent, grx>>,
         gst' # "closing", ~(up' /\ gst' = "open"),
         \/ gst' # "open"
         \/ gst' = gst /\ \E k \in 0..Len(a2g) : a2g' = SubSeq(a2g, 1, k)
  PROVE  ResLine'
<1>1. /\ grx \in Seq(Frames) /\ a2g \in Seq(Frames) /\ ResFeed \in Seq(Frames)
      /\ gst = "open" => ResFeed = grx \o a2g
      /\ gst # "open" => ResFeed = grx
  BY ResFeedTypes
<1>2. Chain(ResFeed, ResOrder(uSent))
  BY DEF ResLine
<1>3. /\ Chain(ResFeed', ResOrder(uSent))
      /\ ResFeed' # <<>> => ResFeed # <<>> /\ ResFeed'[1] = ResFeed[1]
  <2>1. CASE gst' # "open"
    <3>1. ResFeed' = grx
      BY <2>1 DEF ResFeed
    <3>2. CASE gst = "open"
      <4>1. ResFeed = grx \o a2g /\ Chain(grx \o a2g, ResOrder(uSent))
        BY <1>1, <1>2, <3>2
      <4>2. Chain(grx, ResOrder(uSent))
            /\ (grx # <<>> => grx \o a2g # <<>> /\ (grx \o a2g)[1] = grx[1])
        BY <1>1, <4>1, ChainFront
      <4> QED
        BY <3>1, <4>1, <4>2
    <3>3. CASE gst # "open"
      BY <1>1, <1>2, <3>1, <3>3
    <3> QED
      BY <3>2, <3>3
  <2>2. CASE gst' = "open"
    <3>1. PICK k \in 0..Len(a2g) : a2g' = SubSeq(a2g, 1, k)
      BY <2>2
    <3>2. gst = "open" /\ ResFeed' = grx \o SubSeq(a2g, 1, k)
      BY <2>2, <3>1 DEF ResFeed
    <3>3. Chain(grx \o a2g, ResOrder(uSent))
      BY <1>1, <1>2, <3>2
    <3> QED
      BY <1>1, <3>2, <3>3, ChainCut
  <2> QED
    BY <2>1, <2>2
<1>4. Chain(ResFeed, ResOrder(uSent))'
  BY <1>3 DEF Chain
<1>5. (gpc = "relay" /\ ResFeed # <<>> => ResHeadOK(ResFeed[1]))'
  BY <1>3 DEF ResLine, ResHeadOK
<1> QED
  BY <1>4, <1>5 DEF ResLine

\* The handler takes a frame before the response has begun (server.go:616).
LEMMA RecvHeadLine ==
  ASSUME TypeOK, ResControl, ResLine, Listening, [Next]_vars, RecvHead, grx # <<>>,
         grx' = Tail(grx)
  PROVE  ResLine'
<1>1. /\ gpc = "head" /\ UNCHANGED <<a2g, gst, uSent, up, hpc, got>>
      /\ gpc' = "relay" => Head(grx).t = "ResStart"
  BY DEF RecvHead, Send, net, ups, ag
<1>2. got = <<>> /\ Len(got) = 0 /\ gst # "closing"
  BY <1>1 DEF ResControl, ResLine
<1>3. /\ Head(grx) \in Frames /\ ResFeed # <<>> /\ ResFeed[1] = Head(grx)
      /\ Chain(ResFeed, ResOrder(uSent))'
      /\ ResFeed' # <<>> => ResNext(Head(grx), ResFeed'[1], uSent)
      /\ ResFeed' = <<>> => Last(ResFeed) = Head(grx)
      /\ (up /\ gst = "open" /\ ResFeed # <<>> => ResLastOK(Last(ResFeed)))'
  BY <1>1, ResponseTaken
<1>4. Head(grx).t = "ResStart" => Head(grx).n = 0
  BY <1>3, FrameFacts DEF TypeOK
<1>5. (gpc = "relay" /\ ResFeed # <<>> => ResHeadOK(ResFeed[1]))'
  BY <1>1, <1>2, <1>3, <1>4 DEF ResNext, ResponseBefore, ResHeadOK
<1>6. (gpc = "relay" /\ up /\ gst = "open" /\ ResFeed = <<>>
         /\ hpc \in {"resp", "trailer", "end"} => Len(got) = uSent)'
  <2>1. up /\ gst = "open" /\ ResFeed' = <<>> => ResLastOK(Head(grx))
    BY <1>3 DEF ResLine
  <2> QED
    BY <1>1, <1>2, <1>4, <2>1 DEF ResLastOK, ResponseBefore
<1> QED
  BY <1>1, <1>2, <1>3, <1>5, <1>6 DEF ResLine

\* The handler relays a frame of the response (server.go:656).
LEMMA RecvDataLine ==
  ASSUME TypeOK, ResControl, ResLine, Listening, [Next]_vars, RecvData
  PROVE  ResLine'
<1>1. /\ gpc = "relay" /\ grx # <<>> /\ grx' = Tail(grx)
      /\ UNCHANGED <<a2g, gst, uSent, up, hpc, gone>> /\ gst # "closing"
  BY DEF RecvData, net, ups, ag, wat, ResLine
<1>2. /\ Head(grx) \in Frames /\ ResFeed # <<>> /\ ResFeed[1] = Head(grx)
      /\ Chain(ResFeed, ResOrder(uSent))'
      /\ ResFeed' # <<>> => ResNext(Head(grx), ResFeed'[1], uSent)
      /\ ResFeed' = <<>> => Last(ResFeed) = Head(grx)
      /\ (up /\ gst = "open" /\ ResFeed # <<>> => ResLastOK(Last(ResFeed)))'
  BY <1>1, ResponseTaken
<1>3. ResHeadOK(Head(grx))
  BY <1>1, <1>2 DEF ResLine
<1>4. up /\ gst = "open" /\ ResFeed' = <<>> => ResLastOK(Head(grx))
  BY <1>2 DEF ResLine
<1>5. CASE Head(grx).t = "ResData" /\ got' = Append(got, Head(grx).n) /\ gpc' = gpc
  <2>1. Len(got') = Len(got) + 1 /\ Head(grx).n = Len(got) + 1 /\ Len(got) \in Nat
    <3>1. Head(grx).n \in 1..NRes /\ got \in Seq(1..NRes)
      BY <1>2, <1>5, FrameFacts DEF TypeOK
    <3> QED
      BY <1>3, <1>5, <3>1 DEF ResHeadOK
  <2>2. (gpc = "relay" /\ ResFeed # <<>> => ResHeadOK(ResFeed[1]))'
    BY <1>1, <1>2, <1>5, <2>1 DEF ResNext, ResponseBefore, ResHeadOK
  <2>3. (gpc = "relay" /\ up /\ gst = "open" /\ ResFeed = <<>>
           /\ hpc \in {"resp", "trailer", "end"} => Len(got) = uSent)'
    BY <1>1, <1>4, <1>5, <2>1 DEF ResLastOK, ResponseBefore, NotBegun
  <2> QED
    BY <1>1, <1>2, <2>2, <2>3 DEF ResLine
<1>6. CASE Head(grx).t = "ResTrailer" /\ got' = got /\ gpc' = gpc
  <2>1. Len(got) = uSent
    BY <1>3, <1>6 DEF ResHeadOK
  <2>2. (gpc = "relay" /\ ResFeed # <<>> => ResHeadOK(ResFeed[1]))'
    BY <1>1, <1>2, <1>6, <2>1 DEF ResNext, ResponseBefore, ResHeadOK
  <2> QED
    BY <1>1, <1>2, <1>6, <2>1, <2>2 DEF ResLine
<1>7. CASE gpc' = "return"
  BY <1>1, <1>2, <1>7 DEF ResLine
<1>8. Head(grx).t \notin {"Interim", "ResStart"} /\ ~gone
  BY <1>3 DEF ResHeadOK, Listening
<1> QED
  BY <1>5, <1>6, <1>7, <1>8 DEF RecvData

\* The 502 of a failed request is a whole response.
LEMMA DoFailsLine ==
  ASSUME TypeOK, ResLine, Listening, NotBegun, gpc # "relay", uSent = 0, up, gst = "open",
         a2g' = a2g \o <<Frame("ResStart"), Frame("ResEnd")>>, hpc' = "done",
         UNCHANGED <<grx, gst, gpc, uSent>>
  PROVE  ResLine'
<1>1. PICK x \in Frames, y \in Frames : /\ x = Frame("ResStart") /\ x.t = "ResStart" /\ x.n = 0
                                       /\ y = Frame("ResEnd") /\ y.t = "ResEnd"
  BY FrameFacts DEF TypeOK
<1>2. /\ grx \in Seq(Frames) /\ a2g \in Seq(Frames) /\ ResFeed \in Seq(Frames)
      /\ Frames \subseteq AnyFrames /\ ResFeed = grx \o a2g
  BY ResFeedTypes
<1>3. a2g' = Append(Append(a2g, x), y) /\ Append(a2g, x) \in Seq(Frames)
  BY <1>1, <1>2, AppendTwo
<1>4. grx \o Append(a2g, x) = Append(ResFeed, x)
  BY <1>1, <1>2, AppendConcat
<1>5. grx \o Append(Append(a2g, x), y) = Append(grx \o Append(a2g, x), y)
  <2> DEFINE b == Append(a2g, x)
  <2>1. b \in Seq(Frames)
    BY <1>3
  <2> HIDE DEF b
  <2>2. grx \o Append(b, y) = Append(grx \o b, y)
    BY <1>1, <1>2, <2>1, AppendConcat
  <2> QED
    BY <2>2 DEF b
<1>6. ResFeed' = Append(Append(ResFeed, x), y)
  BY <1>3, <1>4, <1>5 DEF ResFeed
<1>7. ResFeed # <<>> => <<Last(ResFeed), x>> \in ResOrder(uSent)
  <2> SUFFICES ASSUME ResFeed # <<>> PROVE <<Last(ResFeed), x>> \in ResOrder(uSent)
    OBVIOUS
  <2>1. Last(ResFeed) \in Frames /\ ResLastOK(Last(ResFeed))
    BY <1>2, EmptyFacts DEF Last, ResLine
  <2>2. ResNext(Last(ResFeed), x, uSent)
    BY <1>1, <2>1 DEF ResLastOK, ResNext, NotBegun
  <2> QED
    BY <1>2, <2>1, <2>2 DEF ResOrder
<1>8. /\ Chain(Append(ResFeed, x), ResOrder(uSent)) /\ Last(Append(ResFeed, x)) = x
      /\ Append(ResFeed, x) \in Seq(Frames)
  <2> DEFINE q == ResFeed
  <2>1. q \in Seq(Frames) /\ Chain(q, ResOrder(uSent)) /\ x \in Frames
        /\ (q # <<>> => <<Last(q), x>> \in ResOrder(uSent))
    BY <1>1, <1>2, <1>7 DEF ResLine
  <2> HIDE DEF q
  <2>2. /\ Chain(Append(q, x), ResOrder(uSent)) /\ Last(Append(q, x)) = x
        /\ Append(q, x) \in Seq(Frames)
    BY <2>1, ChainAppend
  <2> QED
    BY <2>2 DEF q
<1>9. <<x, y>> \in ResOrder(uSent)
  BY <1>1, <1>2 DEF ResOrder, ResNext, ResponseBefore
<1>10. Chain(Append(Append(ResFeed, x), y), ResOrder(uSent))
  <2> DEFINE b == Append(ResFeed, x)
  <2>1. b \in Seq(Frames) /\ Chain(b, ResOrder(uSent)) /\ Last(b) = x
    BY <1>8
  <2> HIDE DEF b
  <2>2. Chain(Append(b, y), ResOrder(uSent))
    BY <1>9, <2>1, ChainAppend
  <2> QED
    BY <2>2 DEF b
<1>11. Chain(ResFeed, ResOrder(uSent))'
  BY <1>6, <1>10 DEF Chain
<1>12. \A f : ResLastOK(f)'
  BY DEF ResLastOK
<1> QED
  BY <1>11, <1>12 DEF ResLine, ResLastOK

\* The agent sends the response: one frame, or nothing when the tunnel is down.
LEMMA SendLine ==
  ASSUME TypeOK, ResControl, SoFar, ResLine, Listening, [Next]_vars,
         UNCHANGED <<grx, gst, up, gpc, got>>,
         NEW f \in Frames, a2g' = IF up THEN Append(a2g, f) ELSE a2g,
         uSent' = uSent \/ hpc = "resp",
         up => /\ \A x \in Frames : ResLastOK(x) => ResNext(x, f, uSent')
               /\ ResLastOK(f)'
               /\ gpc = "relay" /\ (hpc \in {"resp", "trailer", "end"} => Len(got) = uSent)
                    => ResHeadOK(f)'
  PROVE  ResLine'
<1>1. CASE up
  BY <1>1, ResponseAppended
<1>2. CASE ~up
  <2>1. ResFeed' = ResFeed /\ gst' # "closing"
    BY <1>2 DEF ResFeed, ResLine
  <2> QED
    BY <1>2, <2>1, ResponseKept
<1> QED
  BY <1>1, <1>2

\* The frames of the response stay in order as long as the client is there.
LEMMA ResLineStep ==
  ASSUME TypeOK, PendOK, OneStart, ObjectsOK, ResControl, SoFar, ResLine, [Next]_vars
  PROVE  ResLine'
<1> SUFFICES ASSUME Listening' PROVE ResLine'
  BY DEF ResLine
<1>1. Listening
  <2>1. gone => gone'
    BY StepCases DEF ClientGoes, HandlerWrite, SendReqStart, RefuseLarge, StartWatcher,
           ReadBody, BodyTooLarge, BodyEnds, SendTrailer, SendReqEnd, RecvHead,
           RecvData, RecvFails, HandlerReturns, ForgetStream, Watcher, GatewayReads,
           SendReset, GatewayDisconnects, AgentReads, FirstFrame, AgentDisconnects,
           BodyQuits, BodyFrame, BodyWriteFails, Setup, Got1xxResponse, DoFails,
           DoReturns, CopyResponse, ResponseEnds, SendResTrailer, SendResEnd, WaitBody,
           TunnelBreaks, UpstreamReads, UpstreamSeesEnd, wat, vars
  <2>2. gpc = "done" => gpc' = "done"
    BY StepCases DEF PendOK, InBody, HandlerWrite, SendReqStart, RefuseLarge,
           StartWatcher, ReadBody, BodyTooLarge, BodyEnds, SendTrailer, SendReqEnd,
           RecvHead, RecvData, RecvFails, HandlerReturns, ForgetStream, Watcher,
           GatewayReads, SendReset, GatewayDisconnects, AgentReads, FirstFrame,
           AgentDisconnects, BodyQuits, BodyFrame, BodyWriteFails, Setup,
           Got1xxResponse, DoFails, DoReturns, CopyResponse, ResponseEnds,
           SendResTrailer, SendResEnd, WaitBody, ClientGoes, TunnelBreaks,
           UpstreamReads, UpstreamSeesEnd, gw, vars
  <2> QED
    BY <2>1, <2>2 DEF Listening
<1>2. gst # "closing" /\ uSent \in Nat /\ Len(got) \in Nat
  BY <1>1, ResFeedTypes DEF ResLine
<1>3. /\ \A t \in {"Rst", "Interim", "ResStart", "ResTrailer", "ResEnd"} :
           Frame(t) \in Frames /\ Frame(t).t = t /\ Frame(t).n = 0
      /\ \A n \in 1..NRes : /\ Data("ResData", n) \in Frames
                            /\ Data("ResData", n).t = "ResData" /\ Data("ResData", n).n = n
      /\ NRes \in Nat
  BY FrameFacts DEF TypeOK
<1>4. CASE RecvHead /\ grx # <<>> /\ grx' = Tail(grx)
  BY <1>1, <1>4, RecvHeadLine
<1>5. CASE RecvData
  BY <1>1, <1>5, RecvDataLine
<1>6. CASE RecvHead /\ grx' = grx
  <2>1. ResFeed' = ResFeed /\ UNCHANGED <<gst, uSent, up, hpc>> /\ gpc' # "relay"
    BY <1>6 DEF RecvHead, Send, ResFeed, net, ups, ag
  <2> QED
    BY <1>1, <1>2, <2>1, ResponseKept
<1>7. CASE HandlerWrite \/ SendReqStart \/ RefuseLarge \/ StartWatcher \/ ReadBody \/
          BodyTooLarge \/ BodyEnds \/ SendTrailer \/ SendReqEnd \/ RecvFails
  <2>1. UNCHANGED <<grx, gst, a2g, uSent, up, hpc, got>>
    BY <1>7 DEF HandlerWrite, SendReqStart, RefuseLarge, StartWatcher, ReadBody,
           BodyTooLarge, BodyEnds, SendTrailer, SendReqEnd, RecvFails, gs, net, ups, ag,
           gw
  <2>2. gpc' = "relay" => gpc = "relay"
    BY <1>7 DEF PendOK, Send, HandlerWrite, SendReqStart, RefuseLarge, StartWatcher,
           ReadBody, BodyTooLarge, BodyEnds, SendTrailer, SendReqEnd, RecvFails, gw
  <2>3. ResFeed' = ResFeed
    BY <2>1 DEF ResFeed
  <2> QED
    BY <1>1, <1>2, <2>1, <2>2, <2>3, ResponseKept
<1>8. CASE HandlerReturns
  BY <1>8 DEF HandlerReturns, Listening
<1>9. CASE Watcher
  <2>1. gst' = gst \/ gone
    BY <1>9 DEF Watcher, ResControl
  <2>2. UNCHANGED <<gst, grx, a2g, uSent, up, hpc, got, gpc>>
    BY <1>1, <1>9, <2>1 DEF Watcher, gw, ups, ag, Listening
  <2>3. ResFeed' = ResFeed
    BY <2>2 DEF ResFeed
  <2> QED
    BY <1>1, <1>2, <2>2, <2>3, ResponseKept
<1>10. CASE ForgetStream
  BY <1>2, <1>10 DEF ForgetStream
<1>11. CASE GatewayReads
  <2>1. a2g # <<>> /\ a2g' = Tail(a2g) /\ UNCHANGED <<uSent, up, hpc, got, gpc>>
    BY <1>11 DEF GatewayReads, gw, ups, ag
  <2>2. CASE gst = "closed" /\ UNCHANGED <<gst, grx>>
    <3>1. ResFeed' = ResFeed
      BY <2>2 DEF ResFeed
    <3> QED
      BY <1>1, <1>2, <2>1, <2>2, <3>1, ResponseKept
  <2>3. CASE gst' = gst /\ grx' = Append(grx, Head(a2g)) /\ gst # "closed"
    <3>1. gst = "open" /\ gst' = "open"
      BY <1>2, <2>3 DEF TypeOK
    <3>2. grx \in Seq(Frames) /\ a2g \in Seq(Frames)
      BY DEF TypeOK
    <3>3. Append(grx, Head(a2g)) \o Tail(a2g) = grx \o a2g
      BY <2>1, <3>2, MoveHead
    <3>4. ResFeed' = ResFeed
      BY <2>1, <2>3, <3>1, <3>3 DEF ResFeed
    <3> QED
      BY <1>1, <2>1, <3>1, <3>4, ResponseKept
  <2>4. CASE gst' = "closed" /\ grx' = grx
    BY <1>1, <2>1, <2>4, ResponseCut
  <2> QED
    BY <1>2, <1>11, <2>2, <2>3, <2>4 DEF GatewayReads, Deliver, gs
<1>12. CASE GatewayDisconnects
  <2>1. gst' = "closed" /\ UNCHANGED <<gpc, got, uSent, grx>>
    BY <1>12 DEF GatewayDisconnects, gw, ups
  <2> QED
    BY <1>1, <2>1, ResponseCut
<1>13. CASE TunnelBreaks
  <2>1. ~up' /\ UNCHANGED <<gpc, got, uSent, grx, gst>>
        /\ \E k \in 0..Len(a2g) : a2g' = SubSeq(a2g, 1, k)
    BY <1>13 DEF TunnelBreaks, gw, gs, ups
  <2> QED
    BY <1>1, <1>2, <2>1, ResponseCut
<1>14. ASSUME a2g' = Append(a2g, Frame("Rst")), up,
              UNCHANGED <<grx, gst, up, gpc, got, uSent, hpc>>
       PROVE  ResLine'
  <2>1. PICK f \in Frames : f = Frame("Rst") /\ f.t = "Rst"
    BY <1>3
  <2>2. (\A x \in Frames : ResNext(x, f, uSent')) /\ ResLastOK(f)' /\ ResHeadOK(f)'
    BY <2>1 DEF ResNext, ResLastOK, ResHeadOK
  <2> QED
    BY <1>1, <1>14, <2>1, <2>2, ResponseAppended
<1>15. CASE SendReset \/ AgentDisconnects \/ BodyQuits \/ BodyFrame \/ BodyWriteFails \/
          ClientGoes \/ UpstreamReads \/ UpstreamSeesEnd \/ UNCHANGED vars
  <2>1. UNCHANGED <<grx, gst, a2g, uSent, up, hpc, got, gpc>>
    BY <1>15 DEF SendReset, AgentDisconnects, BodyQuits, BodyFrame, BodyWriteFails,
           ClientGoes, UpstreamReads, UpstreamSeesEnd, gs, net, ups, ag, gw, vars
  <2>2. ResFeed' = ResFeed
    BY <2>1 DEF ResFeed
  <2> QED
    BY <1>1, <1>2, <2>1, <2>2, ResponseKept
<1>16. ASSUME a2g' = a2g, UNCHANGED <<grx, gst, uSent, up, got, gpc>>,
              \/ hpc' = hpc
              \/ NotBegun /\ NotBegun'
              \/ hpc = "resp" /\ hpc' \in {"trailer", "end"}
              \/ hpc' \in {"waitBody", "done"}
       PROVE  ResLine'
  <2>1. ResFeed' = ResFeed
    BY <1>16 DEF ResFeed
  <2> QED
    BY <1>1, <1>2, <1>16, <2>1, ResponseKept
<1>17. CASE AgentReads
  <2>1. /\ a2g' = a2g \/ (up /\ a2g' = Append(a2g, Frame("Rst")))
        /\ UNCHANGED <<grx, gst, uSent, up, got, gpc, hpc>>
    BY <1>17 DEF AgentReads, DeliverFrame, AgentSend, gs, gw, ups, ag
  <2> QED
    BY <1>14, <1>16, <2>1
<1>18. ASSUME NEW o \in Objs, FirstFrame(o) PROVE ResLine'
  <2>1. /\ a2g' = a2g \/ (up /\ a2g' = Append(a2g, Frame("Rst")) /\ hpc' = hpc)
        /\ UNCHANGED <<grx, gst, uSent, up, got, gpc>>
        /\ hpc' = hpc \/ hpc' = "setup"
    BY <1>18 DEF FirstFrame, AgentSend, gs, gw, ups, ag
  <2>2. hpc' = hpc \/ (NotBegun /\ NotBegun')
    BY <2>1, HttpMoves DEF NotBegun
  <2> QED
    BY <1>14, <1>16, <2>1, <2>2
<1>19. CASE Setup \/ ResponseEnds \/ WaitBody
  <2>1. /\ UNCHANGED <<a2g, grx, gst, uSent, up, got, gpc>>
        /\ \/ NotBegun /\ NotBegun'
           \/ hpc = "resp" /\ hpc' \in {"trailer", "end"}
           \/ hpc' \in {"waitBody", "done"}
    BY <1>19 DEF Setup, ResponseEnds, WaitBody, HttpReturns, NotBegun, net, gs, gw, ups
  <2> QED
    BY <1>16, <2>1
<1>20. CASE Got1xxResponse
  <2>1. /\ hpc = "do" /\ hpc' = hpc /\ UNCHANGED <<grx, gst, up, gpc, got, uSent>>
        /\ a2g' = IF up THEN Append(a2g, Frame("Interim")) ELSE a2g
    BY <1>20 DEF Got1xxResponse, AgentSend, gs, gw, ups, ag
  <2>2. PICK f \in Frames : f = Frame("Interim") /\ f.t = "Interim"
    BY <1>3
  <2>3. (\A x \in Frames : ResLastOK(x) => ResNext(x, f, uSent')) /\ ResLastOK(f)'
        /\ gpc # "relay"
    BY <2>1, <2>2 DEF ResNext, ResLastOK, NotBegun, ResControl
  <2> QED
    BY <1>1, <2>1, <2>2, <2>3, SendLine
<1>21. CASE DoReturns
  <2>1. /\ hpc = "do" /\ UNCHANGED <<grx, gst, up, gpc, got, uSent>>
        /\ a2g' = IF up THEN Append(a2g, Frame("ResStart")) ELSE a2g
        /\ up => hpc' = "resp"
    BY <1>21 DEF DoReturns, AgentSend, RespondOr, gs, gw, ups
  <2>2. PICK f \in Frames : f = Frame("ResStart") /\ f.t = "ResStart" /\ f.n = 0
    BY <1>3
  <2>3. /\ \A x \in Frames : ResLastOK(x) => ResNext(x, f, uSent')
        /\ up => ResLastOK(f)'
        /\ gpc # "relay"
    BY <2>1, <2>2 DEF ResNext, ResLastOK, NotBegun, ResControl, ResponseBefore
  <2> QED
    BY <1>1, <2>1, <2>2, <2>3, SendLine
<1>22. CASE CopyResponse
  <2>1. /\ hpc = "resp" /\ UNCHANGED <<grx, gst, up, gpc, got>> /\ uSent' = uSent + 1
        /\ uSent < NRes /\ a2g' = IF up THEN Append(a2g, Data("ResData", uSent + 1)) ELSE a2g
        /\ up => hpc' = "resp"
    BY <1>22 DEF CopyResponse, AgentSend, RespondOr, gs, gw
  <2>2. PICK f \in Frames : f = Data("ResData", uSent + 1) /\ f.t = "ResData" /\ f.n = uSent + 1
    <3>1. uSent + 1 \in 1..NRes
      BY <1>2, <1>3, <2>1
    <3> QED
      BY <1>3, <3>1
  <2>3. \A x \in Frames : ResLastOK(x) => ResNext(x, f, uSent')
    BY <2>1, <2>2 DEF ResNext, ResLastOK, NotBegun, ResponseBefore
  <2>4. /\ up => ResLastOK(f)'
        /\ Len(got) = uSent => ResHeadOK(f)'
    BY <2>1, <2>2 DEF ResLastOK, ResHeadOK, ResponseBefore
  <2> QED
    BY <1>1, <2>1, <2>2, <2>3, <2>4, SendLine
<1>23. CASE SendResTrailer
  <2>1. /\ hpc = "trailer" /\ UNCHANGED <<grx, gst, up, gpc, got, uSent>>
        /\ a2g' = IF up THEN Append(a2g, Frame("ResTrailer")) ELSE a2g
        /\ up => hpc' = "end"
    BY <1>23 DEF SendResTrailer, AgentSend, RespondOr, gs, gw, ups
  <2>2. PICK f \in Frames : f = Frame("ResTrailer") /\ f.t = "ResTrailer"
    BY <1>3
  <2>3. \A x \in Frames : ResLastOK(x) => ResNext(x, f, uSent')
    BY <2>1, <2>2 DEF ResNext, ResLastOK, NotBegun, ResponseBefore
  <2>4. /\ up => ResLastOK(f)'
        /\ Len(got) = uSent => ResHeadOK(f)'
    BY <2>1, <2>2 DEF ResLastOK, ResHeadOK
  <2> QED
    BY <1>1, <2>1, <2>2, <2>3, <2>4, SendLine
<1>24. CASE SendResEnd
  <2>1. /\ hpc = "end" /\ UNCHANGED <<grx, gst, up, gpc, got, uSent>>
        /\ a2g' = IF up THEN Append(a2g, Frame("ResEnd")) ELSE a2g
        /\ hpc' = "waitBody"
    BY <1>24 DEF SendResEnd, AgentSend, gs, gw, ups
  <2>2. PICK f \in Frames : f = Frame("ResEnd") /\ f.t = "ResEnd"
    BY <1>3
  <2>3. \A x \in Frames : ResLastOK(x) => ResNext(x, f, uSent')
    BY <2>1, <2>2 DEF ResNext, ResLastOK, NotBegun, ResponseBefore
  <2>4. ResLastOK(f)' /\ (Len(got) = uSent => ResHeadOK(f)')
    BY <2>1, <2>2 DEF ResLastOK, ResHeadOK
  <2> QED
    BY <1>1, <2>1, <2>2, <2>3, <2>4, SendLine
<1>25. CASE DoFails
  <2>1. /\ hpc = "do" /\ hpc' = "done" /\ UNCHANGED <<grx, gst, up, gpc, got, uSent>>
        /\ a2g' = IF up THEN a2g \o <<Frame("ResStart"), Frame("ResEnd")>> ELSE a2g
    BY <1>25 DEF DoFails, HttpReturns, gs, gw
  <2>2. NotBegun /\ gpc # "relay" /\ uSent = 0
    BY <2>1 DEF NotBegun, ResControl
  <2>3. CASE ~up \/ gst # "open"
    <3>1. ResFeed' = ResFeed
      BY <2>1, <2>3 DEF ResFeed
    <3> QED
      BY <1>1, <1>2, <2>1, <2>2, <3>1, ResponseKept
  <2>4. CASE up /\ gst = "open"
    BY <1>1, <2>1, <2>2, <2>4, DoFailsLine
  <2> QED
    BY <2>3, <2>4
<1> QED
  BY StepCases, QueueMoves, <1>4, <1>5, <1>6, <1>7, <1>8, <1>9, <1>10, <1>11, <1>12, <1>13,
     <1>15, <1>17, <1>18, <1>19, <1>20, <1>21, <1>22, <1>23, <1>24, <1>25 DEF RecvHead

-----------------------------------------------------------------------------
(* The theorems.                                                           *)

\* The inductive invariant: types, the way of the request, the way of the response.
IndInv == TypeOK /\ ReqInv /\ ResInv

\* Nothing is on its way when the request arrives.
LEMMA InitHolds == Init => IndInv
<1> SUFFICES ASSUME Init PROVE IndInv
  OBVIOUS
<1>1. TypeOK
  <2>1. NReq \in Nat /\ NRes \in Nat
    BY FrameFacts DEF Init
  <2>2. /\ <<>> \in Seq(Frames) /\ <<>> \in Seq(1..NReq) /\ <<>> \in Seq(1..NRes)
        /\ Len(<<>>) = 0 /\ 0 \in 0..NReq /\ 0 <= NRes
    BY <2>1
  <2>3. GatewayTypes /\ AgentTypes
    <3>1. gpc \in GPcs /\ sent \in 0..NReq /\ chunk \in 0..NReq /\ main \in Objs \cup {None}
      BY <2>2 DEF Init, GPcs
    <3>2. badBody \in BOOLEAN /\ cancelled \in BOOLEAN
      BY Zenon DEF Init
    <3> QED
      BY <3>1, <3>2 DEF Init, GatewayTypes, AgentTypes
  <2>4. ClientTypes /\ QueueTypes
    <3>1. /\ got \in Seq(1..NRes) /\ Len(got) <= NRes
          /\ grx \in Seq(Frames) /\ Len(grx) <= GQueue
      BY <2>2, RelayAssumption DEF Init
    <3>2. grst \in BOOLEAN /\ gst \in {"open", "closing", "closed"}
      BY Zenon DEF Init
    <3> QED
      BY <3>1, <3>2 DEF ClientTypes, QueueTypes
  <2>5. NetTypes
    BY <2>2 DEF Init, NetTypes
  <2>6. ObjectTypes
    BY <2>2, RelayAssumption DEF Init, ObjectTypes
  <2>7. UpstreamTypes
    BY <2>1, <2>2 DEF Init, UpstreamTypes
  <2> QED
    BY <2>3, <2>4, <2>5, <2>6, <2>7, TypeParts DEF Init
<1>2. /\ grx = <<>> /\ a2g = <<>> /\ g2a = <<>> /\ got = <<>> /\ uGot = <<>> /\ pend = <<>>
      /\ \A o \in Objs : arx[o] = <<>> /\ ast[o] = "free"
      /\ main = None /\ amap = None /\ hpc = "off" /\ bpc = "off" /\ gpc = "start"
      /\ sent = 0 /\ ~badBody /\ ~grst /\ watch = "off" /\ why = "none" /\ gst = "open"
      /\ uEof = "no" /\ uSent = 0 /\ None \notin Objs
  BY RelayAssumption DEF Init
<1>3. Len(<<>>) = 0 /\ \A i \in 1..0 : FALSE
  OBVIOUS
<1>4. /\ Elems(<<>>) = {} /\ Sorted(<<>>) /\ \A R : Chain(<<>>, R)
  BY <1>3 DEF Elems, Sorted, Chain
<1>5. <<>> \o <<>> = <<>>
  BY EmptyConcat
<1>6. PendOK /\ BodyRead /\ Untouched /\ OneStart /\ ObjectsOK /\ BodyDone
  BY <1>2 DEF PendOK, BodyRead, Untouched, OneStart, ObjectsOK, BodyDone, HasStart
<1>7. ReqLines /\ BodyFront
  BY <1>2, <1>4 DEF ReqLines, BodyFront, Feed, Sending, BodyRuns
<1>8. RequestPrefix /\ ResponsePrefix /\ ResEndMeansAllSent
  BY <1>2 DEF RequestPrefix, ResponsePrefix, ResEndMeansAllSent
<1>9. ResControl /\ SoFar /\ Ascending
  BY <1>2, <1>3, <1>4 DEF ResControl, SoFar, Ascending
<1>10. ResLine
  BY <1>2, <1>4, <1>5 DEF ResLine, ResFeed
<1> QED
  BY <1>1, <1>6, <1>7, <1>8, <1>9, <1>10 DEF IndInv, ReqInv, ResInv

\* Every step keeps the invariant.
LEMMA IndStep == IndInv /\ [Next]_vars => IndInv'
<1> SUFFICES ASSUME TypeOK, ReqInv, ResInv, [Next]_vars PROVE IndInv'
  BY DEF IndInv
<1>1. /\ PendOK /\ BodyRead /\ Untouched /\ OneStart /\ ObjectsOK
      /\ ReqLines /\ BodyFront /\ BodyDone /\ RequestPrefix
  BY DEF ReqInv
<1>2. ResControl /\ SoFar /\ ResLine /\ Ascending /\ ResponsePrefix /\ ResEndMeansAllSent
  BY DEF ResInv
<1>3. TypeOK'
  BY <1>1, <1>2, TypeStep
<1>4. ReqInv'
  <2>1. PendOK' /\ BodyRead' /\ Untouched' /\ OneStart' /\ ObjectsOK'
    BY <1>1, HandlerStep, UntouchedStep, OneStartStep, ObjectsStep
  <2>2. ReqLines' /\ BodyFront' /\ BodyDone' /\ RequestPrefix'
    BY <1>1, LinesStep, BodyDoneStep, RequestPrefixStep
  <2> QED
    BY <2>1, <2>2 DEF ReqInv
<1>5. ResInv'
  <2>1. ResControl' /\ SoFar' /\ Ascending'
    BY <1>1, <1>2, ControlStep, SoFarStep, AscendingStep
  <2>2. ResLine' /\ ResponsePrefix' /\ ResEndMeansAllSent'
    BY <1>1, <1>2, ResLineStep, ClientStep
  <2> QED
    BY <2>1, <2>2 DEF ResInv
<1> QED
  BY <1>3, <1>4, <1>5 DEF IndInv

\* The inductive invariant of the relay.
THEOREM Inductive == Spec => []IndInv
BY InitHolds, IndStep, PTL DEF Spec

\* The variables of the relay keep their types: the queue of the gateway stays
\* within its length (stream.go:39-48) and the client is never written more
\* chunks than the response has.
THEOREM TypeCorrect == Spec => []TypeOK
<1>1. IndInv => TypeOK
  BY DEF IndInv
<1> QED
  BY <1>1, Inductive, PTL

\* No chunk is lost in the middle of a body, in either direction, and a response
\* that ended with TResEnd is all that the agent read (agent.go:592-601,
\* server.go:656-679).
THEOREM BodiesWholeTheorem == Spec => []BodiesWhole
<1>1. IndInv => BodiesWhole
  BY DEF IndInv, ReqInv, ResInv, BodiesWhole
<1> QED
  BY <1>1, Inductive, PTL

\* The upstream takes a cut request body for a whole one only if the gateway could
\* not read it or the request was cancelled (agent.go:584, 611).
THEOREM CutBodyTheorem == Spec => []CutBodyIsCancelled
<1>1. IndInv => CutBodyIsCancelled
  <2>1. TypeOK => NReq \in Nat
    BY FrameFacts DEF TypeOK
  <2> QED
    BY <2>1 DEF IndInv, ReqInv, BodyDone, CutBodyIsCancelled
<1> QED
  BY <1>1, Inductive, PTL

=============================================================================
