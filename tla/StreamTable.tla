----------------------------- MODULE StreamTable -----------------------------
(***************************************************************************)
(* The stream table of ONE agent connection of the gateway:                *)
(* internal/gateway/agentconn.go and internal/gateway/stream.go.           *)
(*                                                                         *)
(* Goroutines that meet here: the client request handlers (each owns one   *)
(* stream), the connection's readLoop, the goroutine that runs the         *)
(* connection's closeWithErr, and the short-lived goroutines that write a  *)
(* reset frame.  A step is what one goroutine does between two lock        *)
(* operations, so closing a stream (mark it closed, then take streamMu to  *)
(* forget it) and closing the connection (close closedCh, then take        *)
(* streamMu to empty the table, then close the collected streams one by    *)
(* one) are several steps.                                                 *)
(*                                                                         *)
(* Streams is a pool of stream objects.  An object goes back to the pool   *)
(* when no goroutine can reach it any more, so behaviours are unbounded    *)
(* except for MaxAllocs.  The payload of frames is irrelevant here: a      *)
(* receive queue is represented by its length.                             *)
(***************************************************************************)
EXTENDS Integers, FiniteSets

CONSTANTS Streams,     \* pool of stream objects
          None,        \* Go's nil
          IdMax,       \* largest value of the uint32 stream id (2^32 - 1)
          MaxStreams,  \* agentConn.maxStreams; 0 means no limit
          QueueFrames, \* streamReceiveQueueFrames
          MaxAllocs    \* bound on the number of streams ever opened

ASSUME ConstantsAssumption ==
  /\ None \notin Streams
  /\ IsFiniteSet(Streams)
  /\ IdMax \in Nat \ {0}
  /\ MaxStreams \in Nat
  /\ QueueFrames \in Nat \ {0}
  /\ MaxAllocs \in Nat

Ids == 1..IdMax

\* Why a stream is closed (stream.err).  "handler" is the deferred
\* closeWithErr(nil) of a handler that returns.
HandlerErrs == {"handler", "client canceled"}
Errs == HandlerErrs \cup {"agent disconnected", "stream rx overflow"}

VARIABLES
  nextStream,  \* agentConn.nextStream, a uint32
  streams,     \* agentConn.streams: id -> stream object or None
  st,          \* "free": not allocated; "open"; "closing": closedCh is closed,
               \* forgetStream still to come; "closed"
  id,          \* stream.id
  err,         \* stream.err
  rx,          \* len(stream.rx)
  rst,         \* streams whose sendReset goroutine has yet to write its frame
  reader,      \* the stream readLoop got from getStream and will deliver to
  closer,      \* closeWithErr of the connection: "open" (not called),
               \* "signalled" (closedCh closed), "collected", "done"
  list,        \* the streams it collected and has not closed yet
  allocs,      \* history: number of streams opened so far
  seq,         \* history: the stream was the seq-th one opened
  overwritten  \* history: newStream replaced a table entry

vars == <<nextStream, streams, st, id, err, rx, rst, reader, closer, list,
          allocs, seq, overwritten>>

TypeOK ==
  /\ nextStream \in 0..IdMax
  /\ streams \in [Ids -> Streams \cup {None}]
  /\ st \in [Streams -> {"free", "open", "closing", "closed"}]
  /\ id \in [Streams -> 0..IdMax]
  /\ err \in [Streams -> Errs \cup {None}]
  /\ rx \in [Streams -> 0..QueueFrames]
  /\ rst \in SUBSET Streams
  /\ reader \in Streams \cup {None}
  /\ closer \in {"open", "signalled", "collected", "done"}
  /\ list \in SUBSET Streams
  /\ allocs \in 0..MaxAllocs
  /\ seq \in [Streams -> 0..MaxAllocs]
  /\ overwritten \in BOOLEAN

Init ==
  /\ nextStream = 0
  /\ streams = [i \in Ids |-> None]
  /\ st = [s \in Streams |-> "free"]
  /\ id = [s \in Streams |-> 0]
  /\ err = [s \in Streams |-> None]
  /\ rx = [s \in Streams |-> 0]
  /\ rst = {}
  /\ reader = None
  /\ closer = "open"
  /\ list = {}
  /\ allocs = 0
  /\ seq = [s \in Streams |-> 0]
  /\ overwritten = FALSE

-----------------------------------------------------------------------------
(* Opening a stream.                                                       *)

\* atomic.Uint32.Add(1): addition modulo 2^32.
Add32(n) == (n + 1) % (IdMax + 1)

\* Seeded fault: the second Add is forgotten, the id in use is taken again.
NextIdStuck(n) == IF Add32(n) = 0 THEN n ELSE Add32(n)

\* The id after nextStream = n; id 0 is skipped.
NextId(n) == IF Add32(n) = 0 THEN Add32(Add32(n)) ELSE Add32(n)

LiveIds == {i \in Ids : streams[i] # None}

TooMany == MaxStreams > 0 /\ Cardinality(LiveIds) >= MaxStreams

\* Seeded fault: newStream forgets to look at closedCh.
MayOpenAlways == TRUE

\* The select on closedCh under streamMu.
MayOpen == closer = "open"

\* agentConn.newStream, one critical section of streamMu.  Its failures
\* leave the table alone (the handler answers 429).
newStream(s) ==
  LET i == NextId(nextStream) IN
  /\ st[s] = "free"
  /\ allocs < MaxAllocs
  /\ MayOpen
  /\ ~TooMany
  /\ nextStream' = i
  /\ overwritten' = (overwritten \/ streams[i] # None)
  /\ streams' = [streams EXCEPT ![i] = s]
  /\ st' = [st EXCEPT ![s] = "open"]
  /\ id' = [id EXCEPT ![s] = i]
  /\ err' = [err EXCEPT ![s] = None]
  /\ rx' = [rx EXCEPT ![s] = 0]
  /\ allocs' = allocs + 1
  /\ seq' = [seq EXCEPT ![s] = allocs + 1]
  /\ UNCHANGED <<rst, reader, closer, list>>

-----------------------------------------------------------------------------
(* Closing a stream: the body of closeOnce.Do.  A second caller finds the  *)
(* stream no longer "open" and does nothing.                               *)

\* stream.err is set and stream.closedCh closed.
MarkClosed(s, e) ==
  /\ st[s] = "open"
  /\ st' = [st EXCEPT ![s] = "closing"]
  /\ err' = [err EXCEPT ![s] = e]

\* A handler returns, or its context is cancelled.
closeWithErr(s, e) ==
  /\ MarkClosed(s, e)
  /\ UNCHANGED <<nextStream, streams, id, rx, rst, reader, closer, list,
                 allocs, seq, overwritten>>

\* Seeded fault: the id that was given out last is deleted.
ForgetLatest(s) == [streams EXCEPT ![nextStream] = None]

\* forgetStream deletes by id, whatever the table holds there.
forgetStream(s) == [streams EXCEPT ![id[s]] = None]

\* The second half: forgetStream and, for resetWithErr, go writeFrame(TRst).
FinishClose(s) ==
  /\ st[s] = "closing"
  /\ streams' = forgetStream(s)
  /\ st' = [st EXCEPT ![s] = "closed"]
  /\ rst' = rst \cup {t \in {s} : err[t] = "stream rx overflow"}
  /\ UNCHANGED <<nextStream, id, err, rx, reader, closer, list, allocs, seq,
                 overwritten>>

\* The goroutine of sendReset writes the TRst frame (or fails to).
sendReset(s) ==
  /\ s \in rst
  /\ rst' = rst \ {s}
  /\ UNCHANGED <<nextStream, streams, st, id, err, rx, reader, closer, list,
                 allocs, seq, overwritten>>

-----------------------------------------------------------------------------
(* readLoop: look the stream up under streamMu, then deliver without it.   *)

getStream(i) ==
  /\ reader = None
  /\ streams[i] # None
  /\ reader' = streams[i]
  /\ UNCHANGED <<nextStream, streams, st, id, err, rx, rst, closer, list,
                 allocs, seq, overwritten>>

\* Seeded fault: the queue has no capacity.
EnqueueUnbounded(s) ==
  /\ rx' = [rx EXCEPT ![s] = @ + 1]
  /\ UNCHANGED <<st, err>>

\* case s.rx <- f
Enqueue(s) ==
  /\ rx[s] < QueueFrames
  /\ rx' = [rx EXCEPT ![s] = @ + 1]
  /\ UNCHANGED <<st, err>>

\* case <-s.closedCh (select picks either ready case)
DropClosed(s) ==
  /\ st[s] # "open"
  /\ UNCHANGED <<rx, st, err>>

\* Seeded fault: a full queue resets the stream even if it is closed.
OverflowTwice(s) ==
  /\ rx[s] = QueueFrames
  /\ st' = [st EXCEPT ![s] = "closing"]
  /\ err' = [err EXCEPT ![s] = "stream rx overflow"]
  /\ UNCHANGED rx

\* default: resetWithErr("stream rx overflow")
Overflow(s) ==
  /\ rx[s] = QueueFrames
  /\ MarkClosed(s, "stream rx overflow")
  /\ UNCHANGED rx

deliver(s) ==
  /\ reader = s
  /\ reader' = None
  /\ Enqueue(s) \/ DropClosed(s) \/ Overflow(s)
  /\ UNCHANGED <<nextStream, streams, id, rst, closer, list, allocs, seq,
                 overwritten>>

\* stream.recv takes a frame, of an open or of a closed stream.
recv(s) ==
  /\ rx[s] > 0
  /\ rx' = [rx EXCEPT ![s] = @ - 1]
  /\ UNCHANGED <<nextStream, streams, st, id, err, rst, reader, closer, list,
                 allocs, seq, overwritten>>

\* The handler has returned and nothing refers to the object any more.
Release(s) ==
  /\ st[s] = "closed" /\ s \notin rst /\ reader # s /\ s \notin list
  /\ st' = [st EXCEPT ![s] = "free"]
  /\ id' = [id EXCEPT ![s] = 0]
  /\ err' = [err EXCEPT ![s] = None]
  /\ rx' = [rx EXCEPT ![s] = 0]
  /\ seq' = [seq EXCEPT ![s] = 0]
  /\ UNCHANGED <<nextStream, streams, rst, reader, closer, list, allocs,
                 overwritten>>

-----------------------------------------------------------------------------
(* agentConn.closeWithErr, called when readLoop exits or by the heartbeat  *)
(* monitor; closeOnce lets one caller in.                                  *)

ConnSignal ==
  /\ closer = "open"
  /\ closer' = "signalled"
  /\ UNCHANGED <<nextStream, streams, st, id, err, rx, rst, reader, list,
                 allocs, seq, overwritten>>

ConnCollect ==
  /\ closer = "signalled"
  /\ closer' = "collected"
  /\ list' = {streams[i] : i \in LiveIds}
  /\ streams' = [i \in Ids |-> None]
  /\ UNCHANGED <<nextStream, st, id, err, rx, rst, reader, allocs, seq,
                 overwritten>>

\* The closing goroutine is inside closeOnce.Do of a collected stream.
InsideDo == \E t \in list : st[t] = "closing" /\ err[t] = "agent disconnected"

\* s.closeWithErr("agent disconnected") for one collected stream; Do returns
\* at once if the stream is closed, and waits for a concurrent closer.
ConnCloseStream(s) ==
  /\ closer = "collected" /\ s \in list
  /\ ~InsideDo
  /\ \/ /\ MarkClosed(s, "agent disconnected")
        /\ UNCHANGED list
     \/ /\ st[s] = "closed"
        /\ list' = list \ {s}
        /\ UNCHANGED <<st, err>>
  /\ UNCHANGED <<nextStream, streams, id, rx, rst, reader, closer, allocs,
                 seq, overwritten>>

ConnDone ==
  /\ closer = "collected" /\ list = {}
  /\ closer' = "done"
  /\ UNCHANGED <<nextStream, streams, st, id, err, rx, rst, reader, list,
                 allocs, seq, overwritten>>

-----------------------------------------------------------------------------
Next ==
  \/ \E s \in Streams :
        \/ newStream(s)
        \/ \E e \in HandlerErrs : closeWithErr(s, e)
        \/ FinishClose(s)
        \/ sendReset(s)
        \/ deliver(s)
        \/ recv(s)
        \/ Release(s)
        \/ ConnCloseStream(s)
  \/ \E i \in Ids : getStream(i)
  \/ ConnSignal
  \/ ConnCollect
  \/ ConnDone

Spec == Init /\ [][Next]_vars

-----------------------------------------------------------------------------
(* Properties.                                                             *)

Held(s) == st[s] \in {"open", "closing"}

\* What the table holds at an id is a stream with that id that is not fully
\* closed.
NoStaleEntry ==
  \A i \in Ids : streams[i] # None => Held(streams[i]) /\ id[streams[i]] = i

\* Until the connection's closeWithErr empties the table, a stream some
\* handler waits on can be found by readLoop - unless the id counter came
\* round to a live stream.
Reachable ==
  ~overwritten /\ closer \in {"open", "signalled"} =>
    \A s \in Streams : Held(s) => streams[id[s]] = s

\* newStream can only replace a live entry after a full turn of the uint32
\* counter.
OverwriteNeedsFullTurn == overwritten => allocs > IdMax

\* Two streams less than a full turn apart never share an id, whether they
\* are live or only still referred to.
IdsDistinct ==
  \A s, t \in Streams :
    /\ st[s] # "free" /\ st[t] # "free"
    /\ seq[s] < seq[t] /\ seq[t] - seq[s] < IdMax
    => id[s] # id[t]

\* The uint32 counter comes round, skips 0 and never looks at the table, and yet
\* no delayed frame, reset or forgetStream of a stream can hit one opened less
\* than a full turn later, and no live entry is replaced before one
\* (agentconn.go:124-129, 135, stream.go:76).
IdsSound == IdsDistinct /\ OverwriteNeedsFullTurn

\* A stream opened while the connection goes down is not forgotten: once the
\* table has been emptied every open stream is on the list to be closed, and
\* none is open when closeWithErr returns (agentconn.go:70-82, 116-120).
NoOrphan ==
  ~overwritten =>
    /\ closer = "collected" => \A s \in Streams : st[s] = "open" => s \in list
    /\ closer = "done" => \A s \in Streams : st[s] # "open"

\* maxStreams bounds the streams handlers hold open, not only the size of
\* the map.
LimitRespected ==
  ~overwritten /\ MaxStreams > 0 =>
    Cardinality({s \in Streams : st[s] = "open"}) <= MaxStreams

\* The table is exact while opens, closes and the connection's end interleave:
\* forgetStream leaves nothing behind that would receive frames, what a handler
\* waits on is found, and maxStreams bounds the open streams themselves
\* (agentconn.go:121-136).
TableExact == NoStaleEntry /\ Reachable /\ LimitRespected

\* Of racing closers the first decides the error the handler sees, and a
\* closed stream never opens again while it is in use (stream.go:51, 62).
FirstErrWins ==
  [][\A s \in Streams :
       st[s] \in {"closing", "closed"} =>
         \/ err'[s] = err[s] /\ st'[s] # "open"
         \/ st'[s] = "free"]_vars

=============================================================================
