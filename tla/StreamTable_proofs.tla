------------------------- MODULE StreamTable_proofs -------------------------
(***************************************************************************)
(* Proofs, for every pool of streams and every value of the constants, of  *)
(* the invariants of StreamTable.                                          *)
(***************************************************************************)
EXTENDS StreamTable, FiniteSetTheorems, TLAPS

\* The counter as a linear recurrence: after IdMax comes 1 (atomic.Uint32.Add
\* and the skip of id 0 in newStream).
LEMMA NextIdStep ==
  ASSUME NEW n \in 0..IdMax
  PROVE  NextId(n) = IF n = IdMax THEN 1 ELSE n + 1
<1>1. n = IdMax => Add32(n) = 0 /\ Add32(0) = 1
  BY ConstantsAssumption DEF Add32
<1>2. n < IdMax => Add32(n) = n + 1
  BY ConstantsAssumption DEF Add32
<1> QED
  BY <1>1, <1>2, ConstantsAssumption DEF NextId

\* Every step keeps the types of the variables.
LEMMA TypeStep == TypeOK /\ [Next]_vars => TypeOK'
<1> SUFFICES ASSUME TypeOK, [Next]_vars PROVE TypeOK'
  OBVIOUS
<1>1. ASSUME NEW s \in Streams, newStream(s) PROVE TypeOK'
  <2>1. NextId(nextStream) \in 1..IdMax
    BY NextIdStep, ConstantsAssumption DEF TypeOK
  <2> QED
    BY <1>1, <2>1, ConstantsAssumption DEF TypeOK, Ids, newStream
<1>2. ASSUME NEW s \in Streams, NEW e \in HandlerErrs, closeWithErr(s, e) PROVE TypeOK'
  BY <1>2, ConstantsAssumption DEF TypeOK, Ids, closeWithErr, MarkClosed, Errs
<1>3. ASSUME NEW s \in Streams, FinishClose(s) PROVE TypeOK'
  BY <1>3, ConstantsAssumption DEF TypeOK, Ids, FinishClose, forgetStream
<1>4. ASSUME NEW s \in Streams, sendReset(s) PROVE TypeOK'
  BY <1>4, ConstantsAssumption DEF TypeOK, Ids, sendReset
<1>5. ASSUME NEW s \in Streams, deliver(s) PROVE TypeOK'
  <2>1. CASE Enqueue(s)
    BY <1>5, <2>1, ConstantsAssumption DEF TypeOK, Ids, deliver, Enqueue
  <2>2. CASE DropClosed(s)
    BY <1>5, <2>2, ConstantsAssumption DEF TypeOK, Ids, deliver, DropClosed
  <2>3. CASE Overflow(s)
    BY <1>5, <2>3, ConstantsAssumption DEF TypeOK, Ids, deliver, Overflow, MarkClosed, Errs
  <2> QED
    BY <1>5, <2>1, <2>2, <2>3 DEF deliver
<1>6. ASSUME NEW s \in Streams, recv(s) PROVE TypeOK'
  BY <1>6, ConstantsAssumption DEF TypeOK, Ids, recv
<1>7. ASSUME NEW s \in Streams, Release(s) PROVE TypeOK'
  BY <1>7, ConstantsAssumption DEF TypeOK, Ids, Release
<1>8. ASSUME NEW s \in Streams, ConnCloseStream(s) PROVE TypeOK'
  BY <1>8, ConstantsAssumption DEF TypeOK, Ids, ConnCloseStream, MarkClosed, Errs
<1>9. ASSUME NEW i \in Ids, getStream(i) PROVE TypeOK'
  BY <1>9, ConstantsAssumption DEF TypeOK, Ids, getStream
<1>10. CASE ConnSignal
  BY <1>10, ConstantsAssumption DEF TypeOK, Ids, ConnSignal
<1>11. CASE ConnCollect
  BY <1>11, ConstantsAssumption DEF TypeOK, Ids, ConnCollect, LiveIds
<1>12. CASE ConnDone
  BY <1>12, ConstantsAssumption DEF TypeOK, Ids, ConnDone
<1>13. CASE UNCHANGED vars
  BY <1>13, ConstantsAssumption DEF TypeOK, Ids, vars
<1> QED
  BY <1>1, <1>2, <1>3, <1>4, <1>5, <1>6, <1>7, <1>8, <1>9, <1>10, <1>11,
     <1>12, <1>13 DEF Next

\* The stream table always has its types; with it the id 0 is never given out.
THEOREM TypeCorrect == Spec => []TypeOK
<1>1. Init => TypeOK
  <2> SUFFICES ASSUME Init PROVE TypeOK
    OBVIOUS
  <2>1. /\ nextStream \in 0..IdMax
        /\ id \in [Streams -> 0..IdMax]
        /\ rx \in [Streams -> 0..QueueFrames]
        /\ allocs \in 0..MaxAllocs
        /\ seq \in [Streams -> 0..MaxAllocs]
    BY ConstantsAssumption DEF Init
  <2>2. /\ streams \in [Ids -> Streams \cup {None}]
        /\ st \in [Streams -> {"free", "open", "closing", "closed"}]
        /\ err \in [Streams -> Errs \cup {None}]
        /\ rst \in SUBSET Streams
        /\ reader \in Streams \cup {None}
        /\ closer \in {"open", "signalled", "collected", "done"}
        /\ list \in SUBSET Streams
        /\ overwritten \in BOOLEAN
    BY DEF Init
  <2> QED
    BY <2>1, <2>2 DEF TypeOK
<1> QED
  BY <1>1, TypeStep, PTL DEF Spec

-----------------------------------------------------------------------------
\* The id of a stream follows from how many streams were opened after it, as
\* long as that is less than a full turn of the counter.
SeqArith ==
  /\ allocs > 0 => nextStream > 0
  /\ \A s \in Streams : st[s] # "free" =>
       /\ seq[s] \in 1..allocs
       /\ id[s] \in Ids
       /\ allocs - seq[s] < IdMax =>
            id[s] = IF nextStream > allocs - seq[s]
                      THEN nextStream - (allocs - seq[s])
                      ELSE nextStream - (allocs - seq[s]) + IdMax

IndInv ==
  /\ NoStaleEntry
  /\ SeqArith
  /\ IdsDistinct
  /\ OverwriteNeedsFullTurn
  /\ Reachable
  /\ NoOrphan

\* newStream preserves the invariant.
LEMMA NewStreamStep ==
  ASSUME TypeOK, IndInv, NEW s \in Streams, newStream(s)
  PROVE  IndInv'
<1> DEFINE n == NextId(nextStream)
<1>1. n = IF nextStream = IdMax THEN 1 ELSE nextStream + 1
  BY NextIdStep DEF TypeOK
<1>2. n \in Ids /\ nextStream \in 0..IdMax /\ IdMax \in Nat \ {0} /\ allocs \in Nat
  BY <1>1, ConstantsAssumption DEF TypeOK, Ids
<1> HIDE DEF n
<1>3. /\ st[s] = "free" /\ nextStream' = n /\ allocs' = allocs + 1
      /\ streams' = [streams EXCEPT ![n] = s]
      /\ st' = [st EXCEPT ![s] = "open"]
      /\ id' = [id EXCEPT ![s] = n]
      /\ seq' = [seq EXCEPT ![s] = allocs + 1]
      /\ overwritten' = (overwritten \/ streams[n] # None)
      /\ closer = "open" /\ closer' = "open" /\ list' = list
  BY DEF newStream, MayOpen, n
<1>4. /\ streams \in [Ids -> Streams \cup {None}]
      /\ st \in [Streams -> {"free", "open", "closing", "closed"}]
      /\ id \in [Streams -> 0..IdMax]
      /\ seq \in [Streams -> 0..MaxAllocs]
      /\ MaxAllocs \in Nat
      /\ None \notin Streams
  BY ConstantsAssumption DEF TypeOK
<1>5. NoStaleEntry'
  BY <1>2, <1>3, <1>4 DEF IndInv, NoStaleEntry, Held
<1>6. SeqArith'
  <2>1. allocs' > 0 => nextStream' > 0
    BY <1>2, <1>3 DEF Ids
  <2>2. ASSUME NEW t \in Streams, st'[t] # "free"
        PROVE  /\ seq'[t] \in 1..allocs'
               /\ id'[t] \in Ids
               /\ allocs' - seq'[t] < IdMax =>
                    id'[t] = IF nextStream' > allocs' - seq'[t]
                               THEN nextStream' - (allocs' - seq'[t])
                               ELSE nextStream' - (allocs' - seq'[t]) + IdMax
    <3>1. CASE t = s
      BY <1>2, <1>3, <1>4, <3>1 DEF Ids
    <3>2. CASE t # s
      <4>1. st[t] # "free" /\ seq'[t] = seq[t] /\ id'[t] = id[t]
        BY <1>3, <1>4, <2>2, <3>2
      <4>2. seq[t] \in 1..allocs /\ id[t] \in Ids
        BY <4>1 DEF IndInv, SeqArith
      <4>3. nextStream > 0
        BY <1>2, <4>2 DEF IndInv, SeqArith
      <4>4. allocs - seq[t] < IdMax =>
              id[t] = IF nextStream > allocs - seq[t]
                        THEN nextStream - (allocs - seq[t])
                        ELSE nextStream - (allocs - seq[t]) + IdMax
        BY <4>1 DEF IndInv, SeqArith
      <4> QED
        BY <1>1, <1>2, <1>3, <4>1, <4>2, <4>3, <4>4
    <3> QED
      BY <3>1, <3>2
  <2> QED
    BY <2>1, <2>2 DEF SeqArith, Ids
<1>7. IdsDistinct'
  <2> SUFFICES ASSUME NEW t \in Streams, NEW u \in Streams,
                      st'[t] # "free", st'[u] # "free",
                      seq'[t] < seq'[u], seq'[u] - seq'[t] < IdMax
               PROVE  id'[t] # id'[u]
    BY DEF IdsDistinct
  <2>1. CASE t # s /\ u # s
    BY <1>3, <1>4, <2>1 DEF IndInv, IdsDistinct
  <2>2. CASE u = s
    <3>1. t # s
      BY <1>2, <1>3, <1>4, <2>2
    <3>2. id'[u] = nextStream' /\ seq'[u] = allocs'
      BY <1>3, <1>4, <2>2
    <3>3. /\ seq'[t] \in 1..allocs'
          /\ id'[t] = IF nextStream' > allocs' - seq'[t]
                        THEN nextStream' - (allocs' - seq'[t])
                        ELSE nextStream' - (allocs' - seq'[t]) + IdMax
      BY <1>6, <3>2 DEF SeqArith
    <3> QED
      BY <1>2, <1>3, <3>2, <3>3 DEF Ids
  <2>3. CASE t = s /\ u # s
    <3>1. st[u] # "free" /\ seq'[u] = seq[u] /\ seq'[t] = allocs + 1
      BY <1>3, <1>4, <2>3
    <3>2. seq[u] \in 1..allocs
      BY <3>1 DEF IndInv, SeqArith
    <3> QED
      BY <1>2, <3>1, <3>2
  <2> QED
    BY <2>1, <2>2, <2>3
<1>8. OverwriteNeedsFullTurn'
  <2>1. CASE overwritten
    BY <1>2, <1>3, <2>1 DEF IndInv, OverwriteNeedsFullTurn
  <2>2. CASE streams[n] # None
    <3>1. PICK t \in Streams : t = streams[n]
      BY <1>2, <1>4, <2>2
    <3>2. id[t] = n /\ st[t] # "free"
      BY <1>2, <2>2, <3>1 DEF IndInv, NoStaleEntry, Held
    <3>3. /\ seq[t] \in 1..allocs
          /\ allocs - seq[t] < IdMax =>
               id[t] = IF nextStream > allocs - seq[t]
                         THEN nextStream - (allocs - seq[t])
                         ELSE nextStream - (allocs - seq[t]) + IdMax
      BY <3>2 DEF IndInv, SeqArith
    <3>4. allocs + 1 > IdMax
      BY <1>1, <1>2, <3>2, <3>3
    <3> QED
      BY <1>3, <3>4 DEF OverwriteNeedsFullTurn
  <2>3. CASE ~overwritten /\ streams[n] = None
    BY <1>3, <2>3 DEF OverwriteNeedsFullTurn
  <2> QED
    BY <2>1, <2>2, <2>3
<1>9. Reachable'
  BY <1>2, <1>3, <1>4 DEF IndInv, Reachable, Held, SeqArith
<1>10. NoOrphan'
  BY <1>3 DEF NoOrphan
<1> QED
  BY <1>5, <1>6, <1>7, <1>8, <1>9, <1>10 DEF IndInv

\* Closing a stream changes neither ids nor their order.
LEMMA SameIds ==
  ASSUME TypeOK, IndInv,
         UNCHANGED <<nextStream, id, seq, allocs, overwritten>>,
         \A s \in Streams : st'[s] # "free" => st[s] # "free"
  PROVE  SeqArith' /\ IdsDistinct' /\ OverwriteNeedsFullTurn'
BY DEF IndInv, SeqArith, IdsDistinct, OverwriteNeedsFullTurn

\* Every step preserves the invariant.
LEMMA IndStep == TypeOK /\ IndInv /\ [Next]_vars => IndInv'
<1> SUFFICES ASSUME TypeOK, IndInv, [Next]_vars PROVE IndInv'
  OBVIOUS
<1> DEFINE Marks(s, e) == MarkClosed(s, e) /\ UNCHANGED <<nextStream, streams,
                            id, closer, list, allocs, seq, overwritten>>
<1>0. ASSUME NEW s \in Streams, NEW e, Marks(s, e) PROVE IndInv'
  <2>1. /\ SeqArith' /\ IdsDistinct' /\ OverwriteNeedsFullTurn'
    BY <1>0, SameIds DEF MarkClosed, TypeOK
  <2>2. NoStaleEntry' /\ Reachable'
    BY <1>0 DEF MarkClosed, TypeOK, IndInv, NoStaleEntry, Reachable, Held
  <2>3. NoOrphan'
    BY <1>0 DEF MarkClosed, TypeOK, IndInv, NoOrphan
  <2> QED
    BY <2>1, <2>2, <2>3 DEF IndInv
<1> HIDE DEF Marks
<1>1. ASSUME NEW s \in Streams, newStream(s) PROVE IndInv'
  BY <1>1, NewStreamStep
<1>2. ASSUME NEW s \in Streams, NEW e \in HandlerErrs, closeWithErr(s, e) PROVE IndInv'
  BY <1>0, <1>2 DEF closeWithErr, Marks
<1>3. ASSUME NEW s \in Streams, FinishClose(s) PROVE IndInv'
  <2>1. SeqArith' /\ IdsDistinct' /\ OverwriteNeedsFullTurn'
    BY <1>3, SameIds DEF FinishClose, TypeOK
  <2>2. id[s] \in Ids /\ None \notin Streams
    BY <1>3, ConstantsAssumption DEF FinishClose, IndInv, SeqArith
  <2>3. NoStaleEntry' /\ Reachable'
    <3>1. /\ streams' = [streams EXCEPT ![id[s]] = None]
          /\ st' = [st EXCEPT ![s] = "closed"]
          /\ UNCHANGED <<id, closer, overwritten>>
          /\ st[s] = "closing"
      BY <1>3 DEF FinishClose, forgetStream
    <3>2. /\ streams \in [Ids -> Streams \cup {None}]
          /\ st \in [Streams -> {"free", "open", "closing", "closed"}]
      BY DEF TypeOK
    <3>3. NoStaleEntry'
      BY <2>2, <3>1, <3>2 DEF IndInv, NoStaleEntry, Held
    <3>4. ASSUME NEW t \in Streams, Held(t)', ~overwritten, closer \in {"open", "signalled"}
          PROVE  streams'[id[t]] = t
      <4>1. t # s /\ Held(t) /\ Held(s)
        BY <3>1, <3>2, <3>4 DEF Held
      <4>2. streams[id[t]] = t /\ streams[id[s]] = s
        BY <3>4, <4>1 DEF IndInv, Reachable
      <4>3. id[t] \in Ids
        BY <4>1 DEF IndInv, SeqArith, Held
      <4> QED
        BY <2>2, <3>1, <3>2, <4>1, <4>2, <4>3
    <3>5. Reachable'
      BY <3>1, <3>4 DEF Reachable
    <3> QED
      BY <3>3, <3>5
  <2>4. NoOrphan'
    BY <1>3 DEF FinishClose, TypeOK, IndInv, NoOrphan
  <2> QED
    BY <2>1, <2>3, <2>4 DEF IndInv
<1>4. ASSUME NEW s \in Streams, deliver(s) PROVE IndInv'
  <2>1. CASE Overflow(s)
    BY <1>0, <1>4, <2>1 DEF deliver, Overflow, Marks
  <2>2. CASE Enqueue(s) \/ DropClosed(s)
    BY <1>4, <2>2 DEF deliver, Enqueue, DropClosed, IndInv, NoStaleEntry, SeqArith,
      IdsDistinct, OverwriteNeedsFullTurn, Reachable, NoOrphan, Held
  <2> QED
    BY <1>4, <2>1, <2>2 DEF deliver
<1>5. ASSUME NEW s \in Streams, Release(s) PROVE IndInv'
  <2>0. ASSUME NEW t \in Streams, st'[t] # "free"
        PROVE  st[t] # "free" /\ id'[t] = id[t] /\ seq'[t] = seq[t]
    BY <1>5, <2>0 DEF Release, TypeOK
  <2>1. /\ SeqArith' /\ IdsDistinct' /\ OverwriteNeedsFullTurn'
    BY <1>5, <2>0 DEF Release, IndInv, SeqArith, IdsDistinct, OverwriteNeedsFullTurn
  <2>2. NoStaleEntry' /\ Reachable'
    BY <1>5 DEF Release, TypeOK, IndInv, NoStaleEntry, Reachable, Held
  <2>3. NoOrphan'
    BY <1>5 DEF Release, TypeOK, IndInv, NoOrphan
  <2> QED
    BY <2>1, <2>2, <2>3 DEF IndInv
<1>6. ASSUME NEW s \in Streams, ConnCloseStream(s) PROVE IndInv'
  <2>1. CASE MarkClosed(s, "agent disconnected") /\ UNCHANGED list
    BY <1>0, <1>6, <2>1 DEF ConnCloseStream, Marks
  <2>2. CASE st[s] = "closed" /\ list' = list \ {s} /\ UNCHANGED <<st, err>>
    BY <1>6, <2>2 DEF ConnCloseStream, IndInv, NoStaleEntry, SeqArith,
      IdsDistinct, OverwriteNeedsFullTurn, Reachable, NoOrphan, Held
  <2> QED
    BY <1>6, <2>1, <2>2 DEF ConnCloseStream
<1>7. CASE ConnCollect
  <2>1. SeqArith' /\ IdsDistinct' /\ OverwriteNeedsFullTurn'
    BY <1>7, SameIds DEF ConnCollect
  <2>2. NoStaleEntry' /\ Reachable'
    BY <1>7 DEF ConnCollect, NoStaleEntry, Reachable
  <2>3. NoOrphan'
    <3>1. ASSUME NEW s \in Streams, st[s] = "open", ~overwritten PROVE s \in list'
      <4>1. id[s] \in Ids /\ streams[id[s]] = s
        BY <1>7, <3>1 DEF ConnCollect, IndInv, SeqArith, Reachable, Held
      <4> QED
        BY <1>7, <4>1, ConstantsAssumption DEF ConnCollect, LiveIds
    <3> QED
      BY <1>7, <3>1 DEF ConnCollect, NoOrphan
  <2> QED
    BY <2>1, <2>2, <2>3 DEF IndInv
<1>8. CASE ConnSignal \/ ConnDone
  BY <1>8 DEF ConnSignal, ConnDone, IndInv, NoStaleEntry, SeqArith, IdsDistinct,
    OverwriteNeedsFullTurn, Reachable, NoOrphan, Held
<1>9. CASE \/ \E s \in Streams : sendReset(s) \/ recv(s)
           \/ \E i \in Ids : getStream(i)
           \/ UNCHANGED vars
  BY <1>9 DEF sendReset, recv, getStream, vars, IndInv, NoStaleEntry, SeqArith,
    IdsDistinct, OverwriteNeedsFullTurn, Reachable, NoOrphan, Held
<1> QED
  BY <1>1, <1>2, <1>3, <1>4, <1>5, <1>6, <1>7, <1>8, <1>9 DEF Next

\* The invariant holds in every state the table can reach.
LEMMA Inductive == Spec => [](TypeOK /\ IndInv)
<1>1. Init => IndInv
  BY ConstantsAssumption DEF Init, IndInv, NoStaleEntry, SeqArith, IdsDistinct,
    OverwriteNeedsFullTurn, Reachable, NoOrphan, Held
<1> QED
  BY <1>1, TypeCorrect, IndStep, PTL DEF Spec

-----------------------------------------------------------------------------
Open == {s \in Streams : st[s] = "open"}

\* While the table is in use the open streams are no more than its entries: each
\* has an entry of its own, under its id.
LEMMA OpenFitTable ==
  ASSUME TypeOK, IndInv, ~overwritten, closer = "open"
  PROVE  /\ IsFiniteSet(Open) /\ Cardinality(Open) \in Nat
         /\ IsFiniteSet(LiveIds) /\ Cardinality(LiveIds) \in Nat
         /\ Cardinality(Open) <= Cardinality(LiveIds)
<1> DEFINE f == [s \in Open |-> id[s]]
<1>1. IsFiniteSet(LiveIds)
  <2>1. IsFiniteSet(Ids)
    BY FS_Interval, ConstantsAssumption DEF Ids
  <2> QED
    BY <2>1, FS_Subset DEF LiveIds
<1>2. \A s \in Open : id[s] \in LiveIds /\ streams[id[s]] = s
  BY ConstantsAssumption DEF Open, IndInv, Reachable, SeqArith, Held, LiveIds
<1>3. f \in Injection(Open, LiveIds)
  BY <1>2 DEF Injection, IsInjective
<1> QED
  BY <1>1, <1>3, FS_Injection, FS_CardinalityType

\* No step lets more than maxStreams streams be open.
LEMMA LimitStep ==
  TypeOK /\ IndInv /\ LimitRespected /\ [Next]_vars => LimitRespected'
<1> SUFFICES ASSUME TypeOK, IndInv, LimitRespected, [Next]_vars,
                    ~overwritten', MaxStreams > 0
             PROVE  Cardinality(Open)' <= MaxStreams
  BY DEF LimitRespected, Open
<1>1. ASSUME NEW s \in Streams, newStream(s) PROVE Cardinality(Open)' <= MaxStreams
  <2>1. ~overwritten /\ closer = "open" /\ ~TooMany
    BY <1>1 DEF newStream, MayOpen
  <2>2. /\ IsFiniteSet(Open) /\ Cardinality(Open) \in Nat
        /\ Cardinality(LiveIds) \in Nat
        /\ Cardinality(Open) <= Cardinality(LiveIds)
    BY <2>1, OpenFitTable
  <2>3. Cardinality(Open) < MaxStreams
    BY <2>1, <2>2, ConstantsAssumption DEF TooMany
  <2>4. Open' = Open \cup {s} /\ s \notin Open
    BY <1>1 DEF newStream, Open, TypeOK
  <2>5. Cardinality(Open \cup {s}) = Cardinality(Open) + 1
    BY <2>2, <2>4, FS_AddElement
  <2> QED
    BY <2>2, <2>3, <2>4, <2>5, ConstantsAssumption
<1>2. ASSUME ~\E s \in Streams : newStream(s) PROVE Cardinality(Open)' <= MaxStreams
  <2>1. UNCHANGED overwritten /\ Open' \subseteq Open
    <3>1. CASE \E s \in Streams, e \in HandlerErrs : closeWithErr(s, e)
      BY <3>1 DEF closeWithErr, MarkClosed, Open, TypeOK
    <3>2. CASE \E s \in Streams : FinishClose(s) \/ Release(s)
      BY <3>2 DEF FinishClose, Release, Open, TypeOK
    <3>3. CASE \E s \in Streams : deliver(s)
      BY <3>3 DEF deliver, Enqueue, DropClosed, Overflow, MarkClosed, Open, TypeOK
    <3>4. CASE \E s \in Streams : ConnCloseStream(s)
      BY <3>4 DEF ConnCloseStream, MarkClosed, Open, TypeOK
    <3>5. CASE \/ \E s \in Streams : sendReset(s) \/ recv(s)
               \/ \E i \in Ids : getStream(i)
               \/ ConnSignal \/ ConnCollect \/ ConnDone
               \/ UNCHANGED vars
      BY <3>5 DEF sendReset, recv, getStream, ConnSignal, ConnCollect, ConnDone, vars, Open
    <3> QED
      BY <1>2, <3>1, <3>2, <3>3, <3>4, <3>5 DEF Next
  <2>2. IsFiniteSet(Open)
    BY FS_Subset, ConstantsAssumption DEF Open
  <2>3. /\ Cardinality(Open') <= Cardinality(Open)
        /\ Cardinality(Open') \in Nat /\ Cardinality(Open) \in Nat
    BY <2>1, <2>2, FS_Subset, FS_CardinalityType
  <2>4. Cardinality(Open) <= MaxStreams
    BY <2>1 DEF LimitRespected, Open
  <2> QED
    BY <2>3, <2>4, ConstantsAssumption
<1> QED
  BY <1>1, <1>2

-----------------------------------------------------------------------------
\* Streams less than a full turn of the uint32 counter apart have different
\* ids, and a live entry is only overwritten after a full turn.
THEOREM IdsCorrect == Spec => []IdsSound
<1>1. IndInv => IdsSound
  BY DEF IndInv, IdsSound
<1> QED
  BY <1>1, Inductive, PTL

\* Short of such an overwrite readLoop finds every live stream until the
\* connection is closed, closed streams leave the table, and maxStreams bounds
\* the open ones.
THEOREM TableCorrect == Spec => []TableExact
<1>1. Init => LimitRespected
  <2> SUFFICES ASSUME Init, MaxStreams > 0 PROVE Cardinality(Open) <= MaxStreams
    BY DEF LimitRespected, Open
  <2>1. Open = {}
    BY DEF Init, Open
  <2> QED
    BY <2>1, FS_EmptySet, ConstantsAssumption
<1>2. IndInv /\ LimitRespected => TableExact
  BY DEF IndInv, TableExact
<1> QED
  BY <1>1, <1>2, Inductive, LimitStep, PTL DEF Spec

\* The race between newStream and the connection's closeWithErr leaves no
\* open stream behind, whatever the number of streams.
THEOREM NoOrphanTheorem == Spec => []NoOrphan
BY Inductive, PTL DEF IndInv

\* The error a handler sees is the first closer's, and a closed stream is not
\* reopened while in use, for every pool and every interleaving of closers.
THEOREM FirstErrWinsTheorem == Spec => FirstErrWins
<1> DEFINE Keeps(s) == \/ err'[s] = err[s] /\ st'[s] # "open"
                       \/ st'[s] = "free"
           Step == \A s \in Streams : st[s] \in {"closing", "closed"} => Keeps(s)
<1>1. ASSUME TypeOK, [Next]_vars PROVE Step
  <2> SUFFICES ASSUME NEW s \in Streams, st[s] \in {"closing", "closed"} PROVE Keeps(s)
    OBVIOUS
  <2>1. st \in [Streams -> {"free", "open", "closing", "closed"}] /\ DOMAIN err = Streams
    BY <1>1 DEF TypeOK
  <2>2. ASSUME NEW t \in Streams, newStream(t) PROVE Keeps(s)
    BY <2>1, <2>2 DEF newStream
  <2>3. ASSUME NEW t \in Streams, NEW e, MarkClosed(t, e) PROVE Keeps(s)
    BY <2>1, <2>3 DEF MarkClosed
  <2>4. ASSUME NEW t \in Streams, FinishClose(t) \/ Release(t) PROVE Keeps(s)
    BY <2>1, <2>4 DEF FinishClose, Release
  <2>5. ASSUME UNCHANGED <<st, err>> PROVE Keeps(s)
    BY <2>5
  <2>6. ASSUME NEW t \in Streams, deliver(t) PROVE Keeps(s)
    BY <2>3, <2>5, <2>6 DEF deliver, Enqueue, DropClosed, Overflow
  <2>7. ASSUME NEW t \in Streams, ConnCloseStream(t) PROVE Keeps(s)
    BY <2>3, <2>5, <2>7 DEF ConnCloseStream
  <2>8. CASE \/ \E t \in Streams : sendReset(t) \/ recv(t)
             \/ \E i \in Ids : getStream(i)
             \/ ConnSignal \/ ConnCollect \/ ConnDone \/ UNCHANGED vars
    BY <2>5, <2>8 DEF sendReset, recv, getStream, ConnSignal, ConnCollect, ConnDone, vars
  <2> HIDE DEF Keeps
  <2> QED
    BY <1>1, <2>2, <2>3, <2>4, <2>6, <2>7, <2>8 DEF Next, closeWithErr
<1>2. TypeOK /\ [Next]_vars => [Step]_vars
  BY <1>1
<1> QED
  BY <1>2, TypeCorrect, PTL DEF Spec, FirstErrWins

=============================================================================
