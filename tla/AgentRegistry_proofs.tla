------------------------ MODULE AgentRegistry_proofs ------------------------
(***************************************************************************)
(* For any number of uuids and connections: the registry holds exactly the *)
(* connections it should, and implements the lease of UuidLease.           *)
(***************************************************************************)
EXTENDS AgentRegistry, TLAPS

\* Every step keeps the types of the variables.
LEMMA TypeStep == TypeOK /\ [Next]_vars => TypeOK'
<1> SUFFICES ASSUME TypeOK, [Next]_vars PROVE TypeOK'
  OBVIOUS
<1> USE DEF TypeOK
<1>1. ASSUME NEW c \in Conns, NEW u \in Uuids, Upgrade(c, u) PROVE TypeOK'
  BY <1>1 DEF Upgrade
<1>2. ASSUME NEW c \in Conns, Handler(c) PROVE TypeOK'
  BY <1>2 DEF Handler, Install, Refuse, CloseRefused, StartLoops
<1>3. ASSUME NEW c \in Conns, Receive(c) \/ ReadError(c) PROVE TypeOK'
  BY <1>3 DEF Receive, ReadError
<1>4. ASSUME NEW c \in Conns PROVE removeAgentIfMatch(c) \in [Uuids -> Conns \cup {None}]
  BY DEF removeAgentIfMatch
<1>5. ASSUME NEW c \in Conns, Watcher(c) PROVE TypeOK'
  BY <1>4, <1>5 DEF Watcher
<1>6. ASSUME NEW c \in Conns, Monitor(c) PROVE TypeOK'
  BY <1>4, <1>6 DEF Monitor, MonitorQuits, MonitorExpires, MonitorRemoves,
                    MonitorClosesWs, MonitorCloses
<1>7. ASSUME NEW c \in Conns, PeerVanishes(c) \/ PeerCloses(c) \/ TimePasses(c) PROVE TypeOK'
  BY <1>7 DEF PeerVanishes, PeerCloses, TimePasses
<1>8. ASSUME NEW c \in Conns, Collect(c) PROVE TypeOK'
  BY <1>8 DEF Collect
<1>9. CASE UNCHANGED vars
  BY <1>9 DEF vars
<1> HIDE DEF TypeOK
<1> QED
  BY <1>1, <1>2, <1>3, <1>5, <1>6, <1>7, <1>8, <1>9 DEF Next

\* The variables of the registry keep their types.
THEOREM TypeCorrect == Spec => []TypeOK
<1>1. Init => TypeOK
  BY DEF Init, TypeOK
<1> QED
  BY <1>1, TypeStep, PTL DEF Spec

-----------------------------------------------------------------------------
\* Before StartLoops no goroutine of a connection exists and nothing of it
\* is closed; a connection in use has a uuid.
NotStarted ==
  \A c \in Conns :
    /\ hs[c] # "returned" => c \notin closedCh /\ hb[c] = "off" /\ watch[c] = "off" /\ rl[c] = "off"
    /\ hs[c] # "idle" => uuid[c] \in Uuids

IndInv == NotStarted /\ EntryIsAccepted /\ HealthyIsRegistered

\* removeAgentIfMatch touches nobody's entry but c's.
LEMMA RemoveOwn ==
  ASSUME TypeOK, IndInv, NEW c \in Conns, uuid[c] \in Uuids
  PROVE  /\ \A u \in Uuids : removeAgentIfMatch(c)[u] =
                 IF agentByUUID[u] = c THEN None ELSE agentByUUID[u]
BY RegistryAssumption DEF removeAgentIfMatch, TypeOK, IndInv, EntryIsAccepted

\* Removing a doomed connection's own entry preserves the invariant.
LEMMA RemoveStep ==
  ASSUME TypeOK, IndInv, NEW c \in Conns, Doomed(c), hs[c] = "returned",
         agentByUUID' = removeAgentIfMatch(c),
         UNCHANGED <<uuid, hs, closedCh, rl>>,
         \A d \in Conns : d # c => hb'[d] = hb[d] /\ watch'[d] = watch[d],
         Doomed(c)'
  PROVE  IndInv'
<1>1. uuid[c] \in Uuids
  BY DEF IndInv, NotStarted
<1>2. \A u \in Uuids : agentByUUID'[u] = IF agentByUUID[u] = c THEN None ELSE agentByUUID[u]
  BY <1>1, RemoveOwn
<1>3. NotStarted'
  BY DEF IndInv, NotStarted
<1>4. EntryIsAccepted'
  BY <1>2 DEF IndInv, EntryIsAccepted
<1>5. HealthyIsRegistered'
  <2> SUFFICES ASSUME NEW d \in Conns, hs[d] \in {"installed", "returned"}, ~Doomed(d)'
               PROVE  agentByUUID'[uuid[d]] = d
    BY DEF HealthyIsRegistered
  <2>1. d # c /\ ~Doomed(d)
    BY DEF Doomed
  <2>2. agentByUUID[uuid[d]] = d /\ uuid[d] \in Uuids
    BY <2>1 DEF IndInv, HealthyIsRegistered, NotStarted
  <2> QED
    BY <1>2, <2>1, <2>2
<1> QED
  BY <1>3, <1>4, <1>5 DEF IndInv

\* A step that leaves the registry and hs alone, starts nothing, and dooms or
\* keeps every connection preserves the invariant.
LEMMA QuietStep ==
  ASSUME IndInv, UNCHANGED <<agentByUUID, uuid, hs>>,
         \A c \in Conns : hs[c] # "returned" =>
            /\ c \in closedCh' => c \in closedCh
            /\ hb'[c] = hb[c] /\ watch'[c] = watch[c] /\ rl'[c] = rl[c],
         \A c \in Conns : Doomed(c) => Doomed(c)'
  PROVE  IndInv'
<1>1. NotStarted'
  BY DEF IndInv, NotStarted
<1>2. EntryIsAccepted'
  BY DEF IndInv, EntryIsAccepted
<1>3. HealthyIsRegistered'
  BY DEF IndInv, HealthyIsRegistered
<1> QED
  BY <1>1, <1>2, <1>3 DEF IndInv

\* Every step preserves the invariant.
LEMMA IndStep == TypeOK /\ IndInv /\ [Next]_vars => IndInv'
<1> SUFFICES ASSUME TypeOK, IndInv, [Next]_vars PROVE IndInv'
  OBVIOUS
<1>1. ASSUME NEW c \in Conns, NEW u \in Uuids, Upgrade(c, u) PROVE IndInv'
  BY <1>1 DEF Upgrade, TypeOK, IndInv, NotStarted, EntryIsAccepted, HealthyIsRegistered, Doomed
<1>2. ASSUME NEW c \in Conns, Install(c) PROVE IndInv'
  <2>1. NotStarted'
    BY <1>2 DEF Install, TypeOK, IndInv, NotStarted
  <2>2. EntryIsAccepted'
    BY <1>2 DEF Install, TypeOK, IndInv, NotStarted, EntryIsAccepted
  <2>3. HealthyIsRegistered'
    BY <1>2, RegistryAssumption DEF Install, TypeOK, IndInv, NotStarted,
                                    HealthyIsRegistered, Doomed
  <2> QED
    BY <2>1, <2>2, <2>3 DEF IndInv
<1>3. ASSUME NEW c \in Conns, Refuse(c) PROVE IndInv'
  BY <1>3 DEF Refuse, TypeOK, IndInv, NotStarted, EntryIsAccepted, HealthyIsRegistered, Doomed
<1>4. ASSUME NEW c \in Conns, StartLoops(c) PROVE IndInv'
  BY <1>4 DEF StartLoops, TypeOK, IndInv, NotStarted, EntryIsAccepted, HealthyIsRegistered, Doomed
<1>5. ASSUME NEW c \in Conns,
             \/ CloseRefused(c) \/ Receive(c) \/ ReadError(c)
             \/ PeerVanishes(c) \/ PeerCloses(c) \/ TimePasses(c)
      PROVE  IndInv'
  <2>1. UNCHANGED <<agentByUUID, uuid, hs, hb, watch>>
    BY <1>5 DEF CloseRefused, Receive, ReadError, PeerVanishes, PeerCloses, TimePasses
  <2>2. /\ closedCh \subseteq closedCh'
        /\ \A d \in Conns : hs[d] # "returned" => rl'[d] = rl[d] /\ (d \in closedCh' => d \in closedCh)
    BY <1>5 DEF CloseRefused, Receive, ReadError, PeerVanishes, PeerCloses, TimePasses,
                TypeOK, IndInv, NotStarted
  <2> QED
    BY <2>1, <2>2, QuietStep DEF Doomed
<1>6. ASSUME NEW c \in Conns, Watcher(c) PROVE IndInv'
  <2>1. hs[c] = "returned" /\ Doomed(c)
    BY <1>6 DEF Watcher, IndInv, NotStarted, Doomed
  <2> QED
    BY <1>6, <2>1, RemoveStep DEF Watcher, TypeOK, Doomed
<1>7. ASSUME NEW c \in Conns, MonitorRemoves(c) PROVE IndInv'
  <2>1. hs[c] = "returned" /\ Doomed(c)
    BY <1>7 DEF MonitorRemoves, IndInv, NotStarted, Doomed
  <2> QED
    BY <1>7, <2>1, RemoveStep DEF MonitorRemoves, TypeOK, Doomed
<1>8. ASSUME NEW c \in Conns,
             MonitorQuits(c) \/ MonitorExpires(c) \/ MonitorClosesWs(c) \/ MonitorCloses(c)
      PROVE  IndInv'
  <2>1. hs[c] = "returned"
    BY <1>8 DEF MonitorQuits, MonitorExpires, MonitorClosesWs, MonitorCloses, IndInv, NotStarted
  <2>2. /\ UNCHANGED <<agentByUUID, uuid, hs, rl, watch>>
        /\ closedCh' \in {closedCh, closedCh \cup {c}}
        /\ \E x \in {"expired", "wsClosed", "done"} : hb' = [hb EXCEPT ![c] = x]
    BY <1>8 DEF MonitorQuits, MonitorExpires, MonitorClosesWs, MonitorCloses
  <2> QED
    BY <2>1, <2>2, QuietStep DEF Doomed, TypeOK
<1>9. ASSUME NEW c \in Conns, Collect(c) PROVE IndInv'
  <2>1. NotStarted'
    BY <1>9 DEF Collect, TypeOK, IndInv, NotStarted
  <2>2. EntryIsAccepted'
    BY <1>9 DEF Collect, TypeOK, IndInv, EntryIsAccepted
  <2>3. HealthyIsRegistered'
    BY <1>9 DEF Collect, TypeOK, IndInv, HealthyIsRegistered, Doomed
  <2> QED
    BY <2>1, <2>2, <2>3 DEF IndInv
<1>10. CASE UNCHANGED vars
  BY <1>10 DEF vars, IndInv, NotStarted, EntryIsAccepted, HealthyIsRegistered, Doomed
<1> QED
  BY <1>1, <1>2, <1>3, <1>4, <1>5, <1>6, <1>7, <1>8, <1>9, <1>10 DEF Next, Handler, Monitor

\* The invariant holds in every reachable state.
LEMMA Inductive == Spec => [](TypeOK /\ IndInv)
<1>1. Init => IndInv
  BY RegistryAssumption DEF Init, IndInv, NotStarted, EntryIsAccepted, HealthyIsRegistered
<1> QED
  BY <1>1, TypeCorrect, IndStep, PTL DEF Spec

\* A healthy accepted connection is always the registered one, and an entry is
\* always an accepted connection of that uuid.
THEOREM RegistryCorrect == Spec => []RegistryExact
<1>1. IndInv => RegistryExact
  BY DEF IndInv, RegistryExact
<1> QED
  BY <1>1, Inductive, PTL

-----------------------------------------------------------------------------
DoomedSet == {c \in Conns : Doomed(c)}

\* Every step of the registry is a step of the lease or leaves it alone.
LEMMA LeaseStep == TypeOK /\ IndInv /\ [Next]_vars => [Lease!Next]_(Lease!vars)
<1> SUFFICES ASSUME TypeOK, IndInv, [Next]_vars PROVE [Lease!Next]_(Lease!vars)
  OBVIOUS
<1>0. ASSUME UNCHANGED agentByUUID, DoomedSet' = DoomedSet
      PROVE  UNCHANGED Lease!vars
  BY <1>0 DEF Lease!vars, DoomedSet
<1>1. ASSUME NEW c \in Conns, NEW u \in Uuids, Upgrade(c, u) PROVE UNCHANGED Lease!vars
  BY <1>0, <1>1 DEF Upgrade, DoomedSet, Doomed
<1>2. ASSUME NEW c \in Conns, Install(c) PROVE Lease!Next
  <2>1. uuid[c] \in Uuids /\ c \notin DoomedSet
    BY <1>2 DEF Install, IndInv, NotStarted, DoomedSet, Doomed
  <2>2. Lease!HoldsNothing(c)
    BY <1>2, RegistryAssumption DEF Install, IndInv, EntryIsAccepted, Lease!HoldsNothing
  <2>3. DoomedSet' = DoomedSet
    BY <1>2 DEF Install, DoomedSet, Doomed
  <2>4. Lease!Acquire(uuid[c], c)
    BY <1>2, <2>1, <2>2, <2>3 DEF Install, Lease!Acquire, DoomedSet
  <2> QED
    BY <2>1, <2>4 DEF Lease!Next
<1>3. ASSUME NEW c \in Conns, Refuse(c) \/ CloseRefused(c) \/ Receive(c) \/ PeerVanishes(c)
                              \/ PeerCloses(c) \/ TimePasses(c)
      PROVE UNCHANGED Lease!vars
  BY <1>0, <1>3 DEF Refuse, CloseRefused, Receive, PeerVanishes, PeerCloses, TimePasses,
                    DoomedSet, Doomed
<1>4. ASSUME NEW c \in Conns, StartLoops(c) PROVE UNCHANGED Lease!vars
  <2>1. \A d \in Conns : Doomed(d)' <=> Doomed(d)
    BY <1>4 DEF StartLoops, TypeOK, IndInv, NotStarted, Doomed
  <2> QED
    BY <1>0, <1>4, <2>1 DEF StartLoops, DoomedSet
<1>5. ASSUME NEW c \in Conns,
             \/ ReadError(c) \/ MonitorQuits(c) \/ MonitorExpires(c)
             \/ MonitorClosesWs(c) \/ MonitorCloses(c)
      PROVE  [Lease!Next]_(Lease!vars)
  <2>1. UNCHANGED agentByUUID
    BY <1>5 DEF ReadError, MonitorQuits, MonitorExpires, MonitorClosesWs, MonitorCloses
  <2>2. Doomed(c)' /\ \A d \in Conns : d # c => (Doomed(d)' <=> Doomed(d))
    BY <1>5 DEF ReadError, MonitorQuits, MonitorExpires, MonitorClosesWs, MonitorCloses,
                TypeOK, Doomed
  <2>3. CASE Doomed(c)
    BY <1>0, <2>1, <2>2, <2>3 DEF DoomedSet
  <2>4. CASE ~Doomed(c)
    <3>1. DoomedSet' = DoomedSet \cup {c} /\ c \notin DoomedSet
      BY <2>2, <2>4 DEF DoomedSet
    <3>2. Lease!Doom(c)
      BY <2>1, <3>1 DEF Lease!Doom, DoomedSet
    <3> QED
      BY <3>2 DEF Lease!Next
  <2> QED
    BY <2>3, <2>4
<1>6. ASSUME NEW c \in Conns, Watcher(c) \/ MonitorRemoves(c) PROVE [Lease!Next]_(Lease!vars)
  <2>1. /\ Doomed(c) /\ hs[c] = "returned"
        /\ agentByUUID' = removeAgentIfMatch(c)
    BY <1>6 DEF Watcher, MonitorRemoves, IndInv, NotStarted, Doomed
  <2>2. DoomedSet' = DoomedSet
    BY <1>6 DEF Watcher, MonitorRemoves, TypeOK, DoomedSet, Doomed
  <2>3. CASE agentByUUID[uuid[c]] = c
    <3>1. Lease!Free(uuid[c])
      BY <2>1, <2>2, <2>3 DEF Lease!Free, removeAgentIfMatch, DoomedSet
    <3>2. uuid[c] \in Uuids
      BY <2>1 DEF IndInv, NotStarted
    <3> QED
      BY <3>1, <3>2 DEF Lease!Next
  <2>4. CASE agentByUUID[uuid[c]] # c
    BY <1>0, <2>1, <2>2, <2>4 DEF removeAgentIfMatch
  <2> QED
    BY <2>3, <2>4
<1>7. ASSUME NEW c \in Conns, Collect(c) PROVE Lease!Next
  <2>1. DoomedSet' = DoomedSet \ {c}
    BY <1>7 DEF Collect, TypeOK, DoomedSet, Doomed
  <2>2. Lease!Recycle(c)
    BY <1>7, <2>1 DEF Collect, Lease!Recycle, Lease!HoldsNothing, DoomedSet
  <2> QED
    BY <2>2 DEF Lease!Next
<1>8. CASE UNCHANGED vars
  BY <1>0, <1>8 DEF vars, DoomedSet, Doomed
<1> QED
  BY <1>1, <1>2, <1>3, <1>4, <1>5, <1>6, <1>7, <1>8 DEF Next, Handler, Monitor

\* The registry implements the lease: uuids are never preempted and only a
\* doomed connection gives one up.
THEOREM RegistryImplementsLease == Spec => LeaseSpec
<1>1. Init => Lease!Init
  BY DEF Init, Lease!Init, Doomed
<1> QED
  BY <1>1, Inductive, LeaseStep, PTL DEF Spec, LeaseSpec, Lease!Spec

=============================================================================
