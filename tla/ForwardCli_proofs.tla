-------------------------- MODULE ForwardCli_proofs --------------------------
(***************************************************************************)
(* Proofs about the agent's connection loop and the process around it.     *)
(*                                                                         *)
(* BackoffGrows is not inductive: it needs that attempt is the number of   *)
(* failures in a row (Counted), for which a pong after connectedAt must be *)
(* one of this connection, and a connection that was stable when it was    *)
(* lost is still so after its drain.  The process implements the loop: each of its steps is *)
(* one of the loop's, or leaves the loop alone, so that what holds of the  *)
(* loop holds of the loop inside the process.                              *)
(***************************************************************************)
EXTENDS ForwardCli, TLAPS

\* LastHeartbeatAt.After(connectedAt) tells this connection's pongs from
\* those of earlier ones.
PongIsOwn == pc \in {"read", "drain"} => (ponged = TRUE <=> heard = "after")

\* attempt is the number of failures in a row, from the last drain that took a
\* connection past StableAfter if there was one.
Counted == attempt = IF carried = 0 THEN flaps ELSE carried

\* A connection does not become younger while it drains.
StoodIsOld == pc = "drain" /\ stood = TRUE => age = StableAfter

SleepIsLong ==
  pc = "sleep" =>
    /\ attempt >= 1
    /\ wait >= 4 * BaseDelay(attempt)
    /\ state = "identity_conflict" => wait >= 5 * ConflictWait

IndInv ==
  /\ TypeOK
  /\ Counted
  /\ StoodIsOld
  /\ PongIsOwn
  /\ SleepIsLong
  /\ WaitIsBounded
  /\ NoLeftovers
  /\ pc = "drain" => sock = "closed"
  /\ pc = "stopped" => ctxDone = TRUE

-----------------------------------------------------------------------------
\* The base delay is a number of seconds up to the cap.
LEMMA DelayRange ==
  ASSUME NEW n \in 1..MaxAttempt
  PROVE  BaseDelay(n) \in Nat /\ BaseDelay(n) <= MaxBackoff
<1> DEFINE k == minInt(n - 1, MaxShift)
<1>1. k \in 0..MaxShift
  BY LoopAssumption DEF minInt
<1>2. 2 ^ k \in Nat
  BY <1>1, PowersAssumption
<1> HIDE DEF k
<1>3. minInt(MaxBackoff, 2 ^ k) \in Nat /\ minInt(MaxBackoff, 2 ^ k) <= MaxBackoff
  BY <1>2, LoopAssumption DEF minInt
<1> QED
  BY <1>3 DEF BaseDelay, k

\* The jittered waits lie between 0.8 times the delay and 1.2 times the cap.
LEMMA BackoffRange ==
  ASSUME NEW n \in 1..MaxAttempt, NEW w \in reconnectBackoff(n)
  PROVE  w \in Nat /\ w >= 4 * BaseDelay(n) /\ w <= 6 * MaxBackoff
<1>1. BaseDelay(n) \in Nat /\ BaseDelay(n) <= MaxBackoff
  BY DelayRange
<1> QED
  BY <1>1, LoopAssumption DEF reconnectBackoff

\* The same for the waits after a lost connection, with the least wait of a
\* conflict.
LEMMA WaitsRange ==
  ASSUME NEW n \in 1..MaxAttempt, NEW w \in Waits(n), err4009 \in BOOLEAN
  PROVE  /\ w \in Nat
         /\ w >= 4 * BaseDelay(n)
         /\ w <= maxInt(6 * MaxBackoff, 5 * ConflictWait)
         /\ err4009 => w >= 5 * ConflictWait
<1>0. BaseDelay(n) \in Nat
  BY DelayRange
<1>1. CASE err4009
  <2>1. PICK v \in reconnectBackoff(n) : w = maxInt(v, 5 * ConflictWait)
    BY <1>1 DEF Waits
  <2>2. v \in Nat /\ v >= 4 * BaseDelay(n) /\ v <= 6 * MaxBackoff
    BY BackoffRange
  <2> QED
    BY <1>0, <2>1, <2>2, LoopAssumption DEF maxInt
<1>2. CASE ~err4009
  <2>1. w \in reconnectBackoff(n)
    BY <1>2 DEF Waits
  <2>2. w \in Nat /\ w >= 4 * BaseDelay(n) /\ w <= 6 * MaxBackoff
    BY <2>1, BackoffRange
  <2> QED
    BY <1>2, <2>2, LoopAssumption DEF maxInt
<1> QED
  BY <1>1, <1>2

\* One more failure stays within the range of the counter.
LEMMA MoreRange ==
  ASSUME NEW n \in 0..MaxAttempt
  PROVE  More(n) \in 1..MaxAttempt
BY LoopAssumption DEF More, minInt

-----------------------------------------------------------------------------
\* The invariant holds when Run is called.
LEMMA InitInv == Init => IndInv
<1> SUFFICES ASSUME Init PROVE IndInv
  OBVIOUS
<1>0. ctxDone \in BOOLEAN /\ err4009 \in BOOLEAN /\ ponged \in BOOLEAN /\ stood \in BOOLEAN
  BY Zenon DEF Init
<1>1. TypeOK
  BY <1>0, LoopAssumption DEF Init, TypeOK
<1>2. WaitIsBounded
  BY LoopAssumption DEF Init, WaitIsBounded, maxInt
<1> QED
  BY <1>1, <1>2 DEF Init, IndInv, Counted, StoodIsOld, PongIsOwn, SleepIsLong, NoLeftovers

\* Every step of the loop keeps it.
LEMMA StepInv == IndInv /\ [Next]_vars => IndInv'
<1> SUFFICES ASSUME IndInv, [Next]_vars PROVE IndInv'
  OBVIOUS
<1> USE LoopAssumption DEF IndInv, Counted, StoodIsOld, PongIsOwn, SleepIsLong, WaitIsBounded,
  NoLeftovers, counts
<1>0. 0 <= maxInt(6 * MaxBackoff, 5 * ConflictWait)
  BY DEF maxInt
<1>1. CASE Stop
  BY <1>0, <1>1 DEF Stop, TypeOK, conn
<1>2. CASE StartDial
  BY <1>0, <1>2 DEF StartDial, TypeOK, conn
<1>3. CASE DialFails
  <2>1. /\ attempt' \in 1..MaxAttempt /\ flaps' \in 1..MaxAttempt
        /\ carried' \in 0..MaxAttempt /\ Counted'
    BY <1>3, MoreRange DEF DialFails, CountDial, TypeOK
  <2>2. wait' \in Nat /\ wait' >= 4 * BaseDelay(attempt') /\ wait' <= 6 * MaxBackoff
    BY <1>3, <2>1, BackoffRange DEF DialFails
  <2>3. wait' <= maxInt(6 * MaxBackoff, 5 * ConflictWait)
    BY <2>2 DEF maxInt
  <2> QED
    BY <1>3, <2>1, <2>2, <2>3 DEF DialFails, TypeOK, conn
<1>4. CASE Connect
  <2>0. err4009' \in BOOLEAN /\ ponged' \in BOOLEAN /\ stood' \in BOOLEAN
    BY <1>4, Zenon DEF Connect
  <2>1. TypeOK'
    BY <1>4, <2>0 DEF Connect, TypeOK
  <2>2. PongIsOwn'
    BY <1>4 DEF Connect, TypeOK
  <2> QED
    BY <1>4, <2>1, <2>2 DEF Connect
<1>5. CASE Pong
  BY <1>5 DEF Pong, TypeOK
<1>6. CASE NewHandler
  BY <1>6 DEF NewHandler, TypeOK, conn
<1>7. CASE Disconnect
  <2>0. stood' \in BOOLEAN /\ err4009' \in BOOLEAN
    BY <1>7, Zenon DEF Disconnect
  <2> QED
    BY <1>7, <2>0 DEF Disconnect, TypeOK
<1>8. CASE Reconnect
  <2>1. Stable <=> age = StableAfter /\ ponged = TRUE
    BY <1>8 DEF Reconnect, Stable, TypeOK
  <2>2. /\ attempt' \in 1..MaxAttempt /\ flaps' \in 1..MaxAttempt
        /\ carried' \in 0..MaxAttempt /\ Counted'
    <3>1. More(0) \in 1..MaxAttempt /\ More(attempt) \in 1..MaxAttempt
          /\ More(flaps) \in 1..MaxAttempt /\ More(carried) \in 1..MaxAttempt
      BY MoreRange DEF TypeOK
    <3>2. stood = TRUE => age = StableAfter
      BY <1>8 DEF Reconnect
    <3>3. attempt' = More(IF age = StableAfter /\ ponged = TRUE THEN 0 ELSE attempt)
      BY <1>8, <2>1 DEF Reconnect
    <3>4. CASE stood = TRUE /\ ponged = TRUE
      BY <1>8, <3>1, <3>2, <3>3, <3>4 DEF Reconnect, CountLoss
    <3>5. CASE ~(stood = TRUE) /\ age = StableAfter /\ ponged = TRUE
      BY <1>8, <3>1, <3>3, <3>5 DEF Reconnect, CountLoss
    <3>6. CASE ~(age = StableAfter /\ ponged = TRUE)
      BY <1>8, <3>1, <3>2, <3>3, <3>6 DEF Reconnect, CountLoss
    <3> QED
      BY <3>4, <3>5, <3>6 DEF TypeOK
  <2>3. /\ wait' \in Nat
        /\ wait' >= 4 * BaseDelay(attempt')
        /\ wait' <= maxInt(6 * MaxBackoff, 5 * ConflictWait)
        /\ err4009 => wait' >= 5 * ConflictWait
    BY <1>8, <2>2, WaitsRange DEF Reconnect, TypeOK
  <2>0. err4009' \in BOOLEAN /\ ponged' \in BOOLEAN /\ stood' \in BOOLEAN
    BY <1>8, Zenon DEF Reconnect, NextIteration
  <2>4. TypeOK'
    BY <1>8, <2>0, <2>2, <2>3 DEF Reconnect, NextIteration, TypeOK
  <2>5. /\ StoodIsOld' /\ PongIsOwn' /\ NoLeftovers'
        /\ (pc = "drain" => sock = "closed")' /\ (pc = "stopped" => ctxDone = TRUE)'
    BY <1>8 DEF Reconnect
  <2>6. SleepIsLong' /\ WaitIsBounded'
    BY <1>8, <2>2, <2>3 DEF Reconnect
  <2> QED
    BY <2>2, <2>4, <2>5, <2>6
<1>9. CASE GiveUp
  BY <1>0, <1>9 DEF GiveUp, TypeOK, conn
<1>10. CASE Wake
  BY <1>10 DEF Wake, TypeOK, conn
<1>11. CASE HandlerEnds
  BY <1>11 DEF HandlerEnds, TypeOK, conn
<1>12. CASE CloseSocket
  BY <1>12 DEF CloseSocket, TypeOK
<1>13. CASE Cancel
  BY <1>13 DEF Cancel, TypeOK, conn
<1>14. CASE PeerFails
  BY <1>14 DEF PeerFails, TypeOK
<1>15. CASE Tick
  BY <1>15 DEF Tick, TypeOK, minInt
<1>16. CASE UNCHANGED vars
  BY <1>16 DEF vars, conn, TypeOK
<1> QED
  BY <1>1, <1>2, <1>3, <1>4, <1>5, <1>6, <1>7, <1>8, <1>9, <1>10, <1>11, <1>12, <1>13,
     <1>14, <1>15, <1>16 DEF Next, Loop, Finished

\* So it holds throughout.
LEMMA Inductive == Spec => []IndInv
<1> QED
  BY InitInv, StepInv, PTL DEF Spec

-----------------------------------------------------------------------------
\* The variables of the loop keep their types, whatever the thresholds are.
THEOREM TypeCorrect == Spec => []TypeOK
<1>1. IndInv => TypeOK
  BY DEF IndInv
<1> QED
  BY <1>1, Inductive, PTL

\* For every backoff, stability and conflict threshold the waits grow with the
\* failures in a row, counted again only from a connection that was stable when
\* it was lost or, with a pong, only once its handlers had ended; and no wait is
\* above 1.2 times MaxBackoff, or the least wait of a conflict
\* (agent.go:267-292, 298-311).
THEOREM BackoffCorrect == Spec => []BackoffSound
<1>1. IndInv => BackoffSound
  BY DEF IndInv, Counted, SleepIsLong, BackoffSound, BackoffGrows, WaitIsOf, BaseDelay
<1> QED
  BY <1>1, Inductive, PTL

\* The agent never dials while anything of its last connection is left.
THEOREM NoLeftoversTheorem == Spec => []NoLeftovers
<1>1. IndInv => NoLeftovers
  BY DEF IndInv
<1> QED
  BY <1>1, Inductive, PTL

-----------------------------------------------------------------------------
(* The process.                                                            *)

\* Every step of the process is a step of the loop or leaves it alone.
LEMMA CliStep == [CliNext]_allVars => [Next]_vars
<1>1. AgentStep => Next
  BY DEF AgentStep, Next
<1>2. Signal => Next \/ UNCHANGED vars
  BY DEF Signal, Exits, Next
<1>3. ASSUME \/ PrintVersion \/ MainRefuses \/ StartLocal \/ StartRemote \/ Resolved
             \/ RemoteReturns \/ ListenerEnds \/ ListenerServes \/ Connection
             \/ ListenFailed \/ LocalCancelled \/ ShutdownReturns \/ LocalReturns
             \/ Exited \/ UNCHANGED allVars
      PROVE  UNCHANGED vars
  BY <1>3 DEF PrintVersion, MainRefuses, StartLocal, StartRemote, Resolved, RemoteReturns,
    ListenerEnds, ListenerServes, Connection, ListenFailed, LocalCancelled,
    ShutdownReturns, LocalReturns, Exited, Exits, allVars
<1> QED
  BY <1>1, <1>2, <1>3 DEF CliNext

\* The process runs the connection loop as AgentLoop describes it, for every
\* command line and environment.
THEOREM CliImplementsLoop == CliSpec => Spec
<1>1. CliInit => Init
  BY DEF CliInit
<1> QED
  BY <1>1, CliStep, PTL DEF CliSpec, Spec

\* Nothing but -R gives the loop a turn, nothing but -L a listener; what main
\* does next tells how far both can be.
Phase ==
  /\ proc \in {"start", "resolve", "local", "shutdown", "await"} => exit = "none" /\ pc = "top"
  /\ proc = "remote" => exit = "none"
  /\ proc \in {"start", "resolve", "remote"} => listener = "off"
  /\ proc \in {"resolve", "remote"} => resolveMode(cmd) = "remote"
  /\ proc \in {"local", "shutdown", "await"} => resolveMode(cmd) = "local"
  /\ proc \in {"shutdown", "await"} => ctxDone
  /\ proc = "exited" => listener \in {"off", "done"}
  /\ proc \in {"start", "resolve", "remote", "local", "shutdown", "await", "exited"}
  /\ errCh # "none" => listener = "done"

\* The invariant of main.
CliInv == Phase /\ ExitSound

\* It holds when main starts.
LEMMA CliInvInit == CliInit => CliInv
BY DEF CliInit, Init, CliInv, Phase, ExitSound

\* main may end where it does: the loop has returned, or the listener has.
LEMMA CliInvStep == IndInv /\ CliInv /\ [CliNext]_allVars => CliInv'
<1> SUFFICES ASSUME IndInv, CliInv, [CliNext]_allVars PROVE CliInv'
  OBVIOUS
<1> USE DEF CliInv, Phase
<1>1. CASE PrintVersion \/ MainRefuses
  BY <1>1 DEF PrintVersion, MainRefuses, Exits, vars, local, ExitSound
<1>2. CASE StartLocal \/ StartRemote
  BY <1>2 DEF StartLocal, StartRemote, vars, local, ExitSound
<1>3. CASE Resolved
  BY <1>3 DEF Resolved, Exits, vars, local, ExitSound
<1>4. CASE RemoteReturns
  <2>1. handlers = 0 /\ sock = "closed"
    BY <1>4 DEF RemoteReturns, IndInv, NoLeftovers
  <2>2. ctxDone
    BY <1>4 DEF RemoteReturns, IndInv
  <2> QED
    BY <1>4, <2>1, <2>2 DEF RemoteReturns, Exits, vars, conn, local, ExitSound
<1>5. CASE ListenerEnds
  BY <1>5 DEF ListenerEnds, vars, conn, ExitSound
<1>6. CASE ListenerServes \/ Connection
  BY <1>6 DEF ListenerServes, Connection, vars, conn, ExitSound
<1>7. CASE ListenFailed \/ LocalReturns
  BY <1>7 DEF ListenFailed, LocalReturns, Exits, vars, conn, local, ExitSound
<1>8. CASE LocalCancelled \/ ShutdownReturns
  BY <1>8 DEF LocalCancelled, ShutdownReturns, vars, conn, local, ExitSound
<1>9. CASE AgentStep
  BY <1>9 DEF AgentStep, cli, local, ExitSound
<1>10. CASE Signal
  BY <1>10 DEF Signal, Exits, Cancel, cli, vars, conn, local, ExitSound
<1>11. CASE Exited \/ UNCHANGED allVars
  BY <1>11 DEF Exited, allVars, cli, vars, conn, local, ExitSound
<1> QED
  BY <1>1, <1>2, <1>3, <1>4, <1>5, <1>6, <1>7, <1>8, <1>9, <1>10, <1>11 DEF CliNext

\* The exit status tells what happened, whatever races: 0 only for an interrupted
\* process with nothing left, failure only for one whose agent never ran.
THEOREM ExitSoundTheorem == CliSpec => []ExitSound
<1>1. CliSpec => []IndInv
  BY CliImplementsLoop, Inductive, PTL
<1>2. CliInv => ExitSound
  BY DEF CliInv
<1> QED
  BY <1>1, <1>2, CliInvInit, CliInvStep, PTL DEF CliSpec

=============================================================================
