--------------------------- MODULE Heartbeat_proofs ---------------------------
(* The heartbeat for every configuration, every ping interval, deadline and    *)
(* delay within NetworkAssumption.                                             *)
EXTENDS Heartbeat, TLAPS

-----------------------------------------------------------------------------
(* The configuration.                                                      *)

\* NewServerFromEnv makes natural numbers of all settings; a monitor that runs
\* at all has a timeout of at least the hint and the least grace together, and
\* of at least what was set.
LEMMA ConfigRange ==
  ASSUME NEW e \in [timeout : TimeoutEnv, hint : HintEnv, grace : GraceEnv]
  PROVE  /\ Hint(e) \in Nat /\ Grace(e) \in Nat /\ Timeout(e) \in Nat
         /\ Timeout(e) > 0 => Timeout(e) >= Hint(e) + MinGrace
         /\ Timeout(e) >= envDuration(e.timeout, DefaultTimeout)
         /\ envDuration(e.timeout, DefaultTimeout) \in Nat
<1>1. e.timeout \in Int /\ e.hint \in Int /\ e.grace \in Int
  BY HeartbeatAssumption
<1>2. Hint(e) \in Nat
  BY <1>1, HeartbeatAssumption DEF Hint, envDuration
<1>3. Grace(e) \in Nat /\ Grace(e) >= MinGrace
  BY <1>1, HeartbeatAssumption DEF Grace, envDuration
<1> QED
  BY <1>1, <1>2, <1>3, HeartbeatAssumption DEF Timeout, envDuration

-----------------------------------------------------------------------------
(* The inductive invariant.                                                *)

\* Both sides are up and can hear each other.
Together == gconn = "up" /\ aconn = "up" /\ link = "up"

\* The last ping is not older than its longest delay, and both idle times are
\* explained by it: the one before it was heard.
InStep ==
  Together =>
    /\ ping = "sent" => sincePing <= OneWay
    /\ ping = "read" => sincePing <= RoundTrip
    /\ idle <= sincePing + OneWay + (IF ping = "sent" THEN PingEvery ELSE 0)
    /\ quiet <= sincePing + (IF ping = "none" THEN 0 ELSE PingEvery)

\* Until the agent has the answer, the idle time is the answer's age.
Answering == gconn = "up" /\ aconn = "dialing" /\ link = "up" => idle <= OneWay

\* At the last tick of the monitor the idle time was within the timeout.
Watched == gconn = "up" /\ Monitored => idle <= Timeout(env) + sinceMon

\* After a loss both idle times grow alike, so that the agent's stays close to
\* the gateway's.
Apart ==
  /\ gconn = "up" /\ Monitored /\ aconn \in {"up", "deadline"}
       => quiet <= idle + PingEvery + RoundTrip
  /\ gconn = "up" /\ aconn = "deadline" => link = "lost" /\ quiet = ReadWait

IndInv == TypeOK /\ InStep /\ Answering /\ Watched /\ Apart

\* The invariant holds when the connection is accepted.
LEMMA InitInv == Init => IndInv
  BY HeartbeatAssumption
  DEF Init, IndInv, TypeOK, InStep, Together, Answering, Watched, Apart

\* While both sides are together, a monitor with time for a ping and the
\* agent's read deadline are out of reach.
LEMMA Bounds ==
  ASSUME IndInv
  PROVE  /\ Together => idle <= PingEvery + 2 * OneWay /\ quiet < ReadWait
         /\ gconn = "up" /\ aconn = "dialing" /\ link = "up" => idle <= OneWay
<1> USE HeartbeatAssumption, NetworkAssumption
<1>1. ASSUME Together PROVE idle <= PingEvery + 2 * OneWay
  BY <1>1 DEF IndInv, TypeOK, InStep, Together
<1>2. ASSUME Together PROVE quiet < ReadWait
  BY <1>2 DEF IndInv, TypeOK, InStep, Together
<1> QED BY <1>1, <1>2 DEF IndInv, Answering

\* Every tick, ping, pong and eviction keeps it.
LEMMA StepInv == IndInv /\ [Next]_vars => IndInv'
<1> SUFFICES ASSUME IndInv, [Next]_vars PROVE IndInv'
  OBVIOUS
<1> USE HeartbeatAssumption, NetworkAssumption
<1> USE DEF IndInv, TypeOK, InStep, Together, Answering, Watched, Apart, Monitored
<1>0. Timeout(env) \in Nat
  BY ConfigRange
<1>1. CASE Register
  BY <1>0, <1>1 DEF Register
<1>2. CASE ReceivePing
  BY <1>0, <1>2 DEF ReceivePing
<1>3. CASE ReceiveFrame
  BY <1>0, <1>3 DEF ReceiveFrame
<1>4. CASE Monitor
  BY <1>0, <1>4 DEF Monitor
<1>5. CASE GatewaySeesClose
  BY <1>0, <1>5 DEF GatewaySeesClose
<1>6. CASE Connected
  BY <1>0, <1>6 DEF Connected
<1>7. CASE DialFails
  BY <1>0, <1>7 DEF DialFails
<1>8. CASE PingTick
  BY <1>0, <1>8 DEF PingTick
<1>9. CASE PingFails
  BY <1>0, <1>9 DEF PingFails
<1>10. CASE ReceivePong
  BY <1>0, <1>10 DEF ReceivePong
<1>11. CASE ReadDeadline
  BY <1>0, <1>11, Bounds DEF ReadDeadline
<1>12. CASE AgentSeesClose
  BY <1>0, <1>12 DEF AgentSeesClose
<1>13. CASE Lose
  BY <1>0, <1>13 DEF Lose
<1>14. CASE Tick
  BY <1>0, <1>14 DEF Tick, Due
<1>15. CASE UNCHANGED vars
  BY <1>15 DEF vars
<1> QED
  BY <1>1, <1>2, <1>3, <1>4, <1>5, <1>6, <1>7, <1>8, <1>9, <1>10, <1>11,
     <1>12, <1>13, <1>14, <1>15 DEF Next

\* So it holds throughout.
LEMMA Inductive == Spec => []IndInv
<1>1. IndInv /\ [Next]_vars => IndInv'
  BY StepInv
<1> QED BY InitInv, <1>1, PTL DEF Spec

-----------------------------------------------------------------------------
(* The results.                                                            *)

\* All timers and states keep their types, for every configuration.
THEOREM TypeCorrect == Spec => []TypeOK
<1>1. IndInv => TypeOK BY DEF IndInv
<1> QED BY Inductive, <1>1, PTL

\* For every network within the assumptions, the monitor ends a connection
\* between two live sides under no settings but those whose timeout and hint
\* are both too short for the agent's pings, and the agent's read deadline under
\* none (server.go:86-106, 434-451, agent.go:393-438).
THEOREM NoFalseAlarmTheorem == Spec => NoFalseAlarm
<1> USE HeartbeatAssumption, NetworkAssumption
<1>1. ASSUME IndInv, [Next]_vars,
             gconn = "up", gconn' = "evicted", Alive
      PROVE  SetTooShort
  <2>1. Monitor
    BY <1>1 DEF Next, vars, Register, ReceivePing, ReceiveFrame, GatewaySeesClose,
        Connected, DialFails, PingTick, PingFails, ReceivePong, ReadDeadline,
        AgentSeesClose, Lose, Tick
  <2>2. idle > Timeout(env) /\ Timeout(env) > 0
    BY <1>1, <2>1 DEF Monitor, Monitored
  <2> DEFINE t == envDuration(env.timeout, DefaultTimeout)
  <2>3. /\ Timeout(env) \in Nat /\ Hint(env) \in Nat /\ t \in Nat
        /\ Timeout(env) >= Hint(env) + MinGrace /\ Timeout(env) >= t
    BY <1>1, <2>2, ConfigRange DEF IndInv, TypeOK
  <2>4. idle \in Nat
    BY <1>1 DEF IndInv, TypeOK
  <2>5. idle <= PingEvery + 2 * OneWay
    BY <1>1, <2>4, Bounds DEF Alive, Together
  <2> HIDE DEF t
  <2>6. t < PingEvery + 2 * OneWay /\ Hint(env) < PingEvery
    BY <2>2, <2>3, <2>4, <2>5
  <2> QED
    BY <2>6 DEF SetTooShort, t
<1>2. ASSUME IndInv, [Next]_vars, aconn = "up", aconn' = "deadline"
      PROVE  link = "lost" \/ gconn # "up"
  <2>1. ReadDeadline
    BY <1>2 DEF Next, vars, Register, ReceivePing, ReceiveFrame, Monitor,
        GatewaySeesClose, Connected, DialFails, PingTick, PingFails, ReceivePong,
        AgentSeesClose, Lose, Tick
  <2>2. ~(quiet < ReadWait)
    BY <2>1 DEF ReadDeadline
  <2> QED
    BY <1>2, <2>2, Bounds DEF Together, IndInv, TypeOK
<1>3. IndInv /\ [Next]_vars =>
        [/\ gconn = "up" /\ gconn' = "evicted" /\ Alive => SetTooShort
         /\ aconn = "up" /\ aconn' = "deadline" => link = "lost" \/ gconn # "up"]_vars
  BY <1>1, <1>2
<1> QED
  BY Inductive, <1>3, PTL DEF Spec, NoFalseAlarm

\* For every configuration a silent connection is removed within one turn of
\* the monitor after the timeout (server.go:434-451).
THEOREM SilentIsEvictedTheorem == Spec => []SilentIsEvicted
<1>1. IndInv => SilentIsEvicted
  <2> SUFFICES ASSUME IndInv, gconn = "up", Monitored
               PROVE  idle <= Timeout(env) + MonitorEvery
    BY DEF SilentIsEvicted
  <2>1. Timeout(env) \in Nat
    BY ConfigRange DEF IndInv, TypeOK
  <2> QED
    BY <2>1, HeartbeatAssumption DEF IndInv, TypeOK, Watched
<1> QED BY Inductive, <1>1, PTL

\* For every configuration whose timeout fits into the read deadline, an agent
\* that gives up a silent connection finds its uuid free (server.go:410-418,
\* agent.go:396, 414).
THEOREM NoSelfConflictTheorem == Spec => []NoSelfConflict
<1>1. IndInv => NoSelfConflict
  <2> SUFFICES ASSUME IndInv, Monitored,
                      Timeout(env) + MonitorEvery + PingEvery + RoundTrip < ReadWait,
                      aconn = "deadline", link = "lost", gconn = "up"
               PROVE  FALSE
    BY DEF NoSelfConflict
  <2>1. Timeout(env) \in Nat
    BY ConfigRange DEF IndInv, TypeOK
  <2>2. idle <= Timeout(env) + sinceMon /\ sinceMon <= MonitorEvery
    BY HeartbeatAssumption DEF IndInv, TypeOK, Watched
  <2>3. quiet = ReadWait /\ quiet <= idle + PingEvery + RoundTrip
    BY DEF IndInv, Apart
  <2> QED
    BY <2>1, <2>2, <2>3, HeartbeatAssumption DEF IndInv, TypeOK
<1> QED BY Inductive, <1>1, PTL

=============================================================================
