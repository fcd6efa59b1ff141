------------------------------ MODULE AgentLoop ------------------------------
(***************************************************************************)
(* The agent's connection loop: Run, reconnectBackoff, sleepWithContext,   *)
(* and run, pingLoop, readLoop and closeAllStreams of one connection       *)
(* (internal/agent/agent.go).                                              *)
(*                                                                         *)
(* Run, run and readLoop (and so the pong handler) are one goroutine, the  *)
(* loop.  Others are the pinger, the goroutine that closes the socket when *)
(* the context is done, and one handler per stream, which the loop waits   *)
(* for (wg.Wait) before it dials again.                                    *)
(*                                                                         *)
(* age and quiet count seconds.  A wait is counted in fifths of a second,  *)
(* so that the jitter 0.8 .. 1.2 of d seconds is the interval 4d .. 6d.    *)
(***************************************************************************)
EXTENDS Naturals

CONSTANTS
  PingEvery,    \* 20: the pinger's ticker
  StableAfter,  \* 30: a connection this old may reset the backoff
  ReadWait,     \* 90: the read deadline, set at the start and by each pong
  MaxBackoff,   \* 30
  MaxShift,     \* 5
  ConflictWait, \* 5: the least wait after a 4009
  MaxAttempt,   \* bound: attempt saturates, the backoff is constant from there
  MaxHandlers   \* bound on concurrent stream handlers

ASSUME LoopAssumption ==
  /\ PingEvery \in Nat /\ StableAfter \in Nat \ {0} /\ ReadWait \in Nat \ {0}
  /\ MaxBackoff \in Nat \ {0} /\ MaxShift \in Nat /\ ConflictWait \in Nat
  /\ MaxAttempt \in Nat /\ MaxAttempt > MaxShift
  /\ MaxHandlers \in Nat

\* A fact of arithmetic the proofs use.
ASSUME PowersAssumption == \A k \in 0..MaxShift : 2 ^ k \in Nat

VARIABLES
  pc,       \* the loop: "top", "dial", "read" (in readLoop), "drain" (in
            \* wg.Wait), "sleep", "stopped"
  ctxDone,  \* the context given to Run is cancelled
  attempt,
  state,    \* ConnectionStatus.State, "zero" before the first report
  wait,     \* what NextRetryAt says: the current sleep, 0 for none
  sock,     \* the socket: "open", "silent" (the peer is gone unnoticed),
            \* "broken", "conflict" (closed by the gateway with 4009), "closed"
  err4009,  \* what run returned is a close with 4009
  age,      \* time since connectedAt, up to StableAfter
  quiet,    \* time since the read deadline was set, up to ReadWait
  heard,    \* LastHeartbeatAt: "none", "before" or "after" connectedAt
  handlers, \* stream handlers of this connection still running
  \* history
  ponged,   \* the current or last connection had a pong of its own
  stood,    \* it was StableAfter old when it was lost
  flaps,    \* failed dials and unstable connections in a row
  carried   \* of these, the ones from the last whose drain took it past
            \* StableAfter; 0 if there is none

conn == <<sock, err4009, age, quiet, heard, ponged, stood>>
counts == <<flaps, carried>>
vars == <<pc, ctxDone, attempt, state, wait, conn, handlers, counts>>

TypeOK ==
  /\ pc \in {"top", "dial", "read", "drain", "sleep", "stopped"}
  /\ ctxDone \in BOOLEAN
  /\ attempt \in 0..MaxAttempt
  /\ state \in {"zero", "connecting", "connected", "backoff", "identity_conflict", "stopped"}
  /\ wait \in Nat
  /\ sock \in {"open", "silent", "broken", "conflict", "closed"}
  /\ err4009 \in BOOLEAN
  /\ age \in 0..StableAfter
  /\ quiet \in 0..ReadWait
  /\ heard \in {"none", "before", "after"}
  /\ handlers \in 0..MaxHandlers
  /\ ponged \in BOOLEAN
  /\ stood \in BOOLEAN
  /\ flaps \in 0..MaxAttempt
  /\ carried \in 0..MaxAttempt

Init ==
  /\ pc = "top" /\ ctxDone = FALSE
  /\ attempt = 0 /\ state = "zero" /\ wait = 0
  /\ sock = "closed" /\ err4009 = FALSE
  /\ age = 0 /\ quiet = 0 /\ heard = "none" /\ handlers = 0
  /\ ponged = FALSE /\ stood = FALSE /\ flaps = 0 /\ carried = 0

-----------------------------------------------------------------------------
minInt(a, b) == IF a < b THEN a ELSE b
maxInt(a, b) == IF a < b THEN b ELSE a

\* reconnectBackoff without the jitter, in seconds; attempt is at least 1.
BaseDelay(n) == minInt(MaxBackoff, 2 ^ minInt(n - 1, MaxShift))

reconnectBackoff(n) == (4 * BaseDelay(n)) .. (6 * BaseDelay(n))

\* attempt++
More(n) == minInt(MaxAttempt, n + 1)

\* The history of one more failure: after a dial, and after a connection that
\* was stable when it was lost, or only after its drain.
CountDial ==
  /\ flaps' = More(flaps)
  /\ carried' = IF carried = 0 THEN 0 ELSE More(carried)

CountLoss ==
  LET Stood == stood /\ ponged
      Carried == age = StableAfter /\ ponged
  IN  /\ flaps' = More(IF Stood THEN 0 ELSE flaps)
      /\ carried' = IF Stood THEN 0
                    ELSE IF Carried THEN More(0)
                    ELSE IF carried = 0 THEN 0
                    ELSE More(carried)

-----------------------------------------------------------------------------
(* The loop.                                                               *)

\* ctx.Err() at the top; the deferred report on return.
Stop ==
  /\ pc = "top" /\ ctxDone
  /\ pc' = "stopped" /\ state' = "stopped" /\ wait' = 0
  /\ UNCHANGED <<ctxDone, attempt, conn, handlers, counts>>

StartDial ==
  /\ pc = "top" /\ ~ctxDone
  /\ pc' = "dial" /\ state' = "connecting" /\ wait' = 0
  /\ UNCHANGED <<ctxDone, attempt, conn, handlers, counts>>

\* The dial fails or times out, or the context ends it.
DialFails ==
  /\ pc = "dial"
  /\ attempt' = More(attempt)
  /\ CountDial
  /\ wait' \in reconnectBackoff(attempt')
  /\ pc' = "sleep" /\ state' = "backoff"
  /\ UNCHANGED <<ctxDone, conn, handlers>>

\* Seeded fault: a pong of an earlier connection counts for this one.
ConnectStalePong ==
  /\ pc = "dial"
  /\ pc' = "read" /\ state' = "connected"
  /\ sock' = "open" /\ err4009' = FALSE
  /\ age' = 0 /\ quiet' = 0 /\ ponged' = FALSE /\ stood' = FALSE
  /\ UNCHANGED <<ctxDone, attempt, wait, heard, handlers, counts>>

\* The dial succeeds; run sets the read deadline and starts the pinger.  A
\* pong heard so far is older than connectedAt.
Connect ==
  /\ pc = "dial"
  /\ pc' = "read" /\ state' = "connected"
  /\ sock' = "open" /\ err4009' = FALSE
  /\ age' = 0 /\ quiet' = 0 /\ ponged' = FALSE /\ stood' = FALSE
  /\ heard' = IF heard = "after" THEN "before" ELSE heard
  /\ UNCHANGED <<ctxDone, attempt, wait, handlers, counts>>

\* The pong handler, run by ReadMessage: the gateway answers each ping.
Pong ==
  /\ pc = "read" /\ sock = "open" /\ age >= minInt(StableAfter, PingEvery)
  /\ heard' = "after" /\ quiet' = 0 /\ ponged' = TRUE
  /\ state' = "connected"
  /\ UNCHANGED <<pc, ctxDone, attempt, wait, sock, err4009, age, stood, handlers, counts>>

\* A frame with a new stream id: getOrCreateStream starts a handler.
NewHandler ==
  /\ pc = "read" /\ sock = "open" /\ handlers < MaxHandlers
  /\ handlers' = handlers + 1
  /\ UNCHANGED <<pc, ctxDone, attempt, state, wait, conn, counts>>

\* Seeded fault: the read deadline is never set.
ReadFailsNoDeadline == sock \in {"broken", "conflict", "closed"} \/ ctxDone

\* ReadMessage fails, or the loop sees the context done.
ReadFails ==
  \/ sock \in {"broken", "conflict", "closed"}
  \/ quiet = ReadWait
  \/ ctxDone

\* readLoop returns; cancel (the closing goroutine closes the socket) and
\* closeAllStreams.
Disconnect ==
  /\ pc = "read" /\ ReadFails
  /\ pc' = "drain"
  /\ err4009' = (sock = "conflict")
  /\ sock' = "closed"
  /\ stood' = (age = StableAfter)
  /\ UNCHANGED <<ctxDone, attempt, state, wait, age, quiet, heard, ponged, handlers, counts>>

\* time.Since(connectedAt) >= 30s and LastHeartbeatAt.After(connectedAt).
Stable == age = StableAfter /\ heard = "after"

\* The waits the loop may choose: at least ConflictWait after a 4009.
Waits(n) ==
  IF err4009
    THEN {maxInt(w, 5 * ConflictWait) : w \in reconnectBackoff(n)}
    ELSE reconnectBackoff(n)

\* The variables of one turn of the loop are gone.
NextIteration ==
  /\ err4009' = FALSE /\ age' = 0 /\ quiet' = 0
  /\ ponged' = FALSE /\ stood' = FALSE

\* Seeded fault: the loop does not wait for its handlers.
ReconnectAtOnce ==
  /\ pc = "drain" /\ ~ctxDone
  /\ attempt' = More(IF Stable THEN 0 ELSE attempt)
  /\ CountLoss
  /\ wait' \in Waits(attempt')
  /\ pc' = "sleep"
  /\ state' = IF err4009 THEN "identity_conflict" ELSE "backoff"
  /\ NextIteration
  /\ UNCHANGED <<ctxDone, sock, heard, handlers>>

\* wg.Wait returns and the context is alive.
Reconnect ==
  /\ pc = "drain" /\ handlers = 0 /\ ~ctxDone
  /\ attempt' = More(IF Stable THEN 0 ELSE attempt)
  /\ CountLoss
  /\ wait' \in Waits(attempt')
  /\ pc' = "sleep"
  /\ state' = IF err4009 THEN "identity_conflict" ELSE "backoff"
  /\ NextIteration
  /\ UNCHANGED <<ctxDone, sock, heard, handlers>>

\* wg.Wait returns and it is not; or the sleep is cut short.
GiveUp ==
  /\ ctxDone
  /\ (pc = "drain" /\ handlers = 0) \/ pc = "sleep"
  /\ pc' = "stopped" /\ state' = "stopped" /\ wait' = 0
  /\ UNCHANGED <<ctxDone, attempt, conn, handlers, counts>>

\* Seeded fault: nothing but the context ends the sleep.
WakeNever ==
  /\ pc = "sleep" /\ ctxDone
  /\ pc' = "top"
  /\ UNCHANGED <<ctxDone, attempt, state, wait, conn, handlers, counts>>

\* The timer fires.
Wake ==
  /\ pc = "sleep"
  /\ pc' = "top"
  /\ UNCHANGED <<ctxDone, attempt, state, wait, conn, handlers, counts>>

Loop ==
  \/ Stop \/ StartDial \/ DialFails \/ Connect \/ Pong \/ NewHandler
  \/ Disconnect \/ Reconnect \/ GiveUp \/ Wake

-----------------------------------------------------------------------------
(* The other goroutines, the peer and the clock.                           *)

\* Seeded fault: wg.Done is called twice.
HandlerEndsTwice ==
  /\ handlers > 0
  /\ handlers' = handlers - 2
  /\ UNCHANGED <<pc, ctxDone, attempt, state, wait, conn, counts>>

HandlerEnds ==
  /\ handlers > 0
  /\ handlers' = handlers - 1
  /\ UNCHANGED <<pc, ctxDone, attempt, state, wait, conn, counts>>

\* The pinger's write fails, or the context is done: the socket is closed.
CloseSocket ==
  /\ pc = "read" /\ sock # "closed"
  /\ ctxDone \/ (sock # "open" /\ age >= minInt(StableAfter, PingEvery))
  /\ sock' = "closed"
  /\ UNCHANGED <<pc, ctxDone, attempt, state, wait, err4009, age, quiet, heard,
                 ponged, stood, handlers, counts>>

Cancel ==
  /\ ~ctxDone
  /\ ctxDone' = TRUE
  /\ UNCHANGED <<pc, attempt, state, wait, conn, handlers, counts>>

\* The peer vanishes, breaks the connection or closes it with 4009.
PeerFails ==
  /\ pc = "read" /\ sock = "open"
  /\ sock' \in {"silent", "broken", "conflict"}
  /\ UNCHANGED <<pc, ctxDone, attempt, state, wait, err4009, age, quiet, heard,
                 ponged, stood, handlers, counts>>

Tick ==
  /\ pc \in {"read", "drain"}
  /\ age < StableAfter \/ quiet < ReadWait
  /\ age' = minInt(StableAfter, age + 1)
  /\ quiet' = minInt(ReadWait, quiet + 1)
  /\ UNCHANGED <<pc, ctxDone, attempt, state, wait, sock, err4009, heard, ponged,
                 stood, handlers, counts>>

Finished == pc = "stopped" /\ handlers = 0 /\ UNCHANGED vars

Next ==
  \/ Loop \/ HandlerEnds \/ CloseSocket \/ Cancel \/ PeerFails \/ Tick \/ Finished

Spec == Init /\ [][Next]_vars

\* Dials end, timers fire, time passes and failed reads return.
LoopFairness ==
  /\ WF_vars(Stop \/ StartDial) /\ WF_vars(DialFails \/ Connect)
  /\ WF_vars(Disconnect) /\ WF_vars(Reconnect) /\ WF_vars(GiveUp)
  /\ WF_vars(Wake) /\ WF_vars(Tick)

\* Nothing is assumed of the upstream, so a handler may never end.
StuckSpec == Spec /\ LoopFairness

-----------------------------------------------------------------------------
(* Properties.                                                             *)

\* The wait after the n-th failure in a row is at least 0.8 times the n-th
\* backoff.
WaitIsOf(n) == wait >= 4 * minInt(MaxBackoff, 2 ^ minInt(n - 1, MaxShift))

\* Failures in a row are counted from the last connection that was stable when
\* it was lost.  The code asks for the age only after wg.Wait, so a short
\* connection with a pong whose handlers took long to end starts the count
\* again, and nothing else does.
BackoffGrows ==
  pc = "sleep" =>
    /\ WaitIsOf(IF carried = 0 THEN flaps ELSE carried)
    /\ state = "identity_conflict" => wait >= 5 * ConflictWait

\* No wait is longer than 1.2 times MaxBackoff, or the least wait of a conflict.
WaitIsBounded == wait <= maxInt(6 * MaxBackoff, 5 * ConflictWait)

\* However short-lived connections, stale pongs, refusals and failed dials mix,
\* the agent neither hammers the gateway, but for the drains above, nor adds an
\* outage of its own to a passing one (agent.go:267-292, 298-311).
BackoffSound == BackoffGrows /\ WaitIsBounded

\* Only a connection that lasted at least 30 s and had a pong resets the
\* backoff, as README.md:235 says; agent.go:276 counts the wait for the handlers
\* of agent.go:267 into the 30 s.
BackoffAsDocumented == pc = "sleep" => WaitIsOf(flaps)

\* While the loop sleeps or dials nothing of the old connection is left: no
\* handler runs, and its socket is closed (agent.go:266-268).
NoLeftovers == pc \in {"top", "dial", "sleep", "stopped"} => handlers = 0 /\ sock = "closed"

\* After a lost connection the agent dials again, unless it is stopped
\* (agent.go:263-295, README.md:235).
Retries == pc \in {"drain", "sleep"} ~> pc \in {"dial", "stopped"}

\* The loop is in wg.Wait for a handler, which may be in a write to its upstream
\* that has no deadline.
AwaitsHandler == pc = "drain" /\ handlers > 0

\* After a lost connection the agent dials again or is stopped, unless a handler
\* of that connection never ends (agent.go:263-295); a drain gets no new
\* handlers, so only such a one can make it last.
RetriesOnceDrained ==
  pc \in {"drain", "sleep"} ~> pc \in {"dial", "stopped"} \/ AwaitsHandler

\* A gateway that went silent is noticed, by the read deadline if by nothing
\* else (agent.go:396, 414).
SilenceIsNoticed == sock = "silent" ~> pc # "read"

=============================================================================
