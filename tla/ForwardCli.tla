----------------------------- MODULE ForwardCli -----------------------------
(***************************************************************************)
(* The process clockbridge-cli: main resolves the mode and the bearer      *)
(* token and runs either the agent (-R: runRemoteForward, NewRemoteForward *)
(* and the loop of AgentLoop) or the local reverse proxy (-L:              *)
(* runLocalForward and Server.Run of internal/reverseproxy), until a       *)
(* signal cancels the context both were given (cmd/clockbridge-cli,        *)
(* pkg/clockbridge/remote_forward.go, internal/reverseproxy/server.go).    *)
(*                                                                         *)
(* A command line is what main tells apart of it:                          *)
(*   first       "--frp", "-version" or "" for neither                     *)
(*   local, remote   the flags -L and -R: "", "good", or "bad" (parsed in  *)
(*               vain; for -R also a target the proxy mode forbids)        *)
(*   args        the arguments: "good", or "bad" (not one, or not parsed)  *)
(*   ip          --register-ip: "", "addr" (an address), "host" (a name to *)
(*               be looked up) or "bad"                                    *)
(*   tokens      the sources of a token that are set; unreadable: those of *)
(*               them that are files which cannot be read or are empty     *)
(***************************************************************************)
EXTENDS AgentLoop

CONSTANT Commands \* the command lines and environments

TokenSources == {"--token", "-i", "TOKEN", "TOKEN_PATH"}
TokenFiles == {"-i", "TOKEN_PATH"}

ASSUME CommandsAssumption ==
  \A c \in Commands : c.tokens \subseteq TokenSources /\ c.unreadable \subseteq TokenFiles

VARIABLES
  cmd,    \* the command line
  proc,   \* main: "start" (signals not caught yet), "resolve" (in the look-up of
          \* NewRemoteForward), "remote" (in Agent.Run), "local" (in the select
          \* of Server.Run), "shutdown" (in Shutdown), "await" (at <-errCh),
          \* "exited"
  exit,   \* "none", "ok" (main returned), "fatal" (log.Fatal), "killed" (by the
          \* signal)
  listener, \* the goroutine of ListenAndServe: "off", "starting", "serving",
          \* "done"
  errCh,  \* what it sent: "none", "closed" (ErrServerClosed), "failed"
  busy    \* a connection of the reverse proxy is active

local == <<listener, errCh, busy>>
cli == <<cmd, proc, exit, local>>
allVars == <<vars, cli>>

CliInit ==
  /\ Init
  /\ cmd \in Commands
  /\ proc = "start" /\ exit = "none"
  /\ listener = "off" /\ errCh = "none" /\ busy = FALSE

-----------------------------------------------------------------------------
(* main.                                                                   *)

resolveMode(c) ==
  IF c.local # "" /\ c.remote # "" THEN "error"
  ELSE IF c.local # "" THEN "local"
  ELSE IF c.remote # "" THEN "remote"
  ELSE "error"

\* The first source that is set decides, also when its file cannot be read.
resolveBearerToken(c) ==
  LET Source == IF "--token" \in c.tokens THEN "--token"
                ELSE IF "-i" \in c.tokens THEN "-i"
                ELSE IF "TOKEN" \in c.tokens THEN "TOKEN"
                ELSE IF "TOKEN_PATH" \in c.tokens THEN "TOKEN_PATH"
                ELSE "none"
  IN  IF Source \in c.unreadable THEN "error" ELSE Source

\* What ends the process before anything runs.
Refused(c) ==
  \/ resolveMode(c) = "error" \/ resolveBearerToken(c) = "error" \/ c.args = "bad"
  \/ resolveMode(c) = "local" /\ (c.ip # "" \/ c.local = "bad")
  \/ resolveMode(c) = "remote" /\ (c.ip = "bad" \/ c.remote = "bad")

Exits(how) == proc' = "exited" /\ exit' = how /\ UNCHANGED <<vars, cmd, local>>

\* frpc.Execute takes over; the version is printed.
PrintVersion == proc = "start" /\ cmd.first # "" /\ Exits("ok")

MainRefuses == proc = "start" /\ cmd.first = "" /\ Refused(cmd) /\ Exits("fatal")

\* NotifyContext, and runLocalForward up to the select of Server.Run.
StartLocal ==
  /\ proc = "start" /\ cmd.first = "" /\ ~Refused(cmd) /\ resolveMode(cmd) = "local"
  /\ proc' = "local" /\ listener' = "starting"
  /\ UNCHANGED <<vars, cmd, exit, errCh, busy>>

\* NotifyContext, and runRemoteForward up to Agent.Run or the look-up.
StartRemote ==
  /\ proc = "start" /\ cmd.first = "" /\ ~Refused(cmd) /\ resolveMode(cmd) = "remote"
  /\ proc' = IF cmd.ip = "host" THEN "resolve" ELSE "remote"
  /\ UNCHANGED <<vars, cmd, exit, local>>

\* ResolveRegisterDialAddr: the look-up takes no notice of signals.
Resolved ==
  /\ proc = "resolve"
  /\ \/ proc' = "remote" /\ UNCHANGED <<vars, cmd, exit, local>>
     \/ Exits("fatal")

\* Seeded fault: the error of the cancelled context counts as a failure.
RemoteReturnsFatal == proc = "remote" /\ pc = "stopped" /\ Exits("fatal")

\* Agent.Run only returns the error of the context, context.Canceled.
RemoteReturns == proc = "remote" /\ pc = "stopped" /\ Exits("ok")

\* SIGINT or SIGTERM: before NotifyContext it kills, then it cancels, and any
\* later one is swallowed.
Signal ==
  \/ proc = "start" /\ Exits("killed")
  \/ proc \notin {"start", "exited"} /\ Cancel /\ UNCHANGED cli

-----------------------------------------------------------------------------
(* The reverse proxy.                                                      *)

\* ListenAndServe: Shutdown was called, before it or while it serves; the address
\* cannot be had, or Accept fails for good.
ListenerEnds ==
  /\ listener \in {"starting", "serving"}
  /\ \/ proc \in {"shutdown", "await"} /\ errCh' = "closed"
     \/ (listener = "starting" \/ proc = "local") /\ errCh' = "failed"
  /\ listener' = "done"
  /\ UNCHANGED <<vars, cmd, proc, exit, busy>>

ListenerServes ==
  /\ listener = "starting" /\ proc = "local"
  /\ listener' = "serving"
  /\ UNCHANGED <<vars, cmd, proc, exit, errCh, busy>>

\* A connection becomes active or is served.
Connection ==
  /\ proc # "exited"
  /\ listener = "serving" \/ busy
  /\ busy' = ~busy
  /\ UNCHANGED <<vars, cmd, proc, exit, listener, errCh>>

\* The select of Server.Run: either branch, when both are ready.
ListenFailed == proc = "local" /\ errCh # "none" /\ Exits("fatal")

LocalCancelled ==
  /\ proc = "local" /\ ctxDone
  /\ proc' = "shutdown"
  /\ UNCHANGED <<vars, cmd, exit, local>>

\* Seeded fault: Shutdown is given a context without a deadline.
ShutdownWaits ==
  /\ proc = "shutdown" /\ ~busy
  /\ proc' = "await"
  /\ UNCHANGED <<vars, cmd, exit, local>>

\* Shutdown returns when no connection is active, or after 5 s.
ShutdownReturns ==
  /\ proc = "shutdown"
  /\ proc' = "await"
  /\ UNCHANGED <<vars, cmd, exit, local>>

LocalReturns ==
  /\ proc = "await" /\ errCh # "none"
  /\ Exits(IF errCh = "closed" THEN "ok" ELSE "fatal")

-----------------------------------------------------------------------------
AgentStep ==
  /\ proc = "remote"
  /\ Loop \/ HandlerEnds \/ CloseSocket \/ PeerFails \/ Tick
  /\ UNCHANGED cli

Exited == proc = "exited" /\ UNCHANGED allVars

CliNext ==
  \/ PrintVersion \/ MainRefuses \/ StartLocal \/ StartRemote \/ Resolved \/ RemoteReturns
  \/ ListenerEnds \/ ListenerServes \/ Connection \/ ListenFailed \/ LocalCancelled
  \/ ShutdownReturns \/ LocalReturns
  \/ AgentStep \/ Signal \/ Exited

CliSpec == CliInit /\ [][CliNext]_allVars

\* The fairness of AgentLoop while the agent runs.  Nothing is assumed of the
\* upstreams, so a handler may never end.
InAgent == proc = "remote" /\ UNCHANGED cli
AgentFairness ==
  /\ WF_allVars(InAgent /\ (Stop \/ StartDial)) /\ WF_allVars(InAgent /\ (DialFails \/ Connect))
  /\ WF_allVars(InAgent /\ Disconnect) /\ WF_allVars(InAgent /\ Reconnect)
  /\ WF_allVars(InAgent /\ GiveUp) /\ WF_allVars(InAgent /\ Wake) /\ WF_allVars(InAgent /\ Tick)

\* Look-ups end, goroutines run and the timer of Shutdown fires; nothing is
\* assumed of the connections of the reverse proxy.
CliFairSpec ==
  /\ CliSpec /\ AgentFairness
  /\ WF_allVars(PrintVersion \/ MainRefuses \/ StartLocal \/ StartRemote)
  /\ WF_allVars(Resolved) /\ WF_allVars(RemoteReturns)
  /\ WF_allVars(ListenerServes \/ (proc # "local" /\ ListenerEnds))
  /\ WF_allVars(ListenFailed \/ LocalCancelled) /\ WF_allVars(ShutdownReturns)
  /\ WF_allVars(LocalReturns)

-----------------------------------------------------------------------------
(* Properties.                                                             *)

\* The status tells what happened, also when a signal and a failing listener
\* race: only a command that was interrupted (or had nothing to do) ends with
\* 0, and then with its listener closed or its agent stopped with no handler or
\* socket left; and an agent that was started never ends as a failure, however
\* many dials failed (main.go:60-85, 147-151, remote_forward.go:96-106,
\* reverseproxy/server.go:72-86, agent.go:163-170).
ExitSound ==
  /\ exit = "ok" /\ cmd.first = "" =>
       /\ ctxDone
       /\ resolveMode(cmd) = "local" => listener = "done"
       /\ resolveMode(cmd) = "remote" => pc = "stopped" /\ handlers = 0 /\ sock = "closed"
  /\ exit = "fatal" => pc = "top" /\ listener \in {"off", "done"}

\* A process that caught a signal exits, whatever it is doing: dialling, waiting
\* to dial, serving streams, looking up a name, starting to listen, or serving
\* connections that never end (main.go:68, server.go:77-84, agent.go:168,
\* 247-261, 273, 293).  One thing keeps it: a stream handler in a write to an
\* upstream that never reads, for which wg.Wait waits without a limit
\* (agent.go:267); later signals are swallowed.
InterruptEnds == ctxDone ~> proc = "exited" \/ AwaitsHandler

=============================================================================
