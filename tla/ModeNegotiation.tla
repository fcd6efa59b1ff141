--------------------------- MODULE ModeNegotiation ---------------------------
(***************************************************************************)
(* How gateway and agent come to relay a WebSocket in the same way.        *)
(*                                                                         *)
(* The choice is made four times: NewRemoteForward builds the register URL *)
(* (pkg/clockbridge/remote_forward.go); handleRegister resolves the mode   *)
(* of the connection (internal/gateway/server.go); the agent takes it from *)
(* the handshake header (internal/agent/agent.go); and for each session    *)
(* gateway and agent pick a handler on their own, from the mode and the    *)
(* target kind (gateway) or the mode and the target (agent).  The gateway  *)
(* checks the relay mode the agent reports before it upgrades the client.  *)
(*                                                                         *)
(* A string stands for its trimmed, lower-case form; "other" for any value *)
(* the code does not know.                                                 *)
(***************************************************************************)

RawModes == {"", "legacy", "legacy_framed", "transparent", "transparent_tunnel", "other"}
RawKinds == {"", "unknown", "http", "https", "tcp", "ws", "wss", "other"}
Schemes == {"http", "https", "tcp", "ws", "wss"}
Modes == {"legacy_framed", "transparent_tunnel"}
Kinds == {"unknown", "http", "tcp", "ws"}

NormalizeProxyMode(raw) ==
  IF raw \in {"", "legacy", "legacy_framed"} THEN "legacy_framed"
  ELSE IF raw \in {"transparent", "transparent_tunnel"} THEN "transparent_tunnel"
  ELSE "error"

NormalizeTargetKind(raw) ==
  IF raw \in {"", "unknown"} THEN "unknown"
  ELSE IF raw \in {"http", "https"} THEN "http"
  ELSE IF raw = "tcp" THEN "tcp"
  ELSE IF raw \in {"ws", "wss"} THEN "ws"
  ELSE "error"

\* Seeded fault: an invalid value is passed on.
ModeNoFallback(raw) == NormalizeProxyMode(raw)

\* normalizeRegisterProxyMode, proxyModeFromRegisterURL and their twins for
\* the target kind: an invalid value counts as none.
ModeOrLegacy(raw) ==
  IF NormalizeProxyMode(raw) = "error" THEN "legacy_framed" ELSE NormalizeProxyMode(raw)
KindOrUnknown(raw) ==
  IF NormalizeTargetKind(raw) = "error" THEN "unknown" ELSE NormalizeTargetKind(raw)

-----------------------------------------------------------------------------
(* The agent's configuration.                                              *)

TargetKindFromTargetURL(scheme) ==
  IF scheme \in {"http", "https"} THEN "http"
  ELSE IF scheme = "tcp" THEN "tcp"
  ELSE IF scheme \in {"ws", "wss"} THEN "ws"
  ELSE "unknown"

ValidateProxyModeTarget(mode, scheme) ==
  mode # "transparent_tunnel" \/ scheme \in {"tcp", "ws", "wss"}

\* NewRemoteForward accepts the configuration ...
Accepts(rawMode, scheme) ==
  /\ NormalizeProxyMode(rawMode) # "error"
  /\ ValidateProxyModeTarget(NormalizeProxyMode(rawMode), scheme)

\* ... and BuildRegisterURL makes proxy_mode and target_kind of it.
BuildRegisterURL(rawMode, scheme) ==
  [mode |-> NormalizeProxyMode(rawMode), kind |-> TargetKindFromTargetURL(scheme)]

-----------------------------------------------------------------------------
(* The gateway's decisions.                                                *)

\* forceLegacyMode, transparentEnabled, and isTransparentAllowed of the uuid.
Policies == [force : BOOLEAN, enabled : BOOLEAN, allowed : BOOLEAN]

\* Seeded fault: the whitelist is forgotten.
resolveNoWhitelist(p, requested) ==
  IF requested = "transparent_tunnel" /\ ~p.force /\ p.enabled
    THEN "transparent_tunnel" ELSE "legacy_framed"

resolveProxyMode(p, requested) ==
  IF requested = "transparent_tunnel" /\ ~p.force /\ p.enabled /\ p.allowed
    THEN "transparent_tunnel" ELSE "legacy_framed"

\* Seeded fault: a tcp target is relayed raw too.
GatewayRelayRawTcp(mode, kind) ==
  IF mode = "transparent_tunnel" /\ kind \in {"ws", "tcp"} THEN "raw" ELSE "framed"

\* handleClient: the relay the chosen handler runs.
GatewayRelay(mode, kind) ==
  IF mode = "transparent_tunnel" /\ kind = "ws" THEN "raw" ELSE "framed"

\* Seeded fault: a framed handler takes any relay mode.
RelayAcceptedAlways(expected, reported) == TRUE

\* isFramedRelayMode, isRawRelayMode.
RelayAccepted(expected, reported) ==
  IF expected = "raw" THEN reported = "raw" ELSE reported \in {"", "framed"}

-----------------------------------------------------------------------------
(* The agent's decisions.                                                  *)

\* negotiatedProxyModeFromHandshake, with the fallback legacy_framed.
negotiatedProxyMode(header) == IF header = "" THEN "legacy_framed" ELSE ModeOrLegacy(header)

\* handleStream, handleWebSocketTransparent, handleWebSocket.
AgentRelay(mode, kind, scheme) ==
  IF mode # "transparent_tunnel" \/ scheme = "tcp" THEN "framed"
  ELSE IF scheme \in {"ws", "wss"} THEN IF kind = "ws" THEN "raw" ELSE "framed"
  ELSE "unsupported"

-----------------------------------------------------------------------------
(* A uuid whose agent registers, serves sessions and reconnects, on a      *)
(* gateway that is restarted with other policies.                          *)

VARIABLES
  policy,   \* the gateway's policy, of which only a restart makes another
  url,      \* the register URL's raw proxy_mode and target_kind
  scheme,   \* the target's scheme
  built,    \* the agent was configured by NewRemoteForward
  conn,     \* the connection: "none", "upgraded" (the gateway has answered),
            \* "up" (the agent has read the answer)
  gMode, gKind, \* agentConn.proxyModeEffective, agentConn.targetKind
  header,   \* the proxy mode header as the agent gets it
  aMode,    \* connState.proxyMode
  session,  \* "none", "open" (TReqStart sent), "replied", "relay", "refused"
  gRelay,   \* the relay of the gateway's handler
  aRelay    \* the relay of the agent's handler

vars == <<policy, url, scheme, built, conn, gMode, gKind, header, aMode, session,
          gRelay, aRelay>>

TypeOK ==
  /\ policy \in Policies
  /\ url \in [mode : RawModes, kind : RawKinds] /\ scheme \in Schemes
  /\ built \in BOOLEAN
  /\ conn \in {"none", "upgraded", "up"}
  /\ gMode \in Modes /\ gKind \in Kinds /\ aMode \in Modes
  /\ header \in RawModes
  /\ session \in {"none", "open", "replied", "relay", "refused"}
  /\ gRelay \in {"framed", "raw"} /\ aRelay \in {"framed", "raw", "unsupported"}

\* An agent of this version is built by NewRemoteForward; others may register
\* with anything.
Init ==
  /\ policy \in Policies
  /\ scheme \in Schemes
  /\ \/ /\ built = TRUE
        /\ \E m \in RawModes : Accepts(m, scheme) /\ url = BuildRegisterURL(m, scheme)
     \/ built = FALSE /\ url \in [mode : RawModes, kind : RawKinds]
  /\ conn = "none" /\ session = "none"
  /\ gMode = "legacy_framed" /\ gKind = "unknown"
  /\ header = "" /\ aMode = "legacy_framed"
  /\ gRelay = "framed" /\ aRelay = "framed"

\* handleRegister: the header may be lost on its way through another proxy.
Register ==
  /\ conn = "none"
  /\ conn' = "upgraded"
  /\ gMode' = resolveProxyMode(policy, ModeOrLegacy(url.mode))
  /\ gKind' = KindOrUnknown(url.kind)
  /\ header' \in {gMode', "", "other"}
  /\ UNCHANGED <<policy, url, scheme, built, aMode, session, gRelay, aRelay>>

\* Run: the agent reads the header.
Negotiate ==
  /\ conn = "upgraded"
  /\ conn' = "up"
  /\ aMode' = negotiatedProxyMode(header)
  /\ UNCHANGED <<policy, url, scheme, built, gMode, gKind, header, session, gRelay, aRelay>>

\* handleClient: a client may come as soon as the gateway has registered the
\* connection.
ClientOpens ==
  /\ conn # "none" /\ session \in {"none", "refused", "relay"}
  /\ session' = "open"
  /\ gRelay' = GatewayRelay(gMode, gKind)
  /\ UNCHANGED <<policy, url, scheme, built, conn, gMode, gKind, header, aMode, aRelay>>

\* handleStream answers TWsOpenOK with its relay mode, or TWsOpenErr.
AgentReplies ==
  /\ conn = "up" /\ session = "open"
  /\ session' = "replied"
  /\ aRelay' = AgentRelay(aMode, KindOrUnknown(url.kind), scheme)
  /\ UNCHANGED <<policy, url, scheme, built, conn, gMode, gKind, header, aMode, gRelay>>

\* The dial of the upstream, or its handshake, fails: TWsOpenErr, and the client
\* gets 502.
DialFails ==
  /\ conn = "up" /\ session = "open"
  /\ AgentRelay(aMode, KindOrUnknown(url.kind), scheme) # "unsupported"
  /\ session' = "none"
  /\ UNCHANGED <<policy, url, scheme, built, conn, gMode, gKind, header, aMode, gRelay, aRelay>>

\* The gateway upgrades the client, or sends TRst and 502.
GatewayDecides ==
  /\ session = "replied"
  /\ session' = IF aRelay # "unsupported" /\ RelayAccepted(gRelay, aRelay)
                THEN "relay" ELSE "refused"
  /\ UNCHANGED <<policy, url, scheme, built, conn, gMode, gKind, header, aMode, gRelay, aRelay>>

\* The connection is lost, with its sessions; the gateway may come back with
\* another policy.
Restart ==
  /\ conn # "none"
  /\ conn' = "none" /\ session' = "none"
  /\ policy' \in Policies
  /\ UNCHANGED <<url, scheme, built, gMode, gKind, header, aMode, gRelay, aRelay>>

Next == Register \/ Negotiate \/ ClientOpens \/ AgentReplies \/ DialFails \/ GatewayDecides
        \/ Restart

Spec == Init /\ [][Next]_vars

-----------------------------------------------------------------------------
(* Properties.                                                             *)

\* The header arrived as it was sent.
Intact == header = gMode

\* No session ever relays raw bytes on one side and framed messages on the
\* other, whatever agents register with and whatever header they get
\* (server.go:735-746, 1081-1092, agent.go:709-736).
RelaysAgree == session = "relay" => gRelay = aRelay

\* For an agent configured by NewRemoteForward that gets the header the four
\* decisions always agree: no session is refused for its relay mode, whatever
\* the gateway's policy is and becomes (remote_forward.go:50-78,
\* server.go:513-526, 1448-1462, agent.go:370-392, 709-736).
BuiltIsServed == built /\ conn # "none" /\ Intact => session # "refused"

\* A connection relays raw only while the policy allows its uuid
\* (server.go:1448-1462).
RawIsAllowed ==
  session = "relay" /\ gRelay = "raw" => policy.enabled /\ policy.allowed /\ ~policy.force

=============================================================================
