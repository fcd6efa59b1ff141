-------------------------- MODULE RequestHead_proofs --------------------------
(***************************************************************************)
(* Proofs about the mode negotiation and the heads that travel over the    *)
(* negotiated connection.                                                  *)
(*                                                                         *)
(* The inductive invariant of the negotiation says of each stored value    *)
(* which decision it is the result of; that the decisions fit together is  *)
(* then a case analysis over modes, kinds and schemes (Agreement).  The    *)
(* one of the heads says the same of the four heads: each is the image of  *)
(* the one before under the handlers that the mode selects, and the last   *)
(* request what net/http makes of the first after so many redirects.  What *)
(* the images are is a matter of the operators, field by field.            *)
(***************************************************************************)
EXTENDS RequestHead, TLAPS

\* What NewRemoteForward guarantees of a register URL and its target.
BuiltUrl ==
  /\ url.mode \in Modes
  /\ ValidateProxyModeTarget(url.mode, scheme)
  /\ url.kind = TargetKindFromTargetURL(scheme)

Acceptable == aRelay # "unsupported" /\ RelayAccepted(gRelay, aRelay)

\* Where every stored decision comes from.
Provenance ==
  /\ built => BuiltUrl
  /\ conn # "none" => gMode = resolveProxyMode(policy, ModeOrLegacy(url.mode))
  /\ conn # "none" => gKind = KindOrUnknown(url.kind)
  /\ conn = "up" => aMode = negotiatedProxyMode(header)
  /\ session # "none" => conn # "none" /\ gRelay = GatewayRelay(gMode, gKind)
  /\ session \in {"replied", "relay", "refused"} =>
       conn = "up" /\ aRelay = AgentRelay(aMode, KindOrUnknown(url.kind), scheme)
  /\ session = "relay" => Acceptable
  /\ session = "refused" => ~Acceptable

IndInv == TypeOK /\ Provenance

-----------------------------------------------------------------------------
\* What the decision functions return.
LEMMA Decisions ==
  /\ \A m \in RawModes : ModeOrLegacy(m) \in Modes
  /\ \A k \in RawKinds : KindOrUnknown(k) \in Kinds
  /\ \A p, m : resolveProxyMode(p, m) \in Modes
  /\ \A m \in RawModes : negotiatedProxyMode(m) \in Modes
  /\ \A m, k : GatewayRelay(m, k) \in {"framed", "raw"}
  /\ \A m, k, s : AgentRelay(m, k, s) \in {"framed", "raw", "unsupported"}
  /\ Modes \subseteq RawModes
BY DEF ModeOrLegacy, KindOrUnknown, resolveProxyMode, negotiatedProxyMode, GatewayRelay,
       AgentRelay, NormalizeProxyMode, NormalizeTargetKind, Modes, Kinds, RawModes, RawKinds

\* A URL made by BuildRegisterURL of an accepted configuration is well formed.
LEMMA BuildIsGood ==
  ASSUME NEW m \in RawModes, NEW s \in Schemes, Accepts(m, s)
  PROVE  /\ BuildRegisterURL(m, s) \in [mode : RawModes, kind : RawKinds]
         /\ BuildRegisterURL(m, s).mode \in Modes
         /\ ValidateProxyModeTarget(BuildRegisterURL(m, s).mode, s)
         /\ BuildRegisterURL(m, s).kind = TargetKindFromTargetURL(s)
BY DEF Accepts, BuildRegisterURL, ValidateProxyModeTarget, NormalizeProxyMode,
       TargetKindFromTargetURL, RawModes, RawKinds, Modes, Schemes

\* With an intact header and a built URL the reported relay mode is the
\* expected one.
LEMMA Agreement ==
  ASSUME NEW mode \in Modes, NEW s \in Schemes, NEW rawKind \in RawKinds,
         NEW requested \in Modes,
         mode = "transparent_tunnel" => requested = "transparent_tunnel",
         ValidateProxyModeTarget(requested, s),
         rawKind = TargetKindFromTargetURL(s)
  PROVE  LET k == KindOrUnknown(rawKind)
             a == AgentRelay(negotiatedProxyMode(mode), k, s)
         IN  a # "unsupported" /\ RelayAccepted(GatewayRelay(mode, k), a)
BY DEF Modes, Schemes, RawKinds, ValidateProxyModeTarget, TargetKindFromTargetURL,
       KindOrUnknown, NormalizeTargetKind, AgentRelay, negotiatedProxyMode, ModeOrLegacy,
       NormalizeProxyMode, RelayAccepted, GatewayRelay

-----------------------------------------------------------------------------
\* The invariant holds before anyone has registered.
LEMMA InitInv == Init => IndInv
<1> SUFFICES ASSUME Init PROVE IndInv
  OBVIOUS
<1>1. /\ url \in [mode : RawModes, kind : RawKinds]
      /\ built => BuiltUrl
      /\ built \in BOOLEAN
  BY BuildIsGood DEF Init, BuiltUrl
<1>2. TypeOK
  BY <1>1 DEF Init, TypeOK, RawModes, Modes, Kinds
<1> QED
  BY <1>1, <1>2 DEF Init, IndInv, Provenance

\* Every step of the negotiation keeps it.
LEMMA StepInv == IndInv /\ [Next]_vars => IndInv'
<1> SUFFICES ASSUME IndInv, [Next]_vars PROVE IndInv'
  OBVIOUS
<1> USE DEF IndInv, Provenance, BuiltUrl, Acceptable
<1>1. CASE Register
  <2>1. TypeOK'
    BY <1>1, Decisions DEF Register, TypeOK, RawModes
  <2> QED
    BY <1>1, <2>1 DEF Register
<1>2. CASE Negotiate
  <2>1. TypeOK'
    BY <1>2, Decisions DEF Negotiate, TypeOK
  <2> QED
    BY <1>2, <2>1 DEF Negotiate
<1>3. CASE ClientOpens
  <2>1. TypeOK'
    BY <1>3, Decisions DEF ClientOpens, TypeOK
  <2> QED
    BY <1>3, <2>1 DEF ClientOpens
<1>4. CASE AgentReplies
  <2>1. TypeOK'
    BY <1>4, Decisions DEF AgentReplies, TypeOK
  <2> QED
    BY <1>4, <2>1 DEF AgentReplies
<1>5. CASE GatewayDecides \/ DialFails
  BY <1>5 DEF GatewayDecides, DialFails, TypeOK
<1>6. CASE Restart
  BY <1>6 DEF Restart, TypeOK
<1>7. CASE UNCHANGED vars
  BY <1>7 DEF vars, TypeOK
<1> QED
  BY <1>1, <1>2, <1>3, <1>4, <1>5, <1>6, <1>7 DEF Next

\* So it holds throughout.
LEMMA Inductive == Spec => []IndInv
<1> QED
  BY InitInv, StepInv, PTL DEF Spec

-----------------------------------------------------------------------------
\* Every value stored on the way is of its type.
THEOREM TypeCorrect == Spec => []TypeOK
<1>1. IndInv => TypeOK
  BY DEF IndInv
<1> QED
  BY <1>1, Inductive, PTL

\* Whatever an agent registers with and whatever header it gets, no session
\* relays raw on one side and framed on the other.
THEOREM RelaysAgreeTheorem == Spec => []RelaysAgree
<1>1. IndInv => RelaysAgree
  BY DEF IndInv, TypeOK, Provenance, Acceptable, RelaysAgree, RelayAccepted
<1> QED
  BY <1>1, Inductive, PTL

\* An agent built by NewRemoteForward that gets the header is never refused
\* for its relay mode.
THEOREM BuiltIsServedTheorem == Spec => []BuiltIsServed
<1>1. ASSUME IndInv, built, conn # "none", Intact, session = "refused"
      PROVE  FALSE
  <2>1. /\ gMode \in Modes /\ scheme \in Schemes /\ url.kind \in RawKinds
        /\ url.mode \in Modes
    BY <1>1 DEF IndInv, TypeOK, Provenance, BuiltUrl
  <2>2. gMode = "transparent_tunnel" => url.mode = "transparent_tunnel"
    BY <1>1, <2>1 DEF IndInv, Provenance, resolveProxyMode, ModeOrLegacy,
                      NormalizeProxyMode, Modes
  <2>3. Acceptable
    BY <1>1, <2>1, <2>2, Agreement DEF IndInv, Provenance, BuiltUrl, Acceptable, Intact
  <2> QED
    BY <1>1, <2>3 DEF IndInv, Provenance
<1>2. IndInv => BuiltIsServed
  BY <1>1 DEF BuiltIsServed
<1> QED
  BY <1>2, Inductive, PTL

\* Raw relays exist only where the policy allows the uuid.
THEOREM RawIsAllowedTheorem == Spec => []RawIsAllowed
<1>1. IndInv => RawIsAllowed
  BY DEF IndInv, TypeOK, Provenance, RawIsAllowed, GatewayRelay, resolveProxyMode
<1> QED
  BY <1>1, Inductive, PTL

-----------------------------------------------------------------------------
(* The heads.                                                              *)

\* Every step of the heads is a step of the negotiation or leaves it alone.
LEMMA HeadStep == [HeadNext]_allVars => [Next]_vars
<1>1. ASSUME NEW r \in Requests, HttpOpens(r) \/ WsOpens(r) PROVE [Next]_vars
  BY <1>1 DEF HttpOpens, WsOpens, Next
<1>2. CASE AgentServesHttp \/ FollowsRedirect \/ HttpAnswered \/ Forget \/ UNCHANGED allVars
  BY <1>2 DEF AgentServesHttp, FollowsRedirect, HttpAnswered, Forget, allVars
<1>3. CASE AgentServesWs \/ WsAnswered \/ WsWithoutHead \/ ConnStep
  BY <1>3 DEF AgentServesWs, WsAnswered, WsWithoutHead, ConnStep, Next
<1> QED
  BY <1>1, <1>2, <1>3 DEF HeadNext

\* Requests and sessions run over connections negotiated as ModeNegotiation
\* describes, whatever heads clients and upstreams send.
THEOREM HeadsImplementNegotiation == HeadSpec => Spec
<1>1. HeadInit => Init
  BY DEF HeadInit
<1> QED
  BY <1>1, HeadStep, PTL DEF HeadSpec, Spec

\* Each head is made of the one before, by the handlers for its mode.
HeadInv ==
  /\ hops \in Nat /\ early \in SUBSET STRING /\ "TE" \notin early
  /\ at \in {"none", "sent"} \/ req.ws => hops = 0
  /\ away \in BOOLEAN /\ (hops = 0 => away = FALSE)
  /\ at # "none" => /\ conn # "none" /\ req \in Requests
                    /\ start = IF req.ws THEN WsStart(gMode, req) ELSE HttpStart(req)
  /\ AtUpstream /\ ~req.ws =>
       /\ answer \in Responses
       /\ hops = 0 => up = RoundTrip(HttpRequest(start))
       /\ hops # 0 => \E ref \in SUBSET {"Referer"} :
                        up = RoundTrip(Redirected(HttpRequest(start), away, ref))
  /\ AtUpstream /\ req.ws =>
       /\ up = IF aRelay = "raw" THEN RawHandshake(start) ELSE FramedHandshake(start)
       /\ \E x \in Accepts101(up) : answer = [NoHead EXCEPT !.hdr = x]
  /\ at = "answered" /\ ~req.ws =>
       got = GatewayResponse(AgentInterim(
               IF answer.redirect = "no" THEN AgentResponse(HttpRequest(start), answer)
                                         ELSE NoHead, early))
  /\ at = "answered" /\ req.ws =>
       /\ got = [NoHead EXCEPT !.hdr = ClientHandshake(gRelay, answer.hdr)]
       /\ RelayAccepted(gRelay, aRelay)

\* Every step makes the next head, or leaves those made as they are.
LEMMA HeadInvStep == HeadInv /\ [HeadNext]_allVars => HeadInv'
<1> SUFFICES ASSUME HeadInv, [HeadNext]_allVars PROVE HeadInv'
  OBVIOUS
<1> USE DEF HeadInv, AtUpstream
<1>1. ASSUME NEW r \in Requests, HttpOpens(r) PROVE HeadInv'
  BY <1>1 DEF HttpOpens, vars
<1>2. ASSUME NEW r \in Requests, WsOpens(r) PROVE HeadInv'
  BY <1>2 DEF WsOpens, ClientOpens
<1>3. CASE AgentServesHttp \/ FollowsRedirect
  <2>1. ASSUME Answers PROVE early' \in SUBSET STRING /\ "TE" \notin early'
    BY <2>1, HeadsAssumption DEF Answers, Heads
  <2>2. CASE AgentServesHttp
    BY <2>1, <2>2 DEF AgentServesHttp, Answers, vars
  <2>3. CASE FollowsRedirect
    <3>1. /\ hops \in Nat /\ hops' = hops + 1 /\ hops' # 0 /\ hops' \in Nat
          /\ at = "upstream" /\ ~req.ws /\ UNCHANGED <<vars, req, start, got>>
          /\ away' \in BOOLEAN
      BY <2>3 DEF FollowsRedirect
    <3>2. CASE /\ Answers /\ at' = at
               /\ \E ref \in SUBSET {"Referer"} :
                    up' = RoundTrip(Redirected(HttpRequest(start), away', ref))
      <4>1. answer' \in Responses
        BY <3>2 DEF Answers
      <4> QED
        BY <2>1, <3>1, <3>2, <4>1 DEF vars
    <3>3. CASE at' = "failed" /\ UNCHANGED <<up, answer, early>>
      BY <3>1, <3>3 DEF vars
    <3> QED
      BY <2>3, <3>2, <3>3 DEF FollowsRedirect
  <2> QED
    BY <1>3, <2>2, <2>3
<1>4. CASE AgentServesWs
  BY <1>4 DEF AgentServesWs, AgentReplies, DialFails
<1>5. CASE HttpAnswered
  BY <1>5 DEF HttpAnswered, vars
<1>6. CASE WsAnswered
  BY <1>6 DEF WsAnswered, GatewayDecides
<1>7. CASE WsWithoutHead
  BY <1>7 DEF WsWithoutHead, GatewayDecides, head
<1>8. CASE Forget
  BY <1>8 DEF Forget, NoRequest
<1>9. CASE ConnStep
  <2>1. CASE Register /\ UNCHANGED head
    BY <2>1 DEF Register, head
  <2>2. CASE Negotiate /\ UNCHANGED head
    BY <2>2 DEF Negotiate, head
  <2>3. CASE Restart /\ NoRequest
    BY <2>3 DEF NoRequest
  <2> QED
    BY <1>9, <2>1, <2>2, <2>3 DEF ConnStep
<1>10. CASE UNCHANGED allVars
  BY <1>10 DEF allVars, vars, head
<1> QED
  BY <1>1, <1>2, <1>3, <1>4, <1>5, <1>6, <1>7, <1>8, <1>9, <1>10 DEF HeadNext

\* The heads and the negotiation together.
LEMMA HeadInductive == HeadSpec => [](IndInv /\ HeadInv)
<1>1. ASSUME HeadInit PROVE HeadInv
  <2>1. away \in BOOLEAN
    BY <1>1, Zenon DEF HeadInit
  <2> QED
    BY <1>1, <2>1 DEF HeadInit, HeadInv, AtUpstream
<1>2. HeadSpec => []IndInv
  BY HeadsImplementNegotiation, Inductive, PTL
<1> QED
  BY <1>1, <1>2, HeadInvStep, PTL DEF HeadSpec

-----------------------------------------------------------------------------
(* What the operators do to a head.                                        *)

Canonical(keys) == {CanonicalHeaderKey(k) : k \in keys}

\* Del takes the names out, and what the head keeps of two of them.
LEMMA DelFields ==
  ASSUME NEW h \in Heads, NEW keys
  PROVE  /\ Del(h, keys) \in Heads
         /\ Del(h, keys).hdr = h.hdr \ Canonical(keys)
         /\ Del(h, keys).auth = IF "Authorization" \in Canonical(keys) THEN "none" ELSE h.auth
         /\ Del(h, keys).listed = IF "Connection" \in Canonical(keys) THEN {} ELSE h.listed
         /\ Del(h, keys).ws = h.ws /\ Del(h, keys).isHead = h.isHead
         /\ Del(h, keys).query = h.query
         /\ Del(h, keys).blank = h.blank /\ Del(h, keys).parsable = h.parsable
         /\ Del(h, keys).trailers = h.trailers /\ Del(h, keys).interim = h.interim
BY DEF Del, Heads, Canonical, Params

\* The sets of names involved, and where their canonical forms differ.
LEMMA Names ==
  /\ \A keys : Canonical(keys) \cup {"TE", "Te"} = keys \cup {"TE", "Te"}
  /\ \A keys : "TE" \notin Canonical(keys)
  /\ Canonical(hopByHopHeaderKeys) = HopByHop
  /\ HopByHop = (hopByHopHeaderKeys \ {"TE"}) \cup {"Te"}
  /\ \A x, y : Canonical(x \cup y) = Canonical(x) \cup Canonical(y)
  /\ \A x : "TE" \notin x => Canonical(x) = x
BY DEF Canonical, CanonicalHeaderKey, HopByHop, hopByHopHeaderKeys

\* StripConnectionHeaders and CopyHeaders.
LEMMA StripFields ==
  ASSUME NEW h \in Heads, "TE" \notin h.hdr
  PROVE  LET s == StripConnectionHeaders(h) IN
         /\ s \in Heads /\ s.hdr = h.hdr \ (h.listed \cup HopByHop) /\ s.listed = {}
         /\ s.auth = IF "Authorization" \in h.listed THEN "none" ELSE h.auth
         /\ s.ws = h.ws /\ s.isHead = h.isHead /\ s.query = h.query /\ s.blank = h.blank
         /\ s.parsable = h.parsable /\ s.trailers = h.trailers /\ s.interim = h.interim
<1> DEFINE ks == Canonical(h.listed \cup hopByHopHeaderKeys)
<1>1. h.hdr \ ks = h.hdr \ (h.listed \cup HopByHop)
  BY Names
<1>2. "Connection" \in ks /\ ("Authorization" \in ks <=> "Authorization" \in h.listed)
  BY DEF Canonical, CanonicalHeaderKey, hopByHopHeaderKeys
<1> HIDE DEF ks
<1> QED
  BY <1>1, <1>2, DelFields DEF StripConnectionHeaders, ks

\* A second pass finds nothing more to strip.
LEMMA CopyFields ==
  ASSUME NEW h \in Heads, "TE" \notin h.hdr
  PROVE  LET s == CopyHeaders(h) IN
         /\ s \in Heads /\ s.hdr = h.hdr \ (HopByHop \ {"Te"})
         /\ s.listed = IF "Connection" \in h.hdr THEN {} ELSE h.listed
         /\ s.auth = h.auth /\ s.ws = h.ws /\ s.isHead = h.isHead
         /\ s.query = h.query /\ s.blank = h.blank
         /\ s.parsable = h.parsable /\ s.trailers = h.trailers /\ s.interim = h.interim
<1> DEFINE ks == {k \in h.hdr : IsHopByHopHeaderKey(k)}
<1>1. Canonical(ks) = ks /\ ks = h.hdr \cap (HopByHop \ {"Te"})
  <2>1. ks = h.hdr \cap hopByHopHeaderKeys /\ "TE" \notin ks
    BY DEF IsHopByHopHeaderKey
  <2>2. hopByHopHeaderKeys \ {"TE"} = HopByHop \ {"Te"}
    BY DEF hopByHopHeaderKeys, HopByHop, CanonicalHeaderKey
  <2> QED
    BY <2>1, <2>2, Names
<1>2. "Authorization" \notin ks /\ ("Connection" \in ks <=> "Connection" \in h.hdr)
  BY DEF IsHopByHopHeaderKey, hopByHopHeaderKeys
<1> HIDE DEF ks
<1> QED
  BY <1>1, <1>2, DelFields DEF CopyHeaders, ks

\* Stripping the forwarding headers leaves everything else of a head alone.
LEMMA ForwardingFields ==
  ASSUME NEW h \in Heads
  PROVE  LET s == stripForwardingIPHeaders(h) IN
         /\ s \in Heads /\ s.hdr = h.hdr \ Forwarding /\ s.listed = h.listed
         /\ s.auth = h.auth /\ s.ws = h.ws /\ s.isHead = h.isHead
         /\ s.query = h.query /\ s.blank = h.blank
         /\ s.parsable = h.parsable /\ s.trailers = h.trailers /\ s.interim = h.interim
<1>1. Canonical({"X-Forwarded-For", "Forwarded"}) = Forwarding
  BY Names DEF Forwarding
<1>2. "Authorization" \notin Forwarding /\ "Connection" \notin Forwarding
  BY DEF Forwarding
<1> QED
  BY <1>1, <1>2, DelFields DEF stripForwardingIPHeaders

\* The query's credential replaces the client's, in the order of the parameters,
\* and all of them leave the query.
LEMMA QueryFields ==
  ASSUME NEW h \in Heads
  PROVE  LET s == applyQueryBearerAuth(h)
             usable == h.query \ h.blank
         IN
         /\ s \in Heads /\ s.hdr = h.hdr /\ s.listed = h.listed /\ s.ws = h.ws
         /\ s.isHead = h.isHead /\ s.trailers = h.trailers /\ s.interim = h.interim
         /\ h.parsable => /\ s.query = {}
                          /\ \/ /\ s.auth \in usable
                                /\ "authorization" \in usable => s.auth = "authorization"
                             \/ usable = {} /\ s.auth = h.auth
<1> DEFINE usable == h.query \ h.blank
<1>1. \/ /\ QueryAuth(h) \in usable
         /\ "authorization" \in usable => QueryAuth(h) = "authorization"
      \/ usable = {} /\ QueryAuth(h) = h.auth
  <2>1. usable \subseteq Params
    BY DEF Heads
  <2>2. CASE "authorization" \in usable
    BY <2>2 DEF QueryAuth
  <2>3. CASE "authorization" \notin usable /\ "access_token" \in usable
    BY <2>3 DEF QueryAuth
  <2>4. CASE usable = {"token"}
    BY <2>4 DEF QueryAuth
  <2>5. CASE usable = {}
    BY <2>5 DEF QueryAuth
  <2> QED
    BY <2>1, <2>2, <2>3, <2>4, <2>5 DEF Params
<1>2. QueryAuth(h) \in {"none", "client"} \cup Params
  BY <1>1 DEF Heads
<1> QED
  BY <1>1, <1>2 DEF applyQueryBearerAuth, Heads

\* What handleClientHTTP and handleHTTP make of a request together.
LEMMA HttpFields ==
  ASSUME NEW r \in Heads, "TE" \notin r.hdr
  PROVE  LET u == HttpRequest(HttpStart(r))
             q == applyQueryBearerAuth(stripForwardingIPHeaders(r))
         IN
         /\ u \in Heads /\ u.hdr = EndToEnd(r) /\ u.isHead = r.isHead
         /\ u.trailers = TrailerKeys(r)
         /\ u.query = q.query
         /\ u.auth = IF "Authorization" \in r.listed THEN "none" ELSE q.auth
<1> DEFINE f == stripForwardingIPHeaders(r)
           q == applyQueryBearerAuth(f)
           t == StripConnectionHeaders(q)
           s == HttpStart(r)
           c == CopyHeaders(s)
           d == StripConnectionHeaders(c)
<1>1. /\ f \in Heads /\ f.hdr = r.hdr \ Forwarding /\ f.listed = r.listed
      /\ f.trailers = r.trailers /\ f.isHead = r.isHead
  BY ForwardingFields
<1>2. /\ q \in Heads /\ q.hdr = r.hdr \ Forwarding /\ q.listed = r.listed
      /\ q.trailers = r.trailers /\ q.isHead = r.isHead
  BY <1>1, QueryFields
<1>3. /\ t \in Heads /\ t.hdr = q.hdr \ (q.listed \cup HopByHop) /\ t.listed = {}
      /\ t.auth = IF "Authorization" \in q.listed THEN "none" ELSE q.auth
      /\ t.query = q.query /\ t.isHead = q.isHead
  BY <1>2, StripFields
<1>4. TrailerKeys(q) = TrailerKeys(r) /\ TrailerKeys(r) \in SUBSET {"Digest"}
  <2> HIDE DEF q
  <2>1. "Trailer" \in q.hdr <=> "Trailer" \in r.hdr
    BY <1>2 DEF Forwarding
  <2>2. r.trailers \in SUBSET {"Digest"}
    BY DEF Heads
  <2> QED
    BY <1>2, <2>1, <2>2 DEF TrailerKeys
<1>5. /\ s \in Heads /\ s.hdr = t.hdr /\ s.listed = {} /\ s.auth = t.auth
      /\ s.query = t.query /\ s.trailers = TrailerKeys(r) /\ s.isHead = t.isHead
  <2>1. s = [t EXCEPT !.trailers = TrailerKeys(q)]
    BY DEF HttpStart
  <2> HIDE DEF s, t, q
  <2> QED
    BY <1>3, <1>4, <2>1 DEF Heads
<1> HIDE DEF f, q, t, s
<1>6. /\ c \in Heads /\ c.hdr = s.hdr /\ c.listed = {} /\ c.auth = s.auth
      /\ c.query = s.query /\ c.trailers = s.trailers /\ c.isHead = s.isHead
  BY <1>2, <1>3, <1>5, CopyFields
<1> HIDE DEF c
<1>7. /\ d \in Heads /\ d.hdr = c.hdr /\ d.auth = c.auth
      /\ d.query = c.query /\ d.trailers = c.trailers /\ d.isHead = c.isHead
  BY <1>2, <1>3, <1>5, <1>6, StripFields
<1> HIDE DEF d
<1>8. Canonical({"Content-Length"}) = {"Content-Length"}
  BY Names
<1>9. HttpRequest(s) = IF s.trailers # {} THEN Del(d, {"Content-Length"}) ELSE d
  BY DEF HttpRequest, d, c
<1>10. LET u == HttpRequest(s) IN
       /\ u \in Heads /\ u.isHead = d.isHead
       /\ u.hdr = d.hdr \ (IF s.trailers # {} THEN {"Content-Length"} ELSE {})
       /\ u.trailers = d.trailers /\ u.query = d.query /\ u.auth = d.auth
  BY <1>7, <1>8, <1>9, DelFields
<1> QED
  BY <1>2, <1>3, <1>5, <1>6, <1>7, <1>10 DEF s, q, f, EndToEnd

\* What the transport adds to a request.
LEMMA RoundTripFields ==
  ASSUME NEW h \in Heads
  PROVE  LET u == RoundTrip(h) IN
         /\ h.hdr \subseteq u.hdr /\ u.hdr \subseteq h.hdr \cup {"User-Agent", "Accept-Encoding"}
         /\ u.trailers = h.trailers /\ u.query = h.query /\ u.auth = h.auth
<1>1. /\ RoundTrip(h).hdr = h.hdr \cup {"User-Agent"}
                              \cup (IF AsksGzip(h) THEN {"Accept-Encoding"} ELSE {})
      /\ RoundTrip(h).trailers = h.trailers /\ RoundTrip(h).query = h.query
      /\ RoundTrip(h).auth = h.auth
  BY DEF RoundTrip, Heads
<1> QED
  BY <1>1

\* The request that follows a redirect, as the transport writes it.
LEMMA RedirectedFields ==
  ASSUME NEW h \in Heads, NEW foreign \in BOOLEAN, NEW ref \in SUBSET {"Referer"}
  PROVE  LET u == RoundTrip(Redirected(h, foreign, ref))
             ks == BodyKeys \cup (IF foreign THEN SensitiveKeys ELSE {})
         IN
         /\ (h.hdr \ ks) \cup ref \subseteq u.hdr
         /\ u.hdr \subseteq (h.hdr \ ks) \cup ref \cup {"User-Agent", "Accept-Encoding"}
         /\ u.query = {} /\ u.auth = IF foreign THEN "none" ELSE h.auth
<1> DEFINE ks == BodyKeys \cup (IF foreign THEN SensitiveKeys ELSE {})
           d == Del(h, ks)
           r == Redirected(h, foreign, ref)
<1>1. Canonical(ks) = ks
  BY Names DEF BodyKeys, SensitiveKeys
<1>2. "Authorization" \in ks <=> foreign
  BY DEF BodyKeys, SensitiveKeys
<1>3. d \in Heads /\ d.hdr = h.hdr \ ks /\ d.auth = IF foreign THEN "none" ELSE h.auth
  BY <1>1, <1>2, DelFields
<1>4. r = [d EXCEPT !.hdr = @ \cup ref, !.trailers = {}, !.query = {}, !.blank = {}]
  BY DEF Redirected
<1> HIDE DEF d, ks
<1>5. /\ r.hdr = d.hdr \cup ref
      /\ RoundTrip(r).hdr = d.hdr \cup ref \cup {"User-Agent"}
                              \cup (IF AsksGzip(r) THEN {"Accept-Encoding"} ELSE {})
      /\ RoundTrip(r).query = {} /\ RoundTrip(r).auth = d.auth
  BY <1>3, <1>4 DEF Heads, RoundTrip
<1> QED
  BY <1>3, <1>5 DEF ks

\* What handleWebSocket makes of a head: the agent's own handshake, no offer of
\* extensions.
LEMMA FramedFields ==
  ASSUME NEW h \in Heads, "TE" \notin h.hdr
  PROVE  LET u == FramedHandshake(h) IN
         /\ u.hdr = DialerKeys \cup {"User-Agent"}
                      \cup (h.hdr \ ((HopByHop \ {"Te"}) \cup wsRequestStripKeys
                                       \cup {"Content-Length"}))
         /\ u.auth = h.auth /\ u.query = h.query
<1> DEFINE ks == {k \in h.hdr : IsHopByHopHeaderKey(k) \/ IsWSStripHeaderKey(k)}
           c == CopyHeadersForWebSocket(h)
<1>1. /\ Canonical(ks) = ks
      /\ ks = h.hdr \cap ((HopByHop \ {"Te"}) \cup wsRequestStripKeys)
  <2>1. ks = h.hdr \cap (hopByHopHeaderKeys \cup wsRequestStripKeys) /\ "TE" \notin ks
    BY DEF IsHopByHopHeaderKey, IsWSStripHeaderKey
  <2>2. hopByHopHeaderKeys \ {"TE"} = HopByHop \ {"Te"}
    BY DEF hopByHopHeaderKeys, HopByHop, CanonicalHeaderKey
  <2> QED
    BY <2>1, <2>2, Names
<1>2. "Authorization" \notin ks
  BY DEF IsHopByHopHeaderKey, IsWSStripHeaderKey, hopByHopHeaderKeys, wsRequestStripKeys
<1> HIDE DEF ks
<1>3. /\ c \in Heads /\ c.hdr = h.hdr \ ks /\ c.auth = h.auth /\ c.query = h.query
  BY <1>1, <1>2, DelFields DEF CopyHeadersForWebSocket, ks
<1>4. FramedHandshake(h) =
        [c EXCEPT !.hdr = (@ \ {"Content-Length"}) \cup DialerKeys \cup {"User-Agent"},
                  !.listed = {"Upgrade"}]
  BY DEF FramedHandshake
<1> HIDE DEF c
<1> QED
  BY <1>1, <1>3, <1>4 DEF Heads

\* What the gateway makes of an answer a, after 1xx answers with headers e.
LEMMA GatewayFields ==
  ASSUME NEW a \in Heads, "TE" \notin a.hdr, NEW e \in SUBSET STRING, "TE" \notin e
  PROVE  GatewayResponse(AgentInterim(a, e)).hdr =
           (a.hdr \ (HopByHop \cup a.listed)) \cup (e \ HopByHop)
             \cup (IF a.trailers # {} THEN {"Trailer"} ELSE {})
<1> DEFINE i == AgentInterim(a, e)
           t == StripConnectionHeaders(i)
           c == CopyHeaders(t)
<1>1. i = [a EXCEPT !.interim = e \ HopByHop]
  BY DEF AgentInterim, HopByHop
<1>2. /\ i \in Heads /\ i.hdr = a.hdr /\ i.listed = a.listed /\ i.trailers = a.trailers
      /\ i.interim = e \ HopByHop
  BY <1>1 DEF Heads
<1> HIDE DEF i
<1>3. t \in Heads /\ t.hdr = a.hdr \ (a.listed \cup HopByHop)
  BY <1>2, StripFields
<1> HIDE DEF t
<1>4. c \in Heads /\ c.hdr = t.hdr
  BY <1>3, CopyFields
<1>5. writeInterim(i) = e \ HopByHop
  <2>1. writeInterim(i) = i.interim \ hopByHopHeaderKeys
    BY DEF writeInterim, IsHopByHopHeaderKey
  <2> QED
    BY <1>2, <2>1, Names
<1>6. GatewayResponse(i) =
        [c EXCEPT !.hdr = @ \cup writeInterim(i)
                            \cup (IF i.trailers # {} THEN {"Trailer"} ELSE {})]
  BY DEF GatewayResponse, t
<1> HIDE DEF c
<1>7. GatewayResponse(i).hdr = c.hdr \cup writeInterim(i)
                                 \cup (IF i.trailers # {} THEN {"Trailer"} ELSE {})
  BY <1>4, <1>6 DEF Heads
<1> QED
  BY <1>2, <1>3, <1>4, <1>5, <1>7 DEF i

\* What transport and agent make of answer p to request h.
LEMMA AgentFields ==
  ASSUME NEW h \in Heads, NEW p \in Heads, "TE" \notin p.hdr
  PROVE  LET a == AgentResponse(h, p) IN
         /\ a \in Heads /\ a.listed = {} /\ a.trailers = p.trailers
         /\ a.hdr = p.hdr \ (HopByHop \cup p.listed
                               \cup (IF p.gzip /\ AsksGzip(h)
                                       THEN {"Content-Encoding", "Content-Length"} ELSE {}))
<1> DEFINE gz == {"Content-Encoding", "Content-Length"}
           d == Decoded(h, p)
<1>1. Canonical(gz) = gz /\ "Connection" \notin gz
  BY Names
<1>2. /\ d \in Heads /\ d.listed = p.listed /\ d.trailers = p.trailers
      /\ d.hdr = p.hdr \ (IF p.gzip /\ AsksGzip(h) THEN gz ELSE {})
  BY <1>1, DelFields DEF Decoded
<1> HIDE DEF d
<1>3. LET a == StripConnectionHeaders(d) IN
      /\ a \in Heads /\ a.hdr = d.hdr \ (d.listed \cup HopByHop) /\ a.listed = {}
      /\ a.trailers = d.trailers
  BY <1>2, StripFields
<1> QED
  BY <1>2, <1>3 DEF AgentResponse, d

\* What the handlers of the gateway make of an upgrade.
LEMMA WsStartFields ==
  ASSUME NEW r \in Heads, NEW mode
  PROVE  LET s == WsStart(mode, r)
             usable == r.query \ r.blank
         IN
         /\ s \in Heads /\ s.hdr = r.hdr \ Forwarding /\ s.listed = r.listed
         /\ mode = "transparent_tunnel" => s.query = r.query /\ s.auth = r.auth
         /\ mode # "transparent_tunnel" /\ r.parsable =>
              /\ s.query = {}
              /\ \/ /\ s.auth \in usable
                    /\ "authorization" \in usable => s.auth = "authorization"
                 \/ usable = {} /\ s.auth = r.auth
<1> DEFINE f == stripForwardingIPHeaders(r)
<1>1. /\ f \in Heads /\ f.hdr = r.hdr \ Forwarding /\ f.listed = r.listed
      /\ f.query = r.query /\ f.blank = r.blank /\ f.auth = r.auth /\ f.parsable = r.parsable
  BY ForwardingFields
<1>2. WsStart(mode, r) = IF mode = "transparent_tunnel" THEN f ELSE applyQueryBearerAuth(f)
  BY DEF WsStart
<1> HIDE DEF f
<1> QED
  BY <1>1, <1>2, QueryFields

-----------------------------------------------------------------------------
\* What an HTTP upstream got is what the agent's client made of TReqStart.
LEMMA HttpUpstream ==
  ASSUME HeadInv, AtUpstream, ~req.ws
  PROVE  LET h == HttpRequest(HttpStart(req)) IN
         /\ req \in Heads /\ "TE" \notin req.hdr /\ h \in Heads /\ h.hdr = EndToEnd(req)
         /\ start = HttpStart(req) /\ hops \in Nat /\ away \in BOOLEAN
         /\ hops = 0 => up = RoundTrip(h) /\ away = FALSE
         /\ hops > 0 => \E ref \in SUBSET {"Referer"} : up = RoundTrip(Redirected(h, away, ref))
<1>1. /\ req \in Heads /\ "TE" \notin req.hdr /\ start = HttpStart(req)
  BY HeadsAssumption DEF HeadInv, AtUpstream
<1> QED
  BY <1>1, HttpFields DEF HeadInv

\* Whatever clients send, over every path through the handlers, each upstream gets
\* the headers that are meant for it and none that end at a hop before (but for TE
\* on the framed WebSocket path), and no others but those that net/http and the
\* dialer add, redirects included (agent.go:620-654, 743-747, httpheaders.go).
THEOREM UpstreamHeadTheorem == HeadSpec => []UpstreamHead
<1>1. ASSUME HeadInv, AtUpstream PROVE UpstreamHead
  <2>1. /\ req \in Heads /\ "TE" \notin req.hdr
        /\ start = IF req.ws THEN WsStart(gMode, req) ELSE HttpStart(req)
    BY <1>1, HeadsAssumption DEF HeadInv, AtUpstream
  <2>2. CASE ~req.ws
    <3> DEFINE h == HttpRequest(HttpStart(req))
    <3>1. /\ h \in Heads /\ h.hdr = EndToEnd(req) /\ h.trailers = TrailerKeys(req)
          /\ hops \in Nat /\ away \in BOOLEAN
          /\ hops = 0 => up = RoundTrip(h) /\ away = FALSE
          /\ hops > 0 => \E ref \in SUBSET {"Referer"} :
                           up = RoundTrip(Redirected(h, away, ref))
      BY <1>1, <2>2, HttpUpstream, HttpFields
    <3>2. EndToEnd(req) \cap Forwarding = {} /\ Forwarding \cap {"User-Agent", "Accept-Encoding",
                                                                "Referer"} = {}
      BY DEF EndToEnd, Forwarding
    <3> HIDE DEF h
    <3>3. CASE hops = 0
      <4>1. /\ h.hdr \subseteq up.hdr /\ up.trailers = h.trailers
            /\ up.hdr \subseteq h.hdr \cup {"User-Agent", "Accept-Encoding"}
        BY <3>1, <3>3, RoundTripFields
      <4> QED
        BY <2>2, <3>1, <3>2, <3>3, <4>1 DEF UpstreamHead
    <3>4. CASE hops > 0
      <4> DEFINE ks == BodyKeys \cup (IF away THEN SensitiveKeys ELSE {})
      <4>1. PICK ref \in SUBSET {"Referer"} : up = RoundTrip(Redirected(h, away, ref))
        BY <3>1, <3>4
      <4>3. /\ (h.hdr \ ks) \cup ref \subseteq up.hdr
            /\ up.hdr \subseteq (h.hdr \ ks) \cup ref \cup {"User-Agent", "Accept-Encoding"}
        BY <3>1, <4>1, RedirectedFields
      <4>4. ks = (IF hops > 0 THEN BodyKeys ELSE {}) \cup (IF away THEN SensitiveKeys ELSE {})
        BY <3>4
      <4> HIDE DEF ks
      <4>5. up.hdr \cap Forwarding = {}
        BY <3>1, <3>2, <4>3
      <4>6. hops # 0
        BY <3>1, <3>4
      <4> QED
        BY <2>2, <3>1, <3>4, <4>3, <4>4, <4>5, <4>6 DEF UpstreamHead
    <3> QED
      BY <3>1, <3>3, <3>4
  <2>3. CASE req.ws
    <3>1. /\ start \in Heads /\ start.hdr = req.hdr \ Forwarding /\ start.listed = req.listed
      BY <2>1, <2>3, WsStartFields
    <3>2. up = IF aRelay = "raw" THEN start ELSE FramedHandshake(start)
      BY <1>1, <2>3 DEF HeadInv, RawHandshake
    <3>3. CASE aRelay = "raw"
      BY <2>3, <3>1, <3>2, <3>3 DEF UpstreamHead
    <3>4. CASE aRelay # "raw"
      <4>1. up.hdr = DialerKeys \cup {"User-Agent"}
                       \cup (start.hdr \ ((HopByHop \ {"Te"}) \cup wsRequestStripKeys
                                              \cup {"Content-Length"}))
        BY <2>1, <3>1, <3>2, <3>4, FramedFields
      <4>2. DialerKeys \cap Forwarding = {} /\ "User-Agent" \notin Forwarding
        BY DEF DialerKeys, Forwarding
      <4> QED
        BY <2>3, <3>1, <3>4, <4>1, <4>2 DEF UpstreamHead
    <3> QED
      BY <3>3, <3>4
  <2> QED
    BY <2>2, <2>3
<1>2. HeadInv => UpstreamHead
  BY <1>1 DEF UpstreamHead
<1> QED
  BY <1>2, HeadInductive, PTL

\* On the HTTP path and that of the legacy WebSocket handler, a credential in a
\* query that can be parsed reaches the upstream as the header it stands for, and no
\* longer in the query, whichever of the parameters are present or empty, and never
\* another host a redirect leads to (server.go:1323-1361).
THEOREM QueryCredentialTheorem == HeadSpec => []QueryCredential
<1>1. ASSUME HeadInv, AtUpstream PROVE QueryCredential
  <2>1. /\ req \in Heads /\ "TE" \notin req.hdr
        /\ start = IF req.ws THEN WsStart(gMode, req) ELSE HttpStart(req)
    BY <1>1, HeadsAssumption DEF HeadInv, AtUpstream
  <2>2. CASE ~req.ws
    <3> DEFINE f == stripForwardingIPHeaders(req)
               q == applyQueryBearerAuth(f)
               h == HttpRequest(HttpStart(req))
    <3>1. /\ h \in Heads /\ hops \in Nat /\ away \in BOOLEAN
          /\ hops = 0 => up = RoundTrip(h) /\ away = FALSE
          /\ hops > 0 => \E ref \in SUBSET {"Referer"} :
                           up = RoundTrip(Redirected(h, away, ref))
      BY <1>1, <2>2, HttpUpstream
    <3>2. /\ f \in Heads /\ f.query = req.query /\ f.blank = req.blank
          /\ f.auth = req.auth /\ f.parsable = req.parsable
      BY <2>1, ForwardingFields
    <3>3. /\ h.query = q.query
          /\ h.auth = IF "Authorization" \in req.listed THEN "none" ELSE q.auth
      BY <2>1, HttpFields
    <3> HIDE DEF f, h
    <3>4. req.parsable =>
            /\ q.query = {}
            /\ \/ /\ q.auth \in req.query \ req.blank
                  /\ "authorization" \in req.query \ req.blank => q.auth = "authorization"
               \/ req.query \ req.blank = {} /\ q.auth = req.auth
      BY <3>2, QueryFields
    <3> HIDE DEF q
    <3>5. /\ up.query = h.query \/ up.query = {}
          /\ up.auth = IF away THEN "none" ELSE h.auth
      <4>1. CASE hops = 0
        BY <3>1, <4>1, RoundTripFields
      <4>2. CASE hops > 0
        <5>1. PICK ref \in SUBSET {"Referer"} : up = RoundTrip(Redirected(h, away, ref))
          BY <3>1, <4>2
        <5> QED
          BY <3>1, <5>1, RedirectedFields
      <4> QED
        BY <3>1, <4>1, <4>2
    <3> QED
      BY <2>2, <3>3, <3>4, <3>5 DEF QueryCredential
  <2>3. CASE req.ws
    <3>1. up = IF aRelay = "raw" THEN start ELSE FramedHandshake(start)
      BY <1>1, <2>3 DEF HeadInv, RawHandshake
    <3>2. start \in Heads /\ "TE" \notin start.hdr
      BY <2>1, <2>3, WsStartFields
    <3>3. up.auth = start.auth /\ up.query = start.query
      BY <3>1, <3>2, FramedFields
    <3>4. away = FALSE
      BY <1>1, <2>3 DEF HeadInv
    <3> QED
      BY <2>1, <2>3, <3>3, <3>4, WsStartFields DEF QueryCredential
  <2> QED
    BY <2>2, <2>3
<1>2. HeadInv => QueryCredential
  BY <1>1 DEF QueryCredential
<1> QED
  BY <1>2, HeadInductive, PTL

\* The client and the upstream agree on subprotocol and extensions although two
\* handshakes are made, and an HTTP client gets the end-to-end headers of the last
\* answer as net/http decodes it, with all trailers announced, nothing of a
\* redirect, and beside them the headers of all 1xx answers (server.go:634-646).
THEOREM ClientHeadTheorem == HeadSpec => []ClientHead
<1>1. ASSUME IndInv, HeadInv, at = "answered" PROVE ClientHead
  <2>1. AtUpstream
    BY <1>1 DEF AtUpstream
  <2>2. /\ req \in Heads /\ "TE" \notin req.hdr
        /\ start = IF req.ws THEN WsStart(gMode, req) ELSE HttpStart(req)
    BY <1>1, HeadsAssumption DEF HeadInv
  <2>3. CASE ~req.ws
    <3> DEFINE h == HttpRequest(start)
               a == IF answer.redirect = "no" THEN AgentResponse(h, answer) ELSE NoHead
               gz == IF answer.gzip /\ AsksGzip(h) THEN {"Content-Encoding", "Content-Length"}
                                                   ELSE {}
    <3>1. /\ answer \in Responses /\ answer \in Heads /\ "TE" \notin answer.hdr
          /\ got = GatewayResponse(AgentInterim(a, early))
          /\ early \in SUBSET STRING /\ "TE" \notin early
      BY <1>1, <2>1, <2>3, HeadsAssumption DEF HeadInv
    <3>2. h \in Heads /\ h.hdr = EndToEnd(req) /\ h.isHead = req.isHead
      BY <2>2, <2>3, HttpFields
    <3>3. "Trailer" \in HopByHop
      BY DEF HopByHop, hopByHopHeaderKeys, CanonicalHeaderKey
    <3> HIDE DEF h
    <3>4. CASE answer.redirect = "no"
      <4>1. /\ a \in Heads /\ a.listed = {} /\ a.trailers = answer.trailers
            /\ a.hdr = answer.hdr \ (HopByHop \cup answer.listed \cup gz)
        BY <3>1, <3>2, <3>4, AgentFields
      <4>2. /\ gz = (IF /\ answer.gzip /\ ~req.isHead
                        /\ EndToEnd(req) \cap {"Accept-Encoding", "Range"} = {}
                     THEN {"Content-Encoding", "Content-Length"} ELSE {})
            /\ "Trailer" \notin gz
        BY <3>2 DEF AsksGzip
      <4> HIDE DEF a, gz
      <4>3. got.hdr = (a.hdr \ (HopByHop \cup a.listed)) \cup (early \ HopByHop)
                        \cup (IF a.trailers # {} THEN {"Trailer"} ELSE {})
        BY <3>1, <4>1, GatewayFields
      <4>4. got.hdr = (answer.hdr \ (HopByHop \cup answer.listed \cup gz))
                        \cup (early \ HopByHop)
                        \cup (IF answer.trailers # {} THEN {"Trailer"} ELSE {})
        BY <4>1, <4>3
      <4> QED
        BY <2>3, <3>3, <3>4, <4>2, <4>4 DEF ClientHead
    <3>5. CASE answer.redirect # "no"
      <4>1. NoHead \in Heads /\ NoHead.hdr = {} /\ NoHead.listed = {} /\ NoHead.trailers = {}
        BY DEF NoHead, Heads
      <4>2. got = GatewayResponse(AgentInterim(NoHead, early))
        BY <3>1, <3>5
      <4>3. got.hdr = early \ HopByHop
        BY <3>1, <4>1, <4>2, GatewayFields
      <4> QED
        BY <2>3, <3>5, <4>3 DEF ClientHead
    <3> QED
      BY <3>4, <3>5
  <2>4. CASE req.ws
    <3>1. PICK x \in Accepts101(up) : answer = [NoHead EXCEPT !.hdr = x]
      BY <1>1, <2>1, <2>4 DEF HeadInv
    <3>2. answer.hdr = x /\ got.hdr = ClientHandshake(gRelay, x)
      BY <1>1, <2>4, <3>1 DEF HeadInv, NoHead
    <3>3. gRelay \in {"framed", "raw"} /\ aRelay \in {"framed", "raw", "unsupported"}
      BY <1>1 DEF IndInv, TypeOK
    <3>4. gRelay # "raw" => aRelay # "raw"
      BY <1>1, <2>4, <3>3 DEF HeadInv, RelayAccepted
    <3>5. start \in Heads /\ "TE" \notin start.hdr
      BY <2>2, <2>4, WsStartFields
    <3>6. aRelay # "raw" => "Sec-Websocket-Extensions" \notin up.hdr
      <4>1. aRelay # "raw" => up = FramedHandshake(start)
        BY <1>1, <2>1, <2>4 DEF HeadInv
      <4>2. "Sec-Websocket-Extensions" \in wsRequestStripKeys \ DialerKeys
        BY DEF wsRequestStripKeys, DialerKeys
      <4> QED
        BY <3>5, <4>1, <4>2, FramedFields
    <3>7. aRelay # "raw" => x \subseteq {"Sec-Websocket-Protocol"}
      BY <3>6 DEF Accepts101
    <3> QED
      BY <2>4, <3>2, <3>4, <3>7 DEF ClientHead, ClientHandshake
  <2> QED
    BY <2>3, <2>4
<1>2. IndInv /\ HeadInv => ClientHead
  BY <1>1 DEF ClientHead
<1> QED
  BY <1>2, HeadInductive, PTL

=============================================================================
