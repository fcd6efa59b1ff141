----------------------------- MODULE RequestHead -----------------------------
(***************************************************************************)
(* The head of a request on its way from the client through gateway and    *)
(* agent to the upstream, and the head of the answer on its way back, over *)
(* the connection whose mode ModeNegotiation settles: plain HTTP, and the  *)
(* WebSocket handshake of the legacy, transparent and raw handlers         *)
(* (internal/gateway/server.go, internal/agent/agent.go,                   *)
(* internal/shared/httpheaders.go).                                        *)
(*                                                                         *)
(* Between the agent and an HTTP upstream is net/http's client, which adds *)
(* headers, decodes gzip and follows redirects by itself; a further        *)
(* request of the same stream then goes to the upstream or to another      *)
(* host.                                                                   *)
(*                                                                         *)
(* A head is                                                               *)
(*   ws        the request is a WebSocket upgrade                          *)
(*   isHead    its method is HEAD                                          *)
(*   hdr       the canonical names of its headers but Authorization        *)
(*   listed    the names its Connection header lists                       *)
(*   auth      where the Authorization header comes from: "none",          *)
(*             "client", or the query parameter that made it               *)
(*   query     the credential parameters in the query; blank: those of     *)
(*             them without a value; parsable: ParseQuery takes the query  *)
(*   trailers  the trailers announced, of which one is enough: "Digest"    *)
(* and of an answer                                                        *)
(*   interim   the headers of the 1xx answers before it                    *)
(*   gzip      it has a body with Content-Encoding: gzip                   *)
(*   redirect  "no", or a 301, 302 or 303 with a Location on the "same"    *)
(*             or on an "other" host                                       *)
(***************************************************************************)
EXTENDS ModeNegotiation, Naturals

CONSTANTS Requests,    \* the heads clients send
          Responses,   \* the heads upstreams answer HTTP requests with
          MaxRedirects \* redirects net/http follows (10)

Params == {"authorization", "access_token", "token"}

Heads == [ws : BOOLEAN, isHead : BOOLEAN, hdr : SUBSET STRING, listed : SUBSET STRING,
          auth : {"none", "client"} \cup Params, query : SUBSET Params,
          blank : SUBSET Params, parsable : BOOLEAN, trailers : SUBSET {"Digest"},
          interim : SUBSET STRING, gzip : BOOLEAN, redirect : {"no", "same", "other"}]

\* net/http makes the names of the headers it reads canonical, so "TE" is none.
ASSUME HeadsAssumption ==
  /\ \A h \in Requests \cup Responses : h \in Heads /\ "TE" \notin h.hdr \cup h.interim
  /\ MaxRedirects \in Nat

-----------------------------------------------------------------------------
(* internal/shared/httpheaders.go.  A header name in a Header is canonical *)
(* ("Te"); the names of the table are not looked at.                       *)

hopByHopHeaderKeys ==
  {"Connection", "Proxy-Connection", "Keep-Alive", "Proxy-Authenticate",
   "Proxy-Authorization", "TE", "Trailer", "Transfer-Encoding", "Upgrade"}

wsRequestStripKeys ==
  {"Sec-Websocket-Key", "Sec-Websocket-Version", "Sec-Websocket-Extensions",
   "Sec-Websocket-Accept"}

CanonicalHeaderKey(k) == IF k = "TE" THEN "Te" ELSE k

\* Header.Del makes its argument canonical.
Del(h, keys) ==
  LET ks == {CanonicalHeaderKey(k) : k \in keys} IN
  [h EXCEPT !.hdr = @ \ ks,
            !.auth = IF "Authorization" \in ks THEN "none" ELSE @,
            !.listed = IF "Connection" \in ks THEN {} ELSE @]

\* Seeded fault: the table, and Connection with it, is deleted first.
StripTableFirst(h) == Del(h, hopByHopHeaderKeys)

StripConnectionHeaders(h) == Del(h, h.listed \cup hopByHopHeaderKeys)

IsHopByHopHeaderKey(k) == k \in hopByHopHeaderKeys
IsWSStripHeaderKey(k) == k \in wsRequestStripKeys

\* CopyHeaders into an empty header.
CopyHeaders(h) == Del(h, {k \in h.hdr : IsHopByHopHeaderKey(k)})

CopyHeadersForWebSocket(h) ==
  Del(h, {k \in h.hdr : IsHopByHopHeaderKey(k) \/ IsWSStripHeaderKey(k)})

\* TrailerKeysFromHeader, of a header net/http left there, or HeaderKeys of the
\* trailers it found.
TrailerKeys(h) == IF "Trailer" \in h.hdr THEN {"Digest"} ELSE h.trailers

-----------------------------------------------------------------------------
(* The gateway's side of a request.                                        *)

stripForwardingIPHeaders(h) == Del(h, {"X-Forwarded-For", "Forwarded"})

\* The parameter the Authorization header is made of, if one has a value.
QueryAuth(h) ==
  CASE "authorization" \in h.query \ h.blank -> "authorization"
    [] "authorization" \notin h.query \ h.blank
         /\ "access_token" \in h.query \ h.blank -> "access_token"
    [] h.query \ h.blank = {"token"} -> "token"
    [] OTHER -> h.auth

\* Seeded fault: only the parameter that was used is taken out of the query.
applyQueryKeepsRest(h) ==
  IF h.query = {} \/ ~h.parsable THEN h
  ELSE [h EXCEPT !.auth = QueryAuth(h), !.query = @ \ {QueryAuth(h)}]

applyQueryBearerAuth(h) ==
  IF h.query = {} \/ ~h.parsable THEN h
  ELSE [h EXCEPT !.auth = QueryAuth(h), !.query = {}, !.blank = {}]

\* handleClientHTTP: the ReqStart it sends.
HttpStart(r) ==
  LET h == applyQueryBearerAuth(stripForwardingIPHeaders(r))
  IN  [StripConnectionHeaders(h) EXCEPT !.trailers = TrailerKeys(h)]

\* handleClientWebSocket, handleClientWebSocketTransparent and ...Raw.
WsStart(mode, r) ==
  IF mode = "transparent_tunnel"
    THEN stripForwardingIPHeaders(r)
    ELSE applyQueryBearerAuth(stripForwardingIPHeaders(r))

-----------------------------------------------------------------------------
(* The agent's side of a request.                                          *)

\* handleHTTP: trailers need a chunked body.
HttpRequest(s) ==
  LET h == StripConnectionHeaders(CopyHeaders(s))
  IN  IF s.trailers # {} THEN Del(h, {"Content-Length"}) ELSE h

\* The transport asks for gzip itself if the request says nothing of encodings.
AsksGzip(h) == h.hdr \cap {"Accept-Encoding", "Range"} = {} /\ ~h.isHead

\* What it writes for its own hop (Trailer, Transfer-Encoding) is not in hdr.
RoundTrip(h) ==
  [h EXCEPT !.hdr = @ \cup {"User-Agent"}
                      \cup (IF AsksGzip(h) THEN {"Accept-Encoding"} ELSE {})]

\* What Do leaves out of a further request: the headers of the body, which is
\* not sent again, and, once a redirect led to another host, the secrets.
BodyKeys == {"Content-Encoding", "Content-Language", "Content-Location", "Content-Type",
             "Content-Length"}
SensitiveKeys == {"Authorization", "Www-Authenticate", "Cookie", "Cookie2",
                  "Proxy-Authorization", "Proxy-Authenticate"}

\* The headers are those of the first request, the query that of Location.  Do
\* names no Referer on the way from https to http.
Redirected(h, foreign, referer) ==
  [Del(h, BodyKeys \cup (IF foreign THEN SensitiveKeys ELSE {})) EXCEPT
     !.hdr = @ \cup referer, !.trailers = {}, !.query = {}, !.blank = {}]

\* What the dialer of gorilla/websocket writes itself, and refuses to be given.
DialerKeys == {"Connection", "Upgrade", "Sec-Websocket-Key", "Sec-Websocket-Version"}

\* handleWebSocket; Request.Write names an agent and knows of no body.
FramedHandshake(s) ==
  LET h == CopyHeadersForWebSocket(s)
  IN  [h EXCEPT !.hdr = (@ \ {"Content-Length"}) \cup DialerKeys \cup {"User-Agent"},
                !.listed = {"Upgrade"}]
DialRefused(s) ==
  CopyHeadersForWebSocket(s).hdr \cap (DialerKeys \cup {"Sec-Websocket-Extensions"}) # {}

\* dialWebSocketUpstreamRaw: all but Host, which net/http keeps apart.
RawHandshake(s) == s

-----------------------------------------------------------------------------
(* The way back.                                                           *)

\* A body the transport asked to be encoded is decoded, and these say so no more.
Decoded(h, p) ==
  IF p.gzip /\ AsksGzip(h) THEN Del(p, {"Content-Encoding", "Content-Length"}) ELSE p

\* Got1xxResponse, of all the answers there were.
AgentInterim(p, names) ==
  [p EXCEPT !.interim = names \ {CanonicalHeaderKey(k) : k \in hopByHopHeaderKeys}]

\* handleHTTP, of answer p to request h: StripConnectionHeaders, HeaderKeys of
\* resp.Trailer.
AgentResponse(h, p) == StripConnectionHeaders(Decoded(h, p))

\* Seeded fault: the Trailer header is set before hop-by-hop headers are removed.
GatewayTrailerFirst(p) ==
  CopyHeaders(StripConnectionHeaders(
    [p EXCEPT !.hdr = @ \cup p.interim \cup (IF p.trailers # {} THEN {"Trailer"} ELSE {})]))

\* writeInterim: what it leaves in the header map of the answer.
writeInterim(p) == {k \in p.interim : ~IsHopByHopHeaderKey(k)}

\* handleClientHTTP and setTrailerKeys, on the header map 1xx answers have
\* written to.
GatewayResponse(p) ==
  [CopyHeaders(StripConnectionHeaders(p)) EXCEPT
     !.hdr = @ \cup writeInterim(p) \cup (IF p.trailers # {} THEN {"Trailer"} ELSE {})]

\* What an upstream may accept of the offers it gets.
Accepts101(h) == SUBSET (h.hdr \cap {"Sec-Websocket-Protocol", "Sec-Websocket-Extensions"})

\* TWsOpenOK and the 101 the client gets: the framed handlers pass on the
\* subprotocol, the raw ones also the extensions.
ClientHandshake(relay, accepted) ==
  IF relay = "raw" THEN accepted ELSE accepted \cap {"Sec-Websocket-Protocol"}

-----------------------------------------------------------------------------
NoHead == [ws |-> FALSE, isHead |-> FALSE, hdr |-> {}, listed |-> {}, auth |-> "none",
           query |-> {}, blank |-> {}, parsable |-> TRUE, trailers |-> {}, interim |-> {},
           gzip |-> FALSE, redirect |-> "no"]

VARIABLES
  at,     \* "none", or where the request is: "sent" (TReqStart), "upstream" (an
          \* upstream has it), "headless" (the agent gives no head to anyone),
          \* "failed" (no upstream answered), "answered" (the client has the
          \* answer)
  req,    \* the client's head
  start,  \* the head in TReqStart
  hops,   \* redirects that were followed
  away,   \* one of them led to another host
  up,     \* the last head an upstream got
  answer, \* its head of an HTTP answer; of a 101, the accepted offers as hdr
  early,  \* the headers of the 1xx answers so far
  got     \* the head the client gets

head == <<at, req, start, hops, away, up, answer, early, got>>
allVars == <<vars, head>>

HeadInit ==
  /\ Init
  /\ at = "none" /\ req = NoHead /\ start = NoHead
  /\ hops = 0 /\ away = FALSE /\ up = NoHead
  /\ answer = NoHead /\ early = {} /\ got = NoHead

\* There is no request any more.
NoRequest ==
  /\ at' = "none" /\ req' = NoHead /\ start' = NoHead
  /\ hops' = 0 /\ away' = FALSE /\ up' = NoHead
  /\ answer' = NoHead /\ early' = {} /\ got' = NoHead

\* A plain request, on a connection that is registered.
HttpOpens(r) ==
  /\ ~r.ws /\ conn # "none" /\ at = "none"
  /\ at' = "sent" /\ req' = r /\ start' = HttpStart(r)
  /\ UNCHANGED <<vars, hops, away, up, answer, early, got>>

WsOpens(r) ==
  /\ r.ws /\ at = "none" /\ ClientOpens
  /\ at' = "sent" /\ req' = r /\ start' = WsStart(gMode, r)
  /\ UNCHANGED <<hops, away, up, answer, early, got>>

\* An upstream answers the HTTP request it was sent.
Answers ==
  /\ answer' \in Responses
  /\ early' = early \cup answer'.interim

\* handleHTTP.  Do may fail, as it does for a tcp or ws target: 502.
AgentServesHttp ==
  /\ at = "sent" /\ ~req.ws /\ conn = "up"
  /\ \/ /\ scheme \in {"http", "https"}
        /\ up' = RoundTrip(HttpRequest(start)) /\ Answers
        /\ at' = "upstream"
     \/ at' = "failed" /\ UNCHANGED <<up, answer, early>>
  /\ UNCHANGED <<vars, req, start, hops, away, got>>

\* Do follows a redirect.
FollowsRedirect ==
  /\ at = "upstream" /\ ~req.ws /\ answer.redirect # "no" /\ hops < MaxRedirects
  /\ hops' = hops + 1
  /\ away' = (away \/ answer.redirect = "other")
  /\ \/ /\ \E ref \in SUBSET {"Referer"} :
             up' = RoundTrip(Redirected(HttpRequest(start), away', ref))
        /\ Answers /\ at' = at
     \/ at' = "failed" /\ UNCHANGED <<up, answer, early>>
  /\ UNCHANGED <<vars, req, start, got>>

\* There is an upstream to hand the head to.  A tcp target is given none.
Dials(relay, s) ==
  scheme # "tcp" /\ relay # "unsupported" /\ ~(relay = "framed" /\ DialRefused(s))

\* handleStream for a WebSocket.
AgentServesWs ==
  /\ at = "sent" /\ req.ws
  /\ \/ /\ AgentReplies /\ Dials(aRelay', start)
        /\ up' = IF aRelay' = "raw" THEN RawHandshake(start) ELSE FramedHandshake(start)
        /\ \E x \in Accepts101(up') : answer' = [NoHead EXCEPT !.hdr = x]
        /\ at' = "upstream"
     \/ /\ AgentReplies /\ (scheme = "tcp" \/ aRelay' = "unsupported")
        /\ at' = "headless" /\ UNCHANGED <<up, answer>>
     \/ DialFails /\ at' = "failed" /\ UNCHANGED <<up, answer>>
  /\ UNCHANGED <<req, start, hops, away, early, got>>

\* The answer reaches the client; of one redirect too many, a bare 502.
HttpAnswered ==
  /\ at = "upstream" /\ ~req.ws
  /\ \/ /\ answer.redirect = "no"
        /\ got' = GatewayResponse(AgentInterim(AgentResponse(HttpRequest(start), answer), early))
     \/ /\ answer.redirect # "no" /\ hops = MaxRedirects
        /\ got' = GatewayResponse(AgentInterim(NoHead, early))
  /\ at' = "answered"
  /\ UNCHANGED <<vars, req, start, hops, away, up, answer, early>>

WsAnswered ==
  /\ at = "upstream" /\ req.ws /\ GatewayDecides
  /\ \/ /\ session' = "relay" /\ at' = "answered"
        /\ got' = [NoHead EXCEPT !.hdr = ClientHandshake(gRelay, answer.hdr)]
     \/ session' = "refused" /\ at' = "failed" /\ UNCHANGED got
  /\ UNCHANGED <<req, start, hops, away, up, answer, early>>

\* Next step of a session without a head.
WsWithoutHead ==
  /\ at = "headless" /\ GatewayDecides
  /\ UNCHANGED head

\* The request is over; what its heads were is forgotten.
Forget ==
  /\ \/ at \in {"answered", "failed"}
     \/ at = "headless" /\ session \in {"relay", "refused"}
  /\ NoRequest
  /\ UNCHANGED vars

\* Registration, negotiation, and a connection lost with its requests.
ConnStep ==
  \/ (Register \/ Negotiate) /\ UNCHANGED head
  \/ Restart /\ NoRequest

HeadNext ==
  \/ \E r \in Requests : HttpOpens(r) \/ WsOpens(r)
  \/ AgentServesHttp \/ FollowsRedirect \/ AgentServesWs
  \/ HttpAnswered \/ WsAnswered \/ WsWithoutHead
  \/ Forget \/ ConnStep

HeadSpec == HeadInit /\ [][HeadNext]_allVars

-----------------------------------------------------------------------------
(* Properties.                                                             *)

AtUpstream == at \in {"upstream", "answered"}
Forwarding == {"X-Forwarded-For", "Forwarded"}

\* Whatever of these the client sends ends at the first hop.
HopByHop == {CanonicalHeaderKey(k) : k \in hopByHopHeaderKeys}

\* The client's headers that are meant for an HTTP upstream.
EndToEnd(r) ==
  r.hdr \ (HopByHop \cup r.listed \cup Forwarding
             \cup (IF TrailerKeys(r) # {} THEN {"Content-Length"} ELSE {}))

\* Two hops strip, copy and strip again, differently for each of four handlers,
\* and yet: no forwarding address reaches an upstream.  An HTTP upstream gets all
\* end-to-end headers, Connection-listed ones not being any, and nothing else but
\* what net/http adds; after a redirect without those of the body, and without
\* Cookie once another host is involved.  A framed WebSocket upstream gets one
\* handshake, the agent's, and all else but the headers of the table (not TE,
\* which the table spells as no header does: it reaches the upstream, hop-by-hop
\* though it is).  A raw one gets what the client sent (server.go:556-564,
\* 696-699, 1044-1045, agent.go:77-100, 620-654, 743-747, 906-917, httpheaders.go).
UpstreamHead ==
  AtUpstream =>
    /\ up.hdr \cap Forwarding = {}
    /\ ~req.ws =>
         LET kept == EndToEnd(req) \ ((IF hops > 0 THEN BodyKeys ELSE {})
                                        \cup (IF away THEN SensitiveKeys ELSE {})) IN
         /\ kept \subseteq up.hdr
         /\ up.hdr \subseteq kept \cup {"User-Agent", "Accept-Encoding"}
                                  \cup (IF hops > 0 THEN {"Referer"} ELSE {})
         /\ hops = 0 => up.trailers = TrailerKeys(req)
    /\ req.ws /\ aRelay = "framed" =>
         up.hdr = DialerKeys \cup {"User-Agent"}
                    \cup (req.hdr \ ((HopByHop \ {"Te"}) \cup Forwarding
                                       \cup wsRequestStripKeys \cup {"Content-Length"}))
    /\ req.ws /\ aRelay = "raw" =>
         up.hdr = req.hdr \ Forwarding /\ up.listed = req.listed

\* A credential in a query that ParseQuery takes, of an HTTP request or of a
\* WebSocket of the legacy handler, reaches the upstream as its Authorization
\* header, before the client's own, and is in the query no more, whatever else of
\* the three parameters is there.  Only a Connection header that lists
\* Authorization takes it away, and a redirect to another host, which never gets
\* it.  Nothing is said of the transparent handlers: see TokenIsMapped
\* (server.go:557, 697, 1323-1361, agent.go:100, 654).
QueryCredential ==
  LET usable == req.query \ req.blank
  IN  AtUpstream /\ req.parsable /\ ~(req.ws /\ gMode = "transparent_tunnel") =>
        /\ up.query = {}
        /\ \/ up.auth \in usable /\ ("authorization" \in usable => up.auth = "authorization")
           \/ usable = {} /\ up.auth = req.auth
           \/ ~req.ws /\ ("Authorization" \in req.listed \/ away) /\ up.auth = "none"
        /\ away => up.auth = "none"

\* What README.md:12 and :51-55 promise to browsers, which cannot set the header:
\* a token in the query of a WebSocket becomes the upstream's Authorization header
\* and is removed from the query.  The transparent handlers never call
\* applyQueryBearerAuth (server.go:877-885, 1044-1051).
TokenIsMapped ==
  AtUpstream /\ req.ws /\ req.parsable /\ req.query \ req.blank # {} =>
    up.auth \in req.query \ req.blank /\ up.query = {}

\* The client and the upstream end with the same view: the same subprotocol and
\* extensions were agreed with both ends of a WebSocket, although two handshakes
\* were made.  An HTTP client gets the end-to-end headers of the last answer with
\* all its trailers announced, those of an encoding it did not ask for removed with
\* the encoding, and nothing of a redirect; of one redirect too many it gets no
\* header at all.  The one thing that should not be there: the headers of all 1xx
\* answers, redirects' included, stay in the header map and arrive once more
\* (agent.go:77-100, 644-654, 667-676, 764-768, 963-967, server.go:634-646,
\* 747-758, 1221-1279, 1281-1321).
ClientHead ==
  at = "answered" =>
    /\ req.ws => got.hdr = answer.hdr
    /\ ~req.ws /\ answer.redirect # "no" => got.hdr = early \ HopByHop
    /\ ~req.ws /\ answer.redirect = "no" =>
         LET unasked == /\ answer.gzip /\ ~req.isHead
                        /\ EndToEnd(req) \cap {"Accept-Encoding", "Range"} = {}
         IN
         /\ got.hdr \ {"Trailer"} =
              (answer.hdr \ (HopByHop \cup answer.listed
                               \cup (IF unasked THEN {"Content-Encoding", "Content-Length"}
                                     ELSE {})))
                \cup (early \ HopByHop)
         /\ answer.trailers # {} <=> "Trailer" \in got.hdr

=============================================================================
