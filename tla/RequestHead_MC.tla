---------------------------- MODULE RequestHead_MC ----------------------------
(* All configurations, policies and mode headers, with requests that differ  *)
(* in one or two respects from a full one.                                   *)
EXTENDS RequestHead

Http == [NoHead EXCEPT
  !.hdr = {"Cookie", "X-App", "Te", "Connection", "Keep-Alive", "Content-Length",
           "X-Forwarded-For", "Sec-Websocket-Key"},
  !.listed = {"X-App"}, !.auth = "client"]

Ws == [NoHead EXCEPT
  !.ws = TRUE,
  !.hdr = {"Cookie", "X-App", "Te", "Connection", "Upgrade", "Forwarded",
           "Sec-Websocket-Key", "Sec-Websocket-Version", "Sec-Websocket-Protocol",
           "Sec-Websocket-Extensions"},
  !.listed = {"Upgrade", "X-App"}, !.auth = "client"]

WithQuery(h, present, empty) == [h EXCEPT !.query = present, !.blank = empty]

SomeRequests ==
  {Http,
   [Http EXCEPT !.hdr = @ \cup {"Trailer"}, !.isHead = TRUE],
   [WithQuery(Http, {"token"}, {}) EXCEPT !.listed = {"Authorization"},
                                          !.trailers = {"Digest"}],
   [WithQuery(Http, {"access_token", "token"}, {"access_token"}) EXCEPT
      !.hdr = @ \cup {"Accept-Encoding", "Content-Type"}],
   Ws, WithQuery(Ws, {"authorization", "token"}, {}),
   WithQuery(Ws, {"access_token"}, {"access_token"}),
   [WithQuery(Ws, {"access_token"}, {}) EXCEPT !.parsable = FALSE],
   [Ws EXCEPT !.hdr = {"Connection", "Upgrade", "Sec-Websocket-Key", "Sec-Websocket-Version"},
              !.listed = {"Upgrade"}, !.auth = "none"]}

Encoded == [NoHead EXCEPT
  !.hdr = {"Set-Cookie", "X-App", "Connection", "Keep-Alive", "Content-Encoding",
           "Content-Length"},
  !.listed = {"X-App"}, !.gzip = TRUE]

SomeResponses ==
  {Encoded,
   [NoHead EXCEPT !.hdr = {"Set-Cookie"}, !.trailers = {"Digest"},
                  !.interim = {"Link", "Te", "Keep-Alive"}],
   [NoHead EXCEPT !.hdr = {"Location", "Set-Cookie"}, !.redirect = "same",
                  !.interim = {"X-Hint"}],
   [NoHead EXCEPT !.hdr = {"Location"}, !.redirect = "other"]}

=============================================================================
