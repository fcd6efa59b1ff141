SPECIFICATION HeadSpec
CONSTANTS
  Requests <- SomeRequests
  Responses <- SomeResponses
  MaxRedirects = 2
INVARIANTS
  TypeOK
  RelaysAgree
  BuiltIsServed
  RawIsAllowed
  UpstreamHead
  QueryCredential
  ClientHead
