SPECIFICATION HeadSpec
CONSTANTS
  Requests <- SomeRequests
  Responses <- SomeResponses
  MaxRedirects = 2
INVARIANTS
  TokenIsMapped
