\* Two clients; requests in pieces, interrupted or longer than the limit.
SPECIFICATION FairSpec
CONSTANTS
  Clients = {c, d}
  c = c
  d = d
  HeadLen = 2
  Requests <- MCRequests
  BufSize = 2
  MaxRequest = 3
INVARIANTS TypeOK VerdictOfWhole ServedIsAnswered
PROPERTY CommandEnds
