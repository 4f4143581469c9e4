SPECIFICATION FairSpec
CONSTANTS
  Call = {c1, c2}
  Provider = {p1, p2}
  Processes = {{p1}, {p2}}
  FileCaching = {p1, p2}
  FailOnError = {p2}
  Credential = {k1}
  SaaS = TRUE
  Attempt = {a1, a2}
  NoAttempt = NoAttempt
INVARIANTS
  RequestsCoalesce
  RefusalStands
PROPERTIES
  TokenPromise
  CallsSettle
CHECK_DEADLOCK FALSE
