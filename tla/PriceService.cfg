SPECIFICATION FairSpec
CONSTANTS
  Issuers = {i1, i2}
  Symbols = {a}
  Requests = {r1, r2}
  None = None
  Retries = 1
INVARIANTS
  TypeOK
PROPERTIES
  ReviewsAreKept
  RequestsEnd
CHECK_DEADLOCK FALSE
