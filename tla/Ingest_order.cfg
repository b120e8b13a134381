\* Two payloads in any order; the operator may force a finished key to run again.
CONSTANTS
  a1 = a1
  a2 = a2
  a3 = a3
  b0 = b0
  b1 = b1
  p = p
  q = q
  r = r
  z = z
  A = A
  B = B
  NoKey = NoKey
  NoInvocation = NoInvocation
  Key = {a1, a2}
  Invocation = {i1, i2}
  Timeout = 1
  Lease = 1
  ClaimDelay = 0
  RetryDelay = 1
  Product = {p, q, r}
  Source = {A, B}
  SourceOf <- MCSourceOf
  FetchedAt <- MCFetchedAt
  Payload <- MCPayload
  Malformed = {}
  MinProducts <- MCMinProducts
  Retention = 0
  Punctual = {}
  Subscription <- MCSubscription
  Threshold = 200
  PeakWindow = 90
  BaselineFrom = 0
SPECIFICATION SpecWithOperator
SYMMETRY Symmetry
INVARIANTS IngestTypeOK AnnouncedAlertsAreRecorded
PROPERTIES CurrentIsNewestPayload ImplementsCatalog
