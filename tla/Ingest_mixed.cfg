\* Payloads of A arrive in order, as scheduled, B's at any time; a3 is below the
\* floor, b1 does not parse, b0's partition is past retention.
CONSTANTS
  a1 = a1
  a2 = a2
  a3 = a3
  b0 = b0
  b1 = b1
  p = p
  q = q
  r = r
  z = z
  A = A
  B = B
  NoKey = NoKey
  NoInvocation = NoInvocation
  Key = {a1, a2, a3, b0, b1}
  Invocation = {i1, i2}
  Timeout = 1
  Lease = 1
  ClaimDelay = 0
  RetryDelay = 1
  Product = {p, q, r, z}
  Source = {A, B}
  SourceOf <- MCSourceOf
  FetchedAt <- MCFetchedAt
  Payload <- MCPayload
  Malformed = {b1}
  MinProducts <- MCMinProducts
  Retention = 1
  Punctual = {a2}
  Subscription = {}
  Threshold = 200
  PeakWindow = 90
  BaselineFrom = 1
SPECIFICATION Spec
SYMMETRY Symmetry
INVARIANTS BrokenPayloadLeavesNoTrace SkippedMeansStored ReportedRunIsPublished RetryYieldsSameAlerts SiteAgreesWithDigest
PROPERTIES CurrentIsNewestPayload
