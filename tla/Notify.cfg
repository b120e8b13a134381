\* Two invocations, for one run or for two, interleaved step by step.
\* Invocations are finite, so the system stops: no deadlock check.
CONSTANTS
  k1 = k1
  k2 = k2
  full = full
  dup = dup
  next = next
  ops = ops
  ann = ann
  Ann = Ann
  anns = anns
  NoAddress = NoAddress
  NoResult = NoResult
  Key = {k1, k2}
  Result = {full, dup, next}
  KeyOf <- MCKeyOf
  Skipped = {dup}
  AlertsOf <- MCAlertsOf
  Default = {ops}
  Address = {ops, ann, Ann}
  FoldCase <- MCFoldCase
  Notification = {n1, n2}
SPECIFICATION Spec
SYMMETRY Symmetry
CHECK_DEADLOCK FALSE
INVARIANTS TypeOK MarkedMeansDelivered NobodyForgotten ResentOnlyInFlight
