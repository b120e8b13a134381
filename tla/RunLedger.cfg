\* One key, two invocations.  Lease = Timeout, as functions.tf sets them;
\* Timeout + RetryDelay exceeds Lease + ClaimDelay by one tick, and no more.
CONSTANTS
  Key = {k1}
  Invocation = {i1, i2}
  NoInvocation = NoInvocation
  Timeout = 3
  Lease = 3
  ClaimDelay = 1
  RetryDelay = 2
SPECIFICATION FairLedgerSpec
INVARIANTS TypeOK OneLiveOwner TimedOutRunIsClaimable NoSilentlyAbandonedRun
PROPERTIES SettledByHolder EveryEventSettles
