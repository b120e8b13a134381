\* Quotas of one and two; a resend within the hour is possible: Window is 2 ticks.
CONSTANTS
  Nobody = Nobody
  Product = {p1, p2}
  Known = {p1, p2}
  Email = {e1, e2}
  Client = {c1}
  Percent = {10}
  Request = {r1, r2, r3}
  MaxUnconfirmed = 1
  MaxPerClient = 1
  MaxPerHour = 2
  ResendAfter = 0
  Window = 2
SPECIFICATION Spec
SYMMETRY Symmetry
INVARIANTS TypeOK PendingQuota RowBudget
PROPERTIES ConflictMeansConfirmed
