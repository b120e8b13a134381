CONSTANTS
  Nobody = Nobody
  Product = {p1}
  Known = {p1}
  Email = {e1}
  Client = {c1}
  Percent = {10, 20}
  Request = {r1, r2}
  MaxUnconfirmed = 1
  MaxPerClient = 2
  MaxPerHour = 2
  ResendAfter = 0
  Window = 1
SPECIFICATION Spec
INVARIANTS MailStatesThreshold
