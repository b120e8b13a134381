\* Two products that may change ids once, two requests for one address.
CONSTANTS
  Nobody = Nobody
  Product = {p1, p2}
  Known = {p1, p2}
  Name = {n1, n2}
  MaxLosses = 1
  Email = {e1}
  Client = {}
  Percent = {10}
  Request = {r1, r2}
  MaxUnconfirmed = 2
  MaxPerClient = 1
  MaxPerHour = 2
  ResendAfter = 0
  Window = 1
SPECIFICATION BackupSpec
INVARIANTS TokensKeepTheirWatch ConfirmedByClick
PROPERTIES RestoreIsExact EveryRequestAnswered
