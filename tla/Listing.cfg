\* Ties of the sort value among three products, pages of one and of two rows.
CONSTANTS
  NoCursor = NoCursor
  Product = {1, 2, 3}
  Value = {1, 2}
  Limit = {1, 2}
  MaxLimit = 2
  Movable = {2}
  Run = {A, B}
  MaxPages = 1
  MaxFlights = 1
SYMMETRY RunSymmetry
SPECIFICATION Spec
INVARIANTS ListingTypeOK UnmovedListedOnce EdgeFollowsData
PROPERTIES WalkAdvances
