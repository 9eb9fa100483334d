SPECIFICATION Spec
CONSTANTS
  Pool = {p1, p2}
  MaxBlock = 2
  Window = 1
  MaxOpen = 2
  RecentLimit = 1
  Malformed = {}
  Edits = TRUE
  Busy = FALSE
SYMMETRY PoolSymmetry
INVARIANTS HeardNotCharged RanksTellOrder
PROPERTIES ResultsStand MissAfterWindow
