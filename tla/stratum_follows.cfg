SPECIFICATION CalmSpec
CONSTANTS
  Pool = {p1, p2}
  MaxBlock = 2
  Window = 1
  MaxOpen = 1
  RecentLimit = 1
  Malformed = {p2}
  Edits = TRUE
  Busy = TRUE

PROPERTIES Follows
