CONSTANTS
  a1 = a1
  a2 = a2
  a3 = a3
  h1 = h1
  r1 = r1
  NoAddr = NoAddr
  Addr = {a1, a2, a3}
  Actors = {h1, r1}
  Rotators = {r1}
  Cap = 1
  HandWants = {a1, a2, a3}
  RotationWants = {a1, a2, a3}
  Conf = {}
  Foreign = {a1}
  Reachable = {a1}
  Removable = {a1, a2, a3}
  Starrable = {a1}
  Parkable = {a1}
  Flaky = FALSE
  CanAbort = TRUE
SPECIFICATION RacesSpec
SYMMETRY AddrSymmetry
INVARIANTS SlotBound NoOrphan
PROPERTIES NoShrink BookSpec
