CONSTANTS
  NoAddr = NoAddr
  a1 = a1
  a2 = a2
  a3 = a3
  Addr = {a1, a2, a3}
  Cap = 1
  MaxKicks = 1
  ProbesPerTick = 2
  Grace = 2
  NewGrace = 1
  MinInterval = 0
  MaxInterval = 0
  MaxFails = 0
  Starrable = {a1}
  Restless = {a1}
  Handed = {a1}
SPECIFICATION MemSpec
SYMMETRY OthersSymmetry
INVARIANT OneJoin
PROPERTIES GraceHonoured StarHolds Reversible
