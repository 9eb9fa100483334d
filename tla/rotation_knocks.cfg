CONSTANTS
  NoAddr = NoAddr
  Addr = {a1, a2, a3}
  Cap = 1
  MaxKicks = 0
  ProbesPerTick = 2
  Grace = 2
  NewGrace = 1
  MinInterval = 1
  MaxInterval = 3
  MaxFails = 2
  Starrable = {}
  Restless = {}
  Handed = {}
  Patience = 1
SPECIFICATION QueueSpec
SYMMETRY AddrSymmetry
INVARIANT DueSoon
