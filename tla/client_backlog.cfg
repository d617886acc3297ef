SPECIFICATION Spec
CONSTANTS
  Bundles = {x}  Blank = Blank
  Ring = 4  Backlog = 2  Chunk = 2  WantDelay = 1  Stall = 2
  Elapsed = {0, 1, 3}  Faults = FALSE  MaxTic = 5
CHECK_DEADLOCK FALSE
INVARIANTS CatchUpIsNotBehind
