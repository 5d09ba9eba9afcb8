\* What becomes of the single writer when a refresh is given up.
SPECIFICATION Spec
CONSTANTS
    x = x
    o = o
    d = d
    None = None
    Commands = {x}
    Kind <- KindOf
    Readers = {d}
    MaxPending = 1
    MaxHeight = 2
    MaxResets = 1
    MaxSilent = 0
INVARIANTS
    SingleWriter
CHECK_DEADLOCK FALSE
