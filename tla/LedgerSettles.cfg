\* A refresh is given up while its work, or that of others, goes on; one call
\* of the peer may never settle.  One command is made, of either kind.
SPECIFICATION OneCallSpec
CONSTANTS
    x = x
    o = o
    d = d
    None = None
    Commands = {x, o}
    Kind <- KindOf
    Readers = {d}
    MaxPending = 1
    MaxHeight = 2
    MaxResets = 2
    MaxSilent = 1
PROPERTIES
    CallsSettle
CHECK_DEADLOCK FALSE
