SPECIFICATION Spec
CONSTANTS
    None = None
    TxIds = {t1, t2, t3}
    MaxCrashes = 1
    MaxAbandons = 1
    MaxListed = 1
SYMMETRY Symmetry
INVARIANTS
    OutboxSound
PROPERTIES
    SettledStays
    DenialIsSound
