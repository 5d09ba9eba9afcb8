\* One part of the service at a time, each with its own bounds.
SPECIFICATION Spec
CONSTANTS
    None = None
    x = x
    o = o
    v = v
    \* ledger: calls of every kind and close, failures of the peer, and no
    \* refresh takes too long
    Commands = {x, o, v}
    Kind <- MCKind
    Readers = {d}
    MaxPending = 2
    MaxHeight = 2
    MaxResets = 0
    MaxSilent = 0
    \* browse
    Keys = {1, 2, 3}
    SlotKeys = {"s", "t"}
    SlotOfKey <- MCSlotOfKey
    MaxAt = 3
    Batches <- MCBatches
    MaxPrepared = 2
    MaxEntries = 2
    MaxRefs = 2
    MaxLarge = 3
    \* search: a listing read in pages of one while the index is rebuilt
    Listings = {"p", "q"}
    Rebuilds = {"r1", "r2"}
    MaxRevisions = 3
    Pinned = 1
    Candidates = 2
    MaxConcurrent = 2
    MaxChanges = 1
    \* index: two searches, a write and a close over up to three connections
    Searches = {"q1", "q2"}
    Writes = {"w"}
    Closings = {"z"}
    MaxOpened = 3
    \* knowledge: two boots, two runs, one of whose records may be altered
    MaxWorld = 6
    MaxBoots = 2
    MaxRuns = 2
    MaxDamage = 1
INVARIANTS
    RefreshTells
    NothingLeftBehind
PROPERTIES
    PagesTrue
    
    UseIsCurrent
CHECK_DEADLOCK FALSE
