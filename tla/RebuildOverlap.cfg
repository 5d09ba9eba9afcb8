\* One listing, two requests to rebuild the index, one abort.
SPECIFICATION Spec
CONSTANTS
    Readers = {s1}
    Rebuilds = {r1, r2}
    MaxRevisions = 1
    Pinned = 1
    Candidates = 1
    MaxConcurrent = 2
    MaxChanges = 1
    None = None
INVARIANTS
    OneRebuild
CHECK_DEADLOCK FALSE
