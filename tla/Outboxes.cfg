\* One of the two outboxes at a time (MCOutboxes).
SPECIFICATION Spec
CONSTANTS
    Deliveries = {d1}
    Workers = {w1, w2}
    Bindings = {b1, b2}
    MaxAttempts = 2
    MaxRetries = 1
    MaxCrashes = 1
    Edits = {o1, o2}
    MaxVersion = 2
    MaxReminded = 1
    MaxClaims = 2
    MaxFaults = 2
    None = None
SYMMETRY Symmetry
INVARIANTS
    JobsSound
    OnlyConfirmedDestination
    NothingTwice
PROPERTIES
    LateAnswersChangeNothing
    NoticesTrue
CHECK_DEADLOCK FALSE
