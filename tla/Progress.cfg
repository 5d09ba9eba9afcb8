\* One part at a time, each with its own bounds and fairness (MCProgress).
SPECIFICATION Spec
CONSTANT None = None
PROPERTIES
    CommittedIsReported
    EveryJobEnds
    NoRequestAfterDeadline
    ShutdownTold
CHECK_DEADLOCK FALSE
