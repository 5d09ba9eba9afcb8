\* Two damages of the channel's file at any point, one of the local ledger's.
SPECIFICATION SpecStores
CONSTANTS
    k = k
    c = c
    None = None
    Boot = Boot
    Keys <- MCKeys
    Values <- MCValues
    Immutable <- MCImmutable
    Needs <- MCNeeds
    Offered <- MCOffered
    MaxBlocks = 3
    MaxHarm = 2
    MaxCached = 2
    Actors = {"alice"}
    Orgs = {"north"}
    Slots = {"s1"}
    Roles = {"owner"}
    Revisions = {"r1"}
    RevisionIds = {"i1"}
    Policies = {"pol"}
    Proposals = {"p1"}
    Decisions = {"d1", "d2"}
    Agreements = {"g1"}
    Nonces = {}
    CommandIds = {"c1", "c2", "c3", "c4", "c5", "c6"}
    Commands <- MCCommands
    OrgOf <- MCOrgOf
    Identity <- MCIdentity
    RevisionInfo <- MCRevisionInfo
    PolicyInfo <- MCPolicyInfo
    MembershipEpoch = 1
    ServingEnabled = TRUE
    MaxDepth = 8
    MaxNodes = 256
    MaxQueue = 1
    MaxCrashes = 1
    DamageCells <- MCDamageCells
    MaxDamage = 1
INVARIANTS
    AnswersTrue
    RestartSound
    JournalRules
PROPERTIES
    ImplementsAgreement
CHECK_DEADLOCK FALSE
