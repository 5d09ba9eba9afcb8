\* One part of the operations at a time, each with its own bounds.
SPECIFICATION Spec
CONSTANTS
    None = None
    Torn = Torn
    Bad = Bad
    \* signing: one reconnection
    Ops <- MCOps
    MaxClients = 2
    MaxConcurrency = 1
    MaxSigningFaults = 2
    \* renewal
    Orgs <- MCOrgs
    Days = {2, 3}
    Before = 1
    MaxNow = 3
    MaxPlans = 2
    MaxRenewalFaults = 3
    \* data
    Databases = {"d1", "d2"}
    Bindings = {"b1", "b2"}
    Backups = {"k1", "k2"}
    Restores = {"x1"}
    Starts = {"s1", "s2"}
    Rosters <- MCRosters
    MaxWrites = 2
    MaxDataFaults = 1
    \* sources: two synchronisations of two pages that are edited meanwhile
    Paths = {"a", "b"}
    Syncs = {"s1", "s2"}
    MaxUpstream = 2
    MaxBegun = 2
    MaxLost = 1
    Retries = 1
    \* grants: two processes use one grant for two lifetimes of an access token
    Callers = {"p", "q"}
    Margin = 1
    Life = 3
    MaxTime = 5
    MaxReconnects = 1
INVARIANTS
    AuditStands
    TokensUsedOnce
PROPERTIES
    RenewalWhole
    DataWhole
    SourceFaithful
CHECK_DEADLOCK FALSE
