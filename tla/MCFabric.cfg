SPECIFICATION ChannelSpec
CONSTANTS
    None = None
    Actors <- MCActors
    Orgs <- MCOrgs
    Slots <- MCSlots
    Roles <- MCRoles
    Revisions <- MCRevisions
    RevisionIds <- MCRevisionIds
    Policies <- MCPolicies
    Proposals <- MCProposals
    Decisions <- MCDecisionIds
    Agreements <- MCAgreements
    Nonces <- MCNonces
    CommandIds <- MCCommandIds
    Commands <- Rivals
    OrgOf <- MCOrgOf
    Identity <- MCIdentity
    RevisionInfo <- MCRevisionInfo
    PolicyInfo <- MCPolicyInfo
    MembershipEpoch = 1
    ServingEnabled = TRUE
    MaxDepth = 8
    MaxNodes = 256
    TxIds = {t1, t2}
SYMMETRY TxSymmetry
INVARIANTS
    OneAnswerPerCommand
PROPERTIES
    Serializable
    FenceIsCurrent
CHECK_DEADLOCK FALSE
