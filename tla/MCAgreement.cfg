SPECIFICATION MCSpec
CONSTANTS
    None = None
    Actors <- MCActors
    Orgs <- MCOrgs
    Slots <- MCSlots
    Roles <- MCRoles
    Revisions <- MCRevisions
    RevisionIds <- MCRevisionIds
    Policies <- MCPolicies
    Proposals <- MCProposals
    Decisions <- MCDecisionIds
    Agreements <- MCAgreements
    Nonces <- MCNonces
    CommandIds <- MCCommandIds
    Commands <- MCCommands
    OrgOf <- MCOrgOf
    Identity <- MCIdentity
    RevisionInfo <- MCRevisionInfo
    PolicyInfo <- MCPolicyInfo
    MembershipEpoch = 1
    ServingEnabled = TRUE
    MaxDepth = 8
    MaxNodes = 256
INVARIANTS
    TypeOK
    ActivePointerExact
    ActiveStillApproved
    ManifestsStayValid
    ProposalConsumedOnce
    RequirementsAcyclic
PROPERTIES
    EndedAgreementsStayEnded
    EpochCoversResolution
    ActivationServes
    EveryWriteApplies
CHECK_DEADLOCK FALSE
