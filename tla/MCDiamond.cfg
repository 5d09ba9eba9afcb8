SPECIFICATION Spec
CONSTANTS
    None = None
    Actors <- MCActors
    Orgs <- MCOrgs
    Slots <- MCSlots
    Roles <- MCRoles
    Revisions <- MCRevisions
    RevisionIds <- MCRevisionIds
    Policies <- MCPolicies
    Proposals <- MCProposals
    Decisions <- MCDecisionIds
    Agreements <- MCAgreements
    Nonces <- MCNonces
    CommandIds <- MCCommandIds
    Commands <- MCCommands
    OrgOf <- MCOrgOf
    Identity <- MCIdentity
    RevisionInfo <- MCRevisionInfo
    PolicyInfo <- MCPolicyInfo
    MembershipEpoch = 1
    ServingEnabled = TRUE
    MaxDepth = 8
    MaxNodes = 4
PROPERTY
    ActivationServes
CHECK_DEADLOCK FALSE
