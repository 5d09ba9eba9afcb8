------------------------------ MODULE MCDiamond ------------------------------
(* A revision whose two dependencies share a third, with the node limit set *)
(* to the four revisions of the graph: publication counts four distinct     *)
(* revisions, activation four visits below the root, resolution five.       *)
EXTENDS Agreement

MCRevisions == {"root", "left", "right", "shared"}
MCSlots == MCRevisions
Needs(r) == [revision |-> r, slot |-> r, requires_active |-> TRUE]

MCRevisionInfo ==
    [r \in MCRevisions |->
        [revision_id |-> r, slot |-> r, parents |-> {},
         dependencies |-> CASE r = "root" -> {Needs("left"), Needs("right")}
                            [] r \in {"left", "right"} -> {Needs("shared")}
                            [] OTHER -> {}]]

MCActors == {"alice"}
MCOrgs == {"north"}
MCOrgOf == [a \in MCActors |-> "north"]
MCIdentity ==
    [a \in MCActors |-> [human |-> TRUE, publish |-> MCSlots, can_propose |-> TRUE]]
MCRoles == {"owner"}
MCPolicies == MCSlots
MCPolicyInfo ==
    [p \in MCPolicies |-> [slot |-> p, representative |-> [r \in MCRoles |-> "alice"],
                           allowed |-> {"approve"}]]

Cmd(id, type, input) == [id |-> id, actor |-> "alice", type |-> type, input |-> input]

Chain(r) ==
    {Cmd(<<"publish", r>>, "publish_revision", [revision |-> r, membership_epoch |-> 1]),
     Cmd(<<"propose", r>>, "propose", [proposal |-> r, revision |-> r, policy |-> r]),
     Cmd(<<"approve", r>>, "decide",
         [decision |-> r, proposal |-> r, revision |-> r, policy |-> r, role |-> "owner",
          actor |-> "alice", kind |-> "approve", retracts |-> None, membership_epoch |-> 1]),
     Cmd(<<"activate", r>>, "activate",
         [proposal |-> r, agreement |-> r, expected |-> None])}

MCCommands == UNION {Chain(r) : r \in MCRevisions}
MCRevisionIds == MCRevisions
MCProposals == MCRevisions
MCAgreements == MCRevisions
MCDecisionIds == MCRevisions
MCNonces == {"n1"}
MCCommandIds == {c.id : c \in MCCommands}
==============================================================================
