------------------------------ MODULE MCFabric ------------------------------
(* Two transactions in flight over two slots: b1 requires a1 active while   *)
(* a1 is objected to, withdrawn or superseded, commands are sent twice, and *)
(* fences race with all of it.                                              *)
EXTENDS FabricChannel, TLC

\* Transactions differ only by name.
TxSymmetry == Permutations(TxIds)

MCSlots == {"s1", "s2"}
MCRevisions == {"a1", "a2", "b1"}
Slot(r) == IF r = "b1" THEN "s2" ELSE "s1"

MCRevisionInfo ==
    [r \in MCRevisions |->
        [revision_id |-> r, slot |-> Slot(r), parents |-> {},
         dependencies |-> IF r = "b1"
                          THEN {[revision |-> "a1", slot |-> "s1", requires_active |-> TRUE]}
                          ELSE {}]]

MCActors == {"alice"}
MCOrgs == {"north"}
MCOrgOf == [a \in MCActors |-> "north"]
MCIdentity ==
    [a \in MCActors |-> [human |-> TRUE, publish |-> MCSlots, can_propose |-> TRUE]]
MCRoles == {"owner"}
MCPolicies == MCSlots
MCPolicyInfo ==
    [p \in MCPolicies |-> [slot |-> p, representative |-> [r \in MCRoles |-> "alice"],
                           allowed |-> {"approve", "object"}]]

Cmd(id, type, input) == [id |-> id, actor |-> "alice", type |-> type, input |-> input]

Vote(r, kind) ==
    Cmd(<<kind, r>>, "decide",
        [decision |-> <<r, kind>>, proposal |-> r, revision |-> r, policy |-> Slot(r),
         role |-> "owner", actor |-> "alice", kind |-> kind, retracts |-> None,
         membership_epoch |-> 1])

Start(r, expected) ==
    Cmd(<<"activate", r>>, "activate",
        [proposal |-> r, agreement |-> r, expected |-> expected])

\* Publishing, proposing, approving and activating revision r over expected.
Chain(r, expected) ==
    {Cmd(<<"publish", r>>, "publish_revision", [revision |-> r, membership_epoch |-> 1]),
     Cmd(<<"propose", r>>, "propose", [proposal |-> r, revision |-> r, policy |-> Slot(r)]),
     Vote(r, "approve"), Start(r, expected)}

Fencing == {Cmd(<<"fence">>, "fence", [nonce |-> "n1"])}

\* Rivals for one slot, a dependent of what they end, and fences.
Rivals == Chain("a1", None) \union Chain("a2", "a1") \union Chain("b1", None)
          \union {Cmd(<<"withdraw", "a1">>, "withdraw", [agreement |-> "a1"])} \union Fencing

MCRevisionIds == MCRevisions
MCProposals == MCRevisions
MCAgreements == MCRevisions
MCDecisionIds == MCRevisions \X {"approve", "object"}
MCNonces == {"n1"}
MCCommandIds == {c.id : c \in Rivals}
==============================================================================
