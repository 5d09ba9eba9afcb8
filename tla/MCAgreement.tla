----------------------------- MODULE MCAgreement -----------------------------
(* Two scenarios, of which a behaviour plays one.                           *)
(* Decisions: slot sX, two representatives, competing proposals; every      *)
(* order of approving, objecting, abstaining, retracting, activating,       *)
(* superseding, withdrawing and suspending, with contended identifiers.     *)
(* Dependencies: slots sA, sB and sC whose revisions require each other's   *)
(* active revision: b1 needs a1, c1 needs b1, and a3, a later revision of   *)
(* a1's own slot, needs c1, so activating it over a1 would close a circle.  *)
EXTENDS Agreement

MCActors == {"alice", "bob", "bot", "mallory"}
MCOrgs == {"north", "south"}
MCOrgOf == [a \in MCActors |-> IF a = "bob" THEN "south" ELSE "north"]
MCSlots == {"sX", "sA", "sB", "sC"}
MCIdentity ==
    [a \in {"alice", "bob", "bot"} |->
        [human |-> a # "bot", publish |-> MCSlots, can_propose |-> a # "bob"]]

Chained == {"a1", "a2", "a3", "b1", "c1"}
MCRevisions == {"x1", "x2"} \union Chained
Slot(r) == CASE r \in {"x1", "x2"} -> "sX" [] r \in {"a1", "a2", "a3"} -> "sA"
             [] r = "b1" -> "sB" [] r = "c1" -> "sC"

Needs(r, enforced) == [revision |-> r, slot |-> Slot(r), requires_active |-> enforced]

MCRevisionInfo ==
    [r \in MCRevisions |->
        [revision_id |-> r, slot |-> Slot(r),
         parents |-> CASE r = "a3" -> {"a1"} [] r = "x2" -> {"x1"} [] OTHER -> {},
         dependencies |->
            CASE r = "b1" -> {Needs("a1", TRUE)}
              [] r = "c1" -> {Needs("b1", TRUE), Needs("a2", FALSE)}
              [] r = "a3" -> {Needs("c1", TRUE)}
              [] OTHER -> {}]]

\* Slot sX takes both representatives, the others alice alone.
MCRoles == {"owner", "reviewer"}
MCPolicies == MCSlots
MCPolicyInfo ==
    [p \in MCPolicies |->
        [slot |-> p,
         representative |-> [r \in IF p = "sX" THEN MCRoles ELSE {"owner"} |->
                                IF r = "owner" THEN "alice" ELSE "bob"],
         allowed |-> DecisionKinds]]

Cmd(id, actor, type, input) == [id |-> id, actor |-> actor, type |-> type, input |-> input]

Vote(id, actor, d, p, r, kind, target) ==
    Cmd(id, actor, "decide",
        [decision |-> d, proposal |-> p, revision |-> r, policy |-> Slot(r),
         role |-> IF actor = "alice" THEN "owner" ELSE "reviewer",
         actor |-> actor, kind |-> kind, retracts |-> target, membership_epoch |-> 1])

Start(id, actor, p, g, expected) ==
    Cmd(id, actor, "activate", [proposal |-> p, agreement |-> g, expected |-> expected])

Publish(id, actor, r) ==
    Cmd(id, actor, "publish_revision", [revision |-> r, membership_epoch |-> 1])

Ask(id, actor, p, r) ==
    Cmd(id, actor, "propose", [proposal |-> p, revision |-> r, policy |-> Slot(r)])

DecisionCommands ==
    {Publish("c1", "bot", "x1"),
     Publish("c2", "alice", "x2"),
     Ask("c3", "bot", "p1", "x1"),
     Ask("c4", "alice", "p2", "x2"),
     Vote("c5", "alice", "d1", "p1", "x1", "approve", None),
     Vote("c6", "bob", "d2", "p1", "x1", "approve", None),
     Vote("c7", "alice", "d3", "p2", "x2", "approve", None),
     Vote("c8", "bob", "d4", "p2", "x2", "approve", None),
     Vote("c9", "bob", "d5", "p1", "x1", "object", None),
     Vote("c10", "alice", "d6", "p2", "x2", "abstain", None),
     Vote("c11", "bob", "d7", "p1", "x1", "retract", "d2"),
     \* the second one reuses d1: refused unless it comes first
     Vote("c12", "alice", "d1", "p2", "x2", "approve", None),
     Start("c13", "alice", "p1", "g1", None),
     Start("c14", "bob", "p2", "g2", None),
     Start("c15", "bob", "p2", "g2", "g1"),
     Start("c16", "bob", "p1", "g3", "g2"),
     Cmd("c17", "bob", "withdraw", [agreement |-> "g1"]),
     Cmd("c18", "alice", "suspend", [agreement |-> "g2"]),
     \* back to the first revision, through a new proposal
     Ask("c20", "alice", "p3", "x1"),
     Vote("c21", "alice", "d8", "p3", "x1", "approve", None),
     Vote("c22", "bob", "d9", "p3", "x1", "approve", None),
     Vote("c23", "bob", "d10", "p1", "x1", "approve", None),
     Start("c24", "alice", "p3", "g4", "g2"),
     Start("c25", "alice", "p3", "g4", None),
     Cmd("c19", "bot", "fence", [nonce |-> "n1"])}

\* The other scenario gives every revision one proposal, one approval and at
\* most one agreement, under names the first one uses too, and activates it
\* over the agreement the client saw in the slot.
NumberOf == [a1 |-> 1, a2 |-> 2, a3 |-> 3, b1 |-> 4, c1 |-> 5]
Proposal_(r) == <<"p1", "p2", "p3", "p4", "p5">>[NumberOf[r]]
Approval(r) == <<"d1", "d2", "d3", "d4", "d5">>[NumberOf[r]]
Agreement_(r) == <<"g1", "g2", "g3", "g4", "g5">>[NumberOf[r]]
Expected(r) == {Agreement_(q) : q \in {q \in Chained \ {r} : Slot(q) = Slot(r)}} \union {None}

PerRevision(r) ==
    LET n == NumberOf[r] IN
    {Publish(<<"c1", "c2", "c3", "c4", "c5">>[n], "alice", r),
     Ask(<<"c6", "c7", "c8", "c9", "c10">>[n], "alice", Proposal_(r), r),
     Vote(<<"c11", "c12", "c13", "c14", "c15">>[n], "alice", Approval(r), Proposal_(r), r,
          "approve", None)}
    \union {Start(<<"c16", "c17", "c18", "c19", "c20">>[n], "alice",
                  Proposal_(r), Agreement_(r), e) : e \in Expected(r)}

DependencyCommands ==
    UNION {PerRevision(r) : r \in Chained}
    \union {Vote("c21", "alice", "d6", Proposal_("c1"), "c1", "object", None),
            Cmd("c22", "alice", "withdraw", [agreement |-> Agreement_("b1")]),
            Cmd("c23", "alice", "suspend", [agreement |-> Agreement_("a1")])}

MCCommands == DecisionCommands \union DependencyCommands
MCRevisionIds == MCRevisions
MCProposals == {"p1", "p2", "p3", "p4", "p5"}
MCDecisionIds == {"d1", "d2", "d3", "d4", "d5", "d6", "d7", "d8", "d9", "d10"}
MCAgreements == {"g1", "g2", "g3", "g4", "g5"}
MCNonces == {"n1"}
MCCommandIds == {c.id : c \in MCCommands}

\* A behaviour that began one scenario stays in it.
Played == {ledger'.idempotency[k] : k \in Orgs \X CommandIds} \ {None}
OneScenario ==
    \A s \in {DecisionCommands, DependencyCommands} :
        (\E i \in Played : i.command \in s) => \A i \in Played : i.command \in s

MCSpec == Init /\ [][Next /\ OneScenario]_vars
==============================================================================
