--------------------------- MODULE StateValidation ---------------------------
(***************************************************************************)
(* The second opinion on a write set: packages/storage/state-validation.ts *)
(* checks every record a transaction wrote, after all of its writes are    *)
(* staged, before the local ledger commits it or the block projector       *)
(* applies a block.  It repeats relations the domain engine is meant to    *)
(* keep; a write set it refuses halts the projection.                      *)
(***************************************************************************)
EXTENDS AgreementDomain

\* The keys of one prefix that hold another value in v than in w.
Written(w, v, prefix) == {k \in DOMAIN v[prefix] : v[prefix][k] # w[prefix][k]}

\* A record of one of these prefixes is written once (IMMUTABLE_KINDS).
ImmutableKinds == {"revision", "revision_id", "decision", "idempotency", "fence"}

OverwritesImmutable(w, v) ==
    \E prefix \in ImmutableKinds :
        \E k \in Written(w, v, prefix) : w[prefix][k] # EmptyWorld[prefix][k]

RevisionLinks(v, r) ==
    /\ \A parent \in RevisionInfo[r].parents : v.revision[parent] /\ SlotOf(parent) = SlotOf(r)
    /\ \A d \in RevisionInfo[r].dependencies : v.revision[d.revision] /\ SlotOf(d.revision) = d.slot

ProposalLinks(v, p) ==
    LET q == v.proposal[p] IN
    /\ v.revision[q.revision]
    /\ SlotOf(q.revision) = PolicyInfo[q.policy].slot
    /\ v.review_counter[p] = q.review_counter

DecisionLinks(v, d) ==
    LET e == v.decision[d] IN
    /\ v.proposal[e.proposal] # None
    /\ e.revision = v.proposal[e.proposal].revision
    /\ e.policy = v.proposal[e.proposal].policy
    /\ e.role \in RequiredRoles(e.policy) /\ e.actor = RepresentativeOf(e.policy, e.role)

LatestLinks(v, k) ==
    LET e == v.decision[v.latest_decision[k]] IN
    e # None /\ k = <<e.proposal, e.role, e.actor>>

\* An agreement cites exactly one approval of each representative, bound to
\* its own proposal, revision and policy.
AgreementLinks(v, g) ==
    LET a == v.agreement[g]
        FromRole(role) == {d \in a.approvals :
            /\ v.decision[d].role = role
            /\ v.decision[d].actor = RepresentativeOf(a.policy, role)}
    IN
    /\ v.revision[a.revision] /\ SlotOf(a.revision) = PolicyInfo[a.policy].slot
    /\ Cardinality(a.approvals) = Cardinality(RequiredRoles(a.policy))
    /\ \A d \in a.approvals : v.decision[d] # None
    /\ \A role \in RequiredRoles(a.policy) :
         /\ Cardinality(FromRole(role)) = 1
         /\ \A d \in FromRole(role) :
              LET e == v.decision[d] IN
              /\ e.kind = "approve" /\ e.proposal = a.proposal
              /\ e.revision = a.revision /\ e.policy = a.policy

SlotLinks(v, s) ==
    LET g == v.active_slot[s] IN
    g # None => /\ v.agreement[g] # None
                /\ v.agreement[g].status = "active"
                /\ SlotOf(v.agreement[g].revision) = s

\* validateStateLinks of every record that turned w into v.
LinksHold(w, v) ==
    /\ \A i \in Written(w, v, "revision_id") :
         v.revision[v.revision_id[i]] /\ RevisionInfo[v.revision_id[i]].revision_id = i
    /\ \A r \in Written(w, v, "revision") : RevisionLinks(v, r)
    /\ \A p \in Written(w, v, "proposal") : ProposalLinks(v, p)
    /\ \A p \in Written(w, v, "review_counter") :
         v.proposal[p] # None /\ v.proposal[p].review_counter = v.review_counter[p]
    /\ \A d \in Written(w, v, "decision") : DecisionLinks(v, d)
    /\ \A k \in Written(w, v, "latest_decision") : LatestLinks(v, k)
    /\ \A g \in Written(w, v, "agreement") : AgreementLinks(v, g)
    /\ \A s \in Written(w, v, "active_slot") : SlotLinks(v, s)

\* validateStateWrite: every key holds a record of its own schema, named by
\* the identifiers the key was made of.
WellFormed(v) == v \in World

Applicable(w, v) == WellFormed(v) /\ ~OverwritesImmutable(w, v) /\ LinksHold(w, v)
==============================================================================
