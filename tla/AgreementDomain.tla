--------------------------- MODULE AgreementDomain ---------------------------
(***************************************************************************)
(* The deterministic command engine of packages/domain/index.ts, as        *)
(* operators on a value w of the channel's key-value world state: for      *)
(* every command type a guard (Can...: every check the handler makes       *)
(* before its first put) and an effect (After...: every put it makes).     *)
(* Agreement.tla runs them one command at a time; FabricChannel.tla runs   *)
(* them against a snapshot and orders the resulting writes.                *)
(*                                                                         *)
(* A world is a record with one field per key prefix of KEY_PREFIXES, each *)
(* a function from the rest of the key to the stored value.  None stands   *)
(* for a key that was never written.  Prefix "policy" is left out: it      *)
(* only ever holds a copy of the immutable configuration and no command    *)
(* reads it.  config and eligibility_epoch, which have one key each, share *)
(* the field "channel".                                                    *)
(***************************************************************************)
EXTENDS Integers, FiniteSets, FiniteSetsExt

CONSTANTS
    Actors,        \* authenticated principals, configured or not
    Orgs,          \* their organizations
    Slots,         \* full acceptance slots (channel, document, context, scope, usage)
    Roles,         \* domain roles
    Revisions,     \* revision digests
    RevisionIds,   \* revision_id values chosen by the authors
    Policies,      \* (policy_id, policy_version) pairs of the configuration
    Proposals,     \* proposal_id values
    Decisions,     \* decision_id values
    Agreements,    \* agreement_id values
    Nonces,        \* fence nonces
    CommandIds,    \* command_id values
    Commands,      \* the commands clients may send
    OrgOf,         \* the organization of each actor
    Identity,      \* configured actor -> its entitlement (config.identities)
    RevisionInfo,  \* digest -> the immutable payload it binds
    PolicyInfo,    \* policy -> its slot, representatives and allowed decisions
    MembershipEpoch, \* config.membership_epoch
    ServingEnabled,  \* config.serving_enabled
    MaxDepth,      \* dependency depth limit of resolveInternal (8 in the code)
    MaxNodes,      \* visited-slot limit of resolveInternal (256 in the code)
    None           \* a key that holds nothing

DecisionKinds == {"approve", "object", "abstain", "retract"}

\* A dependency names a revision and the slot it must be active in.
Dependency == [revision : Revisions, slot : Slots, requires_active : BOOLEAN]

RevisionPayload ==
    [revision_id : RevisionIds, slot : Slots, parents : SUBSET Revisions,
     dependencies : SUBSET Dependency]

Entitlement ==
    [human : BOOLEAN, publish : SUBSET Slots, can_propose : BOOLEAN]

Policy ==
    [slot : Slots, representative : UNION {[R -> Actors] : R \in SUBSET Roles},
     allowed : SUBSET DecisionKinds]

\* Command types and the record each one carries as its input.
Inputs(type) ==
    CASE type = "publish_revision" -> [revision : Revisions, membership_epoch : Nat]
      [] type = "propose"  -> [proposal : Proposals, revision : Revisions, policy : Policies]
      [] type = "decide"   -> [decision : Decisions, proposal : Proposals,
                               revision : Revisions, policy : Policies, role : Roles,
                               actor : Actors, kind : DecisionKinds,
                               retracts : Decisions \union {None},
                               membership_epoch : Nat]
      [] type = "activate" -> [proposal : Proposals, agreement : Agreements,
                               expected : Agreements \union {None}]
      [] type \in {"withdraw", "suspend"} -> [agreement : Agreements]
      [] type = "fence"    -> [nonce : Nonces]

CommandTypes ==
    {"publish_revision", "propose", "decide", "activate", "withdraw", "suspend", "fence"}

\* The immutable configuration validateConfig accepts: every policy has one
\* human configured representative for each of its roles, which are finitely
\* many, and nobody fills two roles.
ASSUME ConfigAssumption ==
    /\ OrgOf \in [Actors -> Orgs]
    /\ Identity \in [DOMAIN Identity -> Entitlement]
    /\ DOMAIN Identity \subseteq Actors
    /\ PolicyInfo \in [Policies -> Policy]
    /\ \A p \in Policies :
         LET rep == PolicyInfo[p].representative IN
         /\ DOMAIN rep # {} /\ IsFiniteSet(DOMAIN rep)
         /\ \A r \in DOMAIN rep : rep[r] \in DOMAIN Identity /\ Identity[rep[r]].human
         /\ \A r, s \in DOMAIN rep : rep[r] = rep[s] => r = s
    /\ MembershipEpoch \in Nat /\ ServingEnabled \in BOOLEAN
    /\ MaxDepth \in Nat /\ MaxNodes \in Nat /\ IsFiniteSet(Slots)

\* Revision digests bind their payload; None is not an identifier.
ASSUME InputAssumption ==
    /\ RevisionInfo \in [Revisions -> RevisionPayload]
    /\ None \notin Revisions \union Proposals \union Decisions \union Agreements
    /\ \A c \in Commands :
         /\ c.type \in CommandTypes
         /\ c.id \in CommandIds /\ c.actor \in Actors
         /\ c.input \in Inputs(c.type)
         /\ c = [id |-> c.id, actor |-> c.actor, type |-> c.type, input |-> c.input]

------------------------------------------------------------------------------
(* The stored records. *)

Proposal ==
    [revision : Revisions, policy : Policies, status : {"open", "activated"},
     agreement : Agreements \union {None}, review_counter : Nat]

Decision ==
    [proposal : Proposals, revision : Revisions, policy : Policies, role : Roles,
     actor : Actors, kind : DecisionKinds, retracts : Decisions \union {None}]

AgreementStatus == {"active", "superseded", "withdrawn", "suspended"}

AgreementRecord ==
    [proposal : Proposals, revision : Revisions, policy : Policies,
     approvals : SUBSET Decisions, status : AgreementStatus]

\* What execute returns: a status, the agreement a decision suspended and the
\* eligibility epoch the command observed or produced.
Result ==
    [status : {"published", "already_published", "proposed", "recorded", "active",
               "withdrawn", "suspended", "fenced"},
     agreement : Agreements \union {None}, epoch : Nat \union {None}]

IdempotencyRecord == [command : Commands, result : Result]

World ==
    [channel : [config : BOOLEAN, eligibility_epoch : Nat],
     revision : [Revisions -> BOOLEAN],
     revision_id : [RevisionIds -> Revisions \union {None}],
     proposal : [Proposals -> Proposal \union {None}],
     review_counter : [Proposals -> Nat \union {None}],
     decision : [Decisions -> Decision \union {None}],
     latest_decision : [Proposals \X Roles \X Actors -> Decisions \union {None}],
     agreement : [Agreements -> AgreementRecord \union {None}],
     active_slot : [Slots -> Agreements \union {None}],
     idempotency : [Orgs \X CommandIds -> IdempotencyRecord \union {None}],
     fence : [Nonces -> Nat \union {None}]]

\* None is no stored value.
ASSUME NoneAssumption ==
    None \notin Nat /\ None \notin Proposal /\ None \notin Decision
    /\ None \notin AgreementRecord /\ None \notin IdempotencyRecord

\* The world before bootstrap: nothing is stored.
EmptyWorld ==
    [channel |-> [config |-> FALSE, eligibility_epoch |-> 0],
     revision |-> [r \in Revisions |-> FALSE],
     revision_id |-> [i \in RevisionIds |-> None],
     proposal |-> [p \in Proposals |-> None],
     review_counter |-> [p \in Proposals |-> None],
     decision |-> [d \in Decisions |-> None],
     latest_decision |-> [k \in Proposals \X Roles \X Actors |-> None],
     agreement |-> [g \in Agreements |-> None],
     active_slot |-> [s \in Slots |-> None],
     idempotency |-> [k \in Orgs \X CommandIds |-> None],
     fence |-> [n \in Nonces |-> None]]

SlotOf(r) == RevisionInfo[r].slot
RepresentativeOf(pol, role) == PolicyInfo[pol].representative[role]
RequiredRoles(pol) == DOMAIN PolicyInfo[pol].representative
Required(r) == {d \in RevisionInfo[r].dependencies : d.requires_active}

------------------------------------------------------------------------------
(* What readers are served: resolveAt. *)

\* An agreement's manifest cites exactly one approval per required role, by
\* that role's representative and bound to the agreement's own target.
ApprovalsValid(w, g) ==
    /\ Cardinality(g.approvals) = Cardinality(RequiredRoles(g.policy))
    /\ \A d \in g.approvals : w.decision[d] # None /\ w.decision[d].kind = "approve"
    /\ \A role \in RequiredRoles(g.policy) :
         \E d \in g.approvals :
            /\ w.decision[d].role = role
            /\ w.decision[d].actor = RepresentativeOf(g.policy, role)
            /\ w.decision[d].proposal = g.proposal
            /\ w.decision[d].revision = g.revision
            /\ w.decision[d].policy = g.policy

ActiveAgreement(w, s) == w.agreement[w.active_slot[s]]

\* The slot's own checks in resolveInternal, before it turns to dependencies.
HoldsSlot(w, s) ==
    /\ w.active_slot[s] # None
    /\ ActiveAgreement(w, s) # None
    /\ LET g == ActiveAgreement(w, s) IN
       /\ g.status = "active"
       /\ PolicyInfo[g.policy].slot = s
       /\ ApprovalsValid(w, g)
       /\ w.revision[g.revision]
       /\ SlotOf(g.revision) = s

\* What the walk finds: the revision in force of every slot that passes its
\* own checks.
Held(w) == [s \in {t \in Slots : HoldsSlot(w, t)} |-> ActiveAgreement(w, s).revision]

\* Fault: the walk forgets which slots it came through.
EligibleAnywhere(held) ==
    LET E[seen \in SUBSET Slots] == [s \in Slots |->
          /\ Cardinality(seen) <= MaxDepth
          /\ s \in DOMAIN held
          /\ \A d \in Required(held[s]) :
               /\ s \notin seen => E[seen \union {s}][d.slot]
               /\ d.slot \in DOMAIN held /\ held[d.slot] = d.revision]
    IN  E

\* Eligible(held)[seen][s]: resolveInternal of slot s below the slots in seen
\* (so that Cardinality(seen) is its depth) finds every required dependency
\* active in the very revision it names.
Eligible(held) ==
    LET E[seen \in SUBSET Slots] == [s \in Slots |->
          /\ Cardinality(seen) <= MaxDepth
          /\ s \notin seen
          /\ s \in DOMAIN held
          /\ \A d \in Required(held[s]) :
               /\ E[seen \union {s}][d.slot]
               /\ held[d.slot] = d.revision]
    IN  E

\* Slots resolveInternal visits from s, a slot reached twice counted twice.
Visits(held) ==
    LET V[seen \in SUBSET Slots] == [s \in Slots |->
          IF s \in seen THEN 0
          ELSE 1 + SumFunction([d \in Required(held[s]) |-> V[seen \union {s}][d.slot]])]
    IN  V

\* The agreement a slot resolves to, None when it is not served.
Resolve(w, s) ==
    IF /\ w.channel.config /\ ServingEnabled
       /\ Eligible(Held(w))[{}][s]
       /\ Visits(Held(w))[{}][s] <= MaxNodes
    THEN w.active_slot[s]
    ELSE None

\* Fault: any active revision of the dependency's slot will do.
RequirementSlotServed(held, seen, d) == Eligible(held)[seen][d.slot]

\* A required dependency resolves below the slots in seen, and to the very
\* revision it names.
RequirementMet(held, seen, d) == Eligible(held)[seen][d.slot] /\ held[d.slot] = d.revision

\* dependencyEligible: may revision r become the active one of its slot?
DependencyEligible(held, r) ==
    LET own == {SlotOf(r)} IN
    /\ \A d \in Required(r) :
         /\ d.slot # SlotOf(r)
         /\ ServingEnabled
         /\ RequirementMet(held, own, d)
    /\ SumFunction([d \in Required(r) |-> Visits(held)[own][d.slot]]) <= MaxNodes

------------------------------------------------------------------------------
(* The command handlers: Can... is what each one checks, After... what it  *)
(* puts.  Answer builds the result it returns.                             *)

Answer(status, agreement, epoch) ==
    [status |-> status, agreement |-> agreement, epoch |-> epoch]

Epoch(w) == w.channel.eligibility_epoch

\* requireHuman; configuredIdentity is checked for every command in Accepts.
Human(c) == Identity[c.actor].human

\* The revisions at most n dependency steps away from r, r included.
WithinSteps(r, n) ==
    LET R[i \in 0..n] ==
          IF i = 0 THEN {r}
          ELSE R[i - 1] \union
               {d.revision : d \in UNION {RevisionInfo[q].dependencies : q \in R[i - 1]}}
    IN  R[n]

\* validatePublishedDependencyGraph: every dependency is published in the
\* slot it is said to have (what is published was walked when it was, so the
\* root's own remain), with at most MaxNodes distinct revisions below and
\* including the root.  The walk visits a revision once, so whether a long
\* path counts against MaxDepth depends on the order of the dependencies;
\* here only a revision no short path reaches does.
DependenciesPublished(w, r) ==
    /\ \A d \in RevisionInfo[r].dependencies :
         w.revision[d.revision] /\ SlotOf(d.revision) = d.slot
    /\ WithinSteps(r, MaxDepth + 1) = WithinSteps(r, MaxDepth)
    /\ Cardinality(WithinSteps(r, MaxDepth)) <= MaxNodes

ParentsPublished(w, r) ==
    \A q \in RevisionInfo[r].parents : w.revision[q] /\ SlotOf(q) = SlotOf(r)

CanPublish(w, c) ==
    LET r == c.input.revision IN
    /\ SlotOf(r) \in Identity[c.actor].publish
    /\ ServingEnabled
    /\ c.input.membership_epoch = MembershipEpoch
    /\ \/ w.revision[r]
       \/ /\ w.revision_id[RevisionInfo[r].revision_id] = None
          /\ ParentsPublished(w, r)
          /\ DependenciesPublished(w, r)

AfterPublish(w, c) ==
    LET r == c.input.revision IN
    [w EXCEPT !.revision[r] = TRUE,
              !.revision_id[RevisionInfo[r].revision_id] = r]

PublishAnswer(w, c) ==
    Answer(IF w.revision[c.input.revision] THEN "already_published" ELSE "published",
           None, None)

CanPropose(w, c) ==
    /\ Identity[c.actor].can_propose
    /\ w.revision[c.input.revision]
    /\ PolicyInfo[c.input.policy].slot = SlotOf(c.input.revision)
    /\ w.proposal[c.input.proposal] = None

AfterPropose(w, c) ==
    LET p == c.input.proposal IN
    [w EXCEPT !.proposal[p] = [revision |-> c.input.revision, policy |-> c.input.policy,
                               status |-> "open", agreement |-> None,
                               review_counter |-> 0],
              !.review_counter[p] = 0]

\* The decision record a decide command stores.
DecisionOf(c) ==
    [proposal |-> c.input.proposal, revision |-> c.input.revision,
     policy |-> c.input.policy, role |-> c.input.role, actor |-> c.input.actor,
     kind |-> c.input.kind, retracts |-> c.input.retracts]

LatestKey(d) == <<d.proposal, d.role, d.actor>>

\* Only the actor's own latest decision, not itself a retraction, can be
\* retracted; another kind names no decision to retract.
CanRetract(w, d) ==
    IF d.kind # "retract" THEN d.retracts = None
    ELSE /\ d.retracts # None
         /\ w.decision[d.retracts] # None
         /\ LET target == w.decision[d.retracts] IN
            /\ target.actor = d.actor /\ target.proposal = d.proposal
            /\ target.role = d.role /\ target.kind # "retract"
         /\ w.latest_decision[LatestKey(d)] = d.retracts

\* Fault: a decision identifier may be recorded again.
AnyDecision(w, d) == TRUE

UnusedDecision(w, d) == w.decision[d] = None

\* getActiveAgreement refuses a pointer to a missing or misplaced agreement.
PointerIntact(w, s) ==
    w.active_slot[s] # None =>
        ActiveAgreement(w, s) # None /\ SlotOf(ActiveAgreement(w, s).revision) = s

\* readReviewCounter: the two copies of the counter agree.
CountersAgree(w, p) ==
    w.review_counter[p] \in {None, w.proposal[p].review_counter}

CanDecide(w, c) ==
    LET d == DecisionOf(c)
        p == w.proposal[d.proposal]
    IN
    /\ Human(c)
    /\ p # None
    /\ w.revision[d.revision]
    /\ p.revision = d.revision /\ p.policy = d.policy
    /\ c.input.membership_epoch = MembershipEpoch
    /\ d.kind \in PolicyInfo[d.policy].allowed
    /\ d.role \in RequiredRoles(d.policy)
    /\ RepresentativeOf(d.policy, d.role) = c.actor
    /\ d.actor = c.actor
    /\ PolicyInfo[d.policy].slot = SlotOf(d.revision)
    /\ UnusedDecision(w, c.input.decision)
    /\ CanRetract(w, d)
    /\ CountersAgree(w, d.proposal)
    /\ d.kind # "approve" => PointerIntact(w, SlotOf(d.revision))

\* Recording the decision, its latest pointer and the review counters.
Record(w, c) ==
    LET d == DecisionOf(c)
        n == w.proposal[d.proposal].review_counter + 1
    IN
    [w EXCEPT !.decision[c.input.decision] = d,
              !.latest_decision[LatestKey(d)] = c.input.decision,
              !.proposal[d.proposal].review_counter = n,
              !.review_counter[d.proposal] = n]

\* Fault: only an objection ends an approval.
OnlyObjectionEnds(kind) == kind = "object"

EndsApproval(kind) == kind # "approve"

\* Fault: an agreement of any status can be ended.
InForceOrEnded(w, g) == TRUE

InForce(w, g) == w.agreement[g].status = "active"

\* suspendActiveAgreement: any decision but an approval ends the agreement
\* its own proposal produced, if that agreement is the slot's active one.
Suspends(w, c) ==
    LET s == SlotOf(c.input.revision) IN
    /\ EndsApproval(c.input.kind)
    /\ w.active_slot[s] # None
    /\ InForce(w, w.active_slot[s])
    /\ ActiveAgreement(w, s).proposal = c.input.proposal

\* Fault: the epoch is left as it was.
DeactivateQuietly(w, g, status) ==
    [w EXCEPT !.agreement[g].status = status,
              !.active_slot[SlotOf(w.agreement[g].revision)] = None]

\* End an active agreement: its status, the slot pointer and the epoch.
Deactivate(w, g, status) ==
    [w EXCEPT !.agreement[g].status = status,
              !.active_slot[SlotOf(w.agreement[g].revision)] = None,
              !.channel.eligibility_epoch = @ + 1]

SuspendedBy(w, c) ==
    IF Suspends(w, c) THEN w.active_slot[SlotOf(c.input.revision)] ELSE None

AfterDecide(w, c) ==
    IF Suspends(w, c)
    THEN Deactivate(Record(w, c), SuspendedBy(w, c), "suspended")
    ELSE Record(w, c)

\* The latest decision of the role's representative on proposal p, if any.
LatestOf(w, p, role) ==
    w.latest_decision[<<p, role, RepresentativeOf(w.proposal[p].policy, role)>>]

\* The role's representative currently approves exactly this proposal.
Approves(w, p, role) ==
    LET l == LatestOf(w, p, role)
        d == w.decision[l]
    IN
    /\ l # None
    /\ d # None
    /\ d.kind = "approve"
    /\ d.actor = RepresentativeOf(w.proposal[p].policy, role) /\ d.role = role
    /\ d.proposal = p
    /\ d.revision = w.proposal[p].revision
    /\ d.policy = w.proposal[p].policy

\* Fault: an activated proposal can be activated again.
ProposalReusable(w, p) == TRUE

\* A proposal is consumed by its first activation.
ProposalOpen(w, p) == w.proposal[p].status = "open"

CanActivate(w, c) ==
    LET p == w.proposal[c.input.proposal]
        s == SlotOf(p.revision)
    IN
    /\ Human(c)
    /\ p # None
    /\ CountersAgree(w, c.input.proposal)
    /\ ProposalOpen(w, c.input.proposal)
    /\ w.revision[p.revision]
    /\ PolicyInfo[p.policy].slot = s
    /\ PointerIntact(w, s)
    /\ w.active_slot[s] = c.input.expected
    /\ w.active_slot[s] # None => ActiveAgreement(w, s).revision # p.revision
    /\ w.agreement[c.input.agreement] = None
    /\ \A role \in RequiredRoles(p.policy) : Approves(w, c.input.proposal, role)
    /\ DependencyEligible(Held(w), p.revision)

\* Fault: the pointer moves but the old agreement stays active.
NotSuperseded(w, s) == w

\* The agreement that was active, if any, is superseded in the same step.
Superseded(w, s) ==
    IF w.active_slot[s] = None THEN w
    ELSE [w EXCEPT !.agreement[w.active_slot[s]].status = "superseded"]

\* The agreement that a proposal becomes, with its approval manifest.
Agreed(w, pid) ==
    LET p == w.proposal[pid] IN
    [proposal |-> pid, revision |-> p.revision, policy |-> p.policy,
     approvals |-> {LatestOf(w, pid, role) : role \in RequiredRoles(p.policy)},
     status |-> "active"]

AfterActivate(w, c) ==
    LET pid == c.input.proposal
        s == SlotOf(w.proposal[pid].revision)
    IN
    [Superseded(w, s) EXCEPT
        !.channel.eligibility_epoch = @ + 1,
        !.agreement[c.input.agreement] = Agreed(w, pid),
        !.active_slot[s] = c.input.agreement,
        !.proposal[pid].status = "activated",
        !.proposal[pid].agreement = c.input.agreement]

\* withdraw and suspend: any named representative of the agreement's policy.
CanChangeStatus(w, c) ==
    LET g == w.agreement[c.input.agreement] IN
    /\ Human(c)
    /\ g # None
    /\ \E role \in RequiredRoles(g.policy) : RepresentativeOf(g.policy, role) = c.actor
    /\ InForce(w, c.input.agreement)

\* Fault: the command's name is stored as the status.
CommandAsStatus(c) == c.type

DesiredStatus(c) == IF c.type = "withdraw" THEN "withdrawn" ELSE "suspended"

AfterStatusChange(w, c) == Deactivate(w, c.input.agreement, DesiredStatus(c))

CanFence(w, c) == ServingEnabled /\ w.fence[c.input.nonce] = None

AfterFence(w, c) == [w EXCEPT !.fence[c.input.nonce] = Epoch(w)]

------------------------------------------------------------------------------
(* execute: identity, idempotency, dispatch, idempotency record. *)

IdempotencyKey(c) == <<OrgOf[c.actor], c.id>>

\* performCommand's dispatch: the handler of c's type does not refuse it.
Can(w, c) ==
    \/ c.type = "publish_revision" /\ CanPublish(w, c)
    \/ c.type = "propose" /\ CanPropose(w, c)
    \/ c.type = "decide" /\ CanDecide(w, c)
    \/ c.type = "activate" /\ CanActivate(w, c)
    \/ c.type \in {"withdraw", "suspend"} /\ CanChangeStatus(w, c)
    \/ c.type = "fence" /\ CanFence(w, c)

After(w, c) ==
    CASE c.type = "publish_revision" -> AfterPublish(w, c)
      [] c.type = "propose" -> AfterPropose(w, c)
      [] c.type = "decide" -> AfterDecide(w, c)
      [] c.type = "activate" -> AfterActivate(w, c)
      [] c.type \in {"withdraw", "suspend"} -> AfterStatusChange(w, c)
      [] c.type = "fence" -> AfterFence(w, c)

ResultOf(w, c) ==
    CASE c.type = "publish_revision" -> PublishAnswer(w, c)
      [] c.type = "propose" -> Answer("proposed", None, None)
      [] c.type = "decide" -> Answer("recorded", SuspendedBy(w, c), None)
      [] c.type = "activate" -> Answer("active", c.input.agreement, Epoch(w) + 1)
      [] c.type \in {"withdraw", "suspend"} ->
            Answer(DesiredStatus(c), c.input.agreement, Epoch(w) + 1)
      [] c.type = "fence" -> Answer("fenced", None, Epoch(w))

\* execute reaches performCommand: the channel is bootstrapped, the actor is
\* configured and the organization never recorded this command_id.
Fresh(w, c) ==
    /\ w.channel.config
    /\ c.actor \in DOMAIN Identity
    /\ w.idempotency[IdempotencyKey(c)] = None

Accepts(w, c) == Fresh(w, c) /\ Can(w, c)

\* The world an accepted command leaves, its idempotency record included.
Executed(w, c) ==
    [After(w, c) EXCEPT !.idempotency[IdempotencyKey(c)] =
        [command |-> c, result |-> ResultOf(w, c)]]

\* An exact repeat of a recorded command is answered from the record, with
\* no write; the same command_id with other content is refused.
Replays(w, c) ==
    /\ w.channel.config /\ c.actor \in DOMAIN Identity
    /\ w.idempotency[IdempotencyKey(c)] # None
    /\ w.idempotency[IdempotencyKey(c)].command = c

\* bootstrap installs the configuration once.
Bootstrapped(w) == [w EXCEPT !.channel.config = TRUE, !.channel.eligibility_epoch = 0]
==============================================================================
