------------------------ MODULE AgreementDomain_proofs ------------------------
(***************************************************************************)
(* What the command handlers of AgreementDomain.tla do to any world, for   *)
(* every configuration and every set of identifiers and commands: they     *)
(* write well-typed keys, they keep the invariant Standing and they keep   *)
(* what agreements and decisions say.  Agreement_proofs.tla makes these    *)
(* facts about the serial ledger, FabricChannel_proofs.tla about the       *)
(* channel.                                                                *)
(***************************************************************************)
EXTENDS StateValidation, TLAPS, FiniteSetTheorems, WellFoundedInduction

\* A command is what validateCommand lets through.
LEMMA CommandShape ==
    ASSUME NEW c \in Commands
    PROVE  /\ c.type \in CommandTypes /\ c.id \in CommandIds /\ c.actor \in Actors
           /\ c.input \in Inputs(c.type)
  BY InputAssumption

\* The fields of a decide command.
LEMMA DecideInput ==
    ASSUME NEW c \in Commands, c.type = "decide"
    PROVE  /\ c.input.decision \in Decisions /\ c.input.proposal \in Proposals
           /\ c.input.revision \in Revisions /\ c.input.policy \in Policies
           /\ c.input.role \in Roles /\ c.input.actor \in Actors
           /\ c.input.kind \in DecisionKinds
           /\ c.input.retracts \in Decisions \union {None}
  BY CommandShape DEF Inputs

\* The fields of an activate command.
LEMMA ActivateInput ==
    ASSUME NEW c \in Commands, c.type = "activate"
    PROVE  /\ c.input.proposal \in Proposals /\ c.input.agreement \in Agreements
           /\ c.input.expected \in Agreements \union {None}
  BY CommandShape DEF Inputs

\* The field of a withdraw or suspend command.
LEMMA StatusInput ==
    ASSUME NEW c \in Commands, c.type \in {"withdraw", "suspend"}
    PROVE  c.input.agreement \in Agreements
  BY CommandShape DEF Inputs

\* The revision a publish_revision command carries.
LEMMA PublishInput ==
    ASSUME NEW c \in Commands, c.type = "publish_revision"
    PROVE  c.input.revision \in Revisions
  BY CommandShape DEF Inputs

\* The fields of a propose command.
LEMMA ProposeInput ==
    ASSUME NEW c \in Commands, c.type = "propose"
    PROVE  /\ c.input.proposal \in Proposals /\ c.input.revision \in Revisions
           /\ c.input.policy \in Policies
  BY CommandShape DEF Inputs

\* The nonce of a fence command.
LEMMA FenceInput ==
    ASSUME NEW c \in Commands, c.type = "fence"
    PROVE  c.input.nonce \in Nonces
  BY CommandShape DEF Inputs

\* The slot and the author's identifier a revision digest binds.
LEMMA SlotType ==
    ASSUME NEW r \in Revisions
    PROVE  SlotOf(r) \in Slots /\ RevisionInfo[r].revision_id \in RevisionIds
  BY InputAssumption DEF SlotOf, RevisionPayload

\* The slot an activate command is about.
ActivatedSlot(w, c) == SlotOf(w.proposal[c.input.proposal].revision)

\* executeActivate in one expression.
LEMMA ActivateIs ==
    ASSUME NEW w, NEW c
    PROVE  AfterActivate(w, c) =
             [Superseded(w, ActivatedSlot(w, c)) EXCEPT
                !.channel.eligibility_epoch = @ + 1,
                !.agreement[c.input.agreement] = Agreed(w, c.input.proposal),
                !.active_slot[ActivatedSlot(w, c)] = c.input.agreement,
                !.proposal[c.input.proposal].status = "activated",
                !.proposal[c.input.proposal].agreement = c.input.agreement]
  BY DEF AfterActivate, ActivatedSlot

\* What executeActivate found of the proposal and its slot when it went on.
LEMMA ActivateChecked ==
    ASSUME NEW w \in World, NEW c \in Commands, c.type = "activate", CanActivate(w, c)
    PROVE  LET p == w.proposal[c.input.proposal]
               s == SlotOf(p.revision)
           IN  /\ p \in Proposal /\ p # None /\ p.revision \in Revisions /\ p.policy \in Policies
               /\ s \in Slots /\ w.revision[p.revision] /\ PolicyInfo[p.policy].slot = s
               /\ PointerIntact(w, s) /\ ProposalOpen(w, c.input.proposal)
               /\ w.agreement[c.input.agreement] = None
  <1> DEFINE p == w.proposal[c.input.proposal]
             s == SlotOf(p.revision)
  <1>1. /\ p # None /\ w.revision[p.revision] /\ PolicyInfo[p.policy].slot = s
        /\ PointerIntact(w, s) /\ ProposalOpen(w, c.input.proposal)
        /\ w.agreement[c.input.agreement] = None
    BY DEF CanActivate
  <1>2. p \in Proposal
    <2>1. c.input.proposal \in Proposals
      BY ActivateInput
    <2>2. w.proposal \in [Proposals -> Proposal \union {None}]
      BY DEF World
    <2> QED BY <1>1, <2>1, <2>2
  <1> HIDE DEF p
  <1>3. p.revision \in Revisions /\ p.policy \in Policies
    BY <1>2 DEF Proposal
  <1>4. s \in Slots
    BY <1>3, SlotType
  <1> QED BY <1>1, <1>2, <1>3, <1>4 DEF p

\* executePublish writes well-typed keys.
LEMMA PublishType ==
    ASSUME NEW w \in World, NEW c \in Commands, c.type = "publish_revision"
    PROVE  AfterPublish(w, c) \in World
  BY PublishInput, SlotType DEF AfterPublish, World

\* executePropose writes well-typed keys.
LEMMA ProposeType ==
    ASSUME NEW w \in World, NEW c \in Commands, c.type = "propose"
    PROVE  AfterPropose(w, c) \in World
  BY ProposeInput DEF AfterPropose, World, Proposal

\* executeFence writes well-typed keys.
LEMMA FenceType ==
    ASSUME NEW w \in World, NEW c \in Commands, c.type = "fence"
    PROVE  AfterFence(w, c) \in World
  BY FenceInput DEF AfterFence, World, Epoch

\* Ending an agreement writes a status, the slot pointer and the epoch.
LEMMA DeactivateType ==
    ASSUME NEW w \in World, NEW g \in Agreements, w.agreement[g] # None,
           NEW status \in AgreementStatus
    PROVE  Deactivate(w, g, status) \in World
  <1>1. w.agreement[g] \in AgreementRecord
    BY DEF World
  <1>2. SlotOf(w.agreement[g].revision) \in Slots
    BY <1>1, SlotType DEF AgreementRecord
  <1>3. [w.agreement[g] EXCEPT !.status = status] \in AgreementRecord
    BY <1>1 DEF AgreementRecord
  <1>4. [w.agreement EXCEPT ![g].status = status]
            \in [Agreements -> AgreementRecord \union {None}]
    BY <1>3 DEF World
  <1>5. [w.channel EXCEPT !.eligibility_epoch = @ + 1]
            \in [config : BOOLEAN, eligibility_epoch : Nat]
    BY DEF World
  <1> QED BY <1>2, <1>4, <1>5 DEF Deactivate, World

\* A new review counter, inside its proposal.
LEMMA CounterType ==
    ASSUME NEW w \in World, NEW p \in Proposals, w.proposal[p] # None, NEW n \in Nat
    PROVE  [w.proposal EXCEPT ![p].review_counter = n] \in [Proposals -> Proposal \union {None}]
  <1>1. w.proposal[p] \in Proposal
    BY DEF World
  <1>2. [w.proposal[p] EXCEPT !.review_counter = n] \in Proposal
    BY <1>1 DEF Proposal
  <1> QED BY <1>2 DEF World

\* The first part of executeDecide writes well-typed keys.
LEMMA RecordType ==
    ASSUME NEW w \in World, NEW c \in Commands, c.type = "decide",
           w.proposal[c.input.proposal] # None
    PROVE  Record(w, c) \in World
  <1> DEFINE d == DecisionOf(c)
             n == w.proposal[d.proposal].review_counter + 1
  <1>1. w.proposal[c.input.proposal] \in Proposal
    BY DecideInput DEF World
  <1>2. d \in Decision
    BY DecideInput DEF DecisionOf, Decision
  <1>3. LatestKey(d) \in Proposals \X Roles \X Actors
    BY DecideInput DEF LatestKey, DecisionOf
  <1>4. d.proposal = c.input.proposal
    BY DEF DecisionOf
  <1>5. n \in Nat
    BY <1>1, <1>4 DEF Proposal
  <1>6. [w.proposal EXCEPT ![d.proposal].review_counter = n]
            \in [Proposals -> Proposal \union {None}]
    BY <1>4, <1>5, CounterType, DecideInput
  <1>7. [w.decision EXCEPT ![c.input.decision] = d] \in [Decisions -> Decision \union {None}]
    BY <1>2 DEF World
  <1>8. [w.latest_decision EXCEPT ![LatestKey(d)] = c.input.decision]
            \in [Proposals \X Roles \X Actors -> Decisions \union {None}]
    BY DecideInput DEF World
  <1>9. [w.review_counter EXCEPT ![d.proposal] = n] \in [Proposals -> Nat \union {None}]
    BY <1>5 DEF World
  <1> HIDE DEF d, n
  <1> QED BY <1>6, <1>7, <1>8, <1>9 DEF Record, World, d, n

\* What recording a decision leaves alone.
LEMMA RecordFrame ==
    ASSUME NEW w \in World, NEW c
    PROVE  /\ Record(w, c).agreement = w.agreement
           /\ Record(w, c).active_slot = w.active_slot
  BY DEF Record, World

\* executeDecide, with or without the suspension, writes well-typed keys.
LEMMA DecideType ==
    ASSUME NEW w \in World, NEW c \in Commands, c.type = "decide", CanDecide(w, c)
    PROVE  AfterDecide(w, c) \in World
  <1>1. w.proposal[c.input.proposal] # None
    BY DEF CanDecide, DecisionOf
  <1>2. Record(w, c) \in World
    BY <1>1, RecordType
  <1>3. CASE ~Suspends(w, c)
    BY <1>2, <1>3 DEF AfterDecide
  <1>4. CASE Suspends(w, c)
    <2> DEFINE s == SlotOf(c.input.revision)
    <2>1. s \in Slots
      BY DecideInput, SlotType
    <2>2. SuspendedBy(w, c) \in Agreements /\ w.agreement[SuspendedBy(w, c)] # None
      BY <1>4, <2>1 DEF SuspendedBy, Suspends, CanDecide, PointerIntact, DecisionOf,
                        EndsApproval, ActiveAgreement, World
    <2> QED BY <1>2, <1>4, <2>2, RecordFrame, DeactivateType DEF AfterDecide, AgreementStatus
  <1> QED BY <1>3, <1>4

\* executeStatusChange writes well-typed keys.
LEMMA StatusType ==
    ASSUME NEW w \in World, NEW c \in Commands, c.type \in {"withdraw", "suspend"},
           CanChangeStatus(w, c)
    PROVE  AfterStatusChange(w, c) \in World
  BY StatusInput, DeactivateType
     DEF AfterStatusChange, CanChangeStatus, DesiredStatus, AgreementStatus

\* The world an activation starts from: the agreement it replaces superseded.
LEMMA SupersededType ==
    ASSUME NEW w \in World, NEW s \in Slots, PointerIntact(w, s)
    PROVE  /\ Superseded(w, s) \in World
           /\ Superseded(w, s).proposal = w.proposal
           /\ Superseded(w, s).active_slot = w.active_slot
           /\ Superseded(w, s).channel = w.channel
  <1>1. CASE w.active_slot[s] = None
    BY <1>1 DEF Superseded
  <1>2. CASE w.active_slot[s] # None
    <2> DEFINE g == w.active_slot[s]
    <2>1. g \in Agreements /\ w.agreement[g] \in AgreementRecord
      BY <1>2 DEF World, PointerIntact, ActiveAgreement
    <2>2. [w.agreement[g] EXCEPT !.status = "superseded"] \in AgreementRecord
      BY <2>1 DEF AgreementRecord, AgreementStatus
    <2>3. [w.agreement EXCEPT ![g].status = "superseded"]
             \in [Agreements -> AgreementRecord \union {None}]
      BY <2>2 DEF World
    <2> QED BY <1>2, <2>3 DEF Superseded, World
  <1> QED BY <1>1, <1>2

\* The manifest of a new agreement cites recorded decisions.
LEMMA ManifestType ==
    ASSUME NEW w \in World, NEW c \in Commands, c.type = "activate", CanActivate(w, c)
    PROVE  LET pid == c.input.proposal IN
           {LatestOf(w, pid, role) : role \in RequiredRoles(w.proposal[pid].policy)}
              \subseteq Decisions
  <1> DEFINE pid == c.input.proposal
             p == w.proposal[pid]
  <1>1. pid \in Proposals /\ p \in Proposal
    BY ActivateInput DEF CanActivate, World
  <1> SUFFICES ASSUME NEW role \in RequiredRoles(p.policy)
               PROVE  LatestOf(w, pid, role) \in Decisions
    OBVIOUS
  <1>2. role \in Roles /\ RepresentativeOf(p.policy, role) \in Actors
    BY <1>1, ConfigAssumption DEF RequiredRoles, RepresentativeOf, Policy, Proposal
  <1>3. LatestOf(w, pid, role) \in Decisions \union {None}
    BY <1>1, <1>2 DEF LatestOf, World
  <1> QED BY <1>3 DEF CanActivate, Approves

\* executeActivate writes well-typed keys.
LEMMA ActivateType ==
    ASSUME NEW w \in World, NEW c \in Commands, c.type = "activate", CanActivate(w, c)
    PROVE  AfterActivate(w, c) \in World
  <1> DEFINE pid == c.input.proposal
             p == w.proposal[pid]
             s == SlotOf(p.revision)
             v == Superseded(w, s)
             g == Agreed(w, pid)
  <1>1. pid \in Proposals /\ c.input.agreement \in Agreements
    BY ActivateInput
  <1>2. p \in Proposal /\ s \in Slots
    BY ActivateChecked
  <1>3. v \in World /\ v.proposal = w.proposal /\ v.channel = w.channel
    BY <1>2, SupersededType DEF CanActivate
  <1>4. {LatestOf(w, pid, role) : role \in RequiredRoles(p.policy)} \subseteq Decisions
    BY ManifestType
  <1>5. g \in AgreementRecord
    BY <1>1, <1>2, <1>4 DEF AgreementRecord, AgreementStatus, Proposal, Agreed
  <1>6. [v.agreement EXCEPT ![c.input.agreement] = g]
           \in [Agreements -> AgreementRecord \union {None}]
    BY <1>3, <1>5 DEF World
  <1>7. [p EXCEPT !.status = "activated", !.agreement = c.input.agreement] \in Proposal
    BY <1>1, <1>2 DEF Proposal
  <1>8. [v.proposal EXCEPT ![pid].status = "activated",
                           ![pid].agreement = c.input.agreement]
           \in [Proposals -> Proposal \union {None}]
    BY <1>1, <1>3, <1>7 DEF World
  <1>9. [v.channel EXCEPT !.eligibility_epoch = @ + 1]
           \in [config : BOOLEAN, eligibility_epoch : Nat]
    <2>1. [w.channel EXCEPT !.eligibility_epoch = @ + 1]
             \in [config : BOOLEAN, eligibility_epoch : Nat]
      BY DEF World
    <2> QED BY <1>3, <2>1
  <1>10. [v.active_slot EXCEPT ![s] = c.input.agreement] \in [Slots -> Agreements \union {None}]
    BY <1>1, <1>3 DEF World
  <1>11. AfterActivate(w, c) = [v EXCEPT !.channel.eligibility_epoch = @ + 1,
                 !.agreement[c.input.agreement] = g, !.active_slot[s] = c.input.agreement,
                 !.proposal[pid].status = "activated", !.proposal[pid].agreement = c.input.agreement]
    BY ActivateIs DEF ActivatedSlot
  <1> DEFINE channel == [v.channel EXCEPT !.eligibility_epoch = @ + 1]
             agreement == [v.agreement EXCEPT ![c.input.agreement] = g]
             pointer == [v.active_slot EXCEPT ![s] = c.input.agreement]
             proposal == [v.proposal EXCEPT ![pid].status = "activated", ![pid].agreement = c.input.agreement]
  <1> HIDE DEF g, v, s, p, pid
  <1>12. AfterActivate(w, c) = [v EXCEPT !.channel = channel, !.agreement = agreement,
                                         !.active_slot = pointer, !.proposal = proposal]
    BY <1>3, <1>11, ZenonT(40) DEF World
  <1>13. /\ channel \in [config : BOOLEAN, eligibility_epoch : Nat]
         /\ agreement \in [Agreements -> AgreementRecord \union {None}]
         /\ pointer \in [Slots -> Agreements \union {None}]
         /\ proposal \in [Proposals -> Proposal \union {None}]
    BY <1>6, <1>8, <1>9, <1>10
  <1> HIDE DEF channel, agreement, pointer, proposal
  <1> QED BY <1>3, <1>12, <1>13, ZenonT(40) DEF World

\* performCommand: whichever handler runs, the world stays well-typed.
LEMMA AfterType ==
    ASSUME NEW w \in World, NEW c \in Commands, Can(w, c)
    PROVE  After(w, c) \in World
  <1>1. CASE c.type = "publish_revision"
    BY <1>1, PublishType DEF After
  <1>2. CASE c.type = "propose"
    BY <1>2, ProposeType DEF After
  <1>3. CASE c.type = "decide"
    BY <1>3, DecideType DEF After, Can
  <1>4. CASE c.type = "activate"
    BY <1>4, ActivateType DEF After, Can
  <1>5. CASE c.type \in {"withdraw", "suspend"}
    BY <1>5, StatusType DEF After, Can
  <1>6. CASE c.type = "fence"
    BY <1>6, FenceType DEF After
  <1> QED BY <1>1, <1>2, <1>3, <1>4, <1>5, <1>6, CommandShape DEF CommandTypes

\* Every handler answers with a well-typed result.
LEMMA ResultType ==
    ASSUME NEW w \in World, NEW c \in Commands, Can(w, c)
    PROVE  ResultOf(w, c) \in Result
  <1>0. Epoch(w) \in Nat /\ Epoch(w) + 1 \in Nat
    BY DEF Epoch, World
  <1>1. CASE c.type = "publish_revision"
    BY <1>1 DEF ResultOf, PublishAnswer, Answer, Result
  <1>2. CASE c.type = "propose"
    BY <1>2 DEF ResultOf, Answer, Result
  <1>3. CASE c.type = "decide"
    <2>1. SlotOf(c.input.revision) \in Slots
      BY <1>3, DecideInput, SlotType
    <2>2. SuspendedBy(w, c) \in Agreements \union {None}
      BY <2>1 DEF SuspendedBy, World
    <2> QED BY <1>3, <2>2 DEF ResultOf, Answer, Result
  <1>4. CASE c.type = "activate"
    BY <1>0, <1>4, ActivateInput DEF ResultOf, Answer, Result
  <1>5. CASE c.type \in {"withdraw", "suspend"}
    BY <1>0, <1>5, StatusInput DEF ResultOf, Answer, Result, DesiredStatus
  <1>6. CASE c.type = "fence"
    BY <1>0, <1>6 DEF ResultOf, Answer, Result
  <1> QED BY <1>1, <1>2, <1>3, <1>4, <1>5, <1>6, CommandShape DEF CommandTypes

\* execute: the same with the idempotency record.
LEMMA ExecutedType ==
    ASSUME NEW w \in World, NEW c \in Commands, Accepts(w, c)
    PROVE  Executed(w, c) \in World
  <1>1. After(w, c) \in World
    BY AfterType DEF Accepts
  <1>2. [command |-> c, result |-> ResultOf(w, c)] \in IdempotencyRecord
    BY ResultType DEF Accepts, IdempotencyRecord
  <1>3. IdempotencyKey(c) \in Orgs \X CommandIds
    BY CommandShape, ConfigAssumption DEF IdempotencyKey
  <1> QED BY <1>1, <1>2, <1>3 DEF Executed, World

------------------------------------------------------------------------------
(* The inductive invariant: type correctness, the exact slot pointer, the   *)
(* one agreement of each activated proposal and the standing approvals.     *)
(* ActiveStillApproved needs the other three: the decision that withdraws   *)
(* an approval names a revision, and only through ProposalConsumedOnce and  *)
(* ActivePointerExact is that revision's slot the one that points at the    *)
(* agreement the proposal produced.                                         *)

\* ActivePointerExact, of any world.
Exact(w) ==
    /\ \A g \in Agreements :
         w.agreement[g] # None =>
            (w.agreement[g].status = "active"
               <=> w.active_slot[SlotOf(w.agreement[g].revision)] = g)
    /\ \A s \in Slots :
         LET g == w.active_slot[s] IN
         g # None => w.agreement[g] # None /\ SlotOf(w.agreement[g].revision) = s

\* ProposalConsumedOnce, of any world.
Consumed(w) ==
    \A g \in Agreements :
        w.agreement[g] # None =>
            LET p == w.agreement[g].proposal IN
            /\ w.proposal[p] # None
            /\ w.proposal[p].status = "activated"
            /\ w.proposal[p].agreement = g
            /\ w.proposal[p].revision = w.agreement[g].revision
            /\ w.proposal[p].policy = w.agreement[g].policy

\* ActiveStillApproved, of any world.
StillApproved(w) ==
    \A g \in Agreements :
        (w.agreement[g] # None /\ w.agreement[g].status = "active") =>
            \A role \in RequiredRoles(w.agreement[g].policy) :
                Approves(w, w.agreement[g].proposal, role)

\* The inductive invariant.
Standing(w) == w \in World /\ Exact(w) /\ Consumed(w) /\ StillApproved(w)

\* The idempotency record touches no other key.
LEMMA ExecutedFrame ==
    ASSUME NEW w \in World, NEW c \in Commands, Can(w, c)
    PROVE  /\ Executed(w, c).agreement = After(w, c).agreement
           /\ Executed(w, c).active_slot = After(w, c).active_slot
           /\ Executed(w, c).proposal = After(w, c).proposal
           /\ Executed(w, c).decision = After(w, c).decision
           /\ Executed(w, c).latest_decision = After(w, c).latest_decision
  BY AfterType DEF Executed, World

\* Whether a proposal is approved depends on these keys only.
LEMMA ApprovesFrame ==
    ASSUME NEW w, NEW v, NEW p, NEW role,
           v.decision = w.decision, v.latest_decision = w.latest_decision,
           v.proposal[p].policy = w.proposal[p].policy,
           v.proposal[p].revision = w.proposal[p].revision,
           Approves(w, p, role)
    PROVE  Approves(v, p, role)
  BY DEF Approves, LatestOf

\* A command that leaves agreements, pointers and decisions alone and changes
\* no stored proposal keeps every agreement standing.
LEMMA QuietStep ==
    ASSUME NEW w, Standing(w), NEW v \in World,
           v.agreement = w.agreement, v.active_slot = w.active_slot,
           v.decision = w.decision, v.latest_decision = w.latest_decision,
           \A p \in Proposals : w.proposal[p] # None => v.proposal[p] = w.proposal[p]
    PROVE  Standing(v)
  <1>1. \A g \in Agreements :
            w.agreement[g] # None => w.agreement[g].proposal \in Proposals
    BY DEF Standing, World, AgreementRecord
  <1>2. Exact(v)
    BY DEF Standing, Exact
  <1>3. Consumed(v)
    BY <1>1 DEF Standing, Consumed
  <1>4. StillApproved(v)
    <2> SUFFICES ASSUME NEW g \in Agreements, w.agreement[g] # None,
                        w.agreement[g].status = "active",
                        NEW role \in RequiredRoles(w.agreement[g].policy)
                 PROVE  Approves(v, w.agreement[g].proposal, role)
      BY DEF StillApproved
    <2>1. Approves(w, w.agreement[g].proposal, role)
      BY DEF Standing, StillApproved
    <2>2. v.proposal[w.agreement[g].proposal] = w.proposal[w.agreement[g].proposal]
      BY <1>1 DEF Standing, Consumed
    <2> QED BY <2>1, <2>2, ApprovesFrame
  <1> QED BY <1>2, <1>3, <1>4 DEF Standing

\* Ending one active agreement (withdraw, suspend, a decision against it)
\* keeps all others standing, even if that one had lost its approvals.
LEMMA DeactivateStanding ==
    ASSUME NEW w \in World, Exact(w), Consumed(w),
           NEW g \in Agreements, w.agreement[g] # None, w.agreement[g].status = "active",
           NEW status \in AgreementStatus \ {"active"},
           \A h \in Agreements \ {g} :
              (w.agreement[h] # None /\ w.agreement[h].status = "active") =>
                 \A role \in RequiredRoles(w.agreement[h].policy) :
                    Approves(w, w.agreement[h].proposal, role)
    PROVE  Standing(Deactivate(w, g, status))
  <1> DEFINE v == Deactivate(w, g, status)
             s == SlotOf(w.agreement[g].revision)
  <1>1. w.agreement[g] \in AgreementRecord /\ s \in Slots
    BY SlotType DEF World, AgreementRecord
  <1>2. v \in World
    BY DeactivateType
  <1>3. /\ v.proposal = w.proposal /\ v.decision = w.decision
        /\ v.latest_decision = w.latest_decision
        /\ v.active_slot = [w.active_slot EXCEPT ![s] = None]
        /\ v.agreement = [w.agreement EXCEPT ![g].status = status]
    BY DEF Deactivate, World
  <1>4. /\ v.agreement[g] = [w.agreement[g] EXCEPT !.status = status]
        /\ \A h \in Agreements \ {g} : v.agreement[h] = w.agreement[h]
    BY <1>3 DEF World
  <1>5. /\ v.agreement[g].status = status
        /\ v.agreement[g].revision = w.agreement[g].revision
        /\ v.agreement[g].policy = w.agreement[g].policy
        /\ v.agreement[g].proposal = w.agreement[g].proposal
    BY <1>1, <1>4 DEF AgreementRecord
  <1>6. v.active_slot[s] = None /\ \A t \in Slots \ {s} : v.active_slot[t] = w.active_slot[t]
    BY <1>1, <1>3 DEF World
  <1>7. w.active_slot[s] = g
    BY DEF Exact
  <1>8. \A h \in Agreements : w.agreement[h] # None => SlotOf(w.agreement[h].revision) \in Slots
    BY SlotType DEF World, AgreementRecord
  <1> HIDE DEF v, s
  <1>9. \A h \in Agreements \ {g} : h # None
    BY InputAssumption
  <1>10. Exact(v)
    <2>1. ASSUME NEW h \in Agreements, v.agreement[h] # None
          PROVE  v.agreement[h].status = "active"
                   <=> v.active_slot[SlotOf(v.agreement[h].revision)] = h
      <3>1. CASE h = g
        BY <1>1, <1>5, <1>6, <3>1, InputAssumption DEF s
      <3>2. CASE h # g
        BY <1>4, <1>6, <1>7, <1>8, <1>9, <2>1, <3>2 DEF Exact
      <3> QED BY <3>1, <3>2
    <2>2. ASSUME NEW t \in Slots, v.active_slot[t] # None
          PROVE  /\ v.agreement[v.active_slot[t]] # None
                 /\ SlotOf(v.agreement[v.active_slot[t]].revision) = t
      <3>1. t # s /\ v.active_slot[t] = w.active_slot[t]
        BY <1>6, <2>2
      <3>2. /\ w.active_slot[t] \in Agreements
            /\ w.agreement[w.active_slot[t]] # None
            /\ SlotOf(w.agreement[w.active_slot[t]].revision) = t
        BY <2>2, <3>1 DEF Exact, World
      <3>3. w.active_slot[t] # g
        BY <3>1, <3>2 DEF s
      <3> QED BY <1>4, <3>1, <3>2, <3>3
    <2> QED BY <2>1, <2>2 DEF Exact
  <1>11. Consumed(v)
    <2>1. ASSUME NEW h \in Agreements, v.agreement[h] # None
          PROVE  /\ w.agreement[h] # None
                 /\ v.agreement[h].proposal = w.agreement[h].proposal
                 /\ v.agreement[h].revision = w.agreement[h].revision
                 /\ v.agreement[h].policy = w.agreement[h].policy
      BY <1>4, <1>5, <2>1
    <2>2. v.proposal = w.proposal
      BY <1>3
    <2> QED BY <2>1, <2>2 DEF Consumed
  <1>12. StillApproved(v)
    <2> SUFFICES ASSUME NEW h \in Agreements, v.agreement[h] # None,
                        v.agreement[h].status = "active",
                        NEW role \in RequiredRoles(v.agreement[h].policy)
                 PROVE  Approves(v, v.agreement[h].proposal, role)
      BY DEF StillApproved
    <2>1. h # g
      BY <1>5
    <2>2. Approves(w, w.agreement[h].proposal, role) /\ v.agreement[h] = w.agreement[h]
      BY <1>4, <2>1
    <2> QED BY <1>3, <2>2, ApprovesFrame
  <1> QED BY <1>2, <1>10, <1>11, <1>12 DEF Standing, v

\* withdraw and suspend.
LEMMA StatusStanding ==
    ASSUME NEW w, Standing(w), NEW c \in Commands, c.type \in {"withdraw", "suspend"},
           CanChangeStatus(w, c)
    PROVE  Standing(AfterStatusChange(w, c))
  <1>1. DesiredStatus(c) \in AgreementStatus \ {"active"}
    BY DEF DesiredStatus, AgreementStatus
  <1>2. /\ w.agreement[c.input.agreement] # None
        /\ w.agreement[c.input.agreement].status = "active"
    BY DEF CanChangeStatus, InForce
  <1> QED BY <1>1, <1>2, StatusInput, DeactivateStanding
          DEF AfterStatusChange, Standing, StillApproved

\* Recording a decision leaves every active agreement approved, save one: the
\* agreement of the slot whose approval this decision takes back, which is
\* the one suspendActiveAgreement then ends.
LEMMA RecordStanding ==
    ASSUME NEW w, Standing(w), NEW c \in Commands, c.type = "decide", CanDecide(w, c)
    PROVE  /\ Exact(Record(w, c)) /\ Consumed(Record(w, c))
           /\ \A h \in Agreements :
                (w.agreement[h] # None /\ w.agreement[h].status = "active") =>
                   \/ Suspends(w, c) /\ w.active_slot[SlotOf(c.input.revision)] = h
                   \/ \A role \in RequiredRoles(w.agreement[h].policy) :
                        Approves(Record(w, c), w.agreement[h].proposal, role)
  <1> DEFINE d == DecisionOf(c)
             id == c.input.decision
             pid == c.input.proposal
             n == w.proposal[pid].review_counter + 1
             r == Record(w, c)
  <1>1. w \in World /\ id \in Decisions /\ pid \in Proposals
    BY DecideInput DEF Standing
  <1>2. /\ d.proposal = pid /\ d.role = c.input.role /\ d.actor = c.input.actor
        /\ d.kind = c.input.kind /\ d.revision = c.input.revision
        /\ d.policy = c.input.policy
    BY DEF DecisionOf
  <1>3. /\ w.proposal[pid] # None /\ w.proposal[pid].revision = d.revision
        /\ w.proposal[pid].policy = d.policy /\ w.decision[id] = None
        /\ RepresentativeOf(d.policy, d.role) = d.actor
    BY <1>2 DEF CanDecide, UnusedDecision
  <1>4. w.proposal[pid] \in Proposal /\ r \in World
    BY <1>1, <1>3, RecordType, ZenonT(40) DEF World
  <1>5. /\ r.agreement = w.agreement /\ r.active_slot = w.active_slot
        /\ r.decision = [w.decision EXCEPT ![id] = d]
        /\ r.latest_decision = [w.latest_decision EXCEPT ![LatestKey(d)] = id]
        /\ r.proposal = [w.proposal EXCEPT ![pid].review_counter = n]
    BY <1>1, <1>2 DEF Record, World
  <1>6. LatestKey(d) = <<pid, d.role, d.actor>>
        /\ LatestKey(d) \in Proposals \X Roles \X Actors
    BY <1>2, DecideInput DEF LatestKey
  <1>7. /\ r.decision[id] = d
        /\ \A e \in Decisions \ {id} : r.decision[e] = w.decision[e]
        /\ r.latest_decision[LatestKey(d)] = id
        /\ \A k \in Proposals \X Roles \X Actors :
              k # LatestKey(d) => r.latest_decision[k] = w.latest_decision[k]
    BY <1>1, <1>5, <1>6 DEF World
  <1>8. /\ r.proposal[pid] = [w.proposal[pid] EXCEPT !.review_counter = n]
        /\ \A q \in Proposals \ {pid} : r.proposal[q] = w.proposal[q]
    BY <1>1, <1>5 DEF World
  <1>9. n \in Nat /\ r.proposal[pid] \in Proposal
    BY <1>4, <1>8 DEF Proposal
  <1> HIDE DEF d, id, pid, n, r
  <1>10. \A q \in Proposals :
            /\ r.proposal[q] = None <=> w.proposal[q] = None
            /\ w.proposal[q] # None =>
                 /\ r.proposal[q].status = w.proposal[q].status
                 /\ r.proposal[q].agreement = w.proposal[q].agreement
                 /\ r.proposal[q].revision = w.proposal[q].revision
                 /\ r.proposal[q].policy = w.proposal[q].policy
    BY <1>3, <1>4, <1>8, <1>9, NoneAssumption DEF Proposal
  <1>11. \A h \in Agreements : w.agreement[h] # None =>
            /\ w.agreement[h] \in AgreementRecord
            /\ w.agreement[h].proposal \in Proposals
            /\ w.agreement[h].policy \in Policies
    BY <1>1 DEF World, AgreementRecord
  <1>12. Exact(r)
    BY <1>5 DEF Standing, Exact
  <1>13. Consumed(r)
    BY <1>5, <1>10, <1>11 DEF Standing, Consumed
  <1>14. ASSUME NEW h \in Agreements, w.agreement[h] # None, w.agreement[h].status = "active",
                NEW role \in RequiredRoles(w.agreement[h].policy),
                ~Approves(r, w.agreement[h].proposal, role)
         PROVE  Suspends(w, c) /\ w.active_slot[SlotOf(c.input.revision)] = h
    <2> DEFINE q == w.agreement[h].proposal
               pol == w.agreement[h].policy
               rep == RepresentativeOf(pol, role)
               k == <<q, role, rep>>
    <2>1. /\ q \in Proposals /\ w.proposal[q] # None /\ w.proposal[q].policy = pol
          /\ w.proposal[q].revision = w.agreement[h].revision
      BY <1>11, <1>14 DEF Standing, Consumed
    <2>2. role \in Roles /\ rep \in Actors
      BY <1>11, <1>14, ConfigAssumption DEF RequiredRoles, RepresentativeOf, Policy
    <2>3. k \in Proposals \X Roles \X Actors
      BY <2>1, <2>2
    <2>4. Approves(w, q, role)
      BY <1>14 DEF Standing, StillApproved
    <2>5. LatestOf(w, q, role) = w.latest_decision[k]
          /\ LatestOf(r, q, role) = r.latest_decision[k]
      BY <1>10, <2>1 DEF LatestOf
    <2>6. w.latest_decision[k] \in Decisions /\ w.latest_decision[k] # id
      BY <1>1, <1>3, <2>3, <2>4, <2>5 DEF World, Approves
    <2>7. k = LatestKey(d)
      <3> SUFFICES ASSUME k # LatestKey(d) PROVE FALSE
        OBVIOUS
      <3>1. r.latest_decision[k] = w.latest_decision[k]
        BY <1>7, <2>3
      <3>2. r.decision[w.latest_decision[k]] = w.decision[w.latest_decision[k]]
        BY <1>7, <2>6
      <3>3. r.proposal[q].policy = w.proposal[q].policy
            /\ r.proposal[q].revision = w.proposal[q].revision
        BY <1>10, <2>1
      <3> HIDE DEF k
      <3> QED BY <1>14, <2>4, <2>5, <3>1, <3>2, <3>3 DEF Approves
    <2>8. q = pid /\ role = d.role /\ rep = d.actor
      BY <1>6, <2>7
    <2>9. d.kind # "approve"
      <3> SUFFICES ASSUME d.kind = "approve" PROVE FALSE
        OBVIOUS
      <3>1. LatestOf(r, q, role) = id /\ r.decision[id] = d
        BY <1>7, <2>5, <2>7
      <3>2. id # None /\ d # None
        BY <1>1, <1>7, <1>9, DecideInput, InputAssumption, NoneAssumption
           DEF DecisionOf, Decision, d
      <3>3. r.proposal[q].policy = pol /\ r.proposal[q].revision = w.proposal[q].revision
        BY <1>10, <2>1
      <3>4. d.proposal = q /\ d.revision = r.proposal[q].revision
            /\ d.policy = r.proposal[q].policy /\ d.role = role
            /\ d.actor = RepresentativeOf(r.proposal[q].policy, role)
        BY <1>2, <1>3, <2>1, <2>8, <3>3
      <3> QED BY <1>14, <3>1, <3>2, <3>4 DEF Approves
    <2>10. c.input.revision = w.agreement[h].revision
      BY <1>2, <1>3, <2>1, <2>8
    <2>11. w.active_slot[SlotOf(c.input.revision)] = h
      BY <1>14, <2>10 DEF Standing, Exact
    <2> QED BY <1>2, <1>14, <2>8, <2>9, <2>11, InputAssumption
            DEF Suspends, EndsApproval, InForce, ActiveAgreement, pid
  <1> QED BY <1>12, <1>13, <1>14 DEF r

\* decide, the suspension it may cause included.
LEMMA DecideStanding ==
    ASSUME NEW w, Standing(w), NEW c \in Commands, c.type = "decide", CanDecide(w, c)
    PROVE  Standing(AfterDecide(w, c))
  <1> DEFINE r == Record(w, c)
             g == w.active_slot[SlotOf(c.input.revision)]
  <1>1. r \in World /\ r.agreement = w.agreement
    BY RecordType, RecordFrame DEF Standing, CanDecide, DecisionOf
  <1>2. CASE ~Suspends(w, c)
    <2>1. StillApproved(r)
      BY <1>1, <1>2, RecordStanding DEF StillApproved
    <2> QED BY <1>1, <1>2, <2>1, RecordStanding DEF AfterDecide, Standing
  <1>3. CASE Suspends(w, c)
    <2>1. SlotOf(c.input.revision) \in Slots
      BY DecideInput, SlotType
    <2>2. g \in Agreements /\ w.agreement[g] # None /\ w.agreement[g].status = "active"
      BY <1>3, <2>1 DEF Suspends, Standing, Exact, World, InForce
    <2>3. \A h \in Agreements \ {g} :
             (r.agreement[h] # None /\ r.agreement[h].status = "active") =>
                \A role \in RequiredRoles(r.agreement[h].policy) :
                   Approves(r, r.agreement[h].proposal, role)
      BY <1>1, RecordStanding
    <2>4. Exact(r) /\ Consumed(r)
      BY RecordStanding
    <2>5. AfterDecide(w, c) = Deactivate(r, g, "suspended")
      BY <1>3 DEF AfterDecide, SuspendedBy
    <2> HIDE DEF r, g
    <2> QED BY <1>1, <2>2, <2>3, <2>4, <2>5, DeactivateStanding DEF AgreementStatus
  <1> QED BY <1>2, <1>3

\* What superseding the slot's agreement changes: its status, nothing else.
LEMMA SupersededFrame ==
    ASSUME NEW w, Standing(w), NEW s \in Slots
    PROVE  \A h \in Agreements : w.agreement[h] # None =>
             /\ Superseded(w, s).agreement[h] # None
             /\ Superseded(w, s).agreement[h].proposal = w.agreement[h].proposal
             /\ Superseded(w, s).agreement[h].revision = w.agreement[h].revision
             /\ Superseded(w, s).agreement[h].policy = w.agreement[h].policy
             /\ Superseded(w, s).agreement[h].approvals = w.agreement[h].approvals
             /\ Superseded(w, s).agreement[h].status =
                  IF w.active_slot[s] = h THEN "superseded" ELSE w.agreement[h].status
  <1> SUFFICES ASSUME NEW h \in Agreements, w.agreement[h] # None
               PROVE  LET v == Superseded(w, s) IN
                      /\ v.agreement[h] # None
                      /\ v.agreement[h].proposal = w.agreement[h].proposal
                      /\ v.agreement[h].revision = w.agreement[h].revision
                      /\ v.agreement[h].policy = w.agreement[h].policy
                      /\ v.agreement[h].approvals = w.agreement[h].approvals
                      /\ v.agreement[h].status =
                           IF w.active_slot[s] = h THEN "superseded" ELSE w.agreement[h].status
    OBVIOUS
  <1>1. w.agreement[h] \in AgreementRecord /\ h # None
    BY InputAssumption DEF Standing, World
  <1>2. CASE w.active_slot[s] = None
    BY <1>1, <1>2 DEF Superseded
  <1>3. CASE w.active_slot[s] # None
    <2>1. w.active_slot[s] \in Agreements
      BY <1>3 DEF Standing, World
    <2>2. Superseded(w, s).agreement =
             [w.agreement EXCEPT ![w.active_slot[s]].status = "superseded"]
      BY <1>3 DEF Superseded, Standing, World
    <2>3. CASE w.active_slot[s] = h
      <3>1. Superseded(w, s).agreement[h] = [w.agreement[h] EXCEPT !.status = "superseded"]
        BY <2>1, <2>2, <2>3 DEF Standing, World
      <3>2. [w.agreement[h] EXCEPT !.status = "superseded"] \in AgreementRecord
        BY <1>1 DEF AgreementRecord, AgreementStatus
      <3> QED BY <1>1, <2>3, <3>1, <3>2, NoneAssumption DEF AgreementRecord
    <2>4. CASE w.active_slot[s] # h
      BY <2>1, <2>2, <2>4 DEF Standing, World
    <2> QED BY <2>3, <2>4
  <1> QED BY <1>2, <1>3

\* What an activation writes, key by key.
Enters(w, v, pid, a, s) ==
    /\ v.decision = w.decision /\ v.latest_decision = w.latest_decision
    /\ v.agreement[a].proposal = pid
    /\ v.agreement[a].revision = w.proposal[pid].revision
    /\ v.agreement[a].policy = w.proposal[pid].policy
    /\ v.agreement[a].approvals =
         {LatestOf(w, pid, role) : role \in RequiredRoles(w.proposal[pid].policy)}
    /\ v.agreement[a].status = "active"
    /\ v.agreement[a] # None /\ v.proposal[pid] # None
    /\ \A h \in Agreements \ {a} :
         v.agreement[h] = Superseded(w, s).agreement[h]
    /\ v.active_slot[s] = a
    /\ \A t \in Slots \ {s} : v.active_slot[t] = w.active_slot[t]
    /\ v.proposal[pid].status = "activated" /\ v.proposal[pid].agreement = a
    /\ v.proposal[pid].revision = w.proposal[pid].revision
    /\ v.proposal[pid].policy = w.proposal[pid].policy
    /\ \A q \in Proposals \ {pid} : v.proposal[q] = w.proposal[q]

\* The world executeActivate leaves.
LEMMA ActivateFrame ==
    ASSUME NEW w, Standing(w), NEW c \in Commands, c.type = "activate", CanActivate(w, c),
           NEW v, v = AfterActivate(w, c),
           NEW pid, pid = c.input.proposal, NEW a, a = c.input.agreement,
           NEW s, s = SlotOf(w.proposal[pid].revision)
    PROVE  Enters(w, v, pid, a, s)
  <1> DEFINE u == Superseded(w, s)
             p == w.proposal[pid]
             g == Agreed(w, pid)
  <1>1. pid \in Proposals /\ a \in Agreements /\ w \in World
    BY ActivateInput DEF Standing
  <1>2. p \in Proposal /\ s \in Slots
    BY <1>1, ActivateChecked
  <1>3. /\ u \in World /\ u.proposal = w.proposal /\ u.active_slot = w.active_slot
        /\ u.decision = w.decision /\ u.latest_decision = w.latest_decision
    <2>1. u \in World /\ u.proposal = w.proposal /\ u.active_slot = w.active_slot
      BY <1>1, <1>2, SupersededType DEF CanActivate
    <2>2. u.decision = w.decision /\ u.latest_decision = w.latest_decision
      BY <1>1 DEF Superseded, World
    <2> QED BY <2>1, <2>2
  <1>0. g \in AgreementRecord
    BY <1>1, <1>2, ManifestType DEF AgreementRecord, AgreementStatus, Proposal, Agreed
  <1>4. v = [u EXCEPT !.channel.eligibility_epoch = @ + 1,
                      !.agreement[a] = g,
                      !.active_slot[s] = a,
                      !.proposal[pid].status = "activated",
                      !.proposal[pid].agreement = a]
    BY ActivateIs DEF ActivatedSlot
  <1> HIDE DEF u, g
  <1>5. /\ v.decision = u.decision /\ v.latest_decision = u.latest_decision
        /\ v.agreement = [u.agreement EXCEPT ![a] = g]
        /\ v.active_slot = [u.active_slot EXCEPT ![s] = a]
        /\ v.proposal = [u.proposal EXCEPT ![pid].status = "activated", ![pid].agreement = a]
    <2> HIDE DEF p
    <2>1. u \in World
      BY <1>3
    <2> QED BY <1>4, <2>1 DEF World
  <1>6. v.proposal[pid] = [p EXCEPT !.status = "activated", !.agreement = a]
        /\ \A q \in Proposals \ {pid} : v.proposal[q] = w.proposal[q]
    <2>1. v.proposal = [w.proposal EXCEPT ![pid].status = "activated", ![pid].agreement = a]
      BY <1>3, <1>5
    <2> QED BY <1>1, <2>1 DEF World
  <1>7. v.agreement[a] = g /\ \A h \in Agreements \ {a} : v.agreement[h] = u.agreement[h]
    BY <1>1, <1>3, <1>5 DEF World
  <1>8. v.active_slot[s] = a /\ \A t \in Slots \ {s} : v.active_slot[t] = w.active_slot[t]
    <2>1. v.active_slot = [w.active_slot EXCEPT ![s] = a]
      BY <1>3, <1>5
    <2> HIDE DEF p
    <2> QED BY <1>1, <1>2, <2>1 DEF World
  <1>9. /\ v.proposal[pid].status = "activated" /\ v.proposal[pid].agreement = a
        /\ v.proposal[pid].revision = p.revision /\ v.proposal[pid].policy = p.policy
    BY <1>2, <1>6 DEF Proposal
  <1>10. /\ v.agreement[a].proposal = pid /\ v.agreement[a].revision = p.revision
         /\ v.agreement[a].policy = p.policy /\ v.agreement[a].status = "active"
         /\ v.agreement[a].approvals = {LatestOf(w, pid, role) : role \in RequiredRoles(p.policy)}
    BY <1>7 DEF g, Agreed
  <1>11. v.decision = w.decision /\ v.latest_decision = w.latest_decision
    BY <1>3, <1>5
  <1>12. v.agreement[a] # None /\ v.proposal[pid] # None
    <2>1. [p EXCEPT !.status = "activated", !.agreement = a] \in Proposal
      BY <1>1, <1>2 DEF Proposal
    <2> QED BY <1>0, <1>6, <1>7, <2>1, NoneAssumption
  <1> QED BY <1>6, <1>7, <1>8, <1>9, <1>10, <1>11, <1>12 DEF u, Enters

\* activate: the new agreement stands, the one it replaces is superseded and
\* every other one keeps its pointer, its proposal and its approvals.
LEMMA ActivateStanding ==
    ASSUME NEW w, Standing(w), NEW c \in Commands, c.type = "activate", CanActivate(w, c)
    PROVE  Standing(AfterActivate(w, c))
  <1> DEFINE v == AfterActivate(w, c)
             pid == c.input.proposal
             a == c.input.agreement
             p == w.proposal[pid]
             s == SlotOf(p.revision)
             u == Superseded(w, s)
  <1>1. v \in World /\ w \in World /\ pid \in Proposals /\ a \in Agreements /\ a # None
    BY ActivateType, ActivateInput, InputAssumption DEF Standing
  <1>2. p \in Proposal /\ p # None /\ s \in Slots
    BY <1>1, ActivateChecked
  <1>3. w.agreement[a] = None /\ p.status = "open"
    BY DEF CanActivate, ProposalOpen
  <1>4. /\ v.decision = w.decision /\ v.latest_decision = w.latest_decision
        /\ v.agreement[a].proposal = pid /\ v.agreement[a].revision = p.revision
        /\ v.agreement[a].policy = p.policy /\ v.agreement[a].status = "active"
        /\ v.agreement[a] # None /\ v.proposal[pid] # None
        /\ \A h \in Agreements \ {a} : v.agreement[h] = u.agreement[h]
        /\ v.active_slot[s] = a
        /\ \A t \in Slots \ {s} : v.active_slot[t] = w.active_slot[t]
        /\ v.proposal[pid].status = "activated" /\ v.proposal[pid].agreement = a
        /\ v.proposal[pid].revision = p.revision /\ v.proposal[pid].policy = p.policy
        /\ \A q \in Proposals \ {pid} : v.proposal[q] = w.proposal[q]
    <2>1. Enters(w, v, pid, a, s)
      BY ActivateFrame
    <2> HIDE DEF v, s
    <2> QED BY <2>1 DEF Enters
  <1>5. \A role \in RequiredRoles(p.policy) : Approves(w, pid, role)
    BY DEF CanActivate
  <1>6. \A h \in Agreements : w.agreement[h] # None =>
           /\ u.agreement[h] # None
           /\ u.agreement[h].proposal = w.agreement[h].proposal
           /\ u.agreement[h].revision = w.agreement[h].revision
           /\ u.agreement[h].policy = w.agreement[h].policy
           /\ u.agreement[h].status =
                IF w.active_slot[s] = h THEN "superseded" ELSE w.agreement[h].status
    <2> HIDE DEF s
    <2> QED BY <1>2, SupersededFrame
  <1>7. \A h \in Agreements : w.agreement[h] = None => u.agreement[h] = None
    <2>1. CASE w.active_slot[s] = None
      BY <2>1 DEF Superseded
    <2>2. CASE w.active_slot[s] # None
      <3>1. w.active_slot[s] \in Agreements /\ w.agreement[w.active_slot[s]] # None
        <4> HIDE DEF s
        <4>1. Exact(w) /\ w.active_slot[s] \in Agreements
          BY <1>1, <1>2, <2>2 DEF World, Standing
        <4> QED BY <1>2, <2>2, <4>1 DEF Exact
      <3>2. u.agreement = [w.agreement EXCEPT ![w.active_slot[s]].status = "superseded"]
        BY <1>1, <2>2 DEF Superseded, World
      <3> QED BY <1>1, <3>1, <3>2 DEF World
    <2> QED BY <2>1, <2>2
  <1>8. \A h \in Agreements : w.agreement[h] # None =>
           w.agreement[h].proposal \in Proposals
           /\ SlotOf(w.agreement[h].revision) \in Slots
    BY <1>1, SlotType DEF World, AgreementRecord
  <1> HIDE DEF v, pid, a, s, u
  <1>9. \A h \in Agreements \ {a} :
           /\ v.agreement[h] = None <=> w.agreement[h] = None
           /\ w.agreement[h] # None =>
                /\ v.agreement[h].proposal = w.agreement[h].proposal
                /\ v.agreement[h].revision = w.agreement[h].revision
                /\ v.agreement[h].policy = w.agreement[h].policy
                /\ v.agreement[h].status =
                     IF w.active_slot[s] = h THEN "superseded" ELSE w.agreement[h].status
    BY <1>4, <1>6, <1>7
  <1>10. Exact(v)
    <2>1. ASSUME NEW h \in Agreements, v.agreement[h] # None
          PROVE  v.agreement[h].status = "active"
                   <=> v.active_slot[SlotOf(v.agreement[h].revision)] = h
      <3>1. CASE h = a
        BY <1>4, <3>1 DEF s
      <3>2. CASE h # a
        <4> DEFINE t == SlotOf(w.agreement[h].revision)
        <4>1. /\ w.agreement[h] # None /\ t \in Slots
              /\ w.agreement[h].status = "active" <=> w.active_slot[t] = h
          BY <1>8, <1>9, <2>1, <3>2 DEF Standing, Exact
        <4>2. w.active_slot[s] = h => t = s
          BY <1>2, InputAssumption DEF Standing, Exact
        <4>3. v.active_slot[t] = h <=> t # s /\ w.active_slot[t] = h
          BY <1>4, <3>2, <4>1
        <4>4. v.agreement[h].status = "active" <=> w.active_slot[t] = h /\ w.active_slot[s] # h
          BY <1>9, <3>2, <4>1
        <4>5. SlotOf(v.agreement[h].revision) = t
          BY <1>9, <3>2, <4>1
        <4> HIDE DEF t
        <4> QED BY <4>2, <4>3, <4>4, <4>5
      <3> QED BY <3>1, <3>2
    <2>2. ASSUME NEW t \in Slots, v.active_slot[t] # None
          PROVE  /\ v.agreement[v.active_slot[t]] # None
                 /\ SlotOf(v.agreement[v.active_slot[t]].revision) = t
      <3>1. CASE t = s
        BY <1>4, <3>1 DEF s
      <3>2. CASE t # s
        <4>1. v.active_slot[t] = w.active_slot[t]
          BY <1>4, <3>2
        <4>2. /\ w.active_slot[t] \in Agreements
              /\ w.agreement[w.active_slot[t]] # None
              /\ SlotOf(w.agreement[w.active_slot[t]].revision) = t
          BY <1>1, <2>2, <4>1 DEF Standing, Exact, World
        <4> QED BY <1>3, <1>9, <4>1, <4>2
      <3> QED BY <3>1, <3>2
    <2> QED BY <2>1, <2>2 DEF Exact
  <1>11. \A h \in Agreements \ {a} : w.agreement[h] # None => w.agreement[h].proposal # pid
    BY <1>3 DEF Standing, Consumed
  <1>12. Consumed(v)
    <2> SUFFICES ASSUME NEW h \in Agreements, v.agreement[h] # None
                 PROVE  LET q == v.agreement[h].proposal IN
                        /\ v.proposal[q] # None
                        /\ v.proposal[q].status = "activated"
                        /\ v.proposal[q].agreement = h
                        /\ v.proposal[q].revision = v.agreement[h].revision
                        /\ v.proposal[q].policy = v.agreement[h].policy
      BY DEF Consumed
    <2>1. CASE h = a
      BY <1>4, <2>1
    <2>2. CASE h # a
      BY <1>4, <1>8, <1>9, <1>11, <2>2 DEF Standing, Consumed
    <2> QED BY <2>1, <2>2
  <1>13. StillApproved(v)
    <2> SUFFICES ASSUME NEW h \in Agreements, v.agreement[h] # None,
                        v.agreement[h].status = "active",
                        NEW role \in RequiredRoles(v.agreement[h].policy)
                 PROVE  Approves(v, v.agreement[h].proposal, role)
      BY DEF StillApproved
    <2>1. CASE h = a
      <3>1. Approves(w, pid, role)
        BY <1>4, <1>5, <2>1
      <3> QED BY <1>4, <2>1, <3>1, ApprovesFrame
    <2>2. CASE h # a
      <3>1. Approves(w, w.agreement[h].proposal, role)
        BY <1>9, <2>2 DEF Standing, StillApproved
      <3>2. v.proposal[w.agreement[h].proposal] = w.proposal[w.agreement[h].proposal]
        BY <1>4, <1>8, <1>9, <1>11, <2>2
      <3> QED BY <1>4, <1>9, <2>2, <3>1, <3>2, ApprovesFrame
    <2> QED BY <2>1, <2>2
  <1> QED BY <1>1, <1>10, <1>12, <1>13 DEF Standing, v

\* publish_revision, propose and fence: no stored proposal is overwritten.
LEMMA QuietCommands ==
    ASSUME NEW w, Standing(w), NEW c \in Commands, Can(w, c),
           c.type \in {"publish_revision", "propose", "fence"}
    PROVE  Standing(After(w, c))
  <1>1. After(w, c) \in World /\ w \in World
    BY AfterType DEF Standing
  <1>2. CASE c.type = "publish_revision"
    BY <1>1, <1>2, QuietStep DEF After, AfterPublish, World
  <1>3. CASE c.type = "propose"
    <2>1. /\ After(w, c).agreement = w.agreement
          /\ After(w, c).active_slot = w.active_slot
          /\ After(w, c).decision = w.decision
          /\ After(w, c).latest_decision = w.latest_decision
          /\ \A q \in Proposals \ {c.input.proposal} : After(w, c).proposal[q] = w.proposal[q]
      BY <1>1, <1>3 DEF After, AfterPropose, World
    <2>2. w.proposal[c.input.proposal] = None
      BY <1>3 DEF Can, CanPropose
    <2> QED BY <1>1, <2>1, <2>2, QuietStep
  <1>4. CASE c.type = "fence"
    BY <1>1, <1>4, QuietStep DEF After, AfterFence, World
  <1> QED BY <1>2, <1>3, <1>4

\* Every command the engine accepts keeps the invariant.
LEMMA ExecutedStanding ==
    ASSUME NEW w, Standing(w), NEW c \in Commands, Accepts(w, c)
    PROVE  Standing(Executed(w, c))
  <1>1. Can(w, c) /\ w \in World
    BY DEF Accepts, Standing
  <1>2. Standing(After(w, c))
    <2>1. CASE c.type \in {"publish_revision", "propose", "fence"}
      BY <1>1, <2>1, QuietCommands
    <2>2. CASE c.type = "decide"
      BY <1>1, <2>2, DecideStanding DEF Can, After
    <2>3. CASE c.type = "activate"
      BY <1>1, <2>3, ActivateStanding DEF Can, After
    <2>4. CASE c.type \in {"withdraw", "suspend"}
      BY <1>1, <2>4, StatusStanding DEF Can, After
    <2> QED BY <2>1, <2>2, <2>3, <2>4, CommandShape DEF CommandTypes
  <1>3. Executed(w, c) \in World
    BY ExecutedType DEF Standing
  <1> QED BY <1>1, <1>2, <1>3, ExecutedFrame, QuietStep

------------------------------------------------------------------------------
(* What a step may do to agreements that already exist. *)

\* From w to v, every agreement keeps its content, and its status once ended.
Kept(w, v) ==
    \A g \in Agreements :
        w.agreement[g] # None =>
          /\ v.agreement[g] # None
          /\ [v.agreement[g] EXCEPT !.status = w.agreement[g].status] = w.agreement[g]
          /\ w.agreement[g].status # "active" =>
               v.agreement[g].status = w.agreement[g].status

\* Agreements that did not change are kept.
LEMMA UnchangedKept ==
    ASSUME NEW w \in World, NEW v, v.agreement = w.agreement
    PROVE  Kept(w, v)
  <1> SUFFICES ASSUME NEW g \in Agreements, w.agreement[g] # None
               PROVE  [w.agreement[g] EXCEPT !.status = w.agreement[g].status]
                         = w.agreement[g]
    BY DEF Kept
  <1>1. w.agreement[g] \in AgreementRecord
    BY DEF World
  <1> QED BY <1>1 DEF AgreementRecord

\* Ending an active agreement keeps all.
LEMMA DeactivateKept ==
    ASSUME NEW w \in World, NEW g \in Agreements, w.agreement[g] # None,
           w.agreement[g].status = "active", NEW status \in AgreementStatus
    PROVE  Kept(w, Deactivate(w, g, status))
  <1> DEFINE v == Deactivate(w, g, status)
  <1>1. v.agreement = [w.agreement EXCEPT ![g].status = status]
    BY DEF Deactivate, World
  <1>2. v.agreement[g] = [w.agreement[g] EXCEPT !.status = status]
        /\ \A h \in Agreements \ {g} : v.agreement[h] = w.agreement[h]
    BY <1>1 DEF World
  <1> HIDE DEF v
  <1> SUFFICES ASSUME NEW h \in Agreements, w.agreement[h] # None
               PROVE  /\ v.agreement[h] # None
                      /\ [v.agreement[h] EXCEPT !.status = w.agreement[h].status]
                            = w.agreement[h]
                      /\ w.agreement[h].status # "active" =>
                           v.agreement[h].status = w.agreement[h].status
    BY DEF Kept, v
  <1>3. w.agreement[h] \in AgreementRecord
    BY DEF World
  <1>4. CASE h = g
    <2>1. v.agreement[h] \in AgreementRecord
      BY <1>2, <1>3, <1>4 DEF AgreementRecord
    <2> QED BY <1>2, <1>3, <1>4, <2>1, NoneAssumption DEF AgreementRecord
  <1>5. CASE h # g
    BY <1>2, <1>3, <1>5 DEF AgreementRecord
  <1> QED BY <1>4, <1>5

\* An activation supersedes the slot's active agreement and keeps all others.
LEMMA ActivateKept ==
    ASSUME NEW w, Standing(w), NEW c \in Commands, c.type = "activate", CanActivate(w, c)
    PROVE  Kept(w, AfterActivate(w, c))
  <1> DEFINE v == AfterActivate(w, c)
             s == SlotOf(w.proposal[c.input.proposal].revision)
             u == Superseded(w, s)
  <1>1. s \in Slots /\ w \in World /\ v \in World
    <2>1. w \in World /\ v \in World
      BY ActivateType DEF Standing
    <2>2. w.proposal[c.input.proposal] \in Proposal
      BY <2>1, ActivateChecked
    <2> QED BY <2>1, <2>2, SlotType DEF Proposal
  <1>2. \A h \in Agreements : w.agreement[h] # None =>
           v.agreement[h] = u.agreement[h]
    <2>1. w.agreement[c.input.agreement] = None
      BY DEF CanActivate
    <2>2. \A h \in Agreements \ {c.input.agreement} : v.agreement[h] = u.agreement[h]
      <3>1. Enters(w, v, c.input.proposal, c.input.agreement, s)
        BY ActivateFrame
      <3> HIDE DEF v, s
      <3> QED BY <3>1 DEF Enters
    <2> QED BY <2>1, <2>2
  <1> SUFFICES ASSUME NEW h \in Agreements, w.agreement[h] # None
               PROVE  /\ v.agreement[h] # None
                      /\ [v.agreement[h] EXCEPT !.status = w.agreement[h].status]
                            = w.agreement[h]
                      /\ w.agreement[h].status # "active" =>
                           v.agreement[h].status = w.agreement[h].status
    BY DEF Kept
  <1>3. /\ v.agreement[h] # None
        /\ v.agreement[h].proposal = w.agreement[h].proposal
        /\ v.agreement[h].revision = w.agreement[h].revision
        /\ v.agreement[h].policy = w.agreement[h].policy
        /\ v.agreement[h].approvals = w.agreement[h].approvals
        /\ v.agreement[h].status =
             IF w.active_slot[s] = h THEN "superseded" ELSE w.agreement[h].status
    BY <1>1, <1>2, SupersededFrame
  <1>4. w.active_slot[s] = h => w.agreement[h].status = "active"
    BY <1>1, InputAssumption DEF Standing, Exact
  <1>5. w.agreement[h] \in AgreementRecord /\ v.agreement[h] \in AgreementRecord
    BY <1>1, <1>3 DEF World
  <1> HIDE DEF v, s
  <1>6. [v.agreement[h] EXCEPT !.status = w.agreement[h].status] = w.agreement[h]
    BY <1>3, <1>5 DEF AgreementRecord
  <1> QED BY <1>3, <1>4, <1>6

\* No command revives an agreement or alters what one says.
LEMMA ExecutedKept ==
    ASSUME NEW w, Standing(w), NEW c \in Commands, Accepts(w, c)
    PROVE  Kept(w, Executed(w, c))
  <1>1. Can(w, c) /\ w \in World
    BY DEF Accepts, Standing
  <1>2. Executed(w, c).agreement = After(w, c).agreement
    BY <1>1, ExecutedFrame
  <1>3. Kept(w, After(w, c))
    <2>1. CASE c.type \in {"publish_revision", "propose", "fence"}
      <3>1. After(w, c).agreement = w.agreement
        BY <1>1, <2>1 DEF After, AfterPublish, AfterPropose, AfterFence, World
      <3> QED BY <1>1, <3>1, UnchangedKept
    <2>2. CASE c.type = "decide" /\ ~Suspends(w, c)
      <3>1. After(w, c).agreement = w.agreement
        BY <1>1, <2>2, RecordFrame DEF After, AfterDecide
      <3> QED BY <1>1, <3>1, UnchangedKept
    <2>3. CASE c.type = "decide" /\ Suspends(w, c)
      <3> DEFINE r == Record(w, c)
                 g == w.active_slot[SlotOf(c.input.revision)]
      <3>1. r \in World /\ r.agreement = w.agreement
        BY <1>1, <2>3, RecordType, RecordFrame DEF Can, CanDecide, DecisionOf
      <3>2. SlotOf(c.input.revision) \in Slots
        BY <2>3, DecideInput, SlotType
      <3>3. g \in Agreements /\ w.agreement[g] # None /\ w.agreement[g].status = "active"
        BY <1>1, <2>3, <3>2 DEF Suspends, Standing, Exact, World, InForce
      <3>4. After(w, c) = Deactivate(r, g, "suspended")
        BY <2>3 DEF After, AfterDecide, SuspendedBy
      <3> HIDE DEF r, g
      <3>5. Kept(r, After(w, c))
        BY <3>1, <3>3, <3>4, DeactivateKept DEF AgreementStatus
      <3> QED BY <3>1, <3>5 DEF Kept
    <2>4. CASE c.type = "activate"
      BY <1>1, <2>4, ActivateKept DEF Can, After
    <2>5. CASE c.type \in {"withdraw", "suspend"}
      <3>1. CanChangeStatus(w, c) /\ After(w, c) = AfterStatusChange(w, c)
        BY <1>1, <2>5 DEF Can, After
      <3>2. /\ w.agreement[c.input.agreement] # None
            /\ w.agreement[c.input.agreement].status = "active"
        BY <3>1 DEF CanChangeStatus, InForce
      <3>3. DesiredStatus(c) \in AgreementStatus
        BY DEF DesiredStatus, AgreementStatus
      <3> QED BY <1>1, <2>5, <3>1, <3>2, <3>3, StatusInput, DeactivateKept
              DEF AfterStatusChange
    <2> QED BY <2>1, <2>2, <2>3, <2>4, <2>5, CommandShape DEF CommandTypes
  <1> QED BY <1>2, <1>3 DEF Kept

------------------------------------------------------------------------------
(* Manifests.  An agreement's manifest is validated by counting, so what is *)
(* kept is more: the approvals are the values of a function of the roles.   *)

\* Agreement record a cites one approval of each required role, bound to its
\* own target.
Cites(w, a) ==
    \E f \in [RequiredRoles(a.policy) -> Decisions] :
        /\ a.approvals = {f[role] : role \in RequiredRoles(a.policy)}
        /\ \A role \in RequiredRoles(a.policy) :
             LET e == w.decision[f[role]] IN
             /\ e # None /\ e.kind = "approve" /\ e.role = role
             /\ e.actor = RepresentativeOf(a.policy, role)
             /\ e.proposal = a.proposal /\ e.revision = a.revision /\ e.policy = a.policy

\* Every agreement ever made cites its approvals.
Manifests(w) == \A g \in Agreements : w.agreement[g] # None => Cites(w, w.agreement[g])

\* A policy names finitely many roles.
LEMMA RolesFinite ==
    ASSUME NEW p \in Policies
    PROVE  IsFiniteSet(RequiredRoles(p))
  BY ConfigAssumption DEF RequiredRoles

\* The manifest has as many approvals as roles: decisions of different roles
\* differ.
LEMMA CitesCount ==
    ASSUME NEW w, NEW a \in AgreementRecord, Cites(w, a)
    PROVE  Cardinality(a.approvals) = Cardinality(RequiredRoles(a.policy))
  <1> DEFINE R == RequiredRoles(a.policy)
  <1>1. PICK f \in [R -> Decisions] :
           /\ a.approvals = {f[role] : role \in R}
           /\ \A role \in R : w.decision[f[role]].role = role
    BY DEF Cites
  <1>2. IsFiniteSet(R)
    BY RolesFinite DEF AgreementRecord
  <1> HIDE DEF R
  <1>3. f \in [R -> a.approvals]
    BY <1>1
  <1>4. \A q, r \in R : f[q] = f[r] => q = r
    BY <1>1
  <1>5. \A d \in a.approvals : \E r \in R : f[r] = d
    BY <1>1
  <1>6. f \in Bijection(R, a.approvals)
    BY <1>3, <1>4, <1>5 DEF Bijection, Injection, Surjection, IsInjective
  <1> QED BY <1>2, <1>6, FS_Bijection DEF ExistsBijection, R

\* Such a manifest passes validateAgreementApprovals.
LEMMA CitesValid ==
    ASSUME NEW w, NEW a \in AgreementRecord, Cites(w, a)
    PROVE  ApprovalsValid(w, a)
  <1>1. PICK f \in [RequiredRoles(a.policy) -> Decisions] :
           /\ a.approvals = {f[role] : role \in RequiredRoles(a.policy)}
           /\ \A role \in RequiredRoles(a.policy) :
                /\ w.decision[f[role]] # None /\ w.decision[f[role]].kind = "approve"
                /\ w.decision[f[role]].role = role
                /\ w.decision[f[role]].actor = RepresentativeOf(a.policy, role)
                /\ w.decision[f[role]].proposal = a.proposal
                /\ w.decision[f[role]].revision = a.revision
                /\ w.decision[f[role]].policy = a.policy
    BY DEF Cites
  <1>2. \A d \in a.approvals : w.decision[d] # None /\ w.decision[d].kind = "approve"
    BY <1>1
  <1>3. \A role \in RequiredRoles(a.policy) : f[role] \in a.approvals
    BY <1>1
  <1> QED BY <1>1, <1>2, <1>3, CitesCount, ZenonT(40) DEF ApprovalsValid

\* A manifest stays good while the decisions it cites stay what they are.
LEMMA CitesKept ==
    ASSUME NEW w, NEW a, Cites(w, a), NEW v, NEW b,
           b.proposal = a.proposal, b.revision = a.revision, b.policy = a.policy,
           b.approvals = a.approvals,
           \A d \in Decisions : w.decision[d] # None => v.decision[d] = w.decision[d]
    PROVE  Cites(v, b)
  BY DEF Cites

\* Activation cites the approvals it checked.
LEMMA ActivateCites ==
    ASSUME NEW w, Standing(w), NEW c \in Commands, c.type = "activate", CanActivate(w, c)
    PROVE  Cites(AfterActivate(w, c), AfterActivate(w, c).agreement[c.input.agreement])
  <1> DEFINE pid == c.input.proposal
             p == w.proposal[pid]
             v == AfterActivate(w, c)
             g == v.agreement[c.input.agreement]
             f == [role \in RequiredRoles(p.policy) |-> LatestOf(w, pid, role)]
  <1>1. /\ v.decision = w.decision
        /\ g.proposal = pid /\ g.revision = p.revision /\ g.policy = p.policy
        /\ g.approvals = {LatestOf(w, pid, role) : role \in RequiredRoles(p.policy)}
    <2> DEFINE s == SlotOf(p.revision)
    <2>1. Enters(w, v, pid, c.input.agreement, s)
      BY ActivateFrame
    <2> HIDE DEF v, s
    <2> QED BY <2>1 DEF Enters
  <1>2. \A role \in RequiredRoles(p.policy) : Approves(w, pid, role)
    BY DEF CanActivate
  <1>3. f \in [RequiredRoles(g.policy) -> Decisions]
    BY <1>1, ManifestType DEF Standing
  <1>4. g.approvals = {f[role] : role \in RequiredRoles(g.policy)}
    BY <1>1
  <1> HIDE DEF v, g
  <1>5. ASSUME NEW role \in RequiredRoles(g.policy)
        PROVE  LET e == v.decision[f[role]] IN
               /\ e # None /\ e.kind = "approve" /\ e.role = role
               /\ e.actor = RepresentativeOf(g.policy, role)
               /\ e.proposal = g.proposal /\ e.revision = g.revision /\ e.policy = g.policy
    <2>1. role \in RequiredRoles(p.policy) /\ f[role] = LatestOf(w, pid, role)
      BY <1>1
    <2>2. Approves(w, pid, role)
      BY <1>2, <2>1
    <2>3. LET e == w.decision[LatestOf(w, pid, role)] IN
          /\ e # None /\ e.kind = "approve" /\ e.role = role
          /\ e.actor = RepresentativeOf(p.policy, role)
          /\ e.proposal = pid /\ e.revision = p.revision /\ e.policy = p.policy
      BY <2>2 DEF Approves
    <2> HIDE DEF f, p, pid
    <2> QED BY <1>1, <2>1, <2>3
  <1> HIDE DEF f
  <1>6. Cites(v, g)
    BY <1>3, <1>4, <1>5 DEF Cites
  <1> QED BY <1>6 DEF v, g

\* A recorded decision is never overwritten.
LEMMA DecisionsKept ==
    ASSUME NEW w \in World, NEW c \in Commands, Accepts(w, c)
    PROVE  \A d \in Decisions :
              w.decision[d] # None => Executed(w, c).decision[d] = w.decision[d]
  <1>1. Can(w, c) /\ Executed(w, c).decision = After(w, c).decision
    BY ExecutedFrame DEF Accepts
  <1>2. CASE c.type = "decide"
    <2>1. w.decision[c.input.decision] = None
      BY <1>1, <1>2 DEF Can, CanDecide, UnusedDecision
    <2>2. After(w, c).decision = [w.decision EXCEPT ![c.input.decision] = DecisionOf(c)]
      BY <1>2 DEF After, AfterDecide, Deactivate, Record, World
    <2> QED BY <1>1, <2>1, <2>2 DEF World
  <1>3. CASE c.type # "decide"
    <2>1. After(w, c).decision = w.decision
      <3>1. CASE c.type = "activate"
        BY <3>1 DEF After, AfterActivate, Superseded, World
      <3>2. CASE c.type \in {"publish_revision", "propose", "fence", "withdraw", "suspend"}
        BY <3>2 DEF After, AfterPublish, AfterPropose, AfterFence, AfterStatusChange,
                    Deactivate, World
      <3> QED BY <1>3, <3>1, <3>2, CommandShape DEF CommandTypes
    <2> QED BY <1>1, <2>1
  <1> QED BY <1>2, <1>3

\* Only an activation makes an agreement, the one it names.
LEMMA NewAgreement ==
    ASSUME NEW w, Standing(w), NEW c \in Commands, Accepts(w, c), NEW g \in Agreements,
           w.agreement[g] = None, Executed(w, c).agreement[g] # None
    PROVE  c.type = "activate" /\ g = c.input.agreement
  <1>1. Can(w, c) /\ w \in World /\ After(w, c).agreement[g] # None
    BY ExecutedFrame DEF Accepts, Standing
  <1>2. ASSUME NEW r \in World, r.agreement = w.agreement, NEW h, NEW status,
               Deactivate(r, h, status).agreement[g] # None
        PROVE  h = g
    BY <1>1, <1>2 DEF Deactivate, World
  <1>3. c.type \notin {"publish_revision", "propose", "fence"}
    BY <1>1 DEF After, AfterPublish, AfterPropose, AfterFence, World
  <1>4. c.type # "decide"
    <2> SUFFICES ASSUME c.type = "decide" PROVE FALSE
      OBVIOUS
    <2>1. Record(w, c) \in World /\ Record(w, c).agreement = w.agreement
      BY <1>1, RecordType, RecordFrame DEF Can, CanDecide, DecisionOf
    <2>2. Suspends(w, c)
      BY <1>1, <2>1 DEF After, AfterDecide
    <2>3. SlotOf(c.input.revision) \in Slots
      BY DecideInput, SlotType
    <2>4. w.agreement[SuspendedBy(w, c)] # None
      BY <2>2, <2>3 DEF SuspendedBy, Suspends, Standing, Exact
    <2>5. After(w, c) = Deactivate(Record(w, c), SuspendedBy(w, c), "suspended")
      BY <2>2 DEF After, AfterDecide
    <2> QED BY <1>1, <1>2, <2>1, <2>4, <2>5
  <1>5. c.type \notin {"withdraw", "suspend"}
    <2> SUFFICES ASSUME c.type \in {"withdraw", "suspend"} PROVE FALSE
      OBVIOUS
    <2>1. w.agreement[c.input.agreement] # None
      BY <1>1 DEF Can, CanChangeStatus
    <2>2. After(w, c) = Deactivate(w, c.input.agreement, DesiredStatus(c))
      BY DEF After, AfterStatusChange
    <2> QED BY <1>1, <1>2, <2>1, <2>2
  <1>6. c.type = "activate"
    BY <1>3, <1>4, <1>5, CommandShape DEF CommandTypes
  <1>7. g = c.input.agreement
    <2> DEFINE s == SlotOf(w.proposal[c.input.proposal].revision)
    <2>1. /\ CanActivate(w, c) /\ After(w, c) = AfterActivate(w, c)
      BY <1>1, <1>6 DEF Can, After
    <2>2. Superseded(w, s).agreement[g] = None
      <3>1. w.proposal[c.input.proposal] \in Proposal
        BY <1>1, <1>6, <2>1, ActivateInput DEF CanActivate, World
      <3>2. s \in Slots
        BY <3>1, SlotType DEF Proposal
      <3>3. w.active_slot[s] # None => w.active_slot[s] # g
        BY <3>2 DEF Standing, Exact
      <3> QED BY <1>1, <3>3 DEF Superseded, World
    <2>3. \A h \in Agreements \ {c.input.agreement} :
             AfterActivate(w, c).agreement[h] = Superseded(w, s).agreement[h]
      <3>1. Enters(w, AfterActivate(w, c), c.input.proposal, c.input.agreement, s)
        BY <1>6, <2>1, ActivateFrame
      <3> HIDE DEF s
      <3> QED BY <3>1 DEF Enters
    <2> QED BY <1>1, <2>1, <2>2, <2>3
  <1> QED BY <1>6, <1>7

\* Every command the engine accepts keeps the manifests.
LEMMA ExecutedManifests ==
    ASSUME NEW w, Standing(w), Manifests(w), NEW c \in Commands, Accepts(w, c)
    PROVE  Manifests(Executed(w, c))
  <1> DEFINE v == Executed(w, c)
  <1>1. /\ Can(w, c) /\ w \in World /\ Kept(w, v)
        /\ \A d \in Decisions : w.decision[d] # None => v.decision[d] = w.decision[d]
    BY DecisionsKept, ExecutedKept DEF Accepts, Standing
  <1> SUFFICES ASSUME NEW g \in Agreements, v.agreement[g] # None
               PROVE  Cites(v, v.agreement[g])
    BY DEF Manifests
  <1>2. v.agreement[g] \in AgreementRecord
    <2>1. v \in World
      BY <1>1, ExecutedType
    <2> HIDE DEF v
    <2> QED BY <2>1 DEF World
  <1>3. CASE w.agreement[g] # None
    <2>1. [v.agreement[g] EXCEPT !.status = w.agreement[g].status] = w.agreement[g]
      BY <1>1, <1>3 DEF Kept
    <2>2. /\ v.agreement[g].proposal = w.agreement[g].proposal
          /\ v.agreement[g].revision = w.agreement[g].revision
          /\ v.agreement[g].policy = w.agreement[g].policy
          /\ v.agreement[g].approvals = w.agreement[g].approvals
      <3> HIDE DEF v
      <3> QED BY <1>2, <2>1 DEF AgreementRecord
    <2>3. Cites(w, w.agreement[g])
      BY <1>3 DEF Manifests
    <2> QED BY <1>1, <2>2, <2>3, CitesKept
  <1>4. CASE w.agreement[g] = None
    <2>1. c.type = "activate" /\ g = c.input.agreement
      BY <1>1, <1>4, NewAgreement
    <2>2. v.agreement[g] = AfterActivate(w, c).agreement[g] /\ v.decision = AfterActivate(w, c).decision
      BY <1>1, <2>1, ExecutedFrame DEF After
    <2>3. Cites(AfterActivate(w, c), AfterActivate(w, c).agreement[g])
      BY <1>1, <2>1, ActivateCites DEF Can
    <2> QED BY <2>2, <2>3, CitesKept
  <1> QED BY <1>3, <1>4

------------------------------------------------------------------------------
(* The links state-validation.ts checks between records.  They are kept by  *)
(* checking the records a command writes: the others link to records that   *)
(* are still there and still say the same.                                  *)

\* The links of every stored record.
Linked(w) ==
    /\ \A r \in Revisions : w.revision[r] =>
          RevisionLinks(w, r) /\ w.revision_id[RevisionInfo[r].revision_id] = r
    /\ \A p \in Proposals : w.proposal[p] # None => ProposalLinks(w, p)
    /\ Manifests(w)
    /\ \A g \in Agreements : w.agreement[g] # None =>
          /\ w.revision[w.agreement[g].revision]
          /\ SlotOf(w.agreement[g].revision) = PolicyInfo[w.agreement[g].policy].slot

\* An agreement that cites its approvals passes the checks of its links.
LEMMA CitesLinks ==
    ASSUME NEW w \in World, NEW g \in Agreements, w.agreement[g] # None,
           Cites(w, w.agreement[g]), w.revision[w.agreement[g].revision],
           SlotOf(w.agreement[g].revision) = PolicyInfo[w.agreement[g].policy].slot
    PROVE  AgreementLinks(w, g)
  <1> DEFINE a == w.agreement[g]
             FromRole(role) == {d \in a.approvals :
                 /\ w.decision[d].role = role
                 /\ w.decision[d].actor = RepresentativeOf(a.policy, role)}
  <1>1. a \in AgreementRecord
    BY DEF World
  <1>2. PICK f \in [RequiredRoles(a.policy) -> Decisions] :
           /\ a.approvals = {f[role] : role \in RequiredRoles(a.policy)}
           /\ \A role \in RequiredRoles(a.policy) :
                LET e == w.decision[f[role]] IN
                /\ e # None /\ e.kind = "approve" /\ e.role = role
                /\ e.actor = RepresentativeOf(a.policy, role)
                /\ e.proposal = a.proposal /\ e.revision = a.revision /\ e.policy = a.policy
    BY DEF Cites
  <1>3. Cardinality(a.approvals) = Cardinality(RequiredRoles(a.policy))
    BY <1>1, CitesCount
  <1>4. w.revision[a.revision] /\ SlotOf(a.revision) = PolicyInfo[a.policy].slot
    OBVIOUS
  <1> HIDE DEF a
  <1>5. \A d \in a.approvals : w.decision[d] # None
    BY <1>2
  <1>6. ASSUME NEW role \in RequiredRoles(a.policy)
        PROVE  /\ Cardinality(FromRole(role)) = 1
               /\ \A d \in FromRole(role) :
                    LET e == w.decision[d] IN
                    /\ e.kind = "approve" /\ e.proposal = a.proposal
                    /\ e.revision = a.revision /\ e.policy = a.policy
    <2>1. FromRole(role) = {f[role]}
      BY <1>2
    <2>2. Cardinality({f[role]}) = 1
      BY FS_Singleton
    <2>3. \A d \in {f[role]} :
            LET e == w.decision[d] IN
            /\ e.kind = "approve" /\ e.proposal = a.proposal
            /\ e.revision = a.revision /\ e.policy = a.policy
      BY <1>2
    <2> HIDE DEF FromRole
    <2> QED BY <2>1, <2>2, <2>3
  <1> QED BY <1>3, <1>4, <1>5, <1>6 DEF AgreementLinks, a

\* From w to v no record disappears, and what others link to stays the same.
Grown(w, v) ==
    /\ \A r \in Revisions : w.revision[r] => v.revision[r]
    /\ \A i \in RevisionIds : w.revision_id[i] # None => v.revision_id[i] = w.revision_id[i]
    /\ \A p \in Proposals : w.proposal[p] # None =>
          /\ v.proposal[p] # None
          /\ v.proposal[p].revision = w.proposal[p].revision
          /\ v.proposal[p].policy = w.proposal[p].policy
    /\ \A d \in Decisions : w.decision[d] # None => v.decision[d] = w.decision[d]
    /\ \A k \in Orgs \X CommandIds :
          w.idempotency[k] # None => v.idempotency[k] = w.idempotency[k]
    /\ \A n \in Nonces : w.fence[n] # None => v.fence[n] = w.fence[n]

\* A step that grows the world writes over no immutable record.
LEMMA GrownWritesOnce ==
    ASSUME NEW w \in World, NEW v \in World, Grown(w, v)
    PROVE  ~OverwritesImmutable(w, v)
  <1> SUFFICES ASSUME NEW prefix \in ImmutableKinds, NEW k \in Written(w, v, prefix),
                      w[prefix][k] # EmptyWorld[prefix][k]
               PROVE  FALSE
    BY DEF OverwritesImmutable
  <1>1. CASE prefix = "revision"
    <2>1. k \in Revisions /\ v.revision[k] # w.revision[k] /\ w.revision[k] # FALSE
      BY <1>1 DEF Written, World, EmptyWorld
    <2>2. w.revision[k] \in BOOLEAN
      BY <2>1 DEF World
    <2>3. v.revision[k] \in BOOLEAN
      BY <2>1 DEF World
    <2>4. w.revision[k] => v.revision[k]
      BY <2>1 DEF Grown
    <2> QED BY <2>1, <2>2, <2>3, <2>4, Zenon
  <1>2. CASE prefix = "revision_id"
    BY <1>2 DEF Written, World, EmptyWorld, Grown
  <1>3. CASE prefix = "decision"
    BY <1>3 DEF Written, World, EmptyWorld, Grown
  <1>4. CASE prefix = "idempotency"
    <2>1. k \in Orgs \X CommandIds /\ v.idempotency[k] # w.idempotency[k]
          /\ w.idempotency[k] # None
      BY <1>4 DEF Written, World, EmptyWorld
    <2> QED BY <2>1 DEF Grown
  <1>5. CASE prefix = "fence"
    BY <1>5 DEF Written, World, EmptyWorld, Grown
  <1> QED BY <1>1, <1>2, <1>3, <1>4, <1>5 DEF ImmutableKinds

\* A prefix that is left alone has no written record.
LEMMA Untouched ==
    ASSUME NEW w, NEW v, NEW prefix, v[prefix] = w[prefix]
    PROVE  Written(w, v, prefix) = {}
  BY DEF Written

\* publish_revision links to parents and dependencies it found published; a
\* repeat writes what is there.
LEMMA PublishLinks ==
    ASSUME NEW w, Standing(w), Linked(w), NEW c \in Commands, c.type = "publish_revision",
           CanPublish(w, c)
    PROVE  Grown(w, AfterPublish(w, c)) /\ LinksHold(w, AfterPublish(w, c))
  <1> DEFINE r == c.input.revision
             i == RevisionInfo[r].revision_id
             v == AfterPublish(w, c)
  <1>1. w \in World /\ v \in World /\ r \in Revisions /\ i \in RevisionIds
    BY PublishInput, PublishType, SlotType DEF Standing
  <1>2. /\ v.revision = [w.revision EXCEPT ![r] = TRUE]
        /\ v.revision_id = [w.revision_id EXCEPT ![i] = r]
        /\ v.proposal = w.proposal /\ v.review_counter = w.review_counter
        /\ v.decision = w.decision /\ v.latest_decision = w.latest_decision
        /\ v.agreement = w.agreement /\ v.active_slot = w.active_slot
        /\ v.idempotency = w.idempotency /\ v.fence = w.fence
    BY <1>1 DEF AfterPublish, World
  <1>3. w.revision[r] \/ /\ w.revision_id[i] = None
                         /\ ParentsPublished(w, r) /\ DependenciesPublished(w, r)
    BY DEF CanPublish
  <1> HIDE DEF v, r, i
  <1>4. /\ v.revision[r] /\ \A q \in Revisions \ {r} : v.revision[q] = w.revision[q]
        /\ v.revision_id[i] = r /\ \A j \in RevisionIds \ {i} : v.revision_id[j] = w.revision_id[j]
        /\ \A q \in Revisions : w.revision[q] => v.revision[q]
    BY <1>1, <1>2 DEF World
  <1>5. w.revision[r] => w.revision_id[i] = r
    BY <1>1 DEF Linked, i
  <1>6. Grown(w, v)
    BY <1>2, <1>3, <1>4, <1>5 DEF Grown
  <1>7. \A j \in Written(w, v, "revision_id") :
           v.revision[v.revision_id[j]] /\ RevisionInfo[v.revision_id[j]].revision_id = j
    <2>1. \A j \in Written(w, v, "revision_id") : j = i
      BY <1>1, <1>4 DEF Written, World
    <2> QED BY <1>4, <2>1 DEF i
  <1>8. \A q \in Written(w, v, "revision") : RevisionLinks(v, q)
    <2> SUFFICES ASSUME NEW q \in Written(w, v, "revision") PROVE RevisionLinks(v, q)
      OBVIOUS
    <2>1. q = r /\ w.revision[r] # v.revision[r]
      BY <1>1, <1>4 DEF Written, World
    <2>2. ~w.revision[r]
      <3>1. w.revision[r] \in BOOLEAN /\ v.revision[r] \in BOOLEAN
        BY <1>1 DEF World
      <3> QED BY <1>4, <2>1, <3>1, Zenon
    <2>3. ParentsPublished(w, r) /\ DependenciesPublished(w, r)
      BY <1>3, <2>2
    <2>4. RevisionInfo[r].parents \subseteq Revisions
          /\ \A d \in RevisionInfo[r].dependencies : d.revision \in Revisions
      BY <1>1, InputAssumption DEF RevisionPayload, Dependency
    <2> QED BY <1>4, <2>1, <2>3, <2>4 DEF ParentsPublished, DependenciesPublished, RevisionLinks
  <1>9. /\ Written(w, v, "proposal") = {} /\ Written(w, v, "review_counter") = {}
        /\ Written(w, v, "decision") = {} /\ Written(w, v, "latest_decision") = {}
        /\ Written(w, v, "agreement") = {} /\ Written(w, v, "active_slot") = {}
    BY <1>2, Untouched
  <1>10. LinksHold(w, v)
    BY <1>7, <1>8, <1>9 DEF LinksHold
  <1> QED BY <1>6, <1>10 DEF v

\* propose links to a published revision of the policy's own slot.
LEMMA ProposeLinks ==
    ASSUME NEW w, Standing(w), Linked(w), NEW c \in Commands, c.type = "propose",
           CanPropose(w, c)
    PROVE  Grown(w, AfterPropose(w, c)) /\ LinksHold(w, AfterPropose(w, c))
  <1> DEFINE p == c.input.proposal
             v == AfterPropose(w, c)
  <1>1. w \in World /\ v \in World /\ p \in Proposals
    BY ProposeInput, ProposeType DEF Standing
  <1>2. /\ v.revision = w.revision /\ v.revision_id = w.revision_id
        /\ v.proposal[p].revision = c.input.revision /\ v.proposal[p].policy = c.input.policy
        /\ v.proposal[p].review_counter = 0 /\ v.review_counter[p] = 0
        /\ \A q \in Proposals \ {p} : /\ v.proposal[q] = w.proposal[q]
                                      /\ v.review_counter[q] = w.review_counter[q]
        /\ v.decision = w.decision /\ v.latest_decision = w.latest_decision
        /\ v.agreement = w.agreement /\ v.active_slot = w.active_slot
        /\ v.idempotency = w.idempotency /\ v.fence = w.fence
    BY <1>1 DEF AfterPropose, World
  <1>3. /\ w.revision[c.input.revision] /\ w.proposal[p] = None
        /\ PolicyInfo[c.input.policy].slot = SlotOf(c.input.revision)
    BY DEF CanPropose
  <1>4. v.proposal[p] # None
    <2>1. v.proposal[p] = [revision |-> c.input.revision, policy |-> c.input.policy,
                           status |-> "open", agreement |-> None, review_counter |-> 0]
      BY <1>1 DEF AfterPropose, World
    <2> QED BY <2>1, ProposeInput, NoneAssumption DEF Proposal
  <1> HIDE DEF v, p
  <1>5. Grown(w, v)
    BY <1>1, <1>2, <1>3 DEF Grown
  <1>6. \A q \in Written(w, v, "proposal") \union Written(w, v, "review_counter") : q = p
    BY <1>1, <1>2 DEF Written, World
  <1>7. ProposalLinks(v, p)
    BY <1>2, <1>3 DEF ProposalLinks
  <1>8. /\ Written(w, v, "revision") = {} /\ Written(w, v, "revision_id") = {}
        /\ Written(w, v, "decision") = {} /\ Written(w, v, "latest_decision") = {}
        /\ Written(w, v, "agreement") = {} /\ Written(w, v, "active_slot") = {}
    BY <1>2, Untouched
  <1>9. LinksHold(w, v)
    BY <1>2, <1>4, <1>6, <1>7, <1>8 DEF LinksHold
  <1> QED BY <1>5, <1>9 DEF v, p

\* A pointer that stands passes the checks of its links.
LEMMA PointerLinks ==
    ASSUME NEW v, Standing(v), NEW s \in Slots
    PROVE  SlotLinks(v, s)
  <1> SUFFICES ASSUME v.active_slot[s] # None PROVE SlotLinks(v, s)
    BY DEF SlotLinks
  <1>1. v.active_slot[s] \in Agreements
    BY DEF Standing, World
  <1> QED BY <1>1 DEF SlotLinks, Standing, Exact

\* Agreements that existed keep their links, whatever became of their status.
LEMMA KeptLinks ==
    ASSUME NEW w \in World, NEW v \in World, Linked(w), Grown(w, v), Kept(w, v),
           NEW g \in Agreements, w.agreement[g] # None
    PROVE  AgreementLinks(v, g)
  <1>1. /\ w.agreement[g] \in AgreementRecord /\ v.agreement[g] \in AgreementRecord
        /\ v.agreement[g] # None
    BY DEF World, Kept
  <1>2. [v.agreement[g] EXCEPT !.status = w.agreement[g].status] = w.agreement[g]
    BY DEF Kept
  <1>3. /\ v.agreement[g].proposal = w.agreement[g].proposal
        /\ v.agreement[g].revision = w.agreement[g].revision
        /\ v.agreement[g].policy = w.agreement[g].policy
        /\ v.agreement[g].approvals = w.agreement[g].approvals
    BY <1>1, <1>2 DEF AgreementRecord
  <1>4. Cites(v, v.agreement[g])
    BY <1>3, CitesKept DEF Linked, Manifests, Grown
  <1>5. /\ v.revision[v.agreement[g].revision]
        /\ SlotOf(v.agreement[g].revision) = PolicyInfo[v.agreement[g].policy].slot
    BY <1>1, <1>3 DEF Linked, Grown, AgreementRecord
  <1> QED BY <1>1, <1>4, <1>5, CitesLinks

\* A step that writes agreements and pointers only, and keeps both standing.
LEMMA StatusLinks ==
    ASSUME NEW w, Standing(w), Linked(w), NEW v, Standing(v), Grown(w, v), Kept(w, v),
           \A g \in Agreements : w.agreement[g] = None => v.agreement[g] = None
    PROVE  /\ \A g \in Written(w, v, "agreement") : AgreementLinks(v, g)
           /\ \A s \in Written(w, v, "active_slot") : SlotLinks(v, s)
  <1>1. w \in World /\ v \in World
    BY DEF Standing
  <1>2. ASSUME NEW g \in Written(w, v, "agreement") PROVE AgreementLinks(v, g)
    <2>1. g \in Agreements /\ w.agreement[g] # v.agreement[g]
      BY <1>1 DEF Written, World
    <2> QED BY <1>1, <2>1, KeptLinks
  <1>3. ASSUME NEW s \in Written(w, v, "active_slot") PROVE SlotLinks(v, s)
    <2>1. s \in Slots
      BY <1>1 DEF Written, World
    <2> QED BY <2>1, PointerLinks
  <1> QED BY <1>2, <1>3

\* decide links its decision to the proposal and the representative it checked.
LEMMA DecideLinks ==
    ASSUME NEW w, Standing(w), Linked(w), NEW c \in Commands, c.type = "decide", Accepts(w, c)
    PROVE  Grown(w, AfterDecide(w, c)) /\ LinksHold(w, AfterDecide(w, c))
  <1> DEFINE d == DecisionOf(c)
             id == c.input.decision
             pid == c.input.proposal
             n == w.proposal[pid].review_counter + 1
             v == AfterDecide(w, c)
  <1>1. /\ Can(w, c) /\ CanDecide(w, c) /\ w \in World /\ v \in World
        /\ id \in Decisions /\ pid \in Proposals
    BY DecideInput, DecideType DEF Accepts, Can, Standing
  <1>2. /\ d.proposal = pid /\ d.role = c.input.role /\ d.actor = c.input.actor
        /\ d.revision = c.input.revision /\ d.policy = c.input.policy
        /\ d \in Decision /\ d # None
    BY DecideInput, NoneAssumption DEF DecisionOf, Decision
  <1>3. /\ w.proposal[pid] # None /\ w.proposal[pid].revision = d.revision
        /\ w.proposal[pid].policy = d.policy /\ w.decision[id] = None
        /\ d.role \in RequiredRoles(d.policy)
        /\ RepresentativeOf(d.policy, d.role) = d.actor
    BY <1>1, <1>2 DEF CanDecide, UnusedDecision
  <1>4. LatestKey(d) = <<pid, d.role, d.actor>> /\ LatestKey(d) \in Proposals \X Roles \X Actors
    BY <1>2, DecideInput DEF LatestKey
  <1>5. /\ v.revision = w.revision /\ v.revision_id = w.revision_id
        /\ v.decision = [w.decision EXCEPT ![id] = d]
        /\ v.latest_decision = [w.latest_decision EXCEPT ![LatestKey(d)] = id]
        /\ v.proposal = [w.proposal EXCEPT ![pid].review_counter = n]
        /\ v.review_counter = [w.review_counter EXCEPT ![pid] = n]
        /\ v.idempotency = w.idempotency /\ v.fence = w.fence
    <2> DEFINE r == Record(w, c)
    <2>1. r \in World
      BY <1>1, <1>3, RecordType
    <2>2. /\ r.revision = w.revision /\ r.revision_id = w.revision_id
          /\ r.decision = [w.decision EXCEPT ![id] = d]
          /\ r.latest_decision = [w.latest_decision EXCEPT ![LatestKey(d)] = id]
          /\ r.proposal = [w.proposal EXCEPT ![pid].review_counter = n]
          /\ r.review_counter = [w.review_counter EXCEPT ![pid] = n]
          /\ r.idempotency = w.idempotency /\ r.fence = w.fence
      BY <1>1, <1>2 DEF Record, World
    <2> HIDE DEF r
    <2>3. /\ v.revision = r.revision /\ v.revision_id = r.revision_id
          /\ v.decision = r.decision /\ v.latest_decision = r.latest_decision
          /\ v.proposal = r.proposal /\ v.review_counter = r.review_counter
          /\ v.idempotency = r.idempotency /\ v.fence = r.fence
      <3>1. v = r \/ \E g : v = Deactivate(r, g, "suspended")
        BY DEF AfterDecide, r
      <3> HIDE DEF v
      <3> QED BY <2>1, <3>1, ZenonT(40) DEF Deactivate, World
    <2> HIDE DEF v, d, id, n
    <2> QED BY <2>2, <2>3
  <1>6. w.proposal[pid] \in Proposal
    BY <1>1, <1>3 DEF World
  <1>7. n \in Nat
    BY <1>6 DEF Proposal
  <1>8. v.proposal[pid] = [w.proposal[pid] EXCEPT !.review_counter = n]
    BY <1>1, <1>5 DEF World
  <1> HIDE DEF v, d, id, n
  <1>9. /\ v.proposal[pid] \in Proposal /\ v.proposal[pid].review_counter = n
        /\ v.proposal[pid].revision = w.proposal[pid].revision
        /\ v.proposal[pid].policy = w.proposal[pid].policy
    BY <1>6, <1>7, <1>8 DEF Proposal
  <1>10. /\ v.review_counter[pid] = n
         /\ \A q \in Proposals \ {pid} : /\ v.proposal[q] = w.proposal[q]
                                         /\ v.review_counter[q] = w.review_counter[q]
         /\ v.decision[id] = d /\ \A e \in Decisions \ {id} : v.decision[e] = w.decision[e]
         /\ v.latest_decision[LatestKey(d)] = id
         /\ \A k \in Proposals \X Roles \X Actors :
               k # LatestKey(d) => v.latest_decision[k] = w.latest_decision[k]
    BY <1>1, <1>4, <1>5 DEF World
  <1>11. v.proposal[pid] # None
    BY <1>9, NoneAssumption
  <1>12. Grown(w, v)
    BY <1>3, <1>5, <1>9, <1>10, <1>11 DEF Grown
  <1>13. \A q \in Written(w, v, "proposal") \union Written(w, v, "review_counter") : q = pid
    BY <1>1, <1>10 DEF Written, World
  <1>14. ProposalLinks(v, pid)
    <2>1. ProposalLinks(w, pid)
      BY <1>1, <1>3 DEF Linked
    <2> QED BY <1>5, <1>9, <1>10, <2>1 DEF ProposalLinks
  <1>15. \A e \in Written(w, v, "decision") : DecisionLinks(v, e)
    <2>1. \A e \in Written(w, v, "decision") : e = id
      BY <1>1, <1>10 DEF Written, World
    <2>2. DecisionLinks(v, id)
      BY <1>2, <1>3, <1>9, <1>10, <1>11 DEF DecisionLinks
    <2> QED BY <2>1, <2>2
  <1>16. \A k \in Written(w, v, "latest_decision") : LatestLinks(v, k)
    <2>1. \A k \in Written(w, v, "latest_decision") : k = LatestKey(d)
      BY <1>1, <1>10 DEF Written, World
    <2>2. LatestLinks(v, LatestKey(d))
      BY <1>2, <1>4, <1>10 DEF LatestLinks
    <2> QED BY <2>1, <2>2
  <1>17. /\ \A g \in Written(w, v, "agreement") : AgreementLinks(v, g)
         /\ \A s \in Written(w, v, "active_slot") : SlotLinks(v, s)
    <2>1. Standing(v) /\ Kept(w, v) /\ v.agreement = Executed(w, c).agreement
      <3>1. Executed(w, c).agreement = v.agreement
        BY <1>1, ExecutedFrame DEF After, v
      <3>2. Kept(w, Executed(w, c))
        BY ExecutedKept
      <3> QED BY <1>1, <3>1, <3>2, DecideStanding DEF Kept, v
    <2>2. \A g \in Agreements : w.agreement[g] = None => v.agreement[g] = None
      BY <2>1, NewAgreement
    <2> QED BY <1>12, <2>1, <2>2, StatusLinks
  <1>18. Written(w, v, "revision") = {} /\ Written(w, v, "revision_id") = {}
    BY <1>5, Untouched
  <1>19. LinksHold(w, v)
    BY <1>9, <1>10, <1>11, <1>13, <1>14, <1>15, <1>16, <1>17, <1>18 DEF LinksHold
  <1> QED BY <1>12, <1>19 DEF v

\* withdraw and suspend write the agreement and its pointer.
LEMMA ChangeLinks ==
    ASSUME NEW w, Standing(w), Linked(w), NEW c \in Commands,
           c.type \in {"withdraw", "suspend"}, Accepts(w, c)
    PROVE  Grown(w, AfterStatusChange(w, c)) /\ LinksHold(w, AfterStatusChange(w, c))
  <1> DEFINE v == AfterStatusChange(w, c)
  <1>1. /\ Can(w, c) /\ CanChangeStatus(w, c) /\ w \in World /\ v \in World
    BY StatusType DEF Accepts, Can, Standing
  <1>2. /\ v.revision = w.revision /\ v.revision_id = w.revision_id
        /\ v.decision = w.decision /\ v.latest_decision = w.latest_decision
        /\ v.proposal = w.proposal /\ v.review_counter = w.review_counter
        /\ v.idempotency = w.idempotency /\ v.fence = w.fence
    BY <1>1 DEF AfterStatusChange, Deactivate, World
  <1>3. Grown(w, v)
    <2> HIDE DEF v
    <2> QED BY <1>2 DEF Grown
  <1>4. v.agreement = Executed(w, c).agreement
    BY <1>1, ExecutedFrame DEF After
  <1>5. Standing(v)
    BY <1>1, StatusStanding
  <1> HIDE DEF v
  <1>6. Kept(w, v)
    BY <1>4, ExecutedKept DEF Kept
  <1>7. \A g \in Agreements : w.agreement[g] = None => v.agreement[g] = None
    BY <1>4, NewAgreement
  <1>8. /\ \A g \in Written(w, v, "agreement") : AgreementLinks(v, g)
        /\ \A s \in Written(w, v, "active_slot") : SlotLinks(v, s)
    BY <1>3, <1>5, <1>6, <1>7, StatusLinks
  <1>9. /\ Written(w, v, "revision") = {} /\ Written(w, v, "revision_id") = {}
        /\ Written(w, v, "decision") = {} /\ Written(w, v, "latest_decision") = {}
        /\ Written(w, v, "proposal") = {} /\ Written(w, v, "review_counter") = {}
    BY <1>2, Untouched
  <1>10. LinksHold(w, v)
    BY <1>8, <1>9 DEF LinksHold
  <1> QED BY <1>3, <1>10 DEF v

\* activate links the agreement to the approvals, the revision and the slot it
\* checked, and marks the proposal it consumes.
LEMMA ActivateLinks ==
    ASSUME NEW w, Standing(w), Linked(w), NEW c \in Commands, c.type = "activate",
           Accepts(w, c)
    PROVE  Grown(w, AfterActivate(w, c)) /\ LinksHold(w, AfterActivate(w, c))
  <1> DEFINE pid == c.input.proposal
             a == c.input.agreement
             p == w.proposal[pid]
             s == SlotOf(p.revision)
             v == AfterActivate(w, c)
  <1>1. /\ Can(w, c) /\ CanActivate(w, c) /\ w \in World /\ v \in World
        /\ pid \in Proposals /\ a \in Agreements
    BY ActivateInput, ActivateType DEF Accepts, Can, Standing
  <1>2. /\ p # None /\ p \in Proposal /\ s \in Slots /\ w.revision[p.revision]
        /\ PolicyInfo[p.policy].slot = s
    BY <1>1, ActivateChecked
  <1>3. /\ v.decision = w.decision /\ v.latest_decision = w.latest_decision
        /\ v.agreement[a].revision = p.revision /\ v.agreement[a].policy = p.policy
        /\ v.agreement[a] # None /\ v.proposal[pid] # None
        /\ v.proposal[pid].revision = p.revision /\ v.proposal[pid].policy = p.policy
        /\ \A q \in Proposals \ {pid} : v.proposal[q] = w.proposal[q]
    <2>1. Enters(w, v, pid, a, s)
      BY <1>1, ActivateFrame
    <2> HIDE DEF v, s
    <2> QED BY <2>1 DEF Enters
  <1>4. /\ v.revision = w.revision /\ v.revision_id = w.revision_id
        /\ v.review_counter = w.review_counter
        /\ v.idempotency = w.idempotency /\ v.fence = w.fence
        /\ v.proposal[pid].review_counter = p.review_counter
    <2> DEFINE u == Superseded(w, s)
    <2>1. /\ u.revision = w.revision /\ u.revision_id = w.revision_id
          /\ u.review_counter = w.review_counter
          /\ u.idempotency = w.idempotency /\ u.fence = w.fence
      BY <1>1 DEF Superseded, World
    <2>2. u \in World /\ u.proposal = w.proposal
      BY <1>1, <1>2, SupersededType DEF CanActivate
    <2>3. PICK g : v = [u EXCEPT !.channel.eligibility_epoch = @ + 1,
                                 !.agreement[a] = g, !.active_slot[s] = a,
                                 !.proposal[pid].status = "activated",
                                 !.proposal[pid].agreement = a]
      BY DEF AfterActivate
    <2> HIDE DEF u, v, s
    <2>4. /\ v.revision = u.revision /\ v.revision_id = u.revision_id
          /\ v.review_counter = u.review_counter
          /\ v.idempotency = u.idempotency /\ v.fence = u.fence
          /\ v.proposal = [u.proposal EXCEPT ![pid].status = "activated", ![pid].agreement = a]
      BY <2>2, <2>3 DEF World
    <2>5. v.proposal[pid] = [p EXCEPT !.status = "activated", !.agreement = a]
      BY <1>1, <2>2, <2>4 DEF World
    <2>6. v.proposal[pid].review_counter = p.review_counter
      BY <1>2, <2>5 DEF Proposal
    <2> QED BY <2>1, <2>4, <2>6
  <1>5. Cites(v, v.agreement[a])
    BY <1>1, ActivateCites
  <1>6. Standing(v) /\ Kept(w, v)
    BY <1>1, ActivateStanding, ActivateKept
  <1>7. \A g \in Agreements \ {a} : w.agreement[g] = None => v.agreement[g] = None
    <2>1. v.agreement = Executed(w, c).agreement
      BY <1>1, ExecutedFrame DEF After
    <2> QED BY <2>1, NewAgreement
  <1> HIDE DEF v, a, s, p
  <1>8. Grown(w, v)
    BY <1>3, <1>4 DEF Grown, p
  <1>9. \A g \in Written(w, v, "agreement") : AgreementLinks(v, g)
    <2> SUFFICES ASSUME NEW g \in Written(w, v, "agreement") PROVE AgreementLinks(v, g)
      OBVIOUS
    <2>1. g \in Agreements /\ w.agreement[g] # v.agreement[g]
      BY <1>1 DEF Written, World
    <2>2. CASE w.agreement[g] # None
      BY <1>1, <1>6, <1>8, <2>1, <2>2, KeptLinks
    <2>3. CASE w.agreement[g] = None
      <3>1. g = a
        BY <1>7, <2>1, <2>3
      <3> QED BY <1>1, <1>2, <1>3, <1>4, <1>5, <3>1, CitesLinks DEF s
    <2> QED BY <2>2, <2>3
  <1>10. \A t \in Written(w, v, "active_slot") : SlotLinks(v, t)
    <2>1. \A t \in Written(w, v, "active_slot") : t \in Slots
      BY <1>1 DEF Written, World
    <2> QED BY <1>6, <2>1, PointerLinks
  <1>11. \A q \in Written(w, v, "proposal") : ProposalLinks(v, q)
    <2>1. \A q \in Written(w, v, "proposal") : q = pid
      BY <1>1, <1>3 DEF Written, World
    <2>2. ProposalLinks(w, pid)
      BY <1>1, <1>2 DEF Linked, p
    <2>3. ProposalLinks(v, pid)
      BY <1>3, <1>4, <2>2 DEF ProposalLinks, p
    <2> QED BY <2>1, <2>3
  <1>12. /\ Written(w, v, "revision") = {} /\ Written(w, v, "revision_id") = {}
         /\ Written(w, v, "decision") = {} /\ Written(w, v, "latest_decision") = {}
         /\ Written(w, v, "review_counter") = {}
    BY <1>3, <1>4, Untouched
  <1>13. LinksHold(w, v)
    BY <1>9, <1>10, <1>11, <1>12 DEF LinksHold
  <1> QED BY <1>8, <1>13 DEF v

\* The idempotency record links to nothing.
LEMMA LinksFrame ==
    ASSUME NEW w, NEW v, NEW u, LinksHold(w, v),
           u.revision = v.revision, u.revision_id = v.revision_id,
           u.proposal = v.proposal, u.review_counter = v.review_counter,
           u.decision = v.decision, u.latest_decision = v.latest_decision,
           u.agreement = v.agreement, u.active_slot = v.active_slot
    PROVE  LinksHold(w, u)
  <1>1. /\ Written(w, u, "revision") = Written(w, v, "revision")
        /\ Written(w, u, "revision_id") = Written(w, v, "revision_id")
        /\ Written(w, u, "proposal") = Written(w, v, "proposal")
        /\ Written(w, u, "review_counter") = Written(w, v, "review_counter")
        /\ Written(w, u, "decision") = Written(w, v, "decision")
        /\ Written(w, u, "latest_decision") = Written(w, v, "latest_decision")
        /\ Written(w, u, "agreement") = Written(w, v, "agreement")
        /\ Written(w, u, "active_slot") = Written(w, v, "active_slot")
    BY DEF Written
  <1>2. \A r : RevisionLinks(v, r) => RevisionLinks(u, r)
    BY DEF RevisionLinks
  <1>3. \A p : ProposalLinks(v, p) => ProposalLinks(u, p)
    BY DEF ProposalLinks
  <1>4. \A d : DecisionLinks(v, d) => DecisionLinks(u, d)
    BY DEF DecisionLinks
  <1>5. \A k : LatestLinks(v, k) => LatestLinks(u, k)
    BY DEF LatestLinks
  <1>6. \A g : AgreementLinks(v, g) => AgreementLinks(u, g)
    BY DEF AgreementLinks
  <1>7. \A s : SlotLinks(v, s) => SlotLinks(u, s)
    BY DEF SlotLinks
  <1> QED BY <1>1, <1>2, <1>3, <1>4, <1>5, <1>6, <1>7 DEF LinksHold

\* Whatever the command, its records pass the checks of their links and no
\* immutable record is written over.
LEMMA ExecutedLinks ==
    ASSUME NEW w, Standing(w), Linked(w), NEW c \in Commands, Accepts(w, c)
    PROVE  Grown(w, Executed(w, c)) /\ LinksHold(w, Executed(w, c))
  <1> DEFINE v == After(w, c)
             u == Executed(w, c)
  <1>1. Can(w, c) /\ w \in World /\ v \in World /\ w.idempotency[IdempotencyKey(c)] = None
    BY AfterType DEF Accepts, Fresh, Standing
  <1>2. Grown(w, v) /\ LinksHold(w, v)
    <2>1. CASE c.type = "publish_revision"
      BY <1>1, <2>1, PublishLinks DEF Can, After
    <2>2. CASE c.type = "propose"
      BY <1>1, <2>2, ProposeLinks DEF Can, After
    <2>3. CASE c.type = "decide"
      BY <2>3, DecideLinks DEF After
    <2>4. CASE c.type = "activate"
      BY <2>4, ActivateLinks DEF After
    <2>5. CASE c.type \in {"withdraw", "suspend"}
      BY <2>5, ChangeLinks DEF After
    <2>6. CASE c.type = "fence"
      <3>1. /\ v.revision = w.revision /\ v.revision_id = w.revision_id
            /\ v.proposal = w.proposal /\ v.review_counter = w.review_counter
            /\ v.decision = w.decision /\ v.latest_decision = w.latest_decision
            /\ v.agreement = w.agreement /\ v.active_slot = w.active_slot
            /\ v.idempotency = w.idempotency
            /\ v.fence = [w.fence EXCEPT ![c.input.nonce] = Epoch(w)]
        BY <1>1, <2>6 DEF After, AfterFence, World
      <3>2. w.fence[c.input.nonce] = None
        BY <1>1, <2>6 DEF Can, CanFence
      <3> HIDE DEF v
      <3>3. Grown(w, v)
        BY <1>1, <3>1, <3>2 DEF Grown, World
      <3>4. LinksHold(w, v)
        BY <3>1, Untouched DEF LinksHold
      <3> QED BY <3>3, <3>4
    <2> QED BY <2>1, <2>2, <2>3, <2>4, <2>5, <2>6, CommandShape DEF CommandTypes
  <1> HIDE DEF v
  <1>3. /\ u.revision = v.revision /\ u.revision_id = v.revision_id
        /\ u.proposal = v.proposal /\ u.review_counter = v.review_counter
        /\ u.decision = v.decision /\ u.latest_decision = v.latest_decision
        /\ u.agreement = v.agreement /\ u.active_slot = v.active_slot
        /\ u.fence = v.fence
        /\ \A k \in Orgs \X CommandIds :
              k # IdempotencyKey(c) => u.idempotency[k] = v.idempotency[k]
    BY <1>1 DEF Executed, World, v
  <1>4. LinksHold(w, u)
    BY <1>2, <1>3, LinksFrame
  <1>5. Grown(w, u)
    BY <1>1, <1>2, <1>3 DEF Grown
  <1> QED BY <1>4, <1>5

\* Only a publication publishes a revision, under the author's identifier.
LEMMA NewRevision ==
    ASSUME NEW w \in World, NEW c \in Commands, Accepts(w, c), NEW r \in Revisions,
           ~w.revision[r], Executed(w, c).revision[r]
    PROVE  /\ c.type = "publish_revision" /\ r = c.input.revision
           /\ Executed(w, c).revision_id[RevisionInfo[r].revision_id] = r
  <1> DEFINE v == After(w, c)
  <1>1. Can(w, c) /\ v \in World
    BY AfterType DEF Accepts
  <1>2. Executed(w, c).revision = v.revision /\ Executed(w, c).revision_id = v.revision_id
    BY <1>1 DEF Executed, World
  <1>3. c.type = "publish_revision"
    <2> SUFFICES ASSUME c.type # "publish_revision" PROVE v.revision = w.revision
      BY <1>2
    <2>1. CASE c.type \in {"propose", "fence"}
      BY <2>1 DEF After, AfterPropose, AfterFence, World
    <2>2. CASE c.type = "decide"
      BY <2>2 DEF After, AfterDecide, Deactivate, Record, World
    <2>3. CASE c.type = "activate"
      BY <2>3 DEF After, AfterActivate, Superseded, World
    <2>4. CASE c.type \in {"withdraw", "suspend"}
      BY <2>4 DEF After, AfterStatusChange, Deactivate, World
    <2> QED BY <2>1, <2>2, <2>3, <2>4, CommandShape DEF CommandTypes
  <1>4. /\ v.revision = [w.revision EXCEPT ![c.input.revision] = TRUE]
        /\ v.revision_id = [w.revision_id EXCEPT
                              ![RevisionInfo[c.input.revision].revision_id] = c.input.revision]
    BY <1>3 DEF After, AfterPublish, World
  <1>5. r = c.input.revision
    <2> HIDE DEF v
    <2> QED BY <1>2, <1>4 DEF World
  <1>6. v.revision_id[RevisionInfo[r].revision_id] = r
    BY <1>4, <1>5, SlotType DEF World
  <1> QED BY <1>2, <1>3, <1>5, <1>6

\* The links of the written records are enough to keep all links.
LEMMA ExecutedLinked ==
    ASSUME NEW w, Standing(w), Linked(w), NEW c \in Commands, Accepts(w, c)
    PROVE  Linked(Executed(w, c))
  <1> DEFINE v == Executed(w, c)
  <1>1. /\ w \in World /\ v \in World /\ Kept(w, v) /\ Grown(w, v) /\ LinksHold(w, v)
        /\ Manifests(v)
    BY ExecutedType, ExecutedKept, ExecutedLinks, ExecutedManifests DEF Standing, Linked
  <1> HIDE DEF v
  <1>2. ASSUME NEW r \in Revisions, v.revision[r]
        PROVE  RevisionLinks(v, r) /\ v.revision_id[RevisionInfo[r].revision_id] = r
    <2>1. /\ RevisionInfo[r].revision_id \in RevisionIds
          /\ RevisionInfo[r].parents \subseteq Revisions
          /\ \A d \in RevisionInfo[r].dependencies : d.revision \in Revisions
      BY InputAssumption DEF RevisionPayload, Dependency
    <2>2. CASE w.revision[r]
      <3>1. RevisionLinks(w, r) /\ w.revision_id[RevisionInfo[r].revision_id] = r
        BY <2>2 DEF Linked
      <3>2. RevisionLinks(v, r)
        BY <1>1, <2>1, <3>1 DEF Grown, RevisionLinks
      <3> QED BY <1>1, <2>1, <3>1, <3>2, InputAssumption DEF Grown
    <2>3. CASE ~w.revision[r]
      <3>1. r \in Written(w, v, "revision")
        <4>1. w.revision[r] # v.revision[r]
          BY <1>2, <2>3
        <4> QED BY <1>1, <4>1 DEF Written, World
      <3>2. v.revision_id[RevisionInfo[r].revision_id] = r
        BY <1>1, <1>2, <2>3, NewRevision DEF v
      <3> QED BY <1>1, <3>1, <3>2 DEF LinksHold
    <2> QED BY <2>2, <2>3
  <1>3. ASSUME NEW p \in Proposals, v.proposal[p] # None
        PROVE  ProposalLinks(v, p)
    <2>1. CASE v.proposal[p] # w.proposal[p]
      BY <1>1, <2>1 DEF LinksHold, Written, World
    <2>2. CASE v.proposal[p] = w.proposal[p] /\ v.review_counter[p] # w.review_counter[p]
      <3>1. v.proposal[p].review_counter = v.review_counter[p]
        BY <1>1, <2>2 DEF LinksHold, Written, World
      <3>2. ProposalLinks(w, p) /\ v.proposal[p] \in Proposal
        BY <1>1, <1>3, <2>2 DEF Linked, World
      <3> QED BY <1>1, <2>2, <3>1, <3>2 DEF ProposalLinks, Grown, Proposal
    <2>3. CASE v.proposal[p] = w.proposal[p] /\ v.review_counter[p] = w.review_counter[p]
      <3>1. ProposalLinks(w, p) /\ v.proposal[p] \in Proposal
        BY <1>1, <1>3, <2>3 DEF Linked, World
      <3> QED BY <1>1, <2>3, <3>1 DEF ProposalLinks, Grown, Proposal
    <2> QED BY <2>1, <2>2, <2>3
  <1>4. ASSUME NEW g \in Agreements, v.agreement[g] # None
        PROVE  /\ v.revision[v.agreement[g].revision]
               /\ SlotOf(v.agreement[g].revision) = PolicyInfo[v.agreement[g].policy].slot
    <2>1. AgreementLinks(v, g)
      <3>1. CASE v.agreement[g] = w.agreement[g]
        BY <1>1, <1>4, <3>1, KeptLinks
      <3>2. CASE v.agreement[g] # w.agreement[g]
        BY <1>1, <3>2 DEF LinksHold, Written, World
      <3> QED BY <3>1, <3>2
    <2> QED BY <2>1 DEF AgreementLinks
  <1> QED BY <1>1, <1>2, <1>3, <1>4 DEF Linked, v

\* What the engine writes, state-validation.ts accepts.
LEMMA ExecutedApplies ==
    ASSUME NEW w, Standing(w), Linked(w), NEW c \in Commands, Accepts(w, c)
    PROVE  Applicable(w, Executed(w, c))
  <1>1. w \in World /\ Executed(w, c) \in World
    BY ExecutedType DEF Standing
  <1> QED BY <1>1, ExecutedLinks, GrownWritesOnce DEF Applicable, WellFormed

------------------------------------------------------------------------------
(* What readers are served changes with the epoch only: the walk of         *)
(* resolveInternal depends on the world through Held alone.                 *)

\* In a world whose links hold, a slot holds what its pointer names.
LEMMA PointerHolds ==
    ASSUME NEW w, Standing(w), Linked(w), NEW s \in Slots
    PROVE  HoldsSlot(w, s) <=> w.active_slot[s] # None
  <1>1. CASE w.active_slot[s] = None
    BY <1>1 DEF HoldsSlot
  <1>2. CASE w.active_slot[s] # None
    <2> DEFINE g == w.active_slot[s]
               a == w.agreement[g]
    <2>1. g \in Agreements /\ a # None /\ SlotOf(a.revision) = s /\ a \in AgreementRecord
      BY <1>2 DEF Standing, Exact, World
    <2>2. a.status = "active"
      BY <2>1 DEF Standing, Exact
    <2>3. w.revision[a.revision] /\ PolicyInfo[a.policy].slot = s
      BY <2>1 DEF Linked
    <2>4. ApprovalsValid(w, a)
      BY <2>1, CitesValid DEF Linked, Manifests
    <2> QED BY <1>2, <2>1, <2>2, <2>3, <2>4 DEF HoldsSlot, ActiveAgreement
  <1> QED BY <1>1, <1>2

\* While pointers and agreements stay as they are, every slot resolves to what
\* it did.
LEMMA ResolutionKept ==
    ASSUME NEW w, Standing(w), Linked(w), NEW v, Standing(v), Linked(v),
           v.agreement = w.agreement, v.active_slot = w.active_slot,
           v.channel.config = w.channel.config, NEW s \in Slots
    PROVE  Resolve(v, s) = Resolve(w, s)
  <1>1. {t \in Slots : HoldsSlot(v, t)} = {t \in Slots : HoldsSlot(w, t)}
    BY PointerHolds
  <1>2. \A t : ActiveAgreement(v, t) = ActiveAgreement(w, t)
    BY DEF ActiveAgreement
  <1>3. Held(v) = Held(w)
    BY <1>1, <1>2 DEF Held
  <1> QED BY <1>3 DEF Resolve

\* No command touches the configuration.
LEMMA ConfigKept ==
    ASSUME NEW w, Standing(w), NEW c \in Commands, Accepts(w, c)
    PROVE  Executed(w, c).channel.config = w.channel.config
  <1> DEFINE v == After(w, c)
  <1>1. Can(w, c) /\ w \in World /\ v \in World
    BY AfterType DEF Accepts, Standing
  <1>2. Executed(w, c).channel = v.channel
    BY <1>1 DEF Executed, World
  <1>3. ASSUME NEW r \in World, r.channel = w.channel, NEW g, NEW status
        PROVE  Deactivate(r, g, status).channel.config = w.channel.config
    BY <1>3 DEF Deactivate, World
  <1>4. CASE c.type \in {"publish_revision", "propose", "fence"}
    BY <1>1, <1>2, <1>4 DEF After, AfterPublish, AfterPropose, AfterFence, World
  <1>5. CASE c.type = "decide"
    <2>1. Record(w, c) \in World
      BY <1>1, <1>5, RecordType DEF Can, CanDecide, DecisionOf
    <2>2. Record(w, c).channel = w.channel
      BY <1>1, <2>1 DEF Record, World
    <2> QED BY <1>2, <1>3, <1>5, <2>1, <2>2 DEF After, AfterDecide
  <1>6. CASE c.type = "activate"
    <2> DEFINE u == Superseded(w, SlotOf(w.proposal[c.input.proposal].revision))
    <2>1. u.channel = w.channel
      BY <1>1 DEF Superseded, World
    <2>2. v.channel = [u.channel EXCEPT !.eligibility_epoch = @ + 1]
      <3>1. v = AfterActivate(w, c)
        BY <1>6 DEF After
      <3>2. v = [u EXCEPT !.channel.eligibility_epoch = @ + 1,
                 !.agreement[c.input.agreement] = Agreed(w, c.input.proposal),
                 !.active_slot[ActivatedSlot(w, c)] = c.input.agreement,
                 !.proposal[c.input.proposal].status = "activated",
                 !.proposal[c.input.proposal].agreement = c.input.agreement]
        BY <3>1, ActivateIs DEF ActivatedSlot
      <3>3. DOMAIN u = DOMAIN w /\ "channel" \in DOMAIN w
        BY <1>1 DEF Superseded, World
      <3> HIDE DEF u, v
      <3> QED BY <3>2, <3>3
    <2> QED BY <1>1, <1>2, <2>1, <2>2 DEF World
  <1>7. CASE c.type \in {"withdraw", "suspend"}
    BY <1>1, <1>2, <1>3, <1>7 DEF After, AfterStatusChange
  <1> QED BY <1>4, <1>5, <1>6, <1>7, CommandShape DEF CommandTypes

\* A command either raises the epoch or leaves agreements and pointers alone.
LEMMA EpochOrQuiet ==
    ASSUME NEW w, Standing(w), NEW c \in Commands, Accepts(w, c)
    PROVE  \/ Epoch(Executed(w, c)) > Epoch(w)
           \/ /\ Executed(w, c).agreement = w.agreement
              /\ Executed(w, c).active_slot = w.active_slot
              /\ Executed(w, c).channel.config = w.channel.config
  <1> DEFINE v == After(w, c)
  <1>1. Can(w, c) /\ w \in World /\ v \in World
    BY AfterType DEF Accepts, Standing
  <1>2. /\ Executed(w, c).channel = v.channel /\ Executed(w, c).agreement = v.agreement
        /\ Executed(w, c).active_slot = v.active_slot
    BY <1>1 DEF Executed, World
  <1>3. w.channel.eligibility_epoch \in Nat
    BY <1>1 DEF World
  <1>4. ASSUME NEW r \in World, r.channel = w.channel, NEW g, NEW status
        PROVE  Deactivate(r, g, status).channel.eligibility_epoch
                  = w.channel.eligibility_epoch + 1
    BY <1>4 DEF Deactivate, World
  <1>5. CASE c.type \in {"publish_revision", "propose", "fence"}
    <2>1. v.channel = w.channel /\ v.agreement = w.agreement /\ v.active_slot = w.active_slot
      BY <1>1, <1>5 DEF After, AfterPublish, AfterPropose, AfterFence, World
    <2> QED BY <1>2, <2>1
  <1>6. CASE c.type = "decide"
    <2>1. /\ Record(w, c) \in World /\ Record(w, c).channel = w.channel
          /\ Record(w, c).agreement = w.agreement /\ Record(w, c).active_slot = w.active_slot
      <3>1. Record(w, c) \in World
        BY <1>1, <1>6, RecordType DEF Can, CanDecide, DecisionOf
      <3> QED BY <1>1, <3>1 DEF Record, World
    <2>2. CASE Suspends(w, c)
      BY <1>2, <1>3, <1>4, <1>6, <2>1, <2>2 DEF After, AfterDecide, Epoch
    <2>3. CASE ~Suspends(w, c)
      BY <1>2, <1>6, <2>1, <2>3 DEF After, AfterDecide
    <2> QED BY <2>2, <2>3
  <1>7. CASE c.type = "activate"
    <2> DEFINE s == SlotOf(w.proposal[c.input.proposal].revision)
               u == Superseded(w, s)
    <2>1. u.channel = w.channel
      BY <1>1 DEF Superseded, World
    <2>2. v.channel.eligibility_epoch = u.channel.eligibility_epoch + 1
      <3>1. PICK g : v = [u EXCEPT !.channel.eligibility_epoch = @ + 1,
                            !.agreement[c.input.agreement] = g,
                            !.active_slot[s] = c.input.agreement,
                            !.proposal[c.input.proposal].status = "activated",
                            !.proposal[c.input.proposal].agreement = c.input.agreement]
        BY <1>7 DEF After, AfterActivate
      <3>2. u \in World
        <4>1. CanActivate(w, c)
          BY <1>1, <1>7 DEF Can
        <4>2. w.proposal[c.input.proposal] \in Proposal
          BY <1>1, <1>7, <4>1, ActivateChecked
        <4>3. s \in Slots
          BY <4>2, SlotType DEF Proposal
        <4> QED BY <1>1, <4>1, <4>3, SupersededType DEF CanActivate
      <3> HIDE DEF u, v, s
      <3> QED BY <3>1, <3>2 DEF World
    <2> QED BY <1>2, <1>3, <2>1, <2>2 DEF Epoch
  <1>8. CASE c.type \in {"withdraw", "suspend"}
    BY <1>1, <1>2, <1>3, <1>4, <1>8 DEF After, AfterStatusChange, Epoch
  <1> QED BY <1>5, <1>6, <1>7, <1>8, CommandShape DEF CommandTypes

------------------------------------------------------------------------------
(* The walk of resolveInternal: it is defined by recursion on the slots it  *)
(* came through, and sees only the slots it reaches.                        *)

\* A nonempty set of natural numbers has a least element.
LEMMA Least ==
    ASSUME NEW T, T \subseteq Nat, T # {}
    PROVE  \E m \in T : \A k \in T : m <= k
  <1>1. IsWellFoundedOn({p \in Nat \X Nat : p[1] < p[2]}, Nat)
    BY NatLessThanWellFounded DEF OpToRel
  <1>2. PICK m \in T : \A k \in T : ~(<<k, m>> \in {p \in Nat \X Nat : p[1] < p[2]})
    BY <1>1, WFMin
  <1>3. ASSUME NEW k \in T, k < m PROVE FALSE
    <2>1. <<k, m>> \in Nat \X Nat /\ <<k, m>>[1] = k /\ <<k, m>>[2] = m
      OBVIOUS
    <2>2. <<k, m>> \in {p \in Nat \X Nat : p[1] < p[2]}
      BY <2>1, <1>3
    <2> QED BY <2>2, <1>2
  <1> QED BY <1>3

\* What holds at N, and one below wherever it holds, holds down to 0.
LEMMA Descent ==
    ASSUME NEW N \in Nat, NEW T, N \in T, \A m \in 1..N : m \in T => m - 1 \in T
    PROVE  \A m \in 0..N : m \in T
  <1> SUFFICES ASSUME NEW m \in 0..N, m \notin T PROVE FALSE
    OBVIOUS
  <1> DEFINE Up == {k \in m..N : k \in T}
  <1>1. Up \subseteq Nat /\ N \in Up
    OBVIOUS
  <1>2. PICK k \in Up : \A j \in Up : k <= j
    <2> HIDE DEF Up
    <2> QED BY <1>1, Least
  <1>3. k - 1 \in Up
    BY <1>2
  <1> QED BY <1>2, <1>3

\* The bodies of Eligible and Visits, given what is found one slot deeper.
EligibleStep(held, E, seen) ==
    [s \in Slots |->
        /\ Cardinality(seen) <= MaxDepth
        /\ s \notin seen
        /\ s \in DOMAIN held
        /\ \A d \in Required(held[s]) :
             /\ E[seen \union {s}][d.slot]
             /\ held[d.slot] = d.revision]

VisitsStep(held, V, seen) ==
    [s \in Slots |->
        IF s \in seen THEN 0
        ELSE 1 + SumFunction([d \in Required(held[s]) |-> V[seen \union {s}][d.slot]])]

\* What is found below seen depends only on what is found below one more slot.
LEMMA StepsAgree ==
    ASSUME NEW held, NEW E, NEW F, NEW seen \in SUBSET Slots,
           \A s \in Slots \ seen : E[seen \union {s}] = F[seen \union {s}]
    PROVE  /\ EligibleStep(held, E, seen) = EligibleStep(held, F, seen)
           /\ VisitsStep(held, E, seen) = VisitsStep(held, F, seen)
  <1>1. \A s \in Slots :
          (/\ Cardinality(seen) <= MaxDepth
           /\ s \notin seen
           /\ s \in DOMAIN held
           /\ \A d \in Required(held[s]) :
                /\ E[seen \union {s}][d.slot]
                /\ held[d.slot] = d.revision)
          = (/\ Cardinality(seen) <= MaxDepth
           /\ s \notin seen
           /\ s \in DOMAIN held
           /\ \A d \in Required(held[s]) :
                /\ F[seen \union {s}][d.slot]
                /\ held[d.slot] = d.revision)
    <2> TAKE s \in Slots
    <2>1. CASE s \in seen
      BY <2>1
    <2>2. CASE s \notin seen
      <3>1. E[seen \union {s}] = F[seen \union {s}]
        BY <2>2
      <3> QED BY <2>2, <3>1
    <2> QED BY <2>1, <2>2
  <1>2. ASSUME NEW s \in Slots, s \notin seen
        PROVE  SumFunction([d \in Required(held[s]) |-> E[seen \union {s}][d.slot]])
               = SumFunction([d \in Required(held[s]) |-> F[seen \union {s}][d.slot]])
    <2>1. E[seen \union {s}] = F[seen \union {s}]
      BY <1>2
    <2>2. [d \in Required(held[s]) |-> E[seen \union {s}][d.slot]]
          = [d \in Required(held[s]) |-> F[seen \union {s}][d.slot]]
      BY <2>1
    <2> QED BY <2>2
  <1>3. EligibleStep(held, E, seen) = EligibleStep(held, F, seen)
    BY <1>1, Zenon DEF EligibleStep
  <1>4. VisitsStep(held, E, seen) = VisitsStep(held, F, seen)
    BY <1>2 DEF VisitsStep
  <1> QED BY <1>3, <1>4

\* Coming through one more slot is one step deeper, and the slots are finitely
\* many.
LEMMA SeenCounts ==
    /\ Cardinality(Slots) \in Nat
    /\ \A seen \in SUBSET Slots :
         /\ Cardinality(seen) \in Nat /\ Cardinality(seen) <= Cardinality(Slots)
         /\ \A s \in Slots \ seen : seen \union {s} \in SUBSET Slots
              /\ Cardinality(seen \union {s}) = Cardinality(seen) + 1
  <1>1. IsFiniteSet(Slots)
    BY ConfigAssumption
  <1>2. Cardinality(Slots) \in Nat
    BY <1>1, FS_CardinalityType
  <1>3. ASSUME NEW seen \in SUBSET Slots
        PROVE  /\ IsFiniteSet(seen)
               /\ Cardinality(seen) \in Nat /\ Cardinality(seen) <= Cardinality(Slots)
    BY <1>1, <1>3, FS_Subset, FS_CardinalityType
  <1>4. ASSUME NEW seen \in SUBSET Slots, NEW s \in Slots \ seen
        PROVE  Cardinality(seen \union {s}) = Cardinality(seen) + 1
    BY <1>3, FS_AddElement
  <1> QED BY <1>2, <1>3, <1>4

\* The walk of resolveInternal is well defined: each step down adds a slot.
LEMMA EligibleUnfolds ==
    ASSUME NEW held
    PROVE  Eligible(held) = [seen \in SUBSET Slots |-> EligibleStep(held, Eligible(held), seen)]
  <1> DEFINE N == Cardinality(Slots) + 1
             Solves(E, m) == \A seen \in SUBSET Slots :
                Cardinality(seen) >= m => E[seen] = EligibleStep(held, E, seen)
             T == {m \in 0..N : \E E : Solves(E, m)}
  <1>1. N \in Nat /\ N \in T
    <2>1. \A E : Solves(E, N)
      BY SeenCounts
    <2> QED BY <2>1, SeenCounts
  <1>2. ASSUME NEW m \in 1..N, m \in T
        PROVE  m - 1 \in T
    <2>1. PICK E : Solves(E, m)
      BY <1>2
    <2> DEFINE F == [seen \in SUBSET Slots |-> EligibleStep(held, E, seen)]
    <2>2. ASSUME NEW seen \in SUBSET Slots, Cardinality(seen) >= m - 1
          PROVE  F[seen] = EligibleStep(held, F, seen)
      <3>1. ASSUME NEW s \in Slots \ seen
            PROVE  E[seen \union {s}] = F[seen \union {s}]
        <4>1. /\ seen \union {s} \in SUBSET Slots
              /\ Cardinality(seen \union {s}) >= m
          BY <2>2, SeenCounts, <1>1
        <4> QED BY <4>1, <2>1
      <3>2. EligibleStep(held, E, seen) = EligibleStep(held, F, seen)
        <4> HIDE DEF F
        <4> QED BY <3>1, StepsAgree
      <3> QED BY <3>2
    <2>3. Solves(F, m - 1)
      BY <2>2
    <2> HIDE DEF F, Solves
    <2> QED BY <2>3, <1>1
  <1>3. 0 \in T
    <2> HIDE DEF T, N
    <2> QED BY <1>1, <1>2, Descent
  <1>4. PICK E : Solves(E, 0)
    BY <1>3
  <1> DEFINE P(F) == F = [seen \in SUBSET Slots |-> EligibleStep(held, F, seen)]
             G == [seen \in SUBSET Slots |-> EligibleStep(held, E, seen)]
  <1>5. P(G)
    <2>1. \A seen \in SUBSET Slots : G[seen] = E[seen]
      BY <1>4, SeenCounts
    <2>2. ASSUME NEW seen \in SUBSET Slots
          PROVE  EligibleStep(held, E, seen) = EligibleStep(held, G, seen)
      <3> HIDE DEF G
      <3> QED BY <2>1, StepsAgree, SeenCounts
    <2> QED BY <2>2
  <1>6. P(CHOOSE F : P(F))
    <2> HIDE DEF P
    <2> QED BY <1>5, Zenon
  <1>7. Eligible(held) = CHOOSE F : P(F)
    BY DEF Eligible, EligibleStep
  <1> QED BY <1>6, <1>7

\* So is the count of the slots it visits.
LEMMA VisitsUnfold ==
    ASSUME NEW held
    PROVE  Visits(held) = [seen \in SUBSET Slots |-> VisitsStep(held, Visits(held), seen)]
  <1> DEFINE N == Cardinality(Slots) + 1
             Solves(E, m) == \A seen \in SUBSET Slots :
                Cardinality(seen) >= m => E[seen] = VisitsStep(held, E, seen)
             T == {m \in 0..N : \E E : Solves(E, m)}
  <1>1. N \in Nat /\ N \in T
    <2>1. \A E : Solves(E, N)
      BY SeenCounts
    <2> QED BY <2>1, SeenCounts
  <1>2. ASSUME NEW m \in 1..N, m \in T
        PROVE  m - 1 \in T
    <2>1. PICK E : Solves(E, m)
      BY <1>2
    <2> DEFINE F == [seen \in SUBSET Slots |-> VisitsStep(held, E, seen)]
    <2>2. ASSUME NEW seen \in SUBSET Slots, Cardinality(seen) >= m - 1
          PROVE  F[seen] = VisitsStep(held, F, seen)
      <3>1. ASSUME NEW s \in Slots \ seen
            PROVE  E[seen \union {s}] = F[seen \union {s}]
        <4>1. /\ seen \union {s} \in SUBSET Slots
              /\ Cardinality(seen \union {s}) >= m
          BY <2>2, SeenCounts, <1>1
        <4> QED BY <4>1, <2>1
      <3>2. VisitsStep(held, E, seen) = VisitsStep(held, F, seen)
        <4> HIDE DEF F
        <4> QED BY <3>1, StepsAgree
      <3> QED BY <3>2
    <2>3. Solves(F, m - 1)
      BY <2>2
    <2> HIDE DEF F, Solves
    <2> QED BY <2>3, <1>1
  <1>3. 0 \in T
    <2> HIDE DEF T, N
    <2> QED BY <1>1, <1>2, Descent
  <1>4. PICK E : Solves(E, 0)
    BY <1>3
  <1> DEFINE P(F) == F = [seen \in SUBSET Slots |-> VisitsStep(held, F, seen)]
             G == [seen \in SUBSET Slots |-> VisitsStep(held, E, seen)]
  <1>5. P(G)
    <2>1. \A seen \in SUBSET Slots : G[seen] = E[seen]
      BY <1>4, SeenCounts
    <2>2. ASSUME NEW seen \in SUBSET Slots
          PROVE  VisitsStep(held, E, seen) = VisitsStep(held, G, seen)
      <3> HIDE DEF G
      <3> QED BY <2>1, StepsAgree, SeenCounts
    <2> QED BY <2>2
  <1>6. P(CHOOSE F : P(F))
    <2> HIDE DEF P
    <2> QED BY <1>5, Zenon
  <1>7. Visits(held) = CHOOSE F : P(F)
    BY DEF Visits, VisitsStep
  <1> QED BY <1>6, <1>7

\* A slot resolves below others exactly when it is new to them, holds its own
\* revision, and each required dependency resolves one slot deeper.
LEMMA EligibleWhen ==
    ASSUME NEW held, NEW seen \in SUBSET Slots, NEW s \in Slots
    PROVE  Eligible(held)[seen][s] <=>
             /\ Cardinality(seen) <= MaxDepth
             /\ s \notin seen
             /\ s \in DOMAIN held
             /\ \A d \in Required(held[s]) :
                  /\ Eligible(held)[seen \union {s}][d.slot]
                  /\ held[d.slot] = d.revision
  <1> DEFINE E == Eligible(held)
  <1>1. E = [x \in SUBSET Slots |-> EligibleStep(held, E, x)]
    BY EligibleUnfolds
  <1>2. E[seen] = EligibleStep(held, E, seen)
    <2> HIDE DEF E
    <2> QED BY <1>1
  <1> HIDE DEF E
  <1>3. E[seen][s] <=>
          /\ Cardinality(seen) <= MaxDepth
          /\ s \notin seen
          /\ s \in DOMAIN held
          /\ \A d \in Required(held[s]) :
               /\ E[seen \union {s}][d.slot]
               /\ held[d.slot] = d.revision
    BY <1>2 DEF EligibleStep
  <1> QED BY <1>3 DEF E

\* held and other have the same revisions in the slots of S, which require no
\* slot outside S.
ClosedAlike(held, other, S) ==
    /\ S \subseteq DOMAIN held /\ S \subseteq DOMAIN other
    /\ \A s \in S : held[s] = other[s]
    /\ \A s \in S : \A d \in Required(held[s]) : d.slot \in S

\* Worlds that hold the same revisions in a closed set of slots resolve those
\* slots alike, and visit as many slots doing so.
LEMMA SameBelow ==
    ASSUME NEW held, NEW other, NEW S \in SUBSET Slots, ClosedAlike(held, other, S)
    PROVE  \A seen \in SUBSET Slots : \A s \in S :
             /\ Eligible(held)[seen][s] <=> Eligible(other)[seen][s]
             /\ Visits(held)[seen][s] = Visits(other)[seen][s]
  <1> DEFINE N == Cardinality(Slots) + 1
             Same(seen) == \A s \in S :
                /\ Eligible(held)[seen][s] <=> Eligible(other)[seen][s]
                /\ Visits(held)[seen][s] = Visits(other)[seen][s]
             T == {m \in 0..N : \A seen \in SUBSET Slots : Cardinality(seen) >= m => Same(seen)}
  <1>1. N \in Nat /\ N \in T
    <2>1. \A seen \in SUBSET Slots : ~(Cardinality(seen) >= N)
      BY SeenCounts
    <2> HIDE DEF Same
    <2> QED BY <2>1, SeenCounts
  <1>2. ASSUME NEW m \in 1..N, m \in T
        PROVE  m - 1 \in T
    <2> SUFFICES ASSUME NEW seen \in SUBSET Slots, Cardinality(seen) >= m - 1, NEW s \in S
                 PROVE  /\ Eligible(held)[seen][s] <=> Eligible(other)[seen][s]
                        /\ Visits(held)[seen][s] = Visits(other)[seen][s]
      BY <1>1
    <2>1. s \notin seen => Same(seen \union {s})
      <3> SUFFICES ASSUME s \notin seen PROVE Same(seen \union {s})
        OBVIOUS
      <3>1. seen \union {s} \in SUBSET Slots /\ Cardinality(seen \union {s}) >= m
        BY SeenCounts, <1>1
      <3> HIDE DEF Same
      <3> QED BY <3>1, <1>2
    <2>2. Eligible(held)[seen][s] <=> Eligible(other)[seen][s]
      <3>1. CASE s \in seen
        BY <3>1, EligibleWhen
      <3>2. CASE s \notin seen
        <4>1. ASSUME NEW d \in Required(held[s])
              PROVE  /\ Eligible(held)[seen \union {s}][d.slot] <=> Eligible(other)[seen \union {s}][d.slot]
                     /\ held[d.slot] = other[d.slot]
          BY <2>1, <3>2 DEF ClosedAlike
        <4>2. held[s] = other[s] /\ s \in DOMAIN held /\ s \in DOMAIN other /\ s \in Slots
          BY DEF ClosedAlike
        <4> HIDE DEF Same
        <4> QED BY <4>1, <4>2, EligibleWhen
      <3> QED BY <3>1, <3>2
    <2>3. Visits(held)[seen][s] = Visits(other)[seen][s]
      <3>1. /\ Visits(held)[seen] = VisitsStep(held, Visits(held), seen)
            /\ Visits(other)[seen] = VisitsStep(other, Visits(other), seen)
        BY VisitsUnfold
      <3>2. CASE s \in seen
        BY <3>1, <3>2 DEF VisitsStep
      <3>3. CASE s \notin seen
        <4>1. [d \in Required(held[s]) |-> Visits(held)[seen \union {s}][d.slot]]
              = [d \in Required(other[s]) |-> Visits(other)[seen \union {s}][d.slot]]
          BY <2>1, <3>3 DEF ClosedAlike
        <4>2. /\ Visits(held)[seen][s] =
                   1 + SumFunction([d \in Required(held[s]) |-> Visits(held)[seen \union {s}][d.slot]])
              /\ Visits(other)[seen][s] =
                   1 + SumFunction([d \in Required(other[s]) |-> Visits(other)[seen \union {s}][d.slot]])
          BY <3>1, <3>3 DEF VisitsStep
        <4> QED BY <4>1, <4>2
      <3> QED BY <3>2, <3>3
    <2> QED BY <2>2, <2>3
  <1>3. \A m \in 0..N : m \in T
    <2> HIDE DEF T, N
    <2> QED BY <1>1, <1>2, Descent
  <1>4. 0 \in T
    BY <1>1, <1>3
  <1> QED BY <1>4, SeenCounts

\* The slots that resolve when they are reached through all of own.
Below(held, own) ==
    {t \in Slots : \E seen \in SUBSET Slots : own \subseteq seen /\ Eligible(held)[seen][t]}

\* An eligible dependency finds every slot it looks at filled: the slots that
\* resolve below own are closed under what they require.
LEMMA EligibleClosed ==
    ASSUME NEW held, NEW own \in SUBSET Slots,
           \A s \in DOMAIN held : \A d \in Required(held[s]) : d.slot \in Slots
    PROVE  /\ Below(held, own) \subseteq DOMAIN held
           /\ Below(held, own) \cap own = {}
           /\ \A s \in Below(held, own) : \A d \in Required(held[s]) :
                d.slot \in Below(held, own) /\ held[d.slot] = d.revision
  <1>1. ASSUME NEW s \in Below(held, own)
        PROVE  /\ s \in DOMAIN held /\ s \notin own
               /\ \A d \in Required(held[s]) :
                    d.slot \in Below(held, own) /\ held[d.slot] = d.revision
    <2>1. PICK seen \in SUBSET Slots : own \subseteq seen /\ Eligible(held)[seen][s]
      BY DEF Below
    <2>2. s \in Slots
      BY DEF Below
    <2>3. /\ s \notin seen /\ s \in DOMAIN held
          /\ \A d \in Required(held[s]) :
               Eligible(held)[seen \union {s}][d.slot] /\ held[d.slot] = d.revision
      BY <2>1, <2>2, EligibleWhen
    <2>4. seen \union {s} \in SUBSET Slots /\ own \subseteq seen \union {s}
      BY <2>1, <2>2
    <2> QED BY <2>1, <2>3, <2>4 DEF Below
  <1> QED BY <1>1

------------------------------------------------------------------------------
(* Active agreements never require each other in a circle.                  *)

\* A dependency names a slot and a revision.
LEMMA RequiredShape ==
    ASSUME NEW r \in Revisions, NEW d \in Required(r)
    PROVE  d.slot \in Slots /\ d.revision \in Revisions
  <1>1. d \in Dependency
    BY InputAssumption DEF Required, RevisionPayload
  <1> QED BY <1>1 DEF Dependency

\* In a world whose links hold, Held lists what the pointers name.
LEMMA HeldIs ==
    ASSUME NEW w, Standing(w), Linked(w)
    PROVE  /\ DOMAIN Held(w) = {s \in Slots : w.active_slot[s] # None}
           /\ \A s \in DOMAIN Held(w) :
                /\ Held(w)[s] = w.agreement[w.active_slot[s]].revision
                /\ Held(w)[s] \in Revisions
                /\ \A d \in Required(Held(w)[s]) : d.slot \in Slots
  <1>1. DOMAIN Held(w) = {s \in Slots : w.active_slot[s] # None}
    BY PointerHolds DEF Held
  <1>2. ASSUME NEW s \in DOMAIN Held(w)
        PROVE  /\ Held(w)[s] = w.agreement[w.active_slot[s]].revision
               /\ Held(w)[s] \in Revisions
    <2>1. s \in Slots /\ w.active_slot[s] # None
      BY <1>1
    <2>2. Held(w)[s] = w.agreement[w.active_slot[s]].revision
      BY DEF Held, ActiveAgreement
    <2>3. /\ w.active_slot[s] \in Agreements /\ w.agreement[w.active_slot[s]] # None
          /\ w.agreement[w.active_slot[s]] \in AgreementRecord
      BY <2>1 DEF Standing, Exact, World
    <2> QED BY <2>2, <2>3 DEF AgreementRecord
  <1> QED BY <1>1, <1>2, RequiredShape

\* Slot s holds an agreement that requires slot t.
RestsOn(w, s, t) ==
    /\ w.active_slot[s] # None
    /\ \E d \in Required(w.agreement[w.active_slot[s]].revision) : d.slot = t

\* Among any slots there is one that requires none of them.
Acyclic(w) ==
    \A S \in SUBSET Slots : S # {} => \E s \in S : \A t \in S : ~RestsOn(w, s, t)

\* Ending agreements makes no circle.
LEMMA FewerNeeds ==
    ASSUME NEW w, NEW v, Acyclic(w),
           \A s \in Slots : \A t : RestsOn(v, s, t) => RestsOn(w, s, t)
    PROVE  Acyclic(v)
  BY Zenon DEF Acyclic

\* Nor does activation: what the new agreement requires was eligible below its
\* own slot, so that none of it leads back there.
LEMMA ActivateAcyclic ==
    ASSUME NEW w, Standing(w), Linked(w), Acyclic(w), NEW c \in Commands, c.type = "activate",
           CanActivate(w, c)
    PROVE  Acyclic(AfterActivate(w, c))
  <1> DEFINE v == AfterActivate(w, c)
             pid == c.input.proposal
             a == c.input.agreement
             r == w.proposal[pid].revision
             s == SlotOf(r)
             C == Below(Held(w), {s})
  <1>1. /\ pid \in Proposals /\ a \in Agreements /\ w \in World
        /\ w.proposal[pid] # None /\ w.agreement[a] = None
        /\ DependencyEligible(Held(w), r)
    BY ActivateInput DEF CanActivate, Standing
  <1>2. r \in Revisions /\ s \in Slots
    BY <1>1, SlotType DEF World, Proposal
  <1>3. /\ C \subseteq DOMAIN Held(w)
        /\ C \cap {s} = {}
        /\ \A t \in C : \A d \in Required(Held(w)[t]) : d.slot \in C
    <2>1. \A t \in DOMAIN Held(w) : \A d \in Required(Held(w)[t]) : d.slot \in Slots
      BY HeldIs
    <2>2. {s} \in SUBSET Slots
      BY <1>2
    <2> HIDE DEF s
    <2> QED BY <2>1, <2>2, EligibleClosed
  <1>4. \A d \in Required(r) : d.slot \in C
    <2>1. \A d \in Required(r) : Eligible(Held(w))[{s}][d.slot]
      BY <1>1 DEF DependencyEligible, RequirementMet
    <2> QED BY <1>2, <2>1, RequiredShape DEF Below
  <1>5. /\ v.active_slot[s] = a /\ v.agreement[a].revision = r
        /\ \A t \in Slots \ {s} : v.active_slot[t] = w.active_slot[t]
        /\ \A h \in Agreements \ {a} : v.agreement[h] = Superseded(w, s).agreement[h]
    <2>1. Enters(w, v, pid, a, s)
      BY ActivateFrame
    <2> HIDE DEF v, s
    <2> QED BY <2>1 DEF Enters
  <1> HIDE DEF v, C
  <1>6. ASSUME NEW t \in Slots \ {s}, NEW x, RestsOn(v, t, x)
        PROVE  RestsOn(w, t, x)
    <2> DEFINE h == w.active_slot[t]
    <2>1. v.active_slot[t] = h /\ h # None
      BY <1>5, <1>6 DEF RestsOn
    <2>2. h \in Agreements /\ w.agreement[h] # None
      BY <2>1 DEF Standing, Exact, World
    <2>3. v.agreement[h].revision = w.agreement[h].revision
      <3>1. Superseded(w, s).agreement[h].revision = w.agreement[h].revision
        <4> HIDE DEF s, h
        <4> QED BY <1>2, <2>2, SupersededFrame
      <3>2. h # a
        BY <1>1, <2>2
      <3> QED BY <1>5, <2>2, <3>1, <3>2
    <2> QED BY <1>6, <2>1, <2>3 DEF RestsOn
  <1>7. ASSUME NEW x, RestsOn(v, s, x)
        PROVE  x \in C
    BY <1>4, <1>5, <1>7 DEF RestsOn
  <1>8. ASSUME NEW t \in C, NEW x, RestsOn(w, t, x)
        PROVE  x \in C
    <2>1. t \in DOMAIN Held(w) /\ Held(w)[t] = w.agreement[w.active_slot[t]].revision
      BY <1>3, HeldIs
    <2> QED BY <1>3, <1>8, <2>1 DEF RestsOn
  <1>9. ASSUME NEW S \in SUBSET Slots, S # {}
        PROVE  \E u \in S : \A t \in S : ~RestsOn(v, u, t)
    <2>1. CASE S \cap C # {}
      <3>1. PICK u \in S \cap C : \A t \in S \cap C : ~RestsOn(w, u, t)
        BY <2>1 DEF Acyclic
      <3>2. \A t \in S : ~RestsOn(v, u, t)
        BY <1>3, <1>6, <1>8, <3>1
      <3> QED BY <3>1, <3>2
    <2>2. CASE S \cap C = {} /\ s \in S
      BY <1>7, <2>2
    <2>3. CASE s \notin S
      <3>1. PICK u \in S : \A t \in S : ~RestsOn(w, u, t)
        BY <1>9 DEF Acyclic
      <3>2. u \in Slots \ {s}
        BY <2>3
      <3> QED BY <1>6, <3>1, <3>2
    <2> QED BY <2>1, <2>2, <2>3
  <1> QED BY <1>9 DEF Acyclic, v

\* No command closes a circle.
LEMMA ExecutedAcyclic ==
    ASSUME NEW w, Standing(w), Linked(w), Acyclic(w), NEW c \in Commands, Accepts(w, c)
    PROVE  Acyclic(Executed(w, c))
  <1> DEFINE v == Executed(w, c)
  <1>1. Can(w, c) /\ w \in World /\ Standing(v)
    BY ExecutedStanding DEF Accepts, Standing
  <1>2. v.agreement = After(w, c).agreement /\ v.active_slot = After(w, c).active_slot
    BY <1>1, ExecutedFrame
  <1>3. Kept(w, v)
    BY ExecutedKept
  <1>4. CASE c.type = "activate"
    <2>1. Acyclic(AfterActivate(w, c))
      BY <1>1, <1>4, ActivateAcyclic DEF Can
    <2>2. \A s, t : RestsOn(v, s, t) => RestsOn(AfterActivate(w, c), s, t)
      BY <1>2, <1>4 DEF RestsOn, After
    <2> HIDE DEF v
    <2>3. Acyclic(v)
      BY <2>1, <2>2, FewerNeeds
    <2> QED BY <2>3 DEF v
  <1>5. CASE c.type # "activate"
    <2>1. \A s \in Slots : v.active_slot[s] \in {None, w.active_slot[s]}
      <3>1. ASSUME NEW u, u.active_slot = w.active_slot, NEW g, NEW status, NEW s \in Slots,
                   w.active_slot \in [Slots -> Agreements \union {None}]
            PROVE  Deactivate(u, g, status).active_slot[s] \in {None, w.active_slot[s]}
        BY <3>1 DEF Deactivate
      <3>2. w.active_slot \in [Slots -> Agreements \union {None}]
        BY <1>1 DEF World
      <3>3. CASE c.type \in {"publish_revision", "propose", "fence"}
        BY <1>1, <1>2, <3>3 DEF After, AfterPublish, AfterPropose, AfterFence, World
      <3>4. CASE c.type = "decide"
        BY <1>1, <1>2, <3>1, <3>2, <3>4, RecordFrame DEF After, AfterDecide
      <3>5. CASE c.type \in {"withdraw", "suspend"}
        BY <1>1, <1>2, <3>1, <3>2, <3>5 DEF After, AfterStatusChange
      <3> QED BY <1>1, <1>5, <3>3, <3>4, <3>5 DEF Can
    <2> HIDE DEF v
    <2>2. ASSUME NEW s \in Slots, NEW t, RestsOn(v, s, t)
          PROVE  RestsOn(w, s, t)
      <3> DEFINE h == w.active_slot[s]
      <3>1. v.active_slot[s] = h /\ h # None
        BY <2>1, <2>2 DEF RestsOn
      <3>2. h \in Agreements /\ w.agreement[h] # None /\ w.agreement[h] \in AgreementRecord
        BY <1>1, <3>1 DEF Standing, Exact, World
      <3>3. /\ v.agreement[h] # None /\ v.agreement[h] \in AgreementRecord
            /\ [v.agreement[h] EXCEPT !.status = w.agreement[h].status] = w.agreement[h]
        BY <1>1, <1>3, <3>2 DEF Kept, Standing, World
      <3>4. v.agreement[h].revision = w.agreement[h].revision
        BY <3>3 DEF AgreementRecord
      <3> QED BY <2>2, <3>1, <3>4 DEF RestsOn
    <2>3. Acyclic(v)
      BY <2>2, FewerNeeds
    <2> QED BY <2>3 DEF v
  <1> QED BY <1>4, <1>5
=============================================================================
