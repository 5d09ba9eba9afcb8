--------------------------- MODULE Agreement_proofs ---------------------------
(***************************************************************************)
(* Theorems about Agreement.tla: what the facts of                         *)
(* AgreementDomain_proofs.tla about one command mean for every history of  *)
(* commands.                                                               *)
(***************************************************************************)
EXTENDS Agreement, AgreementDomain_proofs

\* A step of the ledger is the bootstrap or one accepted command.
LEMMA StepCases ==
    ASSUME Next
    PROVE  Bootstrap \/ \E c \in Commands : Execute(c)
  BY DEF Next, PublishRevision, Propose, Decide, Activate, ChangeStatus, Fence, OfType

\* Every command of every history, replays and refusals included, leaves each
\* key with a value of the type its handler writes there.
THEOREM TypeCorrect == Spec => []TypeOK
  <1>1. Init => TypeOK
    BY DEF Init, EmptyWorld, TypeOK, World
  <1>2. TypeOK /\ [Next]_vars => TypeOK'
    <2> SUFFICES ASSUME TypeOK, [Next]_vars PROVE TypeOK'
      OBVIOUS
    <2>1. CASE Bootstrap
      BY <2>1 DEF Bootstrap, Bootstrapped, TypeOK, World
    <2>2. CASE \E c \in Commands : Execute(c)
      BY <2>2, ExecutedType DEF Execute, TypeOK
    <2>3. CASE UNCHANGED vars
      BY <2>3 DEF vars, TypeOK
    <2> QED BY <2>1, <2>2, <2>3, StepCases
  <1> QED BY <1>1, <1>2, PTL DEF Spec

\* The empty ledger stands, and every step keeps it standing.
LEMMA StandingInductive ==
    /\ Init => Standing(ledger)
    /\ Standing(ledger) /\ [Next]_vars => Standing(ledger)'
  <1>1. Init => Standing(ledger)
    <2>1. Init => ledger \in World
      BY DEF Init, EmptyWorld, World
    <2> QED BY <2>1 DEF Init, EmptyWorld, Standing, Exact, Consumed, StillApproved
  <1>2. ASSUME Standing(ledger), [Next]_vars PROVE Standing(ledger')
    <2>1. CASE Bootstrap
      <3>1. ledger' \in World
        BY <1>2, <2>1 DEF Bootstrap, Bootstrapped, World, Standing
      <3>2. /\ ledger'.agreement = ledger.agreement
            /\ ledger'.active_slot = ledger.active_slot
            /\ ledger'.decision = ledger.decision
            /\ ledger'.latest_decision = ledger.latest_decision
            /\ ledger'.proposal = ledger.proposal
        BY <1>2, <2>1 DEF Bootstrap, Bootstrapped, World, Standing
      <3> QED BY <1>2, <3>1, <3>2, QuietStep
    <2>2. CASE \E c \in Commands : Execute(c)
      BY <1>2, <2>2, ExecutedStanding DEF Execute
    <2>3. CASE UNCHANGED vars
      BY <1>2, <2>3 DEF vars
    <2> QED BY <1>2, <2>1, <2>2, <2>3, StepCases
  <1> QED BY <1>1, <1>2

\* Activation, supersession, withdrawal and suspension always write both
\* sides: the slot's pointer and the agreement's status never disagree.
THEOREM PointerExact == Spec => []ActivePointerExact
  <1>1. Standing(ledger) => ActivePointerExact
    BY DEF Standing, Exact, ActivePointerExact, Holder
  <1> QED BY <1>1, StandingInductive, PTL DEF Spec

\* No order of decisions and activations leaves an agreement in force that
\* one of its required representatives no longer approves.
THEOREM StillApprovedAlways == Spec => []ActiveStillApproved
  <1>1. Standing(ledger) => ActiveStillApproved
    BY DEF Standing, StillApproved, ActiveStillApproved, Holder
  <1> QED BY <1>1, StandingInductive, PTL DEF Spec

\* An approval round yields at most one agreement.
THEOREM ConsumedOnce == Spec => []ProposalConsumedOnce
  <1>1. Standing(ledger) => ProposalConsumedOnce
    BY DEF Standing, Consumed, ProposalConsumedOnce, Holder
  <1> QED BY <1>1, StandingInductive, PTL DEF Spec

\* The links of the stored records, manifests among them, stay in force with
\* the agreements they are about.
LEMMA LinkedInductive ==
    /\ Init => Linked(ledger)
    /\ Standing(ledger) /\ Linked(ledger) /\ [Next]_vars => Linked(ledger)'
  <1>1. Init => Linked(ledger)
    BY DEF Init, EmptyWorld, Linked, Manifests
  <1>2. ASSUME Standing(ledger), Linked(ledger), [Next]_vars PROVE Linked(ledger')
    <2>1. CASE Bootstrap
      <3>1. /\ ledger'.agreement = ledger.agreement /\ ledger'.decision = ledger.decision
            /\ ledger'.proposal = ledger.proposal /\ ledger'.revision = ledger.revision
            /\ ledger'.revision_id = ledger.revision_id
            /\ ledger'.review_counter = ledger.review_counter
        BY <1>2, <2>1 DEF Bootstrap, Bootstrapped, World, Standing
      <3>2. \A r \in Revisions : RevisionLinks(ledger, r) => RevisionLinks(ledger', r)
        BY <3>1 DEF RevisionLinks
      <3>3. \A p \in Proposals : ProposalLinks(ledger, p) => ProposalLinks(ledger', p)
        BY <3>1 DEF ProposalLinks
      <3>4. \A a : Cites(ledger, a) => Cites(ledger', a)
        BY <3>1 DEF Cites
      <3> QED BY <1>2, <3>1, <3>2, <3>3, <3>4 DEF Linked, Manifests
    <2>2. CASE \E c \in Commands : Execute(c)
      BY <1>2, <2>2, ExecutedLinked DEF Execute
    <2>3. CASE UNCHANGED vars
      BY <1>2, <2>3 DEF vars
    <2> QED BY <1>2, <2>1, <2>2, <2>3, StepCases
  <1> QED BY <1>1, <1>2

\* Resolution never reports CORRUPT_APPROVALS: whatever is activated, ended or
\* decided afterwards, each agreement's manifest cites one approval of each
\* required representative, bound to its own target.
THEOREM ManifestsValid == Spec => []ManifestsStayValid
  <1>1. Standing(ledger) /\ Linked(ledger) => ManifestsStayValid
    <2> SUFFICES ASSUME Standing(ledger), Linked(ledger), NEW g \in Agreements,
                        ledger.agreement[g] # None
                 PROVE  ApprovalsValid(ledger, ledger.agreement[g])
      BY DEF ManifestsStayValid, Holder
    <2>1. ledger.agreement[g] \in AgreementRecord
      BY DEF Standing, World
    <2>2. Cites(ledger, ledger.agreement[g])
      BY DEF Linked, Manifests
    <2> QED BY <2>1, <2>2, CitesValid
  <1> QED BY <1>1, StandingInductive, LinkedInductive, PTL DEF Spec

\* No history closes a circle of required agreements.
THEOREM NeverCircular == Spec => []RequirementsAcyclic
  <1>1. Init => Acyclic(ledger)
    <2>1. Init => \A s \in Slots : \A t : ~RestsOn(ledger, s, t)
      BY DEF Init, EmptyWorld, RestsOn
    <2> QED BY <2>1, Zenon DEF Acyclic
  <1>2. Standing(ledger) /\ Linked(ledger) /\ Acyclic(ledger) /\ [Next]_vars => Acyclic(ledger)'
    <2> SUFFICES ASSUME Standing(ledger), Linked(ledger), Acyclic(ledger), [Next]_vars
                 PROVE  Acyclic(ledger')
      OBVIOUS
    <2>1. CASE Bootstrap
      <3>1. ledger'.agreement = ledger.agreement /\ ledger'.active_slot = ledger.active_slot
        BY <2>1 DEF Bootstrap, Bootstrapped, World, Standing
      <3>2. \A s \in Slots : \A t : RestsOn(ledger', s, t) => RestsOn(ledger, s, t)
        BY <3>1 DEF RestsOn
      <3> QED BY <3>2, FewerNeeds
    <2>2. CASE \E c \in Commands : Execute(c)
      BY <2>2, ExecutedAcyclic DEF Execute
    <2>3. CASE UNCHANGED vars
      BY <2>3 DEF vars
    <2> QED BY <2>1, <2>2, <2>3, StepCases
  <1>3. Acyclic(ledger) => RequirementsAcyclic
    <2>1. \A s, t : RequiresSlot(s, t) <=> RestsOn(ledger, s, t)
      BY DEF RequiresSlot, RestsOn, ActiveAgreement
    <2> QED BY <2>1, Zenon DEF Acyclic, RequirementsAcyclic
  <1> QED BY <1>1, <1>2, <1>3, StandingInductive, LinkedInductive, PTL DEF Spec

\* No reader halts on the ledger's own writes: the write set of every accepted
\* command passes validateStateWrite and validateStateLinks.
THEOREM WritesApply == Spec => EveryWriteApplies
  <1>1. Standing(ledger) /\ Linked(ledger) /\ [Next]_vars => [Applicable(ledger, ledger')]_vars
    <2> SUFFICES ASSUME Standing(ledger), Linked(ledger), Next
                 PROVE  Applicable(ledger, ledger')
      OBVIOUS
    <2>1. CASE Bootstrap
      <3>1. ledger \in World /\ ledger' \in World
        BY <2>1 DEF Bootstrap, Bootstrapped, World, Standing
      <3>2. /\ ledger'.revision = ledger.revision /\ ledger'.revision_id = ledger.revision_id
            /\ ledger'.proposal = ledger.proposal /\ ledger'.decision = ledger.decision
            /\ ledger'.review_counter = ledger.review_counter
            /\ ledger'.latest_decision = ledger.latest_decision
            /\ ledger'.agreement = ledger.agreement /\ ledger'.active_slot = ledger.active_slot
            /\ ledger'.idempotency = ledger.idempotency /\ ledger'.fence = ledger.fence
        BY <2>1 DEF Bootstrap, Bootstrapped, World, Standing
      <3>3. LinksHold(ledger, ledger')
        BY <3>2, Untouched DEF LinksHold
      <3>4. Grown(ledger, ledger')
        BY <3>2 DEF Grown
      <3> QED BY <3>1, <3>3, <3>4, GrownWritesOnce DEF Applicable, WellFormed
    <2>2. CASE \E c \in Commands : Execute(c)
      BY <2>2, ExecutedApplies DEF Execute
    <2> QED BY <2>1, <2>2, StepCases
  <1> QED BY <1>1, StandingInductive, LinkedInductive, PTL DEF Spec, EveryWriteApplies

\* Nothing is stored before the bootstrap.
LEMMA NothingBeforeBootstrap ==
    /\ Init => (ledger.channel.config \/ ledger = EmptyWorld)
    /\ (ledger.channel.config \/ ledger = EmptyWorld) /\ Standing(ledger) /\ [Next]_vars
          => (ledger.channel.config \/ ledger = EmptyWorld)'
  <1>1. ASSUME ledger.channel.config \/ ledger = EmptyWorld, Standing(ledger), [Next]_vars
        PROVE  ledger'.channel.config \/ ledger' = EmptyWorld
    <2>1. CASE Bootstrap
      BY <1>1, <2>1 DEF Bootstrap, Bootstrapped, World, Standing
    <2>2. CASE \E c \in Commands : Execute(c)
      <3>1. PICK c \in Commands : Accepts(ledger, c) /\ ledger' = Executed(ledger, c)
        BY <2>2 DEF Execute
      <3>2. ledger.channel.config
        BY <3>1 DEF Accepts, Fresh
      <3>3. ledger'.channel.config = ledger.channel.config
        BY <1>1, <3>1, ConfigKept
      <3> QED BY <3>2, <3>3
    <2>3. CASE UNCHANGED vars
      BY <1>1, <2>3 DEF vars
    <2> QED BY <1>1, <2>1, <2>2, <2>3, StepCases
  <1> QED BY <1>1 DEF Init

\* An epoch covers what was resolved under it: whatever a step does to a slot
\* or to the slots it depends on, readers can tell by the epoch alone.
THEOREM EpochCovers == Spec => EpochCoversResolution
  <1> DEFINE Inv == /\ Standing(ledger) /\ Linked(ledger)
                    /\ ledger.channel.config \/ ledger = EmptyWorld
             A == (\E s \in Slots : Resolve(ledger, s) # Resolve(ledger', s))
                     => Epoch(ledger') > Epoch(ledger)
  <1>1. Inv /\ Inv' /\ [Next]_vars => [A]_vars
    <2> SUFFICES ASSUME Inv, Inv', Next,
                        ~(Epoch(ledger') > Epoch(ledger)), NEW s \in Slots
                 PROVE  Resolve(ledger, s) = Resolve(ledger', s)
      OBVIOUS
    <2>1. CASE Bootstrap
      <3>1. ledger = EmptyWorld
        BY <2>1 DEF Bootstrap
      <3>2. ledger.active_slot[s] = None /\ ledger'.active_slot[s] = None
        BY <2>1, <3>1 DEF Bootstrap, Bootstrapped, EmptyWorld
      <3> QED BY <3>2 DEF Resolve
    <2>2. CASE \E c \in Commands : Execute(c)
      <3>1. PICK c \in Commands : Accepts(ledger, c) /\ ledger' = Executed(ledger, c)
        BY <2>2 DEF Execute
      <3>2. /\ ledger'.agreement = ledger.agreement
            /\ ledger'.active_slot = ledger.active_slot
            /\ ledger'.channel.config = ledger.channel.config
        BY <3>1, EpochOrQuiet
      <3> QED BY <3>2, ResolutionKept
    <2> QED BY <2>1, <2>2, StepCases
  <1>2. Spec => []Inv
    BY StandingInductive, LinkedInductive, NothingBeforeBootstrap, PTL DEF Spec
  <1>3. EpochCoversResolution <=> [][A]_vars
    BY DEF EpochCoversResolution
  <1> QED BY <1>1, <1>2, <1>3, PTL DEF Spec

\* A superseded, withdrawn or suspended agreement never comes back, and what
\* an agreement approved is never rewritten.
THEOREM EndedStayEnded == Spec => EndedAgreementsStayEnded
  <1> DEFINE A == \A g \in Agreements :
                    Holder(g) # None =>
                      /\ Holder(g)' # None
                      /\ [Holder(g)' EXCEPT !.status = Holder(g).status] = Holder(g)
                      /\ Holder(g).status # "active" => Holder(g)'.status = Holder(g).status
  <1>1. Standing(ledger) /\ [Next]_vars => [A]_vars
    <2> SUFFICES ASSUME Standing(ledger), Next PROVE A
      OBVIOUS
    <2>1. Kept(ledger, ledger')
      <3>1. CASE Bootstrap
        <4>1. ledger'.agreement = ledger.agreement /\ ledger \in World
          BY <3>1 DEF Bootstrap, Bootstrapped, World, Standing
        <4> QED BY <4>1, UnchangedKept
      <3>2. CASE \E c \in Commands : Execute(c)
        BY <3>2, ExecutedKept DEF Execute
      <3> QED BY <3>1, <3>2, StepCases
    <2> QED BY <2>1 DEF Kept, Holder
  <1>2. EndedAgreementsStayEnded <=> [][A]_vars
    BY DEF EndedAgreementsStayEnded
  <1> QED BY <1>1, <1>2, StandingInductive, PTL DEF Spec
=============================================================================
