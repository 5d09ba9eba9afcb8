------------------------------ MODULE Agreement ------------------------------
(***************************************************************************)
(* The knowledge agreement ledger as its clients see it: one channel whose *)
(* commands take effect one at a time, each atomically (execute, bootstrap *)
(* and resolveAt of packages/domain/index.ts).  This is what the local     *)
(* ledger runs directly, one BEGIN IMMEDIATE transaction per command, and  *)
(* what FabricChannel.tla implements with endorsement and MVCC validation. *)
(***************************************************************************)
EXTENDS StateValidation

VARIABLE ledger    \* the channel's world state

vars == ledger

Init == ledger = EmptyWorld

\* Chaincode initialization, or the first start of a local ledger.
Bootstrap ==
    /\ ~ledger.channel.config
    /\ ledger' = Bootstrapped(ledger)

\* A client's command is executed.  A refused command and an exact repeat of
\* a recorded one leave the ledger as it is.
Execute(c) == Accepts(ledger, c) /\ ledger' = Executed(ledger, c)

OfType(types) == {c \in Commands : c.type \in types}

PublishRevision == \E c \in OfType({"publish_revision"}) : Execute(c)
Propose == \E c \in OfType({"propose"}) : Execute(c)
Decide == \E c \in OfType({"decide"}) : Execute(c)
Activate == \E c \in OfType({"activate"}) : Execute(c)
ChangeStatus == \E c \in OfType({"withdraw", "suspend"}) : Execute(c)
Fence == \E c \in OfType({"fence"}) : Execute(c)

Next ==
    \/ Bootstrap
    \/ PublishRevision
    \/ Propose
    \/ Decide
    \/ Activate
    \/ ChangeStatus
    \/ Fence

Spec == Init /\ [][Next]_vars

------------------------------------------------------------------------------
(* Invariants. *)

\* Every stored value has the shape its record type declares.
TypeOK == ledger \in World

Holder(g) == ledger.agreement[g]

\* A slot's pointer and the statuses of its agreements never disagree: an
\* agreement is active exactly when its own slot points at it, so a slot has
\* at most one active agreement, and a pointer never names a missing
\* agreement or one of another slot (the CORRUPT_STATE branches of
\* getActiveAgreement).  Activation, supersession, withdrawal and the
\* suspension a decision causes each have to write both sides.
ActivePointerExact ==
    /\ \A g \in Agreements :
         Holder(g) # None =>
            (Holder(g).status = "active"
               <=> ledger.active_slot[SlotOf(Holder(g).revision)] = g)
    /\ \A s \in Slots :
         LET g == ledger.active_slot[s] IN
         g # None => Holder(g) # None /\ SlotOf(Holder(g).revision) = s

\* While an agreement is active, the latest decision of every required
\* representative on its proposal is still an approval: an objection,
\* abstention or retraction can never be recorded and leave it served.
ActiveStillApproved ==
    \A g \in Agreements :
        (Holder(g) # None /\ Holder(g).status = "active") =>
            \A role \in RequiredRoles(Holder(g).policy) :
                Approves(ledger, Holder(g).proposal, role)

\* Every agreement ever made, ended ones included, keeps a manifest that
\* validateAgreementApprovals accepts: resolution never reports
\* CORRUPT_APPROVALS.
ManifestsStayValid ==
    \A g \in Agreements :
        Holder(g) # None => ApprovalsValid(ledger, Holder(g))

\* A proposal yields at most one agreement, and is marked activated with the
\* identifier of exactly that one: an approval round is consumed once.
ProposalConsumedOnce ==
    \A g \in Agreements :
        Holder(g) # None =>
            LET p == Holder(g).proposal IN
            /\ ledger.proposal[p] # None
            /\ ledger.proposal[p].status = "activated"
            /\ ledger.proposal[p].agreement = g
            /\ ledger.proposal[p].revision = Holder(g).revision
            /\ ledger.proposal[p].policy = Holder(g).policy

\* Slot s holds an agreement that requires slot t.
RequiresSlot(s, t) ==
    /\ ledger.active_slot[s] # None
    /\ \E d \in Required(ActiveAgreement(ledger, s).revision) : d.slot = t

\* Active agreements never require each other in a circle, whatever order
\* slots were activated and superseded in, or nothing on it would resolve
\* again: among any slots there is one that requires none of them.
RequirementsAcyclic ==
    \A S \in SUBSET Slots : S # {} => \E s \in S : \A t \in S : ~RequiresSlot(s, t)

------------------------------------------------------------------------------
(* Action properties. *)

\* A reader that saw an eligibility epoch may trust what it resolved until
\* the epoch moves: no step changes what any slot resolves to, through its
\* own agreement or through a dependency's, without raising the epoch.
EpochCoversResolution ==
    [][ (\E s \in Slots : Resolve(ledger, s) # Resolve(ledger', s))
          => Epoch(ledger') > Epoch(ledger) ]_vars

\* Nothing revives an agreement that was superseded, withdrawn or suspended,
\* and no step alters what any agreement says: only active may become ended.
EndedAgreementsStayEnded ==
    [][ \A g \in Agreements :
          Holder(g) # None =>
            /\ Holder(g)' # None
            /\ [Holder(g)' EXCEPT !.status = Holder(g).status] = Holder(g)
            /\ Holder(g).status # "active" => Holder(g)'.status = Holder(g).status ]_vars

\* What an activation puts in force is served at once: the checks made at
\* activation are the ones readers repeat, limits included.
ActivationServes ==
    [][ \A s \in Slots :
          (ledger'.active_slot[s] # None /\ ledger'.active_slot[s] # ledger.active_slot[s])
          => Resolve(ledger', s) = ledger'.active_slot[s] ]_vars

\* What the ledger commits, every reader can apply: no accepted command
\* produces writes that state-validation.ts refuses, which would halt the
\* projection of the whole channel at that block.
EveryWriteApplies == [][Applicable(ledger, ledger')]_vars
==============================================================================
