---------------------------- MODULE FabricChannel ----------------------------
(***************************************************************************)
(* The channel as Fabric runs it: the chaincode (packages/fabric/          *)
(* chaincode.ts) simulates a command against the committed world and       *)
(* buffers its writes; the transaction is ordered; when its turn comes,    *)
(* MVCC validation applies the buffered writes only if no key the          *)
(* simulation read was written since.  Endorsing on a peer that lags is    *)
(* endorsing earlier, so a transaction may wait arbitrarily long between   *)
(* its steps, be overtaken, or never be ordered at all.                    *)
(*                                                                         *)
(* The claim is that clients cannot tell this from Agreement.tla, where    *)
(* each command runs alone: it rests on what every handler reads, which is *)
(* why the read and write sets are spelled out key by key.                 *)
(***************************************************************************)
EXTENDS Agreement, Sequences

CONSTANTS
    TxIds          \* transactions in flight at the same time

\* ledger, the committed world state, is the serial ledger's own variable.
VARIABLES
    tx,            \* TxIds -> transaction in flight, or None
    ordered,       \* sequence of TxIds the orderer has sequenced
    answers        \* what VALID transactions answered: {[command, result]}

channelVars == <<ledger, tx, ordered, answers>>

------------------------------------------------------------------------------
(* Keys: <<prefix, rest>>. *)

At(w, k) == w[k[1]][k[2]]

EpochKey == <<"channel", "eligibility_epoch">>
ConfigKey == <<"channel", "config">>
IdempotencyRecordKey(c) == <<"idempotency", IdempotencyKey(c)>>

\* Every slot that resolving r's required dependencies looks at: those r
\* requires, those their active revisions require, and so on.
DependencySlots(w, r) ==
    LET held == Held(w)
        Direct(q) == {d.slot : d \in Required(q)}
        Closed(S) == Direct(r) \subseteq S /\ \A s \in S \cap DOMAIN held : Direct(held[s]) \subseteq S
    IN  {t \in Slots : \A S \in SUBSET Slots : Closed(S) => t \in S}

\* getActiveAgreement: the pointer and the agreement it names.
ActiveKeys(w, s) ==
    {<<"active_slot", s>>} \union
    IF w.active_slot[s] = None THEN {} ELSE {<<"agreement", w.active_slot[s]>>}

\* resolveInternal: the slot's agreement, the decisions it cites, its revision.
ResolveKeys(w, s) ==
    ActiveKeys(w, s)
    \union {<<"decision", d>> : d \in ActiveAgreement(w, s).approvals}
    \union {<<"revision", ActiveAgreement(w, s).revision>>}

PublishReads(w, c) ==
    LET r == c.input.revision
        info == RevisionInfo[r]
    IN  {<<"revision", r>>} \union
        IF w.revision[r] THEN {}
        ELSE {<<"revision_id", info.revision_id>>}
             \union {<<"revision", q>> : q \in info.parents}
             \union {<<"revision", d.revision>> : d \in info.dependencies}

ProposeReads(w, c) ==
    {<<"revision", c.input.revision>>, <<"proposal", c.input.proposal>>}

DecideReads(w, c) ==
    LET d == DecisionOf(c)
        latest == w.latest_decision[LatestKey(d)]
    IN  {<<"proposal", d.proposal>>, <<"revision", d.revision>>,
         <<"decision", c.input.decision>>, <<"latest_decision", LatestKey(d)>>,
         <<"review_counter", d.proposal>>}
        \union {<<"decision", x>> : x \in {latest, d.retracts} \ {None}}
        \union (IF d.kind = "approve" THEN {} ELSE ActiveKeys(w, SlotOf(d.revision)))
        \union (IF Suspends(w, c) THEN {EpochKey} ELSE {})

\* Fault: approvals and the slot are looked up outside the transaction.
ActivateReadsLittle(w, c) ==
    {<<"revision", w.proposal[c.input.proposal].revision>>,
     <<"agreement", c.input.agreement>>}

\* activate's requireApproval of every role: the pointer and the decision.
VoteKeys(w, pid) ==
    UNION {{<<"latest_decision", <<pid, role, RepresentativeOf(w.proposal[pid].policy, role)>>>>,
            <<"decision", LatestOf(w, pid, role)>>} : role \in RequiredRoles(w.proposal[pid].policy)}

\* dependencyEligible of r: what resolving each of those slots reads.
DependencyKeys(w, r) == UNION {ResolveKeys(w, s) : s \in DependencySlots(w, r)}

ActivateReads(w, c) ==
    LET pid == c.input.proposal
        p == w.proposal[pid]
    IN  {<<"proposal", pid>>, <<"review_counter", pid>>, <<"revision", p.revision>>,
         <<"agreement", c.input.agreement>>, EpochKey}
        \union ActiveKeys(w, SlotOf(p.revision))
        \union VoteKeys(w, pid)
        \union DependencyKeys(w, p.revision)

\* withdraw and suspend do not read the slot pointer they clear.
StatusReads(w, c) == {<<"agreement", c.input.agreement>>, EpochKey}

\* Fault: the epoch is taken from a cache.
FenceReadsNonceOnly(w, c) == {<<"fence", c.input.nonce>>}

FenceReads(w, c) == {<<"fence", c.input.nonce>>, EpochKey}

CommandReads(w, c) ==
    CASE c.type = "publish_revision" -> PublishReads(w, c)
      [] c.type = "propose" -> ProposeReads(w, c)
      [] c.type = "decide" -> DecideReads(w, c)
      [] c.type = "activate" -> ActivateReads(w, c)
      [] c.type \in {"withdraw", "suspend"} -> StatusReads(w, c)
      [] c.type = "fence" -> FenceReads(w, c)

DeactivationWrites(w, g) ==
    {<<"agreement", g>>, <<"active_slot", SlotOf(w.agreement[g].revision)>>, EpochKey}

CommandWrites(w, c) ==
    CASE c.type = "publish_revision" ->
            IF w.revision[c.input.revision] THEN {}
            ELSE {<<"revision", c.input.revision>>,
                  <<"revision_id", RevisionInfo[c.input.revision].revision_id>>}
      [] c.type = "propose" ->
            {<<"proposal", c.input.proposal>>, <<"review_counter", c.input.proposal>>}
      [] c.type = "decide" ->
            {<<"decision", c.input.decision>>, <<"latest_decision", LatestKey(DecisionOf(c))>>,
             <<"proposal", c.input.proposal>>, <<"review_counter", c.input.proposal>>}
            \union (IF Suspends(w, c) THEN DeactivationWrites(w, SuspendedBy(w, c)) ELSE {})
      [] c.type = "activate" ->
            LET s == SlotOf(w.proposal[c.input.proposal].revision) IN
            {<<"agreement", c.input.agreement>>, <<"active_slot", s>>,
             <<"proposal", c.input.proposal>>, EpochKey}
            \union {<<"agreement", g>> : g \in {w.active_slot[s]} \ {None}}
      [] c.type \in {"withdraw", "suspend"} -> DeactivationWrites(w, c.input.agreement)
      [] c.type = "fence" -> {<<"fence", c.input.nonce>>}

\* Every transaction reads the configuration and the idempotency record; one
\* that repeats a recorded command reads nothing else and writes nothing.
ReadSet(w, c) ==
    {ConfigKey, IdempotencyRecordKey(c)} \union
    IF Replays(w, c) THEN {} ELSE CommandReads(w, c)

WriteSet(w, c) ==
    IF Replays(w, c) THEN {} ELSE {IdempotencyRecordKey(c)} \union CommandWrites(w, c)

\* Fault: a repeated command is answered as if it ran again.
AnswerAnew(w, c) == ResultOf(w, c)

AnswerTo(w, c) ==
    IF Replays(w, c) THEN w.idempotency[IdempotencyKey(c)].result ELSE ResultOf(w, c)

\* A write set applied to a world, key by key.
Apply(w, writes) ==
    [f \in DOMAIN w |->
        [i \in DOMAIN w[f] |->
            IF <<f, i>> \in DOMAIN writes THEN writes[<<f, i>>] ELSE w[f][i]]]

\* Chaincode simulation of c against w: Invoke, whose BufferedContext keeps
\* every put until the command has succeeded.
Simulate(w, c) ==
    LET after == Executed(w, c) IN
    [command |-> c, reads |-> ReadSet(w, c), result |-> AnswerTo(w, c), stale |-> FALSE,
     writes |-> [k \in WriteSet(w, c) |-> At(after, k)]]

------------------------------------------------------------------------------

ChannelInit ==
    /\ ledger = EmptyWorld
    /\ tx = [t \in TxIds |-> None]
    /\ ordered = <<>>
    /\ answers = {}

\* The chaincode's Init transaction, alone on a new channel.
InitTransaction ==
    /\ ~ledger.channel.config
    /\ ledger' = Bootstrapped(ledger)
    /\ UNCHANGED <<tx, ordered, answers>>

\* A peer endorses a command it does not refuse; nothing is committed yet.
Endorse(t, c) ==
    /\ tx[t] = None
    /\ Accepts(ledger, c) \/ Replays(ledger, c)
    /\ tx' = [tx EXCEPT ![t] = Simulate(ledger, c)]
    /\ UNCHANGED <<ledger, ordered, answers>>

Sequenced(t) == \E i \in DOMAIN ordered : ordered[i] = t

Order(t) ==
    /\ tx[t] # None /\ ~Sequenced(t)
    /\ ordered' = Append(ordered, t)
    /\ UNCHANGED <<ledger, tx, answers>>

\* A client that gives up before ordering, or an envelope that is lost.
Abandon(t) ==
    /\ tx[t] # None /\ ~Sequenced(t)
    /\ tx' = [tx EXCEPT ![t] = None]
    /\ UNCHANGED <<ledger, ordered, answers>>

\* Every other transaction in flight that read a key now written is stale.
Invalidated(t) ==
    [u \in TxIds |->
        IF u = t \/ tx[u] = None THEN None
        ELSE [tx[u] EXCEPT !.stale = @ \/ tx[u].reads \cap DOMAIN tx[t].writes # {}]]

\* MVCC validation of the transaction at the head of the order: VALID.
CommitValid ==
    /\ ordered # <<>>
    /\ LET t == Head(ordered) IN
       /\ ~tx[t].stale
       /\ ledger' = Apply(ledger, tx[t].writes)
       /\ answers' = answers \union {[command |-> tx[t].command, result |-> tx[t].result]}
       /\ tx' = Invalidated(t)
    /\ ordered' = Tail(ordered)

\* ... or INVALID (MVCC_READ_CONFLICT): no write takes effect.
CommitInvalid ==
    /\ ordered # <<>>
    /\ tx[Head(ordered)].stale
    /\ tx' = [tx EXCEPT ![Head(ordered)] = None]
    /\ ordered' = Tail(ordered)
    /\ UNCHANGED <<ledger, answers>>

ChannelNext ==
    \/ InitTransaction
    \/ \E t \in TxIds, c \in Commands : Endorse(t, c)
    \/ \E t \in TxIds : Order(t)
    \/ \E t \in TxIds : Abandon(t)
    \/ CommitValid
    \/ CommitInvalid

ChannelSpec == ChannelInit /\ [][ChannelNext]_channelVars

------------------------------------------------------------------------------

\* Every behaviour of the channel is one of the serial ledger: a VALID
\* transaction does to the committed world what its command would have done
\* executed alone at that point, although it was simulated earlier, against
\* another world, with other transactions committed in between.
Serializable == Spec

\* All VALID transactions that carry one organization's command_id answered
\* the same command with the same result, however often it was sent and
\* whether or not the copies were in flight together.
OneAnswerPerCommand ==
    \A x, y \in answers :
        IdempotencyKey(x.command) = IdempotencyKey(y.command) => x = y

\* A VALID fence certifies the epoch in force when it committed, not the one
\* its endorser saw: a reader that holds the nonce knows no eligibility
\* change was ordered between the two.
FenceIsCurrent ==
    [][ \A n \in Nonces :
          ledger'.fence[n] # ledger.fence[n] => ledger'.fence[n] = Epoch(ledger') ]_channelVars
==============================================================================
