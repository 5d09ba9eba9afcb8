------------------------- MODULE FabricChannel_proofs -------------------------
(***************************************************************************)
(* Theorems about FabricChannel.tla.  A transaction that MVCC validation   *)
(* lets through read, from the world it was simulated against, the values  *)
(* the committed world still holds; everything its handler decides and     *)
(* writes is determined by those values, so committing its buffered writes *)
(* is executing its command now.                                           *)
(***************************************************************************)
EXTENDS FabricChannel, Agreement_proofs, SequenceTheorems

------------------------------------------------------------------------------
(* Worlds, key by key. *)

Prefixes ==
    {"channel", "revision", "revision_id", "proposal", "review_counter", "decision",
     "latest_decision", "agreement", "active_slot", "idempotency", "fence"}

\* The keys of one prefix.
Index(f) == DOMAIN EmptyWorld[f]

Keys == UNION {{<<f, i>> : i \in Index(f)} : f \in Prefixes}

\* Worlds w and v hold the same values at the keys in K.
Sees(w, v, K) == \A k \in K : At(w, k) = At(v, k)

\* The names of the keys.
LEMMA IndexIs ==
    /\ Index("channel") = {"config", "eligibility_epoch"}
    /\ Index("revision") = Revisions /\ Index("revision_id") = RevisionIds
    /\ Index("proposal") = Proposals /\ Index("review_counter") = Proposals
    /\ Index("decision") = Decisions
    /\ Index("latest_decision") = Proposals \X Roles \X Actors
    /\ Index("agreement") = Agreements /\ Index("active_slot") = Slots
    /\ Index("idempotency") = Orgs \X CommandIds /\ Index("fence") = Nonces
  BY DEF Index, EmptyWorld

\* A key is a prefix and an index.
LEMMA KeyIs ==
    /\ \A f, i : <<f, i>> \in Keys <=> f \in Prefixes /\ i \in Index(f)
    /\ \A k \in Keys : k = <<k[1], k[2]>> /\ k[1] \in Prefixes /\ k[2] \in Index(k[1])
    /\ \A w, f, i : At(w, <<f, i>>) = w[f][i]
  BY DEF Keys, At

\* A world is a function of its prefixes, each of them a function of its keys.
LEMMA WorldShape ==
    ASSUME NEW w \in World
    PROVE  /\ DOMAIN w = Prefixes /\ w = [f \in Prefixes |-> w[f]]
           /\ \A f \in Prefixes : DOMAIN w[f] = Index(f) /\ w[f] = [i \in Index(f) |-> w[f][i]]
  <1>1. DOMAIN w = Prefixes /\ w = [f \in Prefixes |-> w[f]]
    BY DEF World, Prefixes
  <1>2. w.channel = [i \in Index("channel") |-> w.channel[i]] /\ DOMAIN w.channel = Index("channel")
    BY IndexIs DEF World
  <1>3. ASSUME NEW f \in Prefixes, f # "channel"
        PROVE  DOMAIN w[f] = Index(f) /\ w[f] = [i \in Index(f) |-> w[f][i]]
    BY <1>3, IndexIs DEF World, Prefixes
  <1> QED BY <1>1, <1>2, <1>3

\* Worlds that see the same at a key hold the same value there.
LEMMA SeesAt ==
    ASSUME NEW w, NEW v, NEW K, Sees(w, v, K)
    PROVE  \A f, i : <<f, i>> \in K => w[f][i] = v[f][i]
  <1> TAKE f, i
  <1>1. At(w, <<f, i>>) = w[f][i] /\ At(v, <<f, i>>) = v[f][i]
    BY KeyIs
  <1> QED BY <1>1 DEF Sees

\* Worlds that agree on every key are the same.
LEMMA SameWorld ==
    ASSUME NEW w \in World, NEW v \in World, Sees(w, v, Keys)
    PROVE  w = v
  <1>1. ASSUME NEW f \in Prefixes PROVE w[f] = v[f]
    <2>1. ASSUME NEW i \in Index(f) PROVE w[f][i] = v[f][i]
      <3>1. <<f, i>> \in Keys
        BY KeyIs
      <3> QED BY <3>1, SeesAt
    <2>2. w[f] = [i \in Index(f) |-> w[f][i]] /\ v[f] = [i \in Index(f) |-> v[f][i]]
      BY WorldShape
    <2>3. [i \in Index(f) |-> w[f][i]] = [i \in Index(f) |-> v[f][i]]
      BY <2>1
    <2> QED BY <2>2, <2>3
  <1> QED BY <1>1, WorldShape

\* What a write set makes of a world: the keys written, and no other.
LEMMA ApplyShape ==
    ASSUME NEW w \in World, NEW writes
    PROVE  /\ DOMAIN Apply(w, writes) = Prefixes
           /\ \A f \in Prefixes : DOMAIN Apply(w, writes)[f] = Index(f)
           /\ \A k \in Keys : At(Apply(w, writes), k) =
                IF k \in DOMAIN writes THEN writes[k] ELSE At(w, k)
  <1>1. DOMAIN w = Prefixes /\ \A f \in Prefixes : DOMAIN w[f] = Index(f)
    BY WorldShape
  <1>2. /\ DOMAIN Apply(w, writes) = Prefixes
        /\ \A f \in Prefixes : Apply(w, writes)[f] =
             [i \in Index(f) |-> IF <<f, i>> \in DOMAIN writes THEN writes[<<f, i>>] ELSE w[f][i]]
    BY <1>1 DEF Apply
  <1>3. ASSUME NEW f \in Prefixes, NEW i \in Index(f)
        PROVE  Apply(w, writes)[f][i] =
                 IF <<f, i>> \in DOMAIN writes THEN writes[<<f, i>>] ELSE w[f][i]
    BY <1>2
  <1>4. ASSUME NEW k \in Keys
        PROVE  At(Apply(w, writes), k) = IF k \in DOMAIN writes THEN writes[k] ELSE At(w, k)
    <2>1. k = <<k[1], k[2]>> /\ k[1] \in Prefixes /\ k[2] \in Index(k[1])
      BY KeyIs
    <2> QED BY <1>3, <2>1 DEF At
  <1> QED BY <1>2, <1>4

\* A write set that holds u's values wherever u differs from w makes u of w.
LEMMA ApplyIs ==
    ASSUME NEW w \in World, NEW u \in World, NEW K,
           \A k \in Keys \ K : At(u, k) = At(w, k)
    PROVE  Apply(w, [k \in K |-> At(u, k)]) = u
  <1> DEFINE writes == [k \in K |-> At(u, k)]
             a == Apply(w, writes)
  <1>1. DOMAIN writes = K /\ \A k \in K : writes[k] = At(u, k)
    OBVIOUS
  <1> HIDE DEF writes
  <1>2. \A k \in Keys : At(a, k) = At(u, k)
    BY <1>1, ApplyShape
  <1>3. DOMAIN a = Prefixes /\ \A f \in Prefixes : DOMAIN a[f] = Index(f)
    BY ApplyShape
  <1>4. a = [f \in Prefixes |-> [i \in Index(f) |-> a[f][i]]]
    BY <1>3, WorldShape DEF Apply
  <1>5. u = [f \in Prefixes |-> [i \in Index(f) |-> u[f][i]]]
    BY WorldShape
  <1>6. \A f \in Prefixes : \A i \in Index(f) : a[f][i] = u[f][i]
    <2> HIDE DEF a
    <2>1. Sees(a, u, Keys)
      BY <1>2 DEF Sees
    <2>2. ASSUME NEW f \in Prefixes, NEW i \in Index(f) PROVE a[f][i] = u[f][i]
      <3>1. <<f, i>> \in Keys
        BY KeyIs
      <3> QED BY <2>1, <3>1, SeesAt
    <2> QED BY <2>2
  <1>7. [f \in Prefixes |-> [i \in Index(f) |-> a[f][i]]] = [f \in Prefixes |-> [i \in Index(f) |-> u[f][i]]]
    <2> HIDE DEF a
    <2> QED BY <1>6
  <1> HIDE DEF a
  <1>8. a = u
    BY <1>4, <1>5, <1>7
  <1> QED BY <1>8 DEF a, writes

\* What differs between two worlds, prefix by prefix.
LEMMA Differ ==
    ASSUME NEW w, NEW u, NEW K,
           \A f \in Prefixes : \A i \in Index(f) : <<f, i>> \notin K => u[f][i] = w[f][i]
    PROVE  \A k \in Keys \ K : At(u, k) = At(w, k)
  <1> TAKE k \in Keys \ K
  <1>1. k = <<k[1], k[2]>> /\ k[1] \in Prefixes /\ k[2] \in Index(k[1])
    BY KeyIs
  <1> QED BY <1>1 DEF At

------------------------------------------------------------------------------
(* One handler run in two worlds that agree on what it reads. *)

\* c does in v what it does in w.
Repeats(w, v, c) ==
    /\ Can(v, c)
    /\ CommandWrites(v, c) = CommandWrites(w, c)
    /\ ResultOf(v, c) = ResultOf(w, c)
    /\ \A k \in CommandWrites(w, c) : At(After(v, c), k) = At(After(w, c), k)

\* c reads and writes keys of the ledger, and changes only the keys it writes.
Covers(w, c) ==
    /\ CommandReads(w, c) \subseteq Keys /\ CommandWrites(w, c) \subseteq Keys
    /\ \A k \in Keys \ CommandWrites(w, c) : At(After(w, c), k) = At(w, k)

\* The dependencies and parents of a revision are revisions.
LEMMA RevisionShape ==
    ASSUME NEW r \in Revisions
    PROVE  /\ RevisionInfo[r].parents \subseteq Revisions
           /\ RevisionInfo[r].revision_id \in RevisionIds
           /\ \A d \in RevisionInfo[r].dependencies : d.revision \in Revisions /\ d.slot \in Slots
  <1>1. RevisionInfo[r] \in RevisionPayload
    BY InputAssumption
  <1>2. RevisionInfo[r].dependencies \in SUBSET Dependency
    BY <1>1 DEF RevisionPayload
  <1> QED BY <1>1, <1>2 DEF RevisionPayload, Dependency

\* publish_revision decides on the revision, its identifier and what it links to.
LEMMA PublishRepeats ==
    ASSUME NEW w, Standing(w), Linked(w), NEW v, Standing(v), Linked(v),
           NEW c \in Commands, c.type = "publish_revision", CanPublish(w, c),
           Sees(w, v, CommandReads(w, c))
    PROVE  Repeats(w, v, c)
  <1> DEFINE r == c.input.revision
             id == RevisionInfo[r].revision_id
  <1>1. r \in Revisions /\ id \in RevisionIds /\ w \in World /\ v \in World
    BY PublishInput, RevisionShape DEF Standing
  <1>2. CommandReads(w, c) = PublishReads(w, c)
    BY DEF CommandReads
  <1>3. w.revision[r] = v.revision[r]
    <2>1. <<"revision", r>> \in CommandReads(w, c)
      BY <1>2 DEF PublishReads
    <2> QED BY <2>1, SeesAt
  <1>4. CASE w.revision[r]
    <2>1. CanPublish(v, c)
      BY <1>3, <1>4 DEF CanPublish
    <2>2. CommandWrites(v, c) = {} /\ CommandWrites(w, c) = {}
      BY <1>3, <1>4 DEF CommandWrites
    <2>3. ResultOf(v, c) = ResultOf(w, c)
      BY <1>3 DEF ResultOf, PublishAnswer
    <2> QED BY <2>1, <2>2, <2>3 DEF Repeats, Can
  <1>5. CASE ~w.revision[r]
    <2>1. /\ <<"revision_id", id>> \in CommandReads(w, c)
          /\ \A q \in RevisionInfo[r].parents : <<"revision", q>> \in CommandReads(w, c)
          /\ \A d \in RevisionInfo[r].dependencies : <<"revision", d.revision>> \in CommandReads(w, c)
      BY <1>2, <1>5 DEF PublishReads
    <2>2. /\ w.revision_id[id] = v.revision_id[id]
          /\ \A q \in RevisionInfo[r].parents : w.revision[q] = v.revision[q]
          /\ \A d \in RevisionInfo[r].dependencies : w.revision[d.revision] = v.revision[d.revision]
      <3>1. w.revision_id[id] = v.revision_id[id]
        BY <2>1, SeesAt
      <3>2. ASSUME NEW q, <<"revision", q>> \in CommandReads(w, c)
            PROVE  w.revision[q] = v.revision[q]
        BY <3>2, SeesAt
      <3> QED BY <2>1, <3>1, <3>2
    <2>3. CanPublish(v, c)
      BY <1>3, <1>5, <2>2 DEF CanPublish, ParentsPublished, DependenciesPublished
    <2>4. CommandWrites(v, c) = CommandWrites(w, c)
      BY <1>3 DEF CommandWrites
    <2>5. ResultOf(v, c) = ResultOf(w, c)
      BY <1>3 DEF ResultOf, PublishAnswer
    <2>6. CommandWrites(w, c) = {<<"revision", r>>, <<"revision_id", id>>}
      BY <1>5 DEF CommandWrites
    <2>7. ASSUME NEW u \in World
          PROVE  /\ At(After(u, c), <<"revision", r>>) = TRUE
                 /\ At(After(u, c), <<"revision_id", id>>) = r
      <3>1. After(u, c).revision[r] = TRUE /\ After(u, c).revision_id[id] = r
        BY <1>1 DEF After, AfterPublish, World
      <3> QED BY <3>1, KeyIs
    <2> QED BY <1>1, <2>3, <2>4, <2>5, <2>6, <2>7 DEF Repeats, Can
  <1> QED BY <1>4, <1>5

\* publish_revision writes the revision and its identifier, and only when new.
LEMMA PublishCovers ==
    ASSUME NEW w, Standing(w), Linked(w), NEW c \in Commands, c.type = "publish_revision",
           CanPublish(w, c)
    PROVE  Covers(w, c)
  <1> DEFINE r == c.input.revision
             id == RevisionInfo[r].revision_id
             u == After(w, c)
  <1>1. r \in Revisions /\ id \in RevisionIds /\ w \in World
    BY PublishInput, RevisionShape DEF Standing
  <1>2. u = AfterPublish(w, c)
    BY DEF After
  <1>3. /\ \A i \in Revisions \ {r} : u.revision[i] = w.revision[i]
        /\ \A i \in RevisionIds \ {id} : u.revision_id[i] = w.revision_id[i]
        /\ \A f \in Prefixes \ {"revision", "revision_id"} : u[f] = w[f]
    BY <1>1, <1>2, ZenonT(40) DEF AfterPublish, World, Prefixes
  <1>4. w.revision[r] => u.revision[r] = w.revision[r] /\ u.revision_id[id] = w.revision_id[id]
    <2>1. u.revision[r] = TRUE /\ u.revision_id[id] = r
      BY <1>1, <1>2 DEF AfterPublish, World
    <2>2. w.revision[r] => w.revision_id[id] = r
      BY <1>1 DEF Linked
    <2>3. w.revision[r] \in BOOLEAN
      BY <1>1 DEF World
    <2>4. w.revision[r] => w.revision[r] = TRUE
      BY <2>3, Zenon
    <2> QED BY <2>1, <2>2, <2>4
  <1>5. CommandWrites(w, c) = IF w.revision[r] THEN {} ELSE {<<"revision", r>>, <<"revision_id", id>>}
    BY DEF CommandWrites
  <1> HIDE DEF u
  <1>6. ASSUME NEW f \in Prefixes, NEW i \in Index(f), <<f, i>> \notin CommandWrites(w, c)
        PROVE  u[f][i] = w[f][i]
    <2>1. CASE f = "revision"
      BY <1>3, <1>4, <1>5, <1>6, <2>1, IndexIs
    <2>2. CASE f = "revision_id"
      BY <1>3, <1>4, <1>5, <1>6, <2>2, IndexIs
    <2> QED BY <1>3, <2>1, <2>2
  <1>7. CommandReads(w, c) \subseteq Keys /\ CommandWrites(w, c) \subseteq Keys
    <2>1. \A q \in Revisions : <<"revision", q>> \in Keys
      BY KeyIs, IndexIs DEF Prefixes
    <2>2. <<"revision_id", id>> \in Keys
      BY <1>1, KeyIs, IndexIs DEF Prefixes
    <2>3. CommandReads(w, c) \subseteq Keys
      BY <1>1, <2>1, <2>2, RevisionShape DEF CommandReads, PublishReads
    <2> QED BY <1>1, <1>5, <2>1, <2>2, <2>3
  <1> QED BY <1>6, <1>7, Differ DEF Covers, u

\* propose decides on its revision and on the proposal being new.
LEMMA ProposeRepeats ==
    ASSUME NEW w, Standing(w), NEW v, Standing(v),
           NEW c \in Commands, c.type = "propose", CanPropose(w, c),
           Sees(w, v, CommandReads(w, c))
    PROVE  Repeats(w, v, c)
  <1> DEFINE pid == c.input.proposal
  <1>1. pid \in Proposals /\ c.input.revision \in Revisions /\ w \in World /\ v \in World
    BY ProposeInput DEF Standing
  <1>2. /\ <<"revision", c.input.revision>> \in CommandReads(w, c)
        /\ <<"proposal", pid>> \in CommandReads(w, c)
    BY DEF CommandReads, ProposeReads
  <1>3. w.revision[c.input.revision] = v.revision[c.input.revision]
    BY <1>2, SeesAt
  <1>4. w.proposal[pid] = v.proposal[pid]
    BY <1>2, SeesAt
  <1>5. CanPropose(v, c)
    BY <1>3, <1>4 DEF CanPropose
  <1>6. CommandWrites(w, c) = {<<"proposal", pid>>, <<"review_counter", pid>>}
        /\ CommandWrites(v, c) = CommandWrites(w, c) /\ ResultOf(v, c) = ResultOf(w, c)
    BY DEF CommandWrites, ResultOf
  <1>7. /\ After(v, c).proposal[pid] = After(w, c).proposal[pid]
        /\ After(v, c).review_counter[pid] = After(w, c).review_counter[pid]
    BY <1>1 DEF After, AfterPropose, World
  <1>8. /\ At(After(v, c), <<"proposal", pid>>) = At(After(w, c), <<"proposal", pid>>)
        /\ At(After(v, c), <<"review_counter", pid>>) = At(After(w, c), <<"review_counter", pid>>)
    BY <1>7, KeyIs
  <1> QED BY <1>5, <1>6, <1>8 DEF Repeats, Can

\* propose writes the proposal and its review counter.
LEMMA ProposeCovers ==
    ASSUME NEW w, Standing(w), NEW c \in Commands, c.type = "propose", CanPropose(w, c)
    PROVE  Covers(w, c)
  <1> DEFINE pid == c.input.proposal
             u == After(w, c)
  <1>1. pid \in Proposals /\ c.input.revision \in Revisions /\ w \in World
    BY ProposeInput DEF Standing
  <1>2. /\ \A i \in Proposals \ {pid} : u.proposal[i] = w.proposal[i]
        /\ \A i \in Proposals \ {pid} : u.review_counter[i] = w.review_counter[i]
        /\ \A f \in Prefixes \ {"proposal", "review_counter"} : u[f] = w[f]
    BY <1>1 DEF After, AfterPropose, World, Prefixes
  <1>3. CommandWrites(w, c) = {<<"proposal", pid>>, <<"review_counter", pid>>}
    BY DEF CommandWrites
  <1> HIDE DEF u
  <1>4. ASSUME NEW f \in Prefixes, NEW i \in Index(f), <<f, i>> \notin CommandWrites(w, c)
        PROVE  u[f][i] = w[f][i]
    <2>1. CASE f \in {"proposal", "review_counter"}
      BY <1>2, <1>3, <1>4, <2>1, IndexIs
    <2> QED BY <1>2, <2>1
  <1>5. CommandReads(w, c) \subseteq Keys /\ CommandWrites(w, c) \subseteq Keys
    <2>1. <<"revision", c.input.revision>> \in Keys
      BY <1>1, KeyIs, IndexIs DEF Prefixes
    <2>2. <<"proposal", pid>> \in Keys
      BY <1>1, KeyIs, IndexIs DEF Prefixes
    <2>3. <<"review_counter", pid>> \in Keys
      BY <1>1, KeyIs, IndexIs DEF Prefixes
    <2> QED BY <1>3, <2>1, <2>2, <2>3 DEF CommandReads, ProposeReads
  <1> QED BY <1>4, <1>5, Differ DEF Covers, u

\* A fence records the epoch it reads.
LEMMA FenceRepeats ==
    ASSUME NEW w, Standing(w), NEW v, Standing(v),
           NEW c \in Commands, c.type = "fence", CanFence(w, c),
           Sees(w, v, CommandReads(w, c))
    PROVE  Repeats(w, v, c)
  <1> DEFINE n == c.input.nonce
  <1>1. n \in Nonces /\ w \in World /\ v \in World
    BY FenceInput DEF Standing
  <1>2. <<"fence", n>> \in CommandReads(w, c) /\ <<"channel", "eligibility_epoch">> \in CommandReads(w, c)
    BY DEF CommandReads, FenceReads, EpochKey
  <1>3. w.fence[n] = v.fence[n]
    BY <1>2, SeesAt
  <1>4. Epoch(w) = Epoch(v)
    BY <1>2, SeesAt DEF Epoch
  <1>5. CanFence(v, c)
    BY <1>3 DEF CanFence
  <1>6. CommandWrites(w, c) = {<<"fence", n>>}
        /\ CommandWrites(v, c) = CommandWrites(w, c) /\ ResultOf(v, c) = ResultOf(w, c)
    BY <1>4 DEF CommandWrites, ResultOf
  <1>7. After(v, c).fence[n] = After(w, c).fence[n]
    BY <1>1, <1>4 DEF After, AfterFence, World
  <1>8. At(After(v, c), <<"fence", n>>) = At(After(w, c), <<"fence", n>>)
    BY <1>7, KeyIs
  <1> QED BY <1>5, <1>6, <1>8 DEF Repeats, Can

\* fence writes its nonce.
LEMMA FenceCovers ==
    ASSUME NEW w, Standing(w), NEW c \in Commands, c.type = "fence", CanFence(w, c)
    PROVE  Covers(w, c)
  <1> DEFINE n == c.input.nonce
             u == After(w, c)
  <1>1. n \in Nonces /\ w \in World
    BY FenceInput DEF Standing
  <1>2. /\ \A i \in Nonces \ {n} : u.fence[i] = w.fence[i]
        /\ \A f \in Prefixes \ {"fence"} : u[f] = w[f]
    BY <1>1 DEF After, AfterFence, World, Prefixes
  <1>3. CommandWrites(w, c) = {<<"fence", n>>}
    BY DEF CommandWrites
  <1> HIDE DEF u
  <1>4. ASSUME NEW f \in Prefixes, NEW i \in Index(f), <<f, i>> \notin CommandWrites(w, c)
        PROVE  u[f][i] = w[f][i]
    <2>1. CASE f = "fence"
      BY <1>2, <1>3, <1>4, <2>1, IndexIs
    <2> QED BY <1>2, <2>1
  <1>5. CommandReads(w, c) \subseteq Keys /\ CommandWrites(w, c) \subseteq Keys
    <2>1. <<"fence", n>> \in Keys
      BY <1>1, KeyIs, IndexIs DEF Prefixes
    <2>2. EpochKey \in Keys
      BY KeyIs, IndexIs DEF Prefixes, EpochKey
    <2> QED BY <1>3, <2>1, <2>2 DEF CommandReads, FenceReads
  <1> QED BY <1>4, <1>5, Differ DEF Covers, u

\* What ending agreement g changes.
LEMMA DeactivateAt ==
    ASSUME NEW w \in World, NEW g \in Agreements, w.agreement[g] # None, NEW status,
           NEW u, u = Deactivate(w, g, status), NEW s, s = SlotOf(w.agreement[g].revision)
    PROVE  /\ s \in Slots
           /\ u.agreement[g] = [w.agreement[g] EXCEPT !.status = status]
           /\ u.active_slot[s] = None
           /\ u.channel.eligibility_epoch = Epoch(w) + 1
  <1>1. w.agreement[g] \in AgreementRecord
    BY DEF World
  <1>2. s \in Slots
    BY <1>1, SlotType DEF AgreementRecord
  <1>3. /\ u.agreement = [w.agreement EXCEPT ![g].status = status]
        /\ u.active_slot = [w.active_slot EXCEPT ![s] = None]
        /\ u.channel = [w.channel EXCEPT !.eligibility_epoch = @ + 1]
    BY DEF Deactivate, World
  <1> QED BY <1>2, <1>3 DEF World, Epoch

\* ... and what it leaves alone.
LEMMA DeactivateFrame ==
    ASSUME NEW w \in World, NEW g \in Agreements, w.agreement[g] # None, NEW status,
           NEW u, u = Deactivate(w, g, status), NEW s, s = SlotOf(w.agreement[g].revision)
    PROVE  /\ u.channel.config = w.channel.config
           /\ \A i \in Agreements \ {g} : u.agreement[i] = w.agreement[i]
           /\ \A i \in Slots \ {s} : u.active_slot[i] = w.active_slot[i]
  <1>1. s \in Slots
    BY DeactivateAt
  <1>2. /\ u.agreement = [w.agreement EXCEPT ![g].status = status]
        /\ u.active_slot = [w.active_slot EXCEPT ![s] = None]
        /\ u.channel = [w.channel EXCEPT !.eligibility_epoch = @ + 1]
    BY DEF Deactivate, World
  <1> QED BY <1>1, <1>2 DEF World

\* Ending an agreement touches no other prefix.
LEMMA DeactivateOthers ==
    ASSUME NEW w \in World, NEW g, NEW status, NEW u, u = Deactivate(w, g, status),
           NEW f \in Prefixes \ {"agreement", "active_slot", "channel"}
    PROVE  u[f] = w[f]
  BY DEF Deactivate, World, Prefixes

\* withdraw and suspend decide on the agreement and the epoch alone; the
\* pointer they clear they need not read.
LEMMA StatusRepeats ==
    ASSUME NEW w, Standing(w), NEW v, Standing(v),
           NEW c \in Commands, c.type \in {"withdraw", "suspend"}, CanChangeStatus(w, c),
           Sees(w, v, CommandReads(w, c))
    PROVE  Repeats(w, v, c)
  <1> DEFINE g == c.input.agreement
             s == SlotOf(w.agreement[g].revision)
  <1>1. g \in Agreements /\ w \in World /\ v \in World /\ w.agreement[g] # None
    BY StatusInput DEF Standing, CanChangeStatus
  <1>2. <<"agreement", g>> \in CommandReads(w, c) /\ <<"channel", "eligibility_epoch">> \in CommandReads(w, c)
    BY DEF CommandReads, StatusReads, EpochKey
  <1>3. w.agreement[g] = v.agreement[g]
    BY <1>2, SeesAt
  <1>4. Epoch(w) = Epoch(v)
    BY <1>2, SeesAt DEF Epoch
  <1>5. CanChangeStatus(v, c)
    BY <1>3 DEF CanChangeStatus, InForce
  <1>6. CommandWrites(w, c) = {<<"agreement", g>>, <<"active_slot", s>>, EpochKey}
        /\ CommandWrites(v, c) = CommandWrites(w, c) /\ ResultOf(v, c) = ResultOf(w, c)
    BY <1>3, <1>4 DEF CommandWrites, DeactivationWrites, ResultOf
  <1>7. ASSUME NEW x \in World, x.agreement[g] = w.agreement[g], Epoch(x) = Epoch(w)
        PROVE  /\ At(After(x, c), <<"agreement", g>>) =
                    [w.agreement[g] EXCEPT !.status = DesiredStatus(c)]
               /\ At(After(x, c), <<"active_slot", s>>) = None
               /\ At(After(x, c), EpochKey) = Epoch(w) + 1
    <2>1. After(x, c) = Deactivate(x, g, DesiredStatus(c))
      BY DEF After, AfterStatusChange
    <2>2. /\ After(x, c).agreement[g] = [w.agreement[g] EXCEPT !.status = DesiredStatus(c)]
          /\ After(x, c).active_slot[s] = None
          /\ After(x, c).channel.eligibility_epoch = Epoch(w) + 1
      BY <1>1, <1>7, <2>1, DeactivateAt
    <2> QED BY <2>2, KeyIs DEF EpochKey
  <1> QED BY <1>1, <1>3, <1>4, <1>5, <1>6, <1>7 DEF Repeats, Can

\* withdraw and suspend write the agreement, its slot's pointer and the epoch.
LEMMA StatusCovers ==
    ASSUME NEW w, Standing(w), NEW c \in Commands, c.type \in {"withdraw", "suspend"},
           CanChangeStatus(w, c)
    PROVE  Covers(w, c)
  <1> DEFINE g == c.input.agreement
             s == SlotOf(w.agreement[g].revision)
             u == After(w, c)
  <1>1. g \in Agreements /\ w \in World /\ w.agreement[g] # None
    BY StatusInput DEF Standing, CanChangeStatus
  <1>2. u = Deactivate(w, g, DesiredStatus(c))
    BY DEF After, AfterStatusChange
  <1>3. CommandWrites(w, c) = {<<"agreement", g>>, <<"active_slot", s>>, EpochKey}
    BY DEF CommandWrites, DeactivationWrites
  <1>4. /\ s \in Slots
        /\ u.channel.config = w.channel.config
        /\ \A i \in Agreements \ {g} : u.agreement[i] = w.agreement[i]
        /\ \A i \in Slots \ {s} : u.active_slot[i] = w.active_slot[i]
        /\ \A f \in Prefixes \ {"agreement", "active_slot", "channel"} : u[f] = w[f]
    <2>1. s = SlotOf(w.agreement[g].revision)
      OBVIOUS
    <2> HIDE DEF u, s, g
    <2>2. s \in Slots
      BY <1>1, <1>2, <2>1, DeactivateAt
    <2>3. u.channel.config = w.channel.config
      BY <1>1, <1>2, <2>1, DeactivateFrame
    <2>4. \A i \in Agreements \ {g} : u.agreement[i] = w.agreement[i]
      BY <1>1, <1>2, <2>1, DeactivateFrame
    <2>5. \A i \in Slots \ {s} : u.active_slot[i] = w.active_slot[i]
      BY <1>1, <1>2, <2>1, DeactivateFrame
    <2>6. \A f \in Prefixes \ {"agreement", "active_slot", "channel"} : u[f] = w[f]
      BY <1>1, <1>2, <2>1, DeactivateOthers
    <2> QED BY <2>2, <2>3, <2>4, <2>5, <2>6
  <1> HIDE DEF u
  <1>5. ASSUME NEW f \in Prefixes, NEW i \in Index(f), <<f, i>> \notin CommandWrites(w, c)
        PROVE  u[f][i] = w[f][i]
    <2>1. CASE f \in {"agreement", "active_slot"}
      BY <1>3, <1>4, <1>5, <2>1, IndexIs
    <2>2. CASE f = "channel"
      BY <1>3, <1>4, <1>5, <2>2, IndexIs DEF EpochKey
    <2> QED BY <1>4, <2>1, <2>2
  <1>6. CommandReads(w, c) \subseteq Keys /\ CommandWrites(w, c) \subseteq Keys
    <2>1. <<"agreement", g>> \in Keys
      BY <1>1, KeyIs, IndexIs DEF Prefixes
    <2>2. EpochKey \in Keys
      BY KeyIs, IndexIs DEF Prefixes, EpochKey
    <2>3. <<"active_slot", s>> \in Keys
      BY <1>4, KeyIs, IndexIs DEF Prefixes
    <2> QED BY <1>3, <2>1, <2>2, <2>3 DEF CommandReads, StatusReads
  <1> QED BY <1>5, <1>6, Differ DEF Covers, u

\* The keys a decision is recorded at.
LEMMA DecideKeys ==
    ASSUME NEW c \in Commands, c.type = "decide"
    PROVE  /\ c.input.proposal \in Proposals /\ c.input.decision \in Decisions
           /\ c.input.revision \in Revisions
           /\ DecisionOf(c).proposal = c.input.proposal /\ DecisionOf(c).revision = c.input.revision
           /\ DecisionOf(c).kind = c.input.kind /\ DecisionOf(c).retracts = c.input.retracts
           /\ LatestKey(DecisionOf(c)) \in Proposals \X Roles \X Actors
           /\ SlotOf(c.input.revision) \in Slots
  BY DecideInput, SlotType DEF DecisionOf, LatestKey

\* What recording a decision writes.
LEMMA RecordAt ==
    ASSUME NEW w \in World, NEW c \in Commands, c.type = "decide",
           w.proposal[c.input.proposal] # None,
           NEW u, u = Record(w, c), NEW p, p = c.input.proposal,
           NEW k, k = LatestKey(DecisionOf(c))
    PROVE  /\ u.decision[c.input.decision] = DecisionOf(c)
           /\ u.latest_decision[k] = c.input.decision
           /\ u.proposal[p] = [w.proposal[p] EXCEPT !.review_counter = w.proposal[p].review_counter + 1]
           /\ u.review_counter[p] = w.proposal[p].review_counter + 1
  <1>1. /\ p \in Proposals /\ k \in Proposals \X Roles \X Actors /\ c.input.decision \in Decisions
        /\ DecisionOf(c).proposal = p
    BY DecideKeys
  <1> DEFINE d == DecisionOf(c)
             n == w.proposal[p].review_counter + 1
  <1>2. /\ u.decision = [w.decision EXCEPT ![c.input.decision] = d]
        /\ u.latest_decision = [w.latest_decision EXCEPT ![k] = c.input.decision]
        /\ u.proposal = [w.proposal EXCEPT ![p].review_counter = n]
        /\ u.review_counter = [w.review_counter EXCEPT ![p] = n]
    <2> HIDE DEF d
    <2> QED BY <1>1 DEF Record, World, d
  <1> HIDE DEF d, n
  <1> QED BY <1>1, <1>2 DEF World, d, n

\* ... and what it leaves alone.
LEMMA RecordKept ==
    ASSUME NEW w \in World, NEW c \in Commands, c.type = "decide",
           NEW u, u = Record(w, c), NEW p, p = c.input.proposal,
           NEW k, k = LatestKey(DecisionOf(c))
    PROVE  /\ \A i \in Decisions \ {c.input.decision} : u.decision[i] = w.decision[i]
           /\ \A i \in (Proposals \X Roles \X Actors) \ {k} : u.latest_decision[i] = w.latest_decision[i]
           /\ \A i \in Proposals \ {p} : u.proposal[i] = w.proposal[i]
           /\ \A i \in Proposals \ {p} : u.review_counter[i] = w.review_counter[i]
           /\ u.agreement = w.agreement /\ u.active_slot = w.active_slot /\ u.channel = w.channel
  <1>1. /\ p \in Proposals /\ k \in Proposals \X Roles \X Actors /\ c.input.decision \in Decisions
        /\ DecisionOf(c).proposal = p
    BY DecideKeys
  <1> DEFINE d == DecisionOf(c)
             n == w.proposal[p].review_counter + 1
  <1>2. /\ u.decision = [w.decision EXCEPT ![c.input.decision] = d]
        /\ u.latest_decision = [w.latest_decision EXCEPT ![k] = c.input.decision]
        /\ u.proposal = [w.proposal EXCEPT ![p].review_counter = n]
        /\ u.review_counter = [w.review_counter EXCEPT ![p] = n]
        /\ u.agreement = w.agreement /\ u.active_slot = w.active_slot /\ u.channel = w.channel
    <2> HIDE DEF d
    <2> QED BY <1>1 DEF Record, World, d
  <1> HIDE DEF d, n
  <1> QED BY <1>1, <1>2 DEF World, d, n

\* Recording a decision touches no other prefix.
LEMMA RecordOthers ==
    ASSUME NEW w \in World, NEW c, NEW u, u = Record(w, c),
           NEW f \in Prefixes \ {"decision", "latest_decision", "proposal", "review_counter"}
    PROVE  u[f] = w[f]
  BY DEF Record, World, Prefixes

\* The slot's pointer and the agreement it names are read together.
LEMMA SeesActive ==
    ASSUME NEW w, NEW v, NEW s, NEW K, Sees(w, v, K), ActiveKeys(w, s) \subseteq K
    PROVE  /\ w.active_slot[s] = v.active_slot[s]
           /\ w.active_slot[s] # None => w.agreement[w.active_slot[s]] = v.agreement[w.active_slot[s]]
  <1>1. <<"active_slot", s>> \in K
    BY DEF ActiveKeys
  <1>2. w.active_slot[s] = v.active_slot[s]
    BY <1>1, SeesAt
  <1>3. ASSUME w.active_slot[s] # None
        PROVE  w.agreement[w.active_slot[s]] = v.agreement[w.active_slot[s]]
    <2>1. <<"agreement", w.active_slot[s]>> \in K
      BY <1>3 DEF ActiveKeys
    <2> QED BY <2>1, SeesAt
  <1> QED BY <1>2, <1>3

\* decide decides, and suspends, on what it reads.
LEMMA DecideAlike ==
    ASSUME NEW w, Standing(w), NEW v, Standing(v),
           NEW c \in Commands, c.type = "decide", CanDecide(w, c),
           Sees(w, v, CommandReads(w, c))
    PROVE  /\ CanDecide(v, c)
           /\ v.proposal[c.input.proposal] = w.proposal[c.input.proposal]
           /\ Suspends(v, c) <=> Suspends(w, c)
           /\ SuspendedBy(v, c) = SuspendedBy(w, c)
           /\ Suspends(w, c) =>
                /\ Epoch(v) = Epoch(w)
                /\ SuspendedBy(w, c) \in Agreements
                /\ w.agreement[SuspendedBy(w, c)] # None
                /\ v.agreement[SuspendedBy(w, c)] = w.agreement[SuspendedBy(w, c)]
  <1> DEFINE d == DecisionOf(c)
             p == c.input.proposal
             r == c.input.revision
             s == SlotOf(r)
             K == CommandReads(w, c)
             k == LatestKey(d)
  <1>1. /\ d.proposal = p /\ d.revision = r /\ d.kind = c.input.kind /\ d.retracts = c.input.retracts
        /\ s \in Slots
    BY DecideKeys
  <1> HIDE DEF d
  <1>2. K = DecideReads(w, c)
    BY DEF CommandReads
  <1>3. /\ <<"proposal", p>> \in K /\ <<"revision", r>> \in K /\ <<"decision", c.input.decision>> \in K
        /\ <<"latest_decision", k>> \in K /\ <<"review_counter", p>> \in K
        /\ d.retracts # None => <<"decision", d.retracts>> \in K
        /\ c.input.kind # "approve" => ActiveKeys(w, s) \subseteq K
        /\ Suspends(w, c) => EpochKey \in K
    BY <1>1, <1>2 DEF DecideReads, d
  <1>4. w.proposal[p] = v.proposal[p]
    BY <1>3, SeesAt
  <1>5. w.revision[r] = v.revision[r]
    BY <1>3, SeesAt
  <1>6. w.decision[c.input.decision] = v.decision[c.input.decision]
    BY <1>3, SeesAt
  <1>7. w.latest_decision[k] = v.latest_decision[k]
    BY <1>3, SeesAt
  <1>8. w.review_counter[p] = v.review_counter[p]
    BY <1>3, SeesAt
  <1>9. d.retracts # None => w.decision[d.retracts] = v.decision[d.retracts]
    BY <1>3, SeesAt
  <1>10. ASSUME c.input.kind # "approve"
         PROVE  /\ w.active_slot[s] = v.active_slot[s]
                /\ w.active_slot[s] # None => w.agreement[w.active_slot[s]] = v.agreement[w.active_slot[s]]
    BY <1>3, <1>10, SeesActive
  <1>11. Suspends(w, c) => Epoch(v) = Epoch(w)
    <2>1. Suspends(w, c) => <<"channel", "eligibility_epoch">> \in K
      BY <1>3 DEF EpochKey
    <2> QED BY <2>1, SeesAt DEF Epoch
  <1>12. CanRetract(v, d)
    BY <1>7, <1>9 DEF CanDecide, CanRetract, d
  <1>13. c.input.kind # "approve" => PointerIntact(v, s)
    BY <1>1, <1>10 DEF CanDecide, PointerIntact, ActiveAgreement, d
  <1>14. CountersAgree(v, p)
    BY <1>1, <1>4, <1>8 DEF CanDecide, CountersAgree, d
  <1>15. CanDecide(v, c)
    BY <1>1, <1>4, <1>5, <1>6, <1>12, <1>13, <1>14 DEF CanDecide, UnusedDecision, d
  <1>16. Suspends(v, c) <=> Suspends(w, c)
    BY <1>10 DEF Suspends, EndsApproval, InForce, ActiveAgreement
  <1>17. ASSUME Suspends(w, c)
         PROVE  /\ SuspendedBy(w, c) = w.active_slot[s] /\ SuspendedBy(v, c) = w.active_slot[s]
                /\ SuspendedBy(w, c) \in Agreements
                /\ w.agreement[SuspendedBy(w, c)] # None
                /\ v.agreement[SuspendedBy(w, c)] = w.agreement[SuspendedBy(w, c)]
    <2>1. w.active_slot[s] # None /\ c.input.kind # "approve"
      BY <1>17 DEF Suspends, EndsApproval
    <2>2. SuspendedBy(w, c) = w.active_slot[s] /\ SuspendedBy(v, c) = w.active_slot[s]
      BY <1>10, <1>16, <1>17, <2>1 DEF SuspendedBy
    <2>3. w.active_slot[s] \in Agreements /\ w.agreement[w.active_slot[s]] # None
      BY <1>1, <2>1 DEF Standing, Exact, World
    <2> QED BY <1>10, <2>1, <2>2, <2>3
  <1>18. SuspendedBy(v, c) = SuspendedBy(w, c)
    BY <1>16, <1>17 DEF SuspendedBy
  <1> QED BY <1>4, <1>11, <1>15, <1>16, <1>17, <1>18

\* decide records, and suspends, in v what it does in w.
LEMMA DecideRepeats ==
    ASSUME NEW w, Standing(w), NEW v, Standing(v),
           NEW c \in Commands, c.type = "decide", CanDecide(w, c),
           Sees(w, v, CommandReads(w, c))
    PROVE  Repeats(w, v, c)
  <1> DEFINE d == DecisionOf(c)
             p == c.input.proposal
             id == c.input.decision
             k == LatestKey(d)
             g == SuspendedBy(w, c)
             s == SlotOf(w.agreement[g].revision)
             Own == {<<"decision", id>>, <<"latest_decision", k>>,
                     <<"proposal", p>>, <<"review_counter", p>>}
             Ended == {<<"agreement", g>>, <<"active_slot", s>>, EpochKey}
  <1>1. /\ w \in World /\ v \in World /\ w.proposal[p] # None
        /\ p \in Proposals /\ id \in Decisions /\ d.proposal = p
    BY DecideKeys DEF Standing, CanDecide
  <1>2. /\ CanDecide(v, c) /\ v.proposal[p] = w.proposal[p]
        /\ Suspends(v, c) <=> Suspends(w, c)
        /\ SuspendedBy(v, c) = g
        /\ Suspends(w, c) =>
             /\ Epoch(v) = Epoch(w) /\ g \in Agreements
             /\ w.agreement[g] # None /\ v.agreement[g] = w.agreement[g]
    BY DecideAlike
  <1> HIDE DEF g
  <1>3. /\ CommandWrites(w, c) = Own \union (IF Suspends(w, c) THEN Ended ELSE {})
        /\ CommandWrites(v, c) = CommandWrites(w, c)
    <2>1. \A x : CommandWrites(x, c) = Own \union
             (IF Suspends(x, c) THEN DeactivationWrites(x, SuspendedBy(x, c)) ELSE {})
      BY <1>1 DEF CommandWrites
    <2>2. Suspends(w, c) => DeactivationWrites(w, g) = Ended /\ DeactivationWrites(v, g) = Ended
      BY <1>2 DEF DeactivationWrites
    <2> HIDE DEF Own, Ended
    <2> QED BY <1>2, <2>1, <2>2 DEF g
  <1>4. ResultOf(v, c) = ResultOf(w, c)
    BY <1>2 DEF ResultOf, g
  <1>5. ASSUME NEW x \in World, x.proposal[p] = w.proposal[p], NEW u, u = Record(x, c)
        PROVE  /\ u \in World
               /\ u.decision[id] = d /\ u.latest_decision[k] = id
               /\ u.proposal[p] = [w.proposal[p] EXCEPT !.review_counter = w.proposal[p].review_counter + 1]
               /\ u.review_counter[p] = w.proposal[p].review_counter + 1
               /\ u.agreement = x.agreement /\ u.channel = x.channel
    <2>1. u \in World
      BY <1>1, <1>5, RecordType
    <2>2. /\ u.decision[id] = d /\ u.latest_decision[k] = id
          /\ u.proposal[p] = [w.proposal[p] EXCEPT !.review_counter = w.proposal[p].review_counter + 1]
          /\ u.review_counter[p] = w.proposal[p].review_counter + 1
      BY <1>1, <1>5, RecordAt
    <2>3. u.agreement = x.agreement /\ u.channel = x.channel
      BY <1>5, RecordKept
    <2> QED BY <2>1, <2>2, <2>3
  <1>6. ASSUME NEW x \in World, x.proposal[p] = w.proposal[p], NEW u, u = After(x, c),
               Suspends(x, c) <=> Suspends(w, c)
        PROVE  /\ u.decision[id] = d /\ u.latest_decision[k] = id
               /\ u.proposal[p] = [w.proposal[p] EXCEPT !.review_counter = w.proposal[p].review_counter + 1]
               /\ u.review_counter[p] = w.proposal[p].review_counter + 1
    <2> DEFINE y == Record(x, c)
    <2>1. /\ y \in World /\ y.decision[id] = d /\ y.latest_decision[k] = id
          /\ y.proposal[p] = [w.proposal[p] EXCEPT !.review_counter = w.proposal[p].review_counter + 1]
          /\ y.review_counter[p] = w.proposal[p].review_counter + 1
      BY <1>5, <1>6
    <2>2. u = AfterDecide(x, c)
      BY <1>6 DEF After
    <2> HIDE DEF y
    <2>3. CASE ~Suspends(x, c)
      BY <2>1, <2>2, <2>3 DEF AfterDecide, y
    <2>4. CASE Suspends(x, c)
      <3>1. u = Deactivate(y, SuspendedBy(x, c), "suspended")
        BY <2>2, <2>4 DEF AfterDecide, y
      <3>2. /\ u.decision = y.decision /\ u.latest_decision = y.latest_decision
            /\ u.proposal = y.proposal /\ u.review_counter = y.review_counter
        BY <2>1, <3>1 DEF Deactivate, World
      <3> QED BY <2>1, <3>2
    <2> QED BY <2>3, <2>4
  <1>7. ASSUME Suspends(w, c), NEW x \in World, x.proposal[p] = w.proposal[p], NEW u, u = After(x, c),
               Suspends(x, c), SuspendedBy(x, c) = g, x.agreement[g] = w.agreement[g],
               Epoch(x) = Epoch(w)
        PROVE  /\ u.agreement[g] = [w.agreement[g] EXCEPT !.status = "suspended"]
               /\ u.active_slot[s] = None
               /\ u.channel.eligibility_epoch = Epoch(w) + 1
    <2> DEFINE y == Record(x, c)
    <2>1. y \in World /\ y.agreement = x.agreement /\ y.channel = x.channel
      BY <1>5, <1>7
    <2> HIDE DEF y
    <2>2. u = Deactivate(y, g, "suspended")
      BY <1>7 DEF After, AfterDecide, y
    <2>3. y.agreement[g] = w.agreement[g] /\ g \in Agreements /\ y.agreement[g] # None
      BY <1>2, <1>7, <2>1
    <2>4. Epoch(y) = Epoch(w)
      BY <1>7, <2>1 DEF Epoch
    <2> QED BY <2>1, <2>2, <2>3, <2>4, DeactivateAt
  <1>8. ASSUME NEW key \in CommandWrites(w, c)
        PROVE  At(After(v, c), key) = At(After(w, c), key)
    <2>1. CASE key \in Own
      <3>1. ASSUME NEW x, x = w \/ x = v
            PROVE  /\ At(After(x, c), <<"decision", id>>) = d
                   /\ At(After(x, c), <<"latest_decision", k>>) = id
                   /\ At(After(x, c), <<"proposal", p>>) =
                        [w.proposal[p] EXCEPT !.review_counter = w.proposal[p].review_counter + 1]
                   /\ At(After(x, c), <<"review_counter", p>>) = w.proposal[p].review_counter + 1
        <4>1. x \in World /\ x.proposal[p] = w.proposal[p] /\ (Suspends(x, c) <=> Suspends(w, c))
          BY <1>1, <1>2, <3>1
        <4> HIDE DEF d, k, id, p
        <4> QED BY <1>6, <4>1, KeyIs
      <3> QED BY <2>1, <3>1
    <2>2. CASE key \notin Own
      <3>1. Suspends(w, c) /\ key \in Ended
        BY <1>3, <2>2
      <3>2. ASSUME NEW x, x = w \/ x = v
            PROVE  /\ At(After(x, c), <<"agreement", g>>) = [w.agreement[g] EXCEPT !.status = "suspended"]
                   /\ At(After(x, c), <<"active_slot", s>>) = None
                   /\ At(After(x, c), EpochKey) = Epoch(w) + 1
        <4>1. /\ x \in World /\ x.proposal[p] = w.proposal[p] /\ Suspends(x, c)
              /\ SuspendedBy(x, c) = g /\ x.agreement[g] = w.agreement[g] /\ Epoch(x) = Epoch(w)
          BY <1>1, <1>2, <3>1, <3>2 DEF g
        <4>2. /\ After(x, c).agreement[g] = [w.agreement[g] EXCEPT !.status = "suspended"]
              /\ After(x, c).active_slot[s] = None
              /\ After(x, c).channel.eligibility_epoch = Epoch(w) + 1
          BY <1>7, <3>1, <4>1
        <4> QED BY <4>2, KeyIs DEF EpochKey
      <3> QED BY <3>1, <3>2
    <2> QED BY <2>1, <2>2
  <1> QED BY <1>2, <1>3, <1>4, <1>8 DEF Repeats, Can

\* decide writes the decision, the pointer and counters that follow it, and
\* what ending the agreement writes when it suspends one.
LEMMA DecideCovers ==
    ASSUME NEW w, Standing(w), NEW c \in Commands, c.type = "decide", CanDecide(w, c)
    PROVE  Covers(w, c)
  <1> DEFINE d == DecisionOf(c)
             p == c.input.proposal
             r == c.input.revision
             id == c.input.decision
             k == LatestKey(d)
             g == SuspendedBy(w, c)
             s == SlotOf(w.agreement[g].revision)
             y == Record(w, c)
             u == After(w, c)
             Own == {<<"decision", id>>, <<"latest_decision", k>>,
                     <<"proposal", p>>, <<"review_counter", p>>}
             Ended == {<<"agreement", g>>, <<"active_slot", s>>, EpochKey}
  <1>1. /\ w \in World /\ w.proposal[p] # None /\ y \in World
        /\ p \in Proposals /\ id \in Decisions /\ d.proposal = p /\ r \in Revisions
        /\ d.revision = r /\ d.retracts = c.input.retracts
        /\ k \in Proposals \X Roles \X Actors /\ SlotOf(r) \in Slots
    BY DecideKeys, RecordType DEF Standing, CanDecide
  <1>2. Suspends(w, c) => /\ g = w.active_slot[SlotOf(r)] /\ g \in Agreements /\ w.agreement[g] # None
                          /\ s \in Slots
    <2> SUFFICES ASSUME Suspends(w, c)
                 PROVE  /\ g = w.active_slot[SlotOf(r)] /\ g \in Agreements /\ w.agreement[g] # None
                        /\ s \in Slots
      OBVIOUS
    <2>1. g = w.active_slot[SlotOf(r)] /\ w.active_slot[SlotOf(r)] # None
      BY DEF SuspendedBy, Suspends
    <2> HIDE DEF g
    <2>2. g \in Agreements /\ w.agreement[g] # None
      BY <1>1, <2>1 DEF Standing, Exact, World
    <2>3. w.agreement[g] \in AgreementRecord
      BY <1>1, <2>2 DEF World
    <2> QED BY <2>1, <2>2, <2>3, SlotType DEF AgreementRecord
  <1>3. CommandWrites(w, c) = Own \union (IF Suspends(w, c) THEN Ended ELSE {})
    BY <1>1 DEF CommandWrites, DeactivationWrites
  <1>4. /\ y.agreement = w.agreement /\ y.active_slot = w.active_slot /\ y.channel = w.channel
        /\ \A i \in Decisions \ {id} : y.decision[i] = w.decision[i]
        /\ \A i \in (Proposals \X Roles \X Actors) \ {k} : y.latest_decision[i] = w.latest_decision[i]
        /\ \A i \in Proposals \ {p} : y.proposal[i] = w.proposal[i]
        /\ \A i \in Proposals \ {p} : y.review_counter[i] = w.review_counter[i]
    <2>1. y = Record(w, c)
      OBVIOUS
    <2> HIDE DEF y, d
    <2> QED BY <1>1, <2>1, RecordKept DEF d
  <1>5. \A f \in Prefixes \ {"decision", "latest_decision", "proposal", "review_counter"} : y[f] = w[f]
    BY <1>1, RecordOthers
  <1>6. ASSUME NEW f \in Prefixes, NEW i \in Index(f), <<f, i>> \notin Own
        PROVE  y[f][i] = w[f][i]
    <2> HIDE DEF y
    <2>1. CASE f \in {"decision", "latest_decision", "proposal", "review_counter"}
      <3> HIDE DEF id, k, p
      <3> QED BY <1>4, <1>6, <2>1, IndexIs
    <2> QED BY <1>5, <2>1
  <1>7. u = AfterDecide(w, c)
    BY DEF After
  <1>8. ASSUME Suspends(w, c), NEW f \in Prefixes, NEW i \in Index(f), <<f, i>> \notin Ended
        PROVE  u[f][i] = y[f][i]
    <2>1. u = Deactivate(y, g, "suspended")
      BY <1>7, <1>8 DEF AfterDecide
    <2>2. y.agreement[g] # None /\ g \in Agreements /\ s = SlotOf(y.agreement[g].revision)
      BY <1>2, <1>4, <1>8
    <2> HIDE DEF y, u, g, s
    <2>3. u.channel.config = y.channel.config
      BY <1>1, <2>1, <2>2, DeactivateFrame
    <2>4. \A j \in Agreements \ {g} : u.agreement[j] = y.agreement[j]
      BY <1>1, <2>1, <2>2, DeactivateFrame
    <2>5. \A j \in Slots \ {s} : u.active_slot[j] = y.active_slot[j]
      BY <1>1, <2>1, <2>2, DeactivateFrame
    <2>6. CASE f = "channel"
      BY <1>8, <2>3, <2>6, IndexIs DEF EpochKey
    <2>7. CASE f = "agreement"
      BY <1>8, <2>4, <2>7, IndexIs
    <2>8. CASE f = "active_slot"
      BY <1>8, <2>5, <2>8, IndexIs
    <2>9. CASE f \notin {"channel", "agreement", "active_slot"}
      <3>1. u[f] = y[f]
        BY <1>1, <2>1, <2>9, DeactivateOthers
      <3> QED BY <3>1
    <2> QED BY <2>6, <2>7, <2>8, <2>9
  <1>9. ~Suspends(w, c) => u = y
    BY <1>7 DEF AfterDecide
  <1>10. ASSUME NEW f \in Prefixes, NEW i \in Index(f), <<f, i>> \notin CommandWrites(w, c)
         PROVE  u[f][i] = w[f][i]
    <2> HIDE DEF u, y, Own, Ended
    <2>1. <<f, i>> \notin Own /\ (Suspends(w, c) => <<f, i>> \notin Ended)
      BY <1>3, <1>10
    <2>2. y[f][i] = w[f][i]
      BY <1>6, <2>1
    <2>3. u[f][i] = y[f][i]
      BY <1>8, <1>9, <2>1
    <2> QED BY <2>2, <2>3
  <1>11. /\ <<"proposal", p>> \in Keys /\ <<"revision", r>> \in Keys /\ <<"decision", id>> \in Keys
         /\ <<"latest_decision", k>> \in Keys /\ <<"review_counter", p>> \in Keys /\ EpochKey \in Keys
    <2> HIDE DEF p, r, id, k
    <2> QED BY <1>1, KeyIs, IndexIs DEF Prefixes, EpochKey
  <1>12. Suspends(w, c) => Ended \subseteq Keys
    <2> HIDE DEF g, s
    <2> QED BY <1>2, <1>11, KeyIs, IndexIs DEF Prefixes
  <1>13. CommandWrites(w, c) \subseteq Keys
    BY <1>3, <1>11, <1>12
  <1>14. CommandReads(w, c) \subseteq Keys
    <2>1. ActiveKeys(w, SlotOf(r)) \subseteq Keys
      <3>1. w.active_slot[SlotOf(r)] \in Agreements \union {None}
        BY <1>1 DEF World
      <3> QED BY <1>1, <3>1, KeyIs, IndexIs DEF ActiveKeys, Prefixes
    <2>2. \A x \in {w.latest_decision[k], d.retracts} \ {None} : <<"decision", x>> \in Keys
      <3>1. w.latest_decision[k] \in Decisions \union {None}
        BY <1>1 DEF World
      <3>2. d.retracts \in Decisions \union {None}
        BY <1>1, DecideInput
      <3> HIDE DEF d
      <3> QED BY <3>1, <3>2, KeyIs, IndexIs DEF Prefixes
    <2>3. CommandReads(w, c) = DecideReads(w, c)
      BY DEF CommandReads
    <2> HIDE DEF k
    <2> QED BY <1>1, <1>11, <2>1, <2>2, <2>3 DEF DecideReads, k
  <1> QED BY <1>10, <1>13, <1>14, Differ DEF Covers, u

------------------------------------------------------------------------------
(* Activation, which reads as far as its dependencies reach. *)

\* The slots a revision depends on, directly or not, are the least set closed
\* under what they hold requires.
LEMMA DependencySlotsClosed ==
    ASSUME NEW w, Standing(w), Linked(w), NEW r \in Revisions
    PROVE  /\ DependencySlots(w, r) \subseteq Slots
           /\ \A d \in Required(r) : d.slot \in DependencySlots(w, r)
           /\ \A s \in DependencySlots(w, r) \cap DOMAIN Held(w) :
                \A d \in Required(Held(w)[s]) : d.slot \in DependencySlots(w, r)
           /\ \A C \in SUBSET Slots :
                /\ \A d \in Required(r) : d.slot \in C
                /\ \A s \in C \cap DOMAIN Held(w) : \A d \in Required(Held(w)[s]) : d.slot \in C
                => DependencySlots(w, r) \subseteq C
  <1> DEFINE held == Held(w)
             Direct(q) == {d.slot : d \in Required(q)}
             Closed(S) == Direct(r) \subseteq S /\ \A s \in S \cap DOMAIN held : Direct(held[s]) \subseteq S
             D == {t \in Slots : \A S \in SUBSET Slots : Closed(S) => t \in S}
  <1>1. DependencySlots(w, r) = D
    BY DEF DependencySlots
  <1>2. \A d \in Required(r) : d.slot \in Slots
    BY RequiredShape
  <1>3. \A s \in DOMAIN held : \A d \in Required(held[s]) : d.slot \in Slots
    BY HeldIs
  <1> HIDE DEF held
  <1>4. \A d \in Required(r) : d.slot \in D
    BY <1>2
  <1>5. ASSUME NEW s \in D \cap DOMAIN held, NEW d \in Required(held[s])
        PROVE  d.slot \in D
    <2>1. ASSUME NEW S \in SUBSET Slots, Closed(S) PROVE d.slot \in S
      <3>1. s \in S
        BY <2>1
      <3> QED BY <2>1, <3>1
    <2> QED BY <1>3, <2>1
  <1>6. ASSUME NEW C \in SUBSET Slots,
               \A d \in Required(r) : d.slot \in C,
               \A s \in C \cap DOMAIN held : \A d \in Required(held[s]) : d.slot \in C
        PROVE  D \subseteq C
    <2>1. Closed(C)
      BY <1>6
    <2> QED BY <2>1
  <1> HIDE DEF D
  <1>7. D \subseteq Slots
    BY DEF D
  <1> QED BY <1>1, <1>4, <1>5, <1>6, <1>7 DEF held

\* What may be activated depends on filled slots only, and not on its own.
LEMMA DependencySlotsHeld ==
    ASSUME NEW w, Standing(w), Linked(w), NEW r \in Revisions, DependencyEligible(Held(w), r)
    PROVE  DependencySlots(w, r) \subseteq DOMAIN Held(w)
  <1> DEFINE C == Below(Held(w), {SlotOf(r)})
  <1>1. {SlotOf(r)} \in SUBSET Slots
    BY SlotType
  <1>2. \A s \in DOMAIN Held(w) : \A d \in Required(Held(w)[s]) : d.slot \in Slots
    BY HeldIs
  <1>3. /\ C \subseteq DOMAIN Held(w)
        /\ \A s \in C : \A d \in Required(Held(w)[s]) : d.slot \in C
    BY <1>1, <1>2, EligibleClosed
  <1>4. \A d \in Required(r) : d.slot \in C
    <2>1. \A d \in Required(r) : Eligible(Held(w))[{SlotOf(r)}][d.slot]
      BY DEF DependencyEligible, RequirementMet
    <2> QED BY <1>1, <2>1, RequiredShape DEF Below
  <1>5. C \in SUBSET Slots
    BY DEF Below
  <1> HIDE DEF C
  <1> QED BY <1>3, <1>4, <1>5, DependencySlotsClosed

\* Worlds that agree on those slots answer dependencyEligible alike.
LEMMA DependencyAlike ==
    ASSUME NEW w, Standing(w), Linked(w), NEW v, Standing(v), Linked(v),
           NEW r \in Revisions, DependencyEligible(Held(w), r),
           \A s \in DependencySlots(w, r) :
              /\ v.active_slot[s] = w.active_slot[s]
              /\ w.active_slot[s] # None => v.agreement[w.active_slot[s]] = w.agreement[w.active_slot[s]]
    PROVE  DependencyEligible(Held(v), r)
  <1> DEFINE S == DependencySlots(w, r)
             own == {SlotOf(r)}
  <1>1. /\ S \subseteq Slots /\ S \subseteq DOMAIN Held(w)
        /\ \A d \in Required(r) : d.slot \in S
        /\ \A s \in S : \A d \in Required(Held(w)[s]) : d.slot \in S
    BY DependencySlotsClosed, DependencySlotsHeld
  <1>2. ASSUME NEW s \in S
        PROVE  s \in DOMAIN Held(v) /\ Held(w)[s] = Held(v)[s]
    <2>1. w.active_slot[s] # None /\ Held(w)[s] = w.agreement[w.active_slot[s]].revision
      BY <1>1, HeldIs
    <2>2. v.active_slot[s] = w.active_slot[s] /\ v.agreement[w.active_slot[s]] = w.agreement[w.active_slot[s]]
      BY <2>1
    <2>3. s \in DOMAIN Held(v)
      BY <1>1, <2>1, <2>2, HeldIs
    <2>4. Held(v)[s] = v.agreement[v.active_slot[s]].revision
      BY <2>3, HeldIs
    <2> QED BY <2>1, <2>2, <2>3, <2>4
  <1> HIDE DEF S
  <1>3. own \in SUBSET Slots
    BY SlotType
  <1>4. ASSUME NEW d \in Required(r)
        PROVE  /\ Eligible(Held(w))[own][d.slot] <=> Eligible(Held(v))[own][d.slot]
               /\ Visits(Held(w))[own][d.slot] = Visits(Held(v))[own][d.slot]
               /\ Held(w)[d.slot] = Held(v)[d.slot]
    <2> DEFINE x == Held(w)
               y == Held(v)
    <2>1. S \in SUBSET Slots /\ ClosedAlike(x, y, S)
      BY <1>1, <1>2 DEF ClosedAlike
    <2>2. d.slot \in S /\ x[d.slot] = y[d.slot]
      BY <1>1, <1>2
    <2> HIDE DEF x, y
    <2>3. \A seen \in SUBSET Slots : \A s \in S :
             /\ Eligible(x)[seen][s] <=> Eligible(y)[seen][s]
             /\ Visits(x)[seen][s] = Visits(y)[seen][s]
      BY <2>1, SameBelow
    <2> QED BY <1>3, <2>2, <2>3 DEF x, y
  <1>5. \A d \in Required(r) : d.slot # SlotOf(r) /\ ServingEnabled /\ RequirementMet(Held(v), own, d)
    BY <1>4 DEF DependencyEligible, RequirementMet
  <1>6. [d \in Required(r) |-> Visits(Held(w))[own][d.slot]]
        = [d \in Required(r) |-> Visits(Held(v))[own][d.slot]]
    BY <1>4
  <1>7. SumFunction([d \in Required(r) |-> Visits(Held(v))[own][d.slot]]) <= MaxNodes
    <2>1. SumFunction([d \in Required(r) |-> Visits(Held(w))[own][d.slot]]) <= MaxNodes
      BY DEF DependencyEligible
    <2> QED BY <1>6, <2>1
  <1> QED BY <1>5, <1>7 DEF DependencyEligible

\* The parts of an accepted activation.
LEMMA ActivateParts ==
    ASSUME NEW w, Standing(w), NEW c \in Commands, c.type = "activate", CanActivate(w, c),
           NEW pid, pid = c.input.proposal, NEW p, p = w.proposal[pid]
    PROVE  /\ w \in World /\ pid \in Proposals /\ c.input.agreement \in Agreements
           /\ p # None /\ p \in Proposal /\ p.revision \in Revisions /\ p.policy \in Policies
           /\ SlotOf(p.revision) \in Slots
           /\ DependencyEligible(Held(w), p.revision)
           /\ w.agreement[c.input.agreement] = None
           /\ \A role \in RequiredRoles(p.policy) :
                /\ <<pid, role, RepresentativeOf(p.policy, role)>> \in Proposals \X Roles \X Actors
                /\ LatestOf(w, pid, role) \in Decisions
  <1>1. /\ w \in World /\ pid \in Proposals /\ c.input.agreement \in Agreements
        /\ p # None /\ DependencyEligible(Held(w), p.revision)
        /\ w.agreement[c.input.agreement] = None
        /\ \A role \in RequiredRoles(p.policy) : Approves(w, pid, role)
    BY ActivateInput DEF CanActivate, Standing
  <1>2. p \in Proposal
    BY <1>1 DEF World
  <1>3. p.revision \in Revisions /\ p.policy \in Policies
    BY <1>2 DEF Proposal
  <1>4. SlotOf(p.revision) \in Slots
    BY <1>3, SlotType
  <1>5. ASSUME NEW role \in RequiredRoles(p.policy)
        PROVE  /\ <<pid, role, RepresentativeOf(p.policy, role)>> \in Proposals \X Roles \X Actors
               /\ LatestOf(w, pid, role) \in Decisions
    <2>1. PolicyInfo[p.policy] \in Policy
      BY <1>3, ConfigAssumption
    <2>2. PICK R \in SUBSET Roles : PolicyInfo[p.policy].representative \in [R -> Actors]
      BY <2>1 DEF Policy
    <2>3. role \in Roles /\ RepresentativeOf(p.policy, role) \in Actors
      BY <2>2 DEF RequiredRoles, RepresentativeOf
    <2>4. LatestOf(w, pid, role) # None
      BY <1>1 DEF Approves
    <2>5. LatestOf(w, pid, role) = w.latest_decision[<<pid, role, RepresentativeOf(p.policy, role)>>]
      BY DEF LatestOf
    <2>6. <<pid, role, RepresentativeOf(p.policy, role)>> \in Proposals \X Roles \X Actors
      BY <1>1, <2>3
    <2> QED BY <1>1, <2>4, <2>5, <2>6 DEF World
  <1> QED BY <1>1, <1>2, <1>3, <1>4, <1>5

\* c activates proposal pid, p, as agreement a of slot s, leaving u.
Activates(w, c, pid, p, s, a, u) ==
    /\ c \in Commands /\ c.type = "activate" /\ CanActivate(w, c)
    /\ pid = c.input.proposal /\ p = w.proposal[pid] /\ s = SlotOf(p.revision)
    /\ a = c.input.agreement /\ u = AfterActivate(w, c)

\* activate decides on what it reads.
LEMMA ActivateAlike ==
    ASSUME NEW w, Standing(w), Linked(w), NEW v, Standing(v), Linked(v),
           NEW c, Sees(w, v, CommandReads(w, c)),
           NEW pid, NEW p, NEW s, NEW a, NEW u, Activates(w, c, pid, p, s, a, u)
    PROVE  /\ CanActivate(v, c)
           /\ v.proposal[pid] = p
           /\ v.active_slot[s] = w.active_slot[s]
           /\ w.active_slot[s] # None => v.agreement[w.active_slot[s]] = w.agreement[w.active_slot[s]]
           /\ Epoch(v) = Epoch(w)
           /\ \A role \in RequiredRoles(p.policy) : LatestOf(v, pid, role) = LatestOf(w, pid, role)
  <1>a. /\ c \in Commands /\ c.type = "activate" /\ CanActivate(w, c)
        /\ pid = c.input.proposal /\ p = w.proposal[pid] /\ s = SlotOf(p.revision)
        /\ a = c.input.agreement
    BY DEF Activates
  <1> USE <1>a
  <1> DEFINE K == CommandReads(w, c)
             lk(role) == <<pid, role, RepresentativeOf(p.policy, role)>>
  <1>1. /\ p # None /\ p.revision \in Revisions /\ DependencyEligible(Held(w), p.revision)
        /\ w.agreement[a] = None
    BY ActivateParts
  <1>2. K = ActivateReads(w, c)
    BY DEF CommandReads
  <1>3. /\ <<"proposal", pid>> \in K /\ <<"review_counter", pid>> \in K
        /\ <<"revision", p.revision>> \in K /\ <<"agreement", a>> \in K
        /\ <<"channel", "eligibility_epoch">> \in K
        /\ ActiveKeys(w, s) \subseteq K
        /\ \A role \in RequiredRoles(p.policy) :
             <<"latest_decision", lk(role)>> \in K /\ <<"decision", LatestOf(w, pid, role)>> \in K
        /\ \A t \in DependencySlots(w, p.revision) : ActiveKeys(w, t) \subseteq K
    <2>1. K = {<<"proposal", pid>>, <<"review_counter", pid>>, <<"revision", p.revision>>,
               <<"agreement", a>>, EpochKey}
              \union ActiveKeys(w, s) \union VoteKeys(w, pid) \union DependencyKeys(w, p.revision)
      BY <1>2 DEF ActivateReads
    <2>2. \A role \in RequiredRoles(p.policy) :
            /\ <<"latest_decision", lk(role)>> \in VoteKeys(w, pid)
            /\ <<"decision", LatestOf(w, pid, role)>> \in VoteKeys(w, pid)
      BY DEF VoteKeys
    <2>3. \A t \in DependencySlots(w, p.revision) : ActiveKeys(w, t) \subseteq DependencyKeys(w, p.revision)
      BY DEF ResolveKeys, DependencyKeys
    <2> HIDE DEF K, lk
    <2> QED BY <2>1, <2>2, <2>3 DEF EpochKey
  <1>0. Sees(w, v, K)
    OBVIOUS
  <1> HIDE DEF K, lk
  <1>4. w.proposal[pid] = v.proposal[pid]
    BY <1>0, <1>3, SeesAt
  <1>5. w.review_counter[pid] = v.review_counter[pid]
    BY <1>0, <1>3, SeesAt
  <1>6. w.revision[p.revision] = v.revision[p.revision]
    <2>1. <<"revision", p.revision>> \in K
      BY <1>3
    <2> QED BY <1>0, <2>1, SeesAt
  <1>7. w.agreement[a] = v.agreement[a]
    BY <1>0, <1>3, SeesAt
  <1>8. Epoch(v) = Epoch(w)
    BY <1>0, <1>3, SeesAt DEF Epoch
  <1>9. /\ w.active_slot[s] = v.active_slot[s]
        /\ w.active_slot[s] # None => w.agreement[w.active_slot[s]] = v.agreement[w.active_slot[s]]
    <2>1. ActiveKeys(w, s) \subseteq K
      BY <1>3
    <2>2. ASSUME NEW t, ActiveKeys(w, t) \subseteq K
          PROVE  /\ w.active_slot[t] = v.active_slot[t]
                 /\ w.active_slot[t] # None => w.agreement[w.active_slot[t]] = v.agreement[w.active_slot[t]]
      BY <1>0, <2>2, SeesActive
    <2> QED BY <2>1, <2>2
  <1>10. ASSUME NEW t \in DependencySlots(w, p.revision)
         PROVE  /\ v.active_slot[t] = w.active_slot[t]
                /\ w.active_slot[t] # None => v.agreement[w.active_slot[t]] = w.agreement[w.active_slot[t]]
    <2>1. ActiveKeys(w, t) \subseteq K
      BY <1>3
    <2> QED BY <1>0, <2>1, SeesActive
  <1>11. DependencyEligible(Held(v), p.revision)
    BY <1>1, <1>10, DependencyAlike
  <1>12. ASSUME NEW role \in RequiredRoles(p.policy)
         PROVE  /\ LatestOf(v, pid, role) = LatestOf(w, pid, role)
                /\ v.decision[LatestOf(w, pid, role)] = w.decision[LatestOf(w, pid, role)]
    <2>1. <<"latest_decision", lk(role)>> \in K /\ <<"decision", LatestOf(w, pid, role)>> \in K
      BY <1>3
    <2>2. w.latest_decision[lk(role)] = v.latest_decision[lk(role)]
      BY <1>0, <2>1, SeesAt
    <2>3. w.decision[LatestOf(w, pid, role)] = v.decision[LatestOf(w, pid, role)]
      BY <1>0, <2>1, SeesAt
    <2> QED BY <1>4, <2>2, <2>3 DEF LatestOf, lk
  <1>13. \A role \in RequiredRoles(p.policy) : Approves(w, pid, role)
    BY DEF CanActivate
  <1>14. \A role \in RequiredRoles(p.policy) : Approves(v, pid, role)
    <2>1. ASSUME NEW role \in RequiredRoles(p.policy)
          PROVE  Approves(v, pid, role)
      <3>1. /\ LatestOf(v, pid, role) = LatestOf(w, pid, role)
            /\ v.decision[LatestOf(w, pid, role)] = w.decision[LatestOf(w, pid, role)]
        BY <1>12
      <3>2. Approves(w, pid, role)
        BY <1>13
      <3> QED BY <1>4, <3>1, <3>2 DEF Approves
    <2> QED BY <2>1
  <1>15. PointerIntact(v, s) /\ CountersAgree(v, pid) /\ ProposalOpen(v, pid)
    BY <1>4, <1>5, <1>9, ZenonT(40) DEF CanActivate, PointerIntact, CountersAgree, ProposalOpen, ActiveAgreement
  <1>16. CanActivate(v, c)
    BY <1>4, <1>6, <1>7, <1>9, <1>11, <1>14, <1>15, ZenonT(40) DEF CanActivate, ActiveAgreement
  <1> QED BY <1>4, <1>8, <1>9, <1>12, <1>16

\* The proposal once agreement a has come of it, and a superseded agreement.
Consumes(p, a) == [p EXCEPT !.status = "activated", !.agreement = a]
Succeeded(g) == [g EXCEPT !.status = "superseded"]

\* The fields an activation changes.
Entered(w, u, pid, s, a) ==
    /\ u.agreement = [Superseded(w, s).agreement EXCEPT ![a] = Agreed(w, pid)]
    /\ u.active_slot = [w.active_slot EXCEPT ![s] = a]
    /\ u.channel = [w.channel EXCEPT !.eligibility_epoch = @ + 1]
    /\ u.proposal = [w.proposal EXCEPT ![pid].status = "activated", ![pid].agreement = a]

\* Activation, field by field.
LEMMA ActivateFields ==
    ASSUME NEW w, Standing(w), NEW c \in Commands, c.type = "activate", CanActivate(w, c),
           NEW pid, pid = c.input.proposal, NEW p, p = w.proposal[pid],
           NEW s, s = SlotOf(p.revision), NEW u, u = AfterActivate(w, c),
           NEW a, a = c.input.agreement
    PROVE  Entered(w, u, pid, s, a)
  <1> DEFINE x == Superseded(w, s)
             new == Agreed(w, pid)
  <1>1. w \in World /\ s \in Slots
    BY ActivateParts
  <1>2. /\ x \in World /\ x.proposal = w.proposal /\ x.active_slot = w.active_slot
        /\ x.channel = w.channel
    BY <1>1, SupersededType DEF CanActivate
  <1>3. u = [x EXCEPT
                !.channel.eligibility_epoch = @ + 1,
                !.agreement[a] = new,
                !.active_slot[s] = a,
                !.proposal[pid].status = "activated",
                !.proposal[pid].agreement = a]
    BY ActivateIs DEF ActivatedSlot
  <1> HIDE DEF x, new
  <1>4. /\ u.agreement = [x.agreement EXCEPT ![a] = new]
        /\ u.active_slot = [x.active_slot EXCEPT ![s] = a]
        /\ u.channel = [x.channel EXCEPT !.eligibility_epoch = @ + 1]
        /\ u.proposal = [x.proposal EXCEPT ![pid].status = "activated", ![pid].agreement = a]
    <2>1. x \in World
      BY <1>2
    <2> QED BY <1>3, <2>1 DEF World
  <1> QED BY <1>2, <1>4 DEF x, new, Entered

\* What activation writes.
LEMMA ActivateAt ==
    ASSUME NEW w, Standing(w), NEW c, NEW pid, NEW p, NEW s, NEW a, NEW u,
           Activates(w, c, pid, p, s, a, u)
    PROVE  /\ u.agreement[a] =
                Agreed(w, pid)
           /\ u.active_slot[s] = a
           /\ u.proposal[pid] = Consumes(p, a)
           /\ u.channel.eligibility_epoch = Epoch(w) + 1
           /\ w.active_slot[s] # None =>
                u.agreement[w.active_slot[s]] = Succeeded(w.agreement[w.active_slot[s]])
  <1>a. /\ c \in Commands /\ c.type = "activate" /\ CanActivate(w, c)
        /\ pid = c.input.proposal /\ p = w.proposal[pid] /\ s = SlotOf(p.revision)
        /\ a = c.input.agreement /\ u = AfterActivate(w, c)
    BY DEF Activates
  <1> USE <1>a
  <1> DEFINE x == Superseded(w, s)
             h == w.active_slot[s]
             new == Agreed(w, pid)
  <1>1. /\ w \in World /\ pid \in Proposals /\ a \in Agreements /\ p # None /\ p \in Proposal
        /\ s \in Slots /\ w.agreement[a] = None
    BY ActivateParts
  <1>2. x \in World
    BY <1>1, SupersededType DEF CanActivate
  <1>3. h # None => h \in Agreements /\ h # a
    <2> HIDE DEF h
    <2>1. Exact(w) /\ h \in Agreements \union {None} /\ w.active_slot[s] = h
      BY <1>1 DEF Standing, World, h
    <2> QED BY <1>1, <2>1 DEF Exact
  <1>4. h # None => x.agreement[h] = Succeeded(w.agreement[h])
    BY <1>1, <1>3 DEF Superseded, Succeeded, World
  <1>5. /\ u.agreement = [x.agreement EXCEPT ![a] = new]
        /\ u.active_slot = [w.active_slot EXCEPT ![s] = a]
        /\ u.channel = [w.channel EXCEPT !.eligibility_epoch = @ + 1]
        /\ u.proposal = [w.proposal EXCEPT ![pid].status = "activated", ![pid].agreement = a]
    <2>1. Entered(w, u, pid, s, a)
      BY ActivateFields
    <2> QED BY <2>1, Zenon DEF Entered
  <1> HIDE DEF x, h, new
  <1>6. u.agreement[a] = new
    BY <1>1, <1>2, <1>5 DEF World
  <1>7. u.active_slot[s] = a
    BY <1>1, <1>5 DEF World
  <1>8. u.proposal[pid] = Consumes(p, a)
    BY <1>1, <1>5 DEF World, Consumes
  <1>9. u.channel.eligibility_epoch = Epoch(w) + 1
    BY <1>1, <1>5 DEF World, Epoch
  <1>10. h # None => u.agreement[h] = Succeeded(w.agreement[h])
    BY <1>2, <1>3, <1>4, <1>5 DEF World
  <1> QED BY <1>6, <1>7, <1>8, <1>9, <1>10 DEF h, new

\* ... and what it leaves alone.
LEMMA ActivateKeeps ==
    ASSUME NEW w, Standing(w), NEW c \in Commands, c.type = "activate", CanActivate(w, c),
           NEW pid, pid = c.input.proposal,
           NEW s, s = SlotOf(w.proposal[pid].revision), NEW u, u = AfterActivate(w, c)
    PROVE  /\ \A i \in Agreements \ {c.input.agreement, w.active_slot[s]} : u.agreement[i] = w.agreement[i]
           /\ \A i \in Slots \ {s} : u.active_slot[i] = w.active_slot[i]
           /\ \A i \in Proposals \ {pid} : u.proposal[i] = w.proposal[i]
           /\ u.channel.config = w.channel.config
  <1> DEFINE x == Superseded(w, s)
             h == w.active_slot[s]
             a == c.input.agreement
  <1>1. /\ w \in World /\ pid \in Proposals /\ a \in Agreements /\ s \in Slots
    BY ActivateParts
  <1>2. x \in World
    BY <1>1, SupersededType DEF CanActivate
  <1>3. \A i \in Agreements \ {h} : x.agreement[i] = w.agreement[i]
    BY <1>1 DEF Superseded, World
  <1>4. /\ u.agreement = [x.agreement EXCEPT ![a] = Agreed(w, pid)]
        /\ u.active_slot = [w.active_slot EXCEPT ![s] = a]
        /\ u.channel = [w.channel EXCEPT !.eligibility_epoch = @ + 1]
        /\ u.proposal = [w.proposal EXCEPT ![pid].status = "activated", ![pid].agreement = a]
    <2>1. Entered(w, u, pid, s, a)
      BY ActivateFields
    <2> QED BY <2>1, Zenon DEF Entered
  <1> HIDE DEF x, h
  <1>5. \A i \in Agreements \ {a, h} : u.agreement[i] = w.agreement[i]
    BY <1>1, <1>2, <1>3, <1>4 DEF World
  <1>6. \A i \in Slots \ {s} : u.active_slot[i] = w.active_slot[i]
    BY <1>1, <1>4 DEF World
  <1>7. \A i \in Proposals \ {pid} : u.proposal[i] = w.proposal[i]
    BY <1>1, <1>4 DEF World
  <1>8. u.channel.config = w.channel.config
    BY <1>1, <1>4 DEF World
  <1> QED BY <1>5, <1>6, <1>7, <1>8 DEF h

\* Activation touches no other prefix.
LEMMA ActivateOthers ==
    ASSUME NEW w \in World, NEW c, NEW u, u = AfterActivate(w, c),
           NEW f \in Prefixes \ {"agreement", "active_slot", "proposal", "channel"}
    PROVE  u[f] = w[f]
  <1>1. \A s : Superseded(w, s)[f] = w[f]
    BY DEF Superseded, World, Prefixes
  <1>2. \A s : DOMAIN Superseded(w, s) = DOMAIN w
    BY DEF Superseded, World
  <1> QED BY <1>1, <1>2, WorldShape DEF AfterActivate, Prefixes

\* The values an activation writes are the same in worlds alike.
LEMMA ActivateSame ==
    ASSUME NEW w, Standing(w), Linked(w), NEW v, Standing(v), Linked(v),
           NEW c, Sees(w, v, CommandReads(w, c)),
           NEW pid, NEW p, NEW s, NEW a, NEW u, Activates(w, c, pid, p, s, a, u),
           NEW y, y = AfterActivate(v, c)
    PROVE  /\ Activates(v, c, pid, p, s, a, y) /\ v.active_slot[s] = w.active_slot[s]
           /\ Epoch(v) = Epoch(w)
           /\ y.agreement[a] = u.agreement[a]
           /\ y.active_slot[s] = u.active_slot[s]
           /\ y.proposal[pid] = u.proposal[pid]
           /\ y.channel.eligibility_epoch = u.channel.eligibility_epoch
           /\ w.active_slot[s] # None => y.agreement[w.active_slot[s]] = u.agreement[w.active_slot[s]]
  <1>1. /\ CanActivate(v, c) /\ v.proposal[pid] = p
        /\ v.active_slot[s] = w.active_slot[s]
        /\ w.active_slot[s] # None => v.agreement[w.active_slot[s]] = w.agreement[w.active_slot[s]]
        /\ Epoch(v) = Epoch(w)
        /\ \A role \in RequiredRoles(p.policy) : LatestOf(v, pid, role) = LatestOf(w, pid, role)
    BY ActivateAlike
  <1>2. Agreed(v, pid) = Agreed(w, pid)
    <2>1. {LatestOf(v, pid, role) : role \in RequiredRoles(p.policy)}
          = {LatestOf(w, pid, role) : role \in RequiredRoles(p.policy)}
      BY <1>1
    <2>2. v.proposal[pid] = p /\ w.proposal[pid] = p
      BY <1>1 DEF Activates
    <2> QED BY <2>1, <2>2 DEF Agreed
  <1>3. /\ u.agreement[a] = Agreed(w, pid)
        /\ u.active_slot[s] = a
        /\ u.proposal[pid] = Consumes(p, a)
        /\ u.channel.eligibility_epoch = Epoch(w) + 1
        /\ w.active_slot[s] # None =>
              u.agreement[w.active_slot[s]] = Succeeded(w.agreement[w.active_slot[s]])
    BY ActivateAt
  <1>4. Activates(v, c, pid, p, s, a, y)
    BY <1>1 DEF Activates
  <1>5. /\ y.agreement[a] = Agreed(v, pid)
        /\ y.active_slot[s] = a
        /\ y.proposal[pid] = Consumes(p, a)
        /\ y.channel.eligibility_epoch = Epoch(v) + 1
        /\ v.active_slot[s] # None =>
              y.agreement[v.active_slot[s]] = Succeeded(v.agreement[v.active_slot[s]])
    BY <1>4, ActivateAt
  <1> QED BY <1>1, <1>2, <1>3, <1>4, <1>5

\* activate does in v what it does in w.
LEMMA ActivateRepeats ==
    ASSUME NEW w, Standing(w), Linked(w), NEW v, Standing(v), Linked(v),
           NEW c \in Commands, c.type = "activate", CanActivate(w, c),
           Sees(w, v, CommandReads(w, c))
    PROVE  Repeats(w, v, c)
  <1>1. ASSUME NEW pid, NEW p, NEW s, NEW a, NEW u, Activates(w, c, pid, p, s, a, u),
               NEW y, y = AfterActivate(v, c)
        PROVE  Repeats(w, v, c)
    <2> DEFINE h == w.active_slot[s]
    <2>1. /\ Activates(v, c, pid, p, s, a, y) /\ v.active_slot[s] = h
          /\ Epoch(v) = Epoch(w)
          /\ y.agreement[a] = u.agreement[a]
          /\ y.active_slot[s] = u.active_slot[s]
          /\ y.proposal[pid] = u.proposal[pid]
          /\ y.channel.eligibility_epoch = u.channel.eligibility_epoch
          /\ h # None => y.agreement[h] = u.agreement[h]
      BY <1>1, ActivateSame
    <2>2. After(w, c) = u /\ After(v, c) = y
      BY <1>1 DEF After, Activates
    <2>3. CommandWrites(w, c) = {<<"agreement", a>>, <<"active_slot", s>>, <<"proposal", pid>>, EpochKey}
                                \union {<<"agreement", g>> : g \in {h} \ {None}}
      BY <1>1 DEF CommandWrites, Activates
    <2>4. CommandWrites(v, c) = {<<"agreement", a>>, <<"active_slot", s>>, <<"proposal", pid>>, EpochKey}
                                \union {<<"agreement", g>> : g \in {h} \ {None}}
      BY <2>1 DEF CommandWrites, Activates
    <2>5. ResultOf(v, c) = ResultOf(w, c)
      BY <2>1 DEF ResultOf
    <2> HIDE DEF h
    <2>6. /\ At(y, <<"agreement", a>>) = At(u, <<"agreement", a>>)
          /\ At(y, <<"active_slot", s>>) = At(u, <<"active_slot", s>>)
          /\ At(y, <<"proposal", pid>>) = At(u, <<"proposal", pid>>)
          /\ At(y, EpochKey) = At(u, EpochKey)
          /\ h # None => At(y, <<"agreement", h>>) = At(u, <<"agreement", h>>)
      BY <2>1 DEF At, EpochKey
    <2>7. \A k \in CommandWrites(w, c) : At(y, k) = At(u, k)
      BY <2>3, <2>6
    <2>8. Can(v, c)
      BY <2>1 DEF Can, Activates
    <2> QED BY <2>2, <2>3, <2>4, <2>5, <2>7, <2>8 DEF Repeats
  <1>2. Activates(w, c, c.input.proposal, w.proposal[c.input.proposal],
                  SlotOf(w.proposal[c.input.proposal].revision), c.input.agreement,
                  AfterActivate(w, c))
    BY DEF Activates
  <1> QED BY <1>1, <1>2

\* The keys that resolving the required dependencies reads are keys of the
\* ledger: every slot on the way is held.
LEMMA DependencyKeysKnown ==
    ASSUME NEW w, Standing(w), Linked(w), NEW r \in Revisions, DependencyEligible(Held(w), r)
    PROVE  DependencyKeys(w, r) \subseteq Keys
  <1> SUFFICES ASSUME NEW s \in DependencySlots(w, r) PROVE ResolveKeys(w, s) \subseteq Keys
    BY DEF DependencyKeys
  <1>1. s \in Slots /\ s \in DOMAIN Held(w)
    BY DependencySlotsClosed, DependencySlotsHeld
  <1>2. w \in World /\ w.active_slot[s] \in Agreements /\ ActiveAgreement(w, s) \in AgreementRecord
    BY <1>1 DEF Held, HoldsSlot, Standing, World, ActiveAgreement
  <1>3. /\ <<"active_slot", s>> \in Keys
        /\ \A g \in Agreements : <<"agreement", g>> \in Keys
        /\ \A d \in Decisions : <<"decision", d>> \in Keys
        /\ \A q \in Revisions : <<"revision", q>> \in Keys
    BY <1>1, KeyIs, IndexIs DEF Prefixes
  <1>4. /\ \A d \in ActiveAgreement(w, s).approvals : d \in Decisions
        /\ ActiveAgreement(w, s).revision \in Revisions
    BY <1>2 DEF AgreementRecord
  <1> QED BY <1>2, <1>3, <1>4 DEF ResolveKeys, ActiveKeys

\* The keys of the slot's pointer and of the agreement it names.
LEMMA ActiveKeysKnown ==
    ASSUME NEW w \in World, NEW s \in Slots
    PROVE  ActiveKeys(w, s) \subseteq Keys
  <1>1. w.active_slot[s] \in Agreements \union {None}
    BY DEF World
  <1>2. <<"active_slot", s>> \in Keys /\ \A g \in Agreements : <<"agreement", g>> \in Keys
    BY KeyIs, IndexIs DEF Prefixes
  <1> QED BY <1>1, <1>2 DEF ActiveKeys

\* activate reads and writes keys of the ledger and changes only those it writes.
LEMMA ActivateCovers ==
    ASSUME NEW w, Standing(w), Linked(w), NEW c \in Commands, c.type = "activate",
           CanActivate(w, c)
    PROVE  Covers(w, c)
  <1> DEFINE pid == c.input.proposal
             p == w.proposal[pid]
             s == SlotOf(p.revision)
             a == c.input.agreement
             h == w.active_slot[s]
             u == AfterActivate(w, c)
  <1>1. /\ w \in World /\ pid \in Proposals /\ a \in Agreements
        /\ p.revision \in Revisions /\ s \in Slots /\ DependencyEligible(Held(w), p.revision)
        /\ \A role \in RequiredRoles(p.policy) :
             /\ <<pid, role, RepresentativeOf(p.policy, role)>> \in Proposals \X Roles \X Actors
             /\ LatestOf(w, pid, role) \in Decisions
    BY ActivateParts
  <1>2. h # None => h \in Agreements
    BY <1>1 DEF World
  <1>3. /\ \A i \in Agreements \ {a, h} : u.agreement[i] = w.agreement[i]
        /\ \A i \in Slots \ {s} : u.active_slot[i] = w.active_slot[i]
        /\ \A i \in Proposals \ {pid} : u.proposal[i] = w.proposal[i]
        /\ u.channel.config = w.channel.config
    BY ActivateKeeps
  <1>4. \A f \in Prefixes \ {"agreement", "active_slot", "proposal", "channel"} : u[f] = w[f]
    BY <1>1, ActivateOthers
  <1>5. CommandWrites(w, c) = {<<"agreement", a>>, <<"active_slot", s>>, <<"proposal", pid>>, EpochKey}
                              \union {<<"agreement", g>> : g \in {h} \ {None}}
    BY DEF CommandWrites
  <1>6. After(w, c) = u
    BY DEF After
  <1> HIDE DEF u, h
  <1>7. ASSUME NEW f \in Prefixes, NEW i \in Index(f), <<f, i>> \notin CommandWrites(w, c)
        PROVE  u[f][i] = w[f][i]
    <2>1. CASE f = "agreement"
      <3>1. i \in Agreements /\ i # a
        BY <1>5, <1>7, <2>1, IndexIs
      <3>2. i # h
        BY <1>5, <1>7, <2>1, <3>1, InputAssumption
      <3> QED BY <1>3, <2>1, <3>1, <3>2
    <2>2. CASE f = "active_slot"
      BY <1>3, <1>5, <1>7, <2>2, IndexIs
    <2>3. CASE f = "proposal"
      BY <1>3, <1>5, <1>7, <2>3, IndexIs
    <2>4. CASE f = "channel"
      BY <1>3, <1>5, <1>7, <2>4, IndexIs DEF EpochKey
    <2> QED BY <1>4, <1>7, <2>1, <2>2, <2>3, <2>4
  <1>8. /\ <<"proposal", pid>> \in Keys /\ <<"review_counter", pid>> \in Keys
        /\ <<"revision", p.revision>> \in Keys /\ EpochKey \in Keys
        /\ \A g \in Agreements : <<"agreement", g>> \in Keys
        /\ <<"active_slot", s>> \in Keys
    BY <1>1, KeyIs, IndexIs DEF Prefixes, EpochKey
  <1>9. CommandWrites(w, c) \subseteq Keys
    BY <1>1, <1>2, <1>5, <1>8
  <1>10. VoteKeys(w, pid) \subseteq Keys
    <2> SUFFICES ASSUME NEW role \in RequiredRoles(p.policy)
                 PROVE  {<<"latest_decision", <<pid, role, RepresentativeOf(p.policy, role)>>>>,
                         <<"decision", LatestOf(w, pid, role)>>} \subseteq Keys
      <3>1. ASSUME NEW k \in VoteKeys(w, pid)
            PROVE  \E role \in RequiredRoles(p.policy) :
                     k \in {<<"latest_decision", <<pid, role, RepresentativeOf(p.policy, role)>>>>,
                            <<"decision", LatestOf(w, pid, role)>>}
        BY <3>1 DEF VoteKeys
      <3> QED BY <3>1
    <2> DEFINE lk == <<pid, role, RepresentativeOf(p.policy, role)>>
    <2>1. lk \in Proposals \X Roles \X Actors
      BY <1>1
    <2> HIDE DEF lk
    <2>2. <<"latest_decision", lk>> \in Keys
      BY <2>1, KeyIs, IndexIs DEF Prefixes
    <2>3. <<"decision", LatestOf(w, pid, role)>> \in Keys
      BY <1>1, KeyIs, IndexIs DEF Prefixes
    <2> QED BY <2>2, <2>3 DEF lk
  <1>11. ActiveKeys(w, s) \subseteq Keys
    BY <1>1, ActiveKeysKnown
  <1>12. DependencyKeys(w, p.revision) \subseteq Keys
    BY <1>1, DependencyKeysKnown
  <1>13. CommandReads(w, c) \subseteq Keys
    <2>1. CommandReads(w, c) = {<<"proposal", pid>>, <<"review_counter", pid>>,
               <<"revision", p.revision>>, <<"agreement", a>>, EpochKey}
              \union ActiveKeys(w, s) \union VoteKeys(w, pid) \union DependencyKeys(w, p.revision)
      BY DEF CommandReads, ActivateReads
    <2>2. {<<"proposal", pid>>, <<"review_counter", pid>>, <<"revision", p.revision>>,
           <<"agreement", a>>, EpochKey} \subseteq Keys
      BY <1>1, <1>8
    <2> QED BY <1>10, <1>11, <1>12, <2>1, <2>2
  <1>14. \A k \in Keys \ CommandWrites(w, c) : At(u, k) = At(w, k)
    BY <1>7, Differ
  <1> QED BY <1>6, <1>9, <1>13, <1>14 DEF Covers

\* Every command does again what it did, in any world that agrees on what it
\* read.
LEMMA CommandRepeats ==
    ASSUME NEW w, Standing(w), Linked(w), NEW v, Standing(v), Linked(v),
           NEW c \in Commands, Can(w, c), Sees(w, v, CommandReads(w, c))
    PROVE  Repeats(w, v, c)
  <1>1. CASE c.type = "publish_revision"
    BY <1>1, PublishRepeats DEF Can
  <1>2. CASE c.type = "propose"
    BY <1>2, ProposeRepeats DEF Can
  <1>3. CASE c.type = "decide"
    BY <1>3, DecideRepeats DEF Can
  <1>4. CASE c.type = "activate"
    BY <1>4, ActivateRepeats DEF Can
  <1>5. CASE c.type \in {"withdraw", "suspend"}
    BY <1>5, StatusRepeats DEF Can
  <1>6. CASE c.type = "fence"
    BY <1>6, FenceRepeats DEF Can
  <1> QED BY <1>1, <1>2, <1>3, <1>4, <1>5, <1>6, CommandShape DEF CommandTypes

\* Every command's read and write sets are complete.
LEMMA CommandCovers ==
    ASSUME NEW w, Standing(w), Linked(w), NEW c \in Commands, Can(w, c)
    PROVE  Covers(w, c)
  <1>1. CASE c.type = "publish_revision"
    BY <1>1, PublishCovers DEF Can
  <1>2. CASE c.type = "propose"
    BY <1>2, ProposeCovers DEF Can
  <1>3. CASE c.type = "decide"
    BY <1>3, DecideCovers DEF Can
  <1>4. CASE c.type = "activate"
    BY <1>4, ActivateCovers DEF Can
  <1>5. CASE c.type \in {"withdraw", "suspend"}
    BY <1>5, StatusCovers DEF Can
  <1>6. CASE c.type = "fence"
    BY <1>6, FenceCovers DEF Can
  <1> QED BY <1>1, <1>2, <1>3, <1>4, <1>5, <1>6, CommandShape DEF CommandTypes

------------------------------------------------------------------------------
(* A whole transaction: the idempotency record and the command.            *)

\* An organization's command identifier is a key.
LEMMA IdempotencyKeyKnown ==
    ASSUME NEW c \in Commands
    PROVE  /\ IdempotencyKey(c) \in Orgs \X CommandIds
           /\ IdempotencyRecordKey(c) \in Keys /\ ConfigKey \in Keys
  <1>1. OrgOf[c.actor] \in Orgs /\ c.id \in CommandIds
    BY CommandShape, ConfigAssumption
  <1>2. IdempotencyKey(c) \in Orgs \X CommandIds
    BY <1>1 DEF IdempotencyKey
  <1> QED BY <1>2, KeyIs, IndexIs DEF Prefixes, IdempotencyRecordKey, ConfigKey

\* No handler writes the idempotency record: execute does, once.
LEMMA CommandWritesNoRecord ==
    ASSUME NEW w, NEW c \in Commands
    PROVE  \A i : <<"idempotency", i>> \notin CommandWrites(w, c)
  <1>1. \A g, i : <<"idempotency", i>> \notin DeactivationWrites(w, g)
    BY DEF DeactivationWrites, EpochKey
  <1>2. c.type \in CommandTypes
    BY CommandShape
  <1> QED BY <1>1, <1>2 DEF CommandWrites, CommandTypes, EpochKey

\* An executed command leaves its record, and the rest as its handler did.
LEMMA ExecutedAt ==
    ASSUME NEW w \in World, NEW c \in Commands, Can(w, c)
    PROVE  /\ Executed(w, c).idempotency[IdempotencyKey(c)] = [command |-> c, result |-> ResultOf(w, c)]
           /\ \A k \in Keys \ {IdempotencyRecordKey(c)} : At(Executed(w, c), k) = At(After(w, c), k)
  <1> DEFINE x == After(w, c)
             u == Executed(w, c)
             i == IdempotencyKey(c)
             rec == [command |-> c, result |-> ResultOf(w, c)]
  <1>1. x \in World /\ i \in Orgs \X CommandIds
    BY AfterType, IdempotencyKeyKnown
  <1>2. u = [x EXCEPT !.idempotency[i] = rec]
    BY DEF Executed
  <1> HIDE DEF x, u, i, rec
  <1>3. u.idempotency[i] = rec
    BY <1>1, <1>2 DEF World
  <1>4. \A j \in (Orgs \X CommandIds) \ {i} : u.idempotency[j] = x.idempotency[j]
    BY <1>1, <1>2 DEF World
  <1>5. \A f \in Prefixes \ {"idempotency"} : u[f] = x[f]
    BY <1>1, <1>2 DEF World, Prefixes
  <1>6. \A k \in Keys \ {<<"idempotency", i>>} : At(u, k) = At(x, k)
    <2> TAKE k \in Keys \ {<<"idempotency", i>>}
    <2>1. k = <<k[1], k[2]>> /\ k[1] \in Prefixes /\ k[2] \in Index(k[1])
      BY KeyIs
    <2>2. CASE k[1] = "idempotency"
      BY <1>4, <2>1, <2>2, IndexIs DEF At
    <2> QED BY <1>5, <2>1, <2>2 DEF At
  <1> QED BY <1>3, <1>6 DEF x, u, i, rec, IdempotencyRecordKey

\* A transaction whose reads still hold: committing its write set is executing
\* its command in the world it is committed to, with the same answer.
LEMMA ExecutedAgain ==
    ASSUME NEW w, Standing(w), Linked(w), NEW v, Standing(v), Linked(v),
           NEW c \in Commands, Accepts(w, c), Sees(w, v, ReadSet(w, c))
    PROVE  /\ Accepts(v, c) /\ ReadSet(w, c) \subseteq Keys
           /\ AnswerTo(w, c) = ResultOf(v, c)
           /\ Apply(v, [k \in WriteSet(w, c) |-> At(Executed(w, c), k)]) = Executed(v, c)
  <1> DEFINE K == WriteSet(w, c)
             i == IdempotencyKey(c)
  <1>1. w \in World /\ v \in World /\ Can(w, c) /\ ~Replays(w, c)
    BY DEF Standing, Accepts, Fresh, Replays
  <1>2. /\ ReadSet(w, c) = {ConfigKey, IdempotencyRecordKey(c)} \union CommandReads(w, c)
        /\ K = {IdempotencyRecordKey(c)} \union CommandWrites(w, c)
    BY <1>1 DEF ReadSet, WriteSet
  <1>3. Repeats(w, v, c)
    <2>1. Sees(w, v, CommandReads(w, c))
      BY <1>2 DEF Sees
    <2> QED BY <1>1, <2>1, CommandRepeats
  <1>4. Can(v, c) /\ CommandWrites(v, c) = CommandWrites(w, c) /\ ResultOf(v, c) = ResultOf(w, c)
    BY <1>3 DEF Repeats
  <1>5. Covers(w, c) /\ Covers(v, c)
    BY <1>1, <1>4, CommandCovers
  <1>6. w.channel.config = v.channel.config /\ w.idempotency[i] = v.idempotency[i]
    <2>1. At(w, ConfigKey) = At(v, ConfigKey) /\ At(w, IdempotencyRecordKey(c)) = At(v, IdempotencyRecordKey(c))
      BY <1>2 DEF Sees
    <2> QED BY <2>1 DEF At, ConfigKey, IdempotencyRecordKey
  <1>7. Accepts(v, c)
    BY <1>4, <1>6 DEF Accepts, Fresh
  <1>8. Executed(v, c) \in World
    BY <1>1, <1>7, ExecutedType
  <1>9. IdempotencyRecordKey(c) \in Keys /\ ConfigKey \in Keys
    BY IdempotencyKeyKnown
  <1> HIDE DEF K, i
  <1>10. ReadSet(w, c) \subseteq Keys
    BY <1>2, <1>5, <1>9 DEF Covers
  <1>11. ASSUME NEW k \in K PROVE At(Executed(w, c), k) = At(Executed(v, c), k)
    <2>1. CASE k = IdempotencyRecordKey(c)
      <3>1. Executed(w, c).idempotency[IdempotencyKey(c)] = Executed(v, c).idempotency[IdempotencyKey(c)]
        BY <1>1, <1>4, ExecutedAt
      <3> QED BY <2>1, <3>1 DEF At, IdempotencyRecordKey
    <2>2. CASE k # IdempotencyRecordKey(c)
      <3>1. k \in CommandWrites(w, c) /\ k \in Keys
        BY <1>2, <1>5, <2>2 DEF Covers
      <3>2. At(After(v, c), k) = At(After(w, c), k)
        BY <1>3, <3>1 DEF Repeats
      <3> QED BY <1>1, <1>4, <2>2, <3>1, <3>2, ExecutedAt
    <2> QED BY <2>1, <2>2
  <1>12. \A k \in Keys \ K : At(Executed(v, c), k) = At(v, k)
    <2> TAKE k \in Keys \ K
    <2>1. k \in Keys \ CommandWrites(v, c) /\ k \in Keys \ {IdempotencyRecordKey(c)}
      BY <1>2, <1>4
    <2>2. At(After(v, c), k) = At(v, k)
      BY <1>5, <2>1 DEF Covers
    <2> QED BY <1>1, <1>4, <2>1, <2>2, ExecutedAt
  <1>13. Apply(v, [k \in K |-> At(Executed(v, c), k)]) = Executed(v, c)
    BY <1>1, <1>8, <1>12, ApplyIs
  <1>14. [k \in K |-> At(Executed(w, c), k)] = [k \in K |-> At(Executed(v, c), k)]
    BY <1>11
  <1>15. Apply(v, [k \in K |-> At(Executed(w, c), k)]) = Executed(v, c)
    BY <1>13, <1>14
  <1>16. AnswerTo(w, c) = ResultOf(v, c)
    BY <1>1, <1>4 DEF AnswerTo
  <1> QED BY <1>7, <1>10, <1>15, <1>16 DEF K

\* A transaction that repeats a recorded command still repeats it, and writes
\* nothing.
LEMMA ReplayedAgain ==
    ASSUME NEW w, Standing(w), NEW v, Standing(v),
           NEW c \in Commands, Replays(w, c), Sees(w, v, ReadSet(w, c))
    PROVE  /\ Replays(v, c) /\ ReadSet(w, c) \subseteq Keys
           /\ AnswerTo(w, c) = v.idempotency[IdempotencyKey(c)].result
           /\ Apply(v, [k \in WriteSet(w, c) |-> At(Executed(w, c), k)]) = v
  <1> DEFINE i == IdempotencyKey(c)
  <1>1. ReadSet(w, c) = {ConfigKey, IdempotencyRecordKey(c)} /\ WriteSet(w, c) = {}
    BY DEF ReadSet, WriteSet
  <1>2. w.channel.config = v.channel.config /\ w.idempotency[i] = v.idempotency[i]
    <2>1. At(w, ConfigKey) = At(v, ConfigKey) /\ At(w, IdempotencyRecordKey(c)) = At(v, IdempotencyRecordKey(c))
      BY <1>1 DEF Sees
    <2> QED BY <2>1 DEF At, ConfigKey, IdempotencyRecordKey
  <1>3. Replays(v, c)
    BY <1>2 DEF Replays
  <1>4. AnswerTo(w, c) = v.idempotency[i].result
    BY <1>2 DEF AnswerTo
  <1>5. ReadSet(w, c) \subseteq Keys
    BY <1>1, IdempotencyKeyKnown
  <1>6. v \in World
    BY DEF Standing
  <1>7. Apply(v, [k \in {} |-> At(v, k)]) = v
    BY <1>6, ApplyIs
  <1>8. [k \in WriteSet(w, c) |-> At(Executed(w, c), k)] = [k \in {} |-> At(v, k)]
    BY <1>1
  <1> QED BY <1>3, <1>4, <1>5, <1>7, <1>8

------------------------------------------------------------------------------
(* The channel's invariant. *)

\* x is the simulation of its command against a world that reads of it still
\* hold in v.
Current(v, x) ==
    \E w \in World : \E c \in Commands :
        /\ Standing(w) /\ Linked(w)
        /\ Accepts(w, c) \/ Replays(w, c)
        /\ x = Simulate(w, c)
        /\ Sees(w, v, ReadSet(w, c))

\* A command committed with this result: its record, and no other changed.
Recorded(v, u, x) ==
    /\ u.idempotency[IdempotencyKey(x.command)] = [command |-> x.command, result |-> x.result]
    /\ u.idempotency[IdempotencyKey(x.command)] # None
    /\ \A i \in Orgs \X CommandIds : v.idempotency[i] # None => u.idempotency[i] = v.idempotency[i]

\* Committing a transaction whose reads still hold is executing its command,
\* or repeating it.
LEMMA Committing ==
    ASSUME NEW v, Standing(v), Linked(v), NEW x, Current(v, x),
           NEW u, u = Apply(v, x.writes)
    PROVE  /\ x.command \in Commands
           /\ u = v \/ (Accepts(v, x.command) /\ u = Executed(v, x.command))
           /\ Recorded(v, u, x)
  <1>1. PICK w \in World, c \in Commands :
           /\ Standing(w) /\ Linked(w)
           /\ Accepts(w, c) \/ Replays(w, c)
           /\ x = Simulate(w, c)
           /\ Sees(w, v, ReadSet(w, c))
    BY DEF Current
  <1>2. /\ x.command = c /\ x.result = AnswerTo(w, c)
        /\ x.writes = [k \in WriteSet(w, c) |-> At(Executed(w, c), k)]
    BY <1>1 DEF Simulate
  <1>3. v \in World /\ IdempotencyKey(c) \in Orgs \X CommandIds
    BY IdempotencyKeyKnown DEF Standing
  <1>4. CASE Accepts(w, c)
    <2>1. Accepts(v, c) /\ x.result = ResultOf(v, c) /\ u = Executed(v, c)
      BY <1>1, <1>2, <1>4, ExecutedAgain
    <2>2. Can(v, c) /\ v.idempotency[IdempotencyKey(c)] = None
      BY <2>1 DEF Accepts, Fresh
    <2>3. u \in World
      BY <1>3, <2>1, ExecutedType
    <2>4. u.idempotency[IdempotencyKey(c)] = [command |-> c, result |-> x.result]
      BY <1>3, <2>1, <2>2, ExecutedAt
    <2>5. ASSUME NEW i \in Orgs \X CommandIds, v.idempotency[i] # None
          PROVE  u.idempotency[i] = v.idempotency[i]
      <3>1. i # IdempotencyKey(c)
        BY <2>2, <2>5
      <3>2. <<"idempotency", i>> \in Keys \ {IdempotencyRecordKey(c)}
        BY <3>1, KeyIs, IndexIs DEF Prefixes, IdempotencyRecordKey
      <3>3. At(u, <<"idempotency", i>>) = At(After(v, c), <<"idempotency", i>>)
        BY <1>3, <2>1, <2>2, <3>2, ExecutedAt
      <3>4. <<"idempotency", i>> \in Keys \ CommandWrites(v, c)
        BY <3>2, CommandWritesNoRecord
      <3>5. Covers(v, c)
        BY <2>2, CommandCovers
      <3>6. At(After(v, c), <<"idempotency", i>>) = At(v, <<"idempotency", i>>)
        BY <3>4, <3>5 DEF Covers
      <3> QED BY <3>3, <3>6 DEF At
    <2>6. [command |-> c, result |-> x.result] \in IdempotencyRecord
      BY <2>1, <2>2, <1>3, ResultType DEF IdempotencyRecord
    <2> QED BY <1>2, <2>1, <2>4, <2>5, <2>6, NoneAssumption DEF Recorded
  <1>5. CASE Replays(w, c)
    <2>1. Replays(v, c) /\ x.result = v.idempotency[IdempotencyKey(c)].result /\ u = v
      BY <1>1, <1>2, <1>5, ReplayedAgain
    <2> DEFINE rec == v.idempotency[IdempotencyKey(c)]
    <2>2. rec # None /\ rec.command = c
      BY <2>1 DEF Replays
    <2>3. rec \in IdempotencyRecord
      BY <1>3, <2>2 DEF World
    <2>4. rec = [command |-> rec.command, result |-> rec.result]
      BY <2>3 DEF IdempotencyRecord
    <2>5. rec = [command |-> c, result |-> x.result]
      BY <2>1, <2>2, <2>4
    <2>6. u.idempotency[IdempotencyKey(x.command)] = rec
      BY <1>2, <2>1
    <2>7. rec = [command |-> x.command, result |-> x.result]
      BY <1>2, <2>5
    <2> HIDE DEF rec
    <2>8. Recorded(v, u, x)
      BY <2>1, <2>2, <2>6, <2>7 DEF Recorded
    <2>9. x.command \in Commands
      BY <1>1, <1>2
    <2>10. u = v
      BY <2>1
    <2> QED BY <2>8, <2>9, <2>10
  <1> QED BY <1>1, <1>4, <1>5

\* A write set that misses what a transaction read leaves it current.
LEMMA StillCurrent ==
    ASSUME NEW v, Standing(v), Linked(v), NEW x, Current(v, x), NEW writes,
           x.reads \cap DOMAIN writes = {}
    PROVE  Current(Apply(v, writes), x)
  <1>1. PICK w \in World, c \in Commands :
           /\ Standing(w) /\ Linked(w)
           /\ Accepts(w, c) \/ Replays(w, c)
           /\ x = Simulate(w, c)
           /\ Sees(w, v, ReadSet(w, c))
    BY DEF Current
  <1>2. x.reads = ReadSet(w, c)
    BY <1>1 DEF Simulate
  <1>3. ReadSet(w, c) \subseteq Keys
    BY <1>1, ExecutedAgain, ReplayedAgain
  <1>4. v \in World
    BY DEF Standing
  <1>5. \A k \in ReadSet(w, c) : At(Apply(v, writes), k) = At(v, k)
    BY <1>2, <1>3, <1>4, ApplyShape
  <1>6. Sees(w, Apply(v, writes), ReadSet(w, c))
    BY <1>1, <1>5 DEF Sees
  <1> QED BY <1>1, <1>6 DEF Current

\* A transaction in flight is a record that says whether it is stale, and one
\* that is not is current.
InFlight(v, x) ==
    /\ x = [command |-> x.command, reads |-> x.reads, result |-> x.result,
            stale |-> x.stale, writes |-> x.writes]
    /\ x.stale \in BOOLEAN
    /\ ~x.stale => Current(v, x)

\* A fresh simulation is in flight.
LEMMA SimulateInFlight ==
    ASSUME NEW v, Standing(v), Linked(v), NEW c \in Commands,
           Accepts(v, c) \/ Replays(v, c)
    PROVE  InFlight(v, Simulate(v, c)) /\ ~Simulate(v, c).stale
  <1>1. v \in World /\ Sees(v, v, ReadSet(v, c))
    BY DEF Standing, Sees
  <1>2. Current(v, Simulate(v, c))
    BY <1>1 DEF Current
  <1> QED BY <1>2 DEF InFlight, Simulate

\* What MVCC validation makes of another transaction in flight.
LEMMA MarkedInFlight ==
    ASSUME NEW v, Standing(v), Linked(v), NEW x, InFlight(v, x), NEW writes,
           NEW y, y = [x EXCEPT !.stale = @ \/ x.reads \cap DOMAIN writes # {}]
    PROVE  InFlight(Apply(v, writes), y)
  <1> DEFINE hit == x.reads \cap DOMAIN writes # {}
  <1>1. /\ x = [command |-> x.command, reads |-> x.reads, result |-> x.result,
                stale |-> x.stale, writes |-> x.writes]
        /\ x.stale \in BOOLEAN /\ ~x.stale => Current(v, x)
    BY DEF InFlight
  <1>2. y = [command |-> x.command, reads |-> x.reads, result |-> x.result,
             stale |-> (x.stale \/ hit), writes |-> x.writes]
    BY <1>1
  <1>3. y.stale \in BOOLEAN
    BY <1>2
  <1>4. ASSUME ~y.stale PROVE Current(Apply(v, writes), y)
    <2>1. ~x.stale /\ ~hit
      BY <1>2, <1>4
    <2>2. x.stale = FALSE /\ y.stale = FALSE
      BY <1>1, <1>3, <1>4, <2>1
    <2>3. y = x
      BY <1>1, <1>2, <2>2
    <2> QED BY <1>1, <2>1, <2>3, StillCurrent
  <1> QED BY <1>2, <1>3, <1>4 DEF InFlight

\* The transactions in flight, and the answers given.
Flying(v) == \A t \in TxIds : tx[t] # None => InFlight(v, tx[t])

Given(v) ==
    \A x \in answers :
        /\ v.idempotency[IdempotencyKey(x.command)] = x
        /\ x # None /\ IdempotencyKey(x.command) \in Orgs \X CommandIds

\* Whatever is ordered is in flight or stale, and ordered once.
Queued ==
    /\ ordered \in Seq(TxIds)
    /\ \A i \in DOMAIN ordered : ~tx[ordered[i]].stale => tx[ordered[i]] # None
    /\ \A i, j \in DOMAIN ordered : ordered[i] = ordered[j] => i = j

ChannelInv ==
    /\ Standing(ledger) /\ Linked(ledger)
    /\ tx = [t \in TxIds |-> tx[t]]
    /\ Flying(ledger) /\ Given(ledger) /\ Queued

\* The empty channel.
LEMMA ChannelStart == ChannelInit => ChannelInv
  <1> SUFFICES ASSUME ChannelInit PROVE ChannelInv
    OBVIOUS
  <1>1. Standing(ledger) /\ Linked(ledger)
    BY StandingInductive, LinkedInductive DEF ChannelInit, Init
  <1>2. tx = [t \in TxIds |-> tx[t]] /\ Flying(ledger)
    BY DEF ChannelInit, Flying
  <1>3. Given(ledger) /\ Queued
    BY DEF ChannelInit, Given, Queued
  <1> QED BY <1>1, <1>2, <1>3 DEF ChannelInv

\* Nothing is in flight, unless stale, before the channel is initialized.
LEMMA NothingInFlight ==
    ASSUME NEW v, ~v.channel.config, NEW x
    PROVE  ~Current(v, x)
  <1> SUFFICES ASSUME NEW w \in World, NEW c \in Commands,
                      Accepts(w, c) \/ Replays(w, c), Sees(w, v, ReadSet(w, c))
               PROVE  FALSE
    BY DEF Current
  <1>1. w.channel.config
    BY DEF Accepts, Fresh, Replays
  <1>2. At(w, ConfigKey) = At(v, ConfigKey)
    BY DEF Sees, ReadSet
  <1> QED BY <1>1, <1>2 DEF At, ConfigKey

\* The chaincode's Init transaction is the serial ledger's bootstrap, and only
\* stale transactions can be in flight when it commits.
LEMMA InitStep ==
    ASSUME ChannelInv, InitTransaction
    PROVE  ChannelInv' /\ Bootstrap
  <1>1. Bootstrap
    BY DEF InitTransaction, Bootstrap
  <1>2. Standing(ledger') /\ Linked(ledger')
    BY <1>1, StandingInductive, LinkedInductive DEF ChannelInv, Next
  <1>3. /\ tx' = tx /\ ordered' = ordered /\ answers' = answers
        /\ ledger'.idempotency = ledger.idempotency
    BY DEF InitTransaction, Bootstrapped, ChannelInv, Standing, World
  <1>4. Flying(ledger)'
    <2> SUFFICES ASSUME NEW t \in TxIds, tx[t] # None PROVE InFlight(ledger', tx[t])
      BY <1>3 DEF Flying
    <2>1. InFlight(ledger, tx[t]) /\ ~ledger.channel.config
      BY DEF ChannelInv, Flying, InitTransaction
    <2> QED BY <2>1, NothingInFlight DEF InFlight
  <1>5. Given(ledger)'
    BY <1>3 DEF ChannelInv, Given
  <1>6. Queued' /\ tx' = [t \in TxIds |-> tx'[t]]
    BY <1>3 DEF ChannelInv, Queued
  <1> QED BY <1>1, <1>2, <1>4, <1>5, <1>6 DEF ChannelInv

\* Steps of clients and of the orderer leave the ledger alone.
LEMMA QuietStepOfChannel ==
    ASSUME ChannelInv, UNCHANGED <<ledger, answers>>, Flying(ledger)', Queued',
           tx' = [t \in TxIds |-> tx'[t]]
    PROVE  ChannelInv'
  <1>1. Standing(ledger') /\ Linked(ledger') /\ Given(ledger)'
    BY DEF ChannelInv, Given
  <1> QED BY <1>1 DEF ChannelInv

\* A simulation endorsed now reads nothing but the current world.
LEMMA EndorseStep ==
    ASSUME ChannelInv, NEW t \in TxIds, NEW c \in Commands, Endorse(t, c)
    PROVE  ChannelInv'
  <1> DEFINE x == Simulate(ledger, c)
  <1>1. InFlight(ledger, x) /\ ~x.stale
    BY SimulateInFlight DEF ChannelInv, Endorse
  <1>2. /\ tx' = [tx EXCEPT ![t] = x] /\ tx[t] = None
        /\ ledger' = ledger /\ ordered' = ordered /\ answers' = answers
    BY DEF Endorse
  <1> HIDE DEF x
  <1>3. tx' = [u \in TxIds |-> IF u = t THEN x ELSE tx[u]]
    BY <1>2 DEF ChannelInv
  <1>4. Flying(ledger)'
    BY <1>1, <1>2, <1>3 DEF ChannelInv, Flying
  <1>5. Queued'
    <2>1. \A i \in DOMAIN ordered : ordered[i] \in TxIds
      BY DEF ChannelInv, Queued
    <2>2. ASSUME NEW i \in DOMAIN ordered, ~tx'[ordered[i]].stale PROVE tx'[ordered[i]] # None
      <3>1. CASE ordered[i] = t
        <4>1. ~(~tx[t].stale)
          BY <1>2, <3>1 DEF ChannelInv, Queued
        <4>2. x # None
          BY <1>1, <1>2, <4>1
        <4> QED BY <1>3, <3>1, <4>2
      <3>2. CASE ordered[i] # t
        BY <1>3, <2>1, <2>2, <3>2 DEF ChannelInv, Queued
      <3> QED BY <3>1, <3>2
    <2> QED BY <1>2, <2>2 DEF ChannelInv, Queued
  <1> QED BY <1>2, <1>3, <1>4, <1>5, QuietStepOfChannel

\* A transaction is ordered at most once while it is in flight.
LEMMA OrderStep ==
    ASSUME ChannelInv, NEW t \in TxIds, Order(t)
    PROVE  ChannelInv'
  <1>1. /\ tx[t] # None /\ \A i \in DOMAIN ordered : ordered[i] # t
        /\ ordered' = Append(ordered, t) /\ ledger' = ledger /\ tx' = tx /\ answers' = answers
    BY DEF Order, Sequenced
  <1>2. ordered \in Seq(TxIds)
    BY DEF ChannelInv, Queued
  <1>3. /\ ordered' \in Seq(TxIds) /\ Len(ordered') = Len(ordered) + 1
        /\ \A i \in 1..Len(ordered) : ordered'[i] = ordered[i]
        /\ ordered'[Len(ordered) + 1] = t
    BY <1>1, <1>2
  <1>4. DOMAIN ordered = 1..Len(ordered) /\ DOMAIN ordered' = 1..(Len(ordered) + 1)
        /\ Len(ordered) \in Nat
    BY <1>2, <1>3
  <1>5. ASSUME NEW i \in DOMAIN ordered' PROVE i \in DOMAIN ordered \/ i = Len(ordered) + 1
    BY <1>4
  <1>6. Queued'
    <2>1. ASSUME NEW i \in DOMAIN ordered', ~tx'[ordered'[i]].stale PROVE tx'[ordered'[i]] # None
      <3>1. CASE i \in DOMAIN ordered
        <4>1. ordered'[i] = ordered[i]
          BY <1>3, <1>4, <3>1
        <4> QED BY <1>1, <2>1, <3>1, <4>1 DEF ChannelInv, Queued
      <3>2. CASE i = Len(ordered) + 1
        BY <1>1, <1>3, <3>2
      <3> QED BY <1>5, <3>1, <3>2
    <2>2. ASSUME NEW i \in DOMAIN ordered', NEW j \in DOMAIN ordered', ordered'[i] = ordered'[j]
          PROVE  i = j
      <3>1. \A k \in DOMAIN ordered : ordered'[k] = ordered[k] /\ ordered'[k] # t
        BY <1>1, <1>3, <1>4
      <3>2. CASE i \in DOMAIN ordered /\ j \in DOMAIN ordered
        BY <2>2, <3>1, <3>2 DEF ChannelInv, Queued
      <3>3. CASE i = Len(ordered) + 1 \/ j = Len(ordered) + 1
        BY <1>3, <1>5, <2>2, <3>1, <3>3
      <3> QED BY <1>5, <3>2, <3>3
    <2> QED BY <1>3, <2>1, <2>2 DEF Queued
  <1>7. Flying(ledger)' /\ tx' = [u \in TxIds |-> tx'[u]]
    BY <1>1 DEF ChannelInv, Flying
  <1> QED BY <1>1, <1>6, <1>7, QuietStepOfChannel

\* A transaction dropped before it was ordered leaves no trace.
LEMMA AbandonStep ==
    ASSUME ChannelInv, NEW t \in TxIds, Abandon(t)
    PROVE  ChannelInv'
  <1>1. /\ \A i \in DOMAIN ordered : ordered[i] # t
        /\ tx' = [tx EXCEPT ![t] = None] /\ ledger' = ledger /\ ordered' = ordered /\ answers' = answers
    BY DEF Abandon, Sequenced
  <1>2. tx' = [u \in TxIds |-> IF u = t THEN None ELSE tx[u]]
    BY <1>1 DEF ChannelInv
  <1>3. Flying(ledger)'
    BY <1>1, <1>2 DEF ChannelInv, Flying
  <1>4. \A i \in DOMAIN ordered : ordered[i] \in TxIds
    BY DEF ChannelInv, Queued
  <1>5. Queued'
    BY <1>1, <1>2, <1>4 DEF ChannelInv, Queued
  <1> QED BY <1>1, <1>2, <1>3, <1>5, QuietStepOfChannel

\* The queue without its head, whose transaction is over.
LEMMA QueueAdvances ==
    ASSUME Queued, ordered # <<>>, ordered' = Tail(ordered),
           \A u \in TxIds \ {Head(ordered)} : ~tx'[u].stale /\ (~tx[u].stale => tx[u] # None) => tx'[u] # None,
           \A u \in TxIds \ {Head(ordered)} : ~tx'[u].stale => ~tx[u].stale
    PROVE  Queued'
  <1>1. ordered \in Seq(TxIds)
    BY DEF Queued
  <1>2. /\ ordered' \in Seq(TxIds) /\ Len(ordered) \in Nat /\ Len(ordered) > 0
        /\ Len(ordered') = Len(ordered) - 1
        /\ \A i \in 1..(Len(ordered) - 1) : ordered'[i] = ordered[i + 1]
        /\ Head(ordered) = ordered[1] /\ Head(ordered) \in TxIds
    BY <1>1
  <1>3. DOMAIN ordered = 1..Len(ordered) /\ DOMAIN ordered' = 1..(Len(ordered) - 1)
    BY <1>1, <1>2
  <1>4. ASSUME NEW i \in DOMAIN ordered'
        PROVE  /\ i + 1 \in DOMAIN ordered /\ 1 \in DOMAIN ordered /\ i + 1 # 1
               /\ ordered'[i] = ordered[i + 1] /\ ordered[i + 1] \in TxIds
    BY <1>1, <1>2, <1>3
  <1>5. ASSUME NEW i \in DOMAIN ordered' PROVE ordered'[i] \in TxIds \ {Head(ordered)}
    BY <1>2, <1>4 DEF Queued
  <1>6. ASSUME NEW i \in DOMAIN ordered', ~tx'[ordered'[i]].stale PROVE tx'[ordered'[i]] # None
    <2>1. ~tx[ordered[i + 1]].stale => tx[ordered[i + 1]] # None
      BY <1>4 DEF Queued
    <2> QED BY <1>4, <1>5, <1>6, <2>1
  <1>7. ASSUME NEW i \in DOMAIN ordered', NEW j \in DOMAIN ordered', ordered'[i] = ordered'[j]
        PROVE  i = j
    <2>1. i + 1 = j + 1
      BY <1>4, <1>7 DEF Queued
    <2> QED BY <1>3, <2>1
  <1> QED BY <1>2, <1>6, <1>7 DEF Queued

\* The head of the order is one of the transactions in flight.
LEMMA HeadIs ==
    ASSUME ChannelInv, ordered # <<>>, NEW t, t = Head(ordered)
    PROVE  /\ t \in TxIds
           /\ ~tx[t].stale => tx[t] # None /\ Current(ledger, tx[t])
  <1>1. ordered \in Seq(TxIds)
    BY DEF ChannelInv, Queued
  <1>2. 1 \in DOMAIN ordered /\ t = ordered[1] /\ t \in TxIds
    BY <1>1
  <1> QED BY <1>2 DEF ChannelInv, Queued, Flying, InFlight

\* An executed command is one of the ledger's actions.
LEMMA ExecuteIsNext ==
    ASSUME NEW c \in Commands, Execute(c)
    PROVE  Next
  BY CommandShape DEF CommandTypes, Next, PublishRevision, Propose, Decide, Activate,
                      ChangeStatus, Fence, OfType

\* A valid transaction runs its command on the committed world.
LEMMA CommitValidStep ==
    ASSUME ChannelInv, CommitValid
    PROVE  ChannelInv' /\ (Next \/ UNCHANGED ledger)
  <1> DEFINE t == Head(ordered)
             x == tx[t]
             ws == x.writes
             mark(u) == [tx[u] EXCEPT !.stale = @ \/ tx[u].reads \cap DOMAIN ws # {}]
  <1>1. /\ ordered # <<>> /\ ~x.stale
        /\ ledger' = Apply(ledger, ws)
        /\ answers' = answers \union {[command |-> x.command, result |-> x.result]}
        /\ tx' = [u \in TxIds |-> IF u = t \/ tx[u] = None THEN None ELSE mark(u)]
        /\ ordered' = Tail(ordered)
    BY DEF CommitValid, Invalidated
  <1>2. t \in TxIds /\ x # None /\ Current(ledger, x)
    BY <1>1, HeadIs
  <1> HIDE DEF mark, x, t
  <1>3. Standing(ledger) /\ Linked(ledger)
    BY DEF ChannelInv
  <1> DEFINE c == x.command
  <1>4. /\ c \in Commands
        /\ ledger' = ledger \/ (Accepts(ledger, c) /\ ledger' = Executed(ledger, c))
        /\ Recorded(ledger, ledger', x)
    <2>1. ledger' = Apply(ledger, x.writes)
      BY <1>1
    <2> QED BY <1>2, <1>3, <2>1, Committing
  <1> HIDE DEF ws
  <1>5. Next \/ UNCHANGED ledger
    BY <1>4, ExecuteIsNext DEF Execute
  <1>6. Standing(ledger') /\ Linked(ledger')
    BY <1>3, <1>4, ExecutedStanding, ExecutedLinked
  <1>7. tx' = [u \in TxIds |-> tx'[u]]
    BY <1>1
  <1>8. Flying(ledger)'
    <2> SUFFICES ASSUME NEW u \in TxIds, tx'[u] # None PROVE InFlight(ledger', tx'[u])
      BY DEF Flying
    <2>1. tx'[u] = mark(u) /\ tx[u] # None
      BY <1>1
    <2>2. InFlight(ledger, tx[u])
      BY <2>1 DEF ChannelInv, Flying
    <2>3. InFlight(Apply(ledger, ws), mark(u))
      BY <1>3, <2>2, MarkedInFlight DEF mark
    <2> QED BY <1>1, <2>1, <2>3
  <1>9. Given(ledger)'
    <2>1. IdempotencyKey(c) \in Orgs \X CommandIds
      BY <1>4, IdempotencyKeyKnown
    <2> SUFFICES ASSUME NEW y \in answers'
                 PROVE  /\ ledger'.idempotency[IdempotencyKey(y.command)] = y
                        /\ y # None /\ IdempotencyKey(y.command) \in Orgs \X CommandIds
      BY DEF Given
    <2>2. CASE y \in answers
      BY <1>4, <2>2 DEF ChannelInv, Given, Recorded
    <2>3. CASE y = [command |-> x.command, result |-> x.result]
      <3>1. y.command = x.command
        BY <2>3
      <3>2. ledger'.idempotency[IdempotencyKey(x.command)] = y
            /\ ledger'.idempotency[IdempotencyKey(x.command)] # None
        BY <1>4, <2>3 DEF Recorded
      <3> QED BY <2>1, <3>1, <3>2
    <2> QED BY <1>1, <2>2, <2>3
  <1>10. Queued'
    <2>1. ASSUME NEW u \in TxIds \ {t}, ~tx'[u].stale
          PROVE  ~tx[u].stale /\ ((~tx[u].stale => tx[u] # None) => tx'[u] # None)
      <3>1. CASE tx[u] = None
        BY <1>1, <2>1, <3>1
      <3>2. CASE tx[u] # None
        <4>1. InFlight(ledger, tx[u]) /\ tx'[u] = mark(u)
          BY <1>1, <2>1, <3>2 DEF ChannelInv, Flying
        <4> DEFINE y == tx[u]
                   hit == y.reads \cap DOMAIN ws # {}
        <4>2. /\ y = [command |-> y.command, reads |-> y.reads, result |-> y.result,
                      stale |-> y.stale, writes |-> y.writes]
              /\ y.stale \in BOOLEAN
          BY <4>1 DEF InFlight
        <4>3. mark(u) = [command |-> y.command, reads |-> y.reads, result |-> y.result,
                         stale |-> (y.stale \/ hit), writes |-> y.writes]
          BY <4>2 DEF mark
        <4>4. ~(y.stale \/ hit)
          <5> HIDE DEF y, hit
          <5>1. mark(u).stale = (y.stale \/ hit)
            BY <4>3
          <5> QED BY <2>1, <4>1, <5>1
        <4>5. mark(u) = y
          BY <4>2, <4>3, <4>4
        <4> QED BY <3>2, <4>1, <4>4, <4>5
      <3> QED BY <3>1, <3>2
    <2>2. Queued
      BY DEF ChannelInv
    <2> QED BY <1>1, <2>1, <2>2, QueueAdvances DEF t
  <1> QED BY <1>5, <1>6, <1>7, <1>8, <1>9, <1>10 DEF ChannelInv

\* An invalid transaction changes nothing.
LEMMA CommitInvalidStep ==
    ASSUME ChannelInv, CommitInvalid
    PROVE  ChannelInv'
  <1> DEFINE t == Head(ordered)
  <1>1. /\ ordered # <<>> /\ tx' = [tx EXCEPT ![t] = None] /\ ordered' = Tail(ordered)
        /\ ledger' = ledger /\ answers' = answers
    BY DEF CommitInvalid
  <1>2. tx' = [u \in TxIds |-> IF u = t THEN None ELSE tx[u]]
    BY <1>1 DEF ChannelInv
  <1>3. Flying(ledger)'
    BY <1>1, <1>2 DEF ChannelInv, Flying
  <1>4. Queued'
    <2>1. \A u \in TxIds \ {t} : tx'[u] = tx[u]
      BY <1>2
    <2>2. Queued
      BY DEF ChannelInv
    <2> QED BY <1>1, <2>1, <2>2, QueueAdvances
  <1> QED BY <1>1, <1>2, <1>3, <1>4, QuietStepOfChannel

\* Every step of the channel keeps its invariant and is a step of the serial
\* ledger, or none.
LEMMA ChannelStep ==
    ASSUME ChannelInv, [ChannelNext]_channelVars
    PROVE  ChannelInv' /\ [Next]_vars
  <1>1. CASE InitTransaction
    BY <1>1, InitStep DEF Next
  <1>2. CASE \E t \in TxIds, c \in Commands : Endorse(t, c)
    BY <1>2, EndorseStep DEF Endorse, vars
  <1>3. CASE \E t \in TxIds : Order(t)
    BY <1>3, OrderStep DEF Order, vars
  <1>4. CASE \E t \in TxIds : Abandon(t)
    BY <1>4, AbandonStep DEF Abandon, vars
  <1>5. CASE CommitValid
    BY <1>5, CommitValidStep DEF vars
  <1>6. CASE CommitInvalid
    BY <1>6, CommitInvalidStep DEF CommitInvalid, vars
  <1>7. CASE UNCHANGED channelVars
    BY <1>7 DEF channelVars, vars, ChannelInv, Flying, Given, Queued
  <1> QED BY <1>1, <1>2, <1>3, <1>4, <1>5, <1>6, <1>7 DEF ChannelNext

------------------------------------------------------------------------------
(* The theorems. *)

\* Endorsement against old worlds, reordering, loss and MVCC validation are
\* invisible: the channel implements the ledger that runs each command alone.
THEOREM ChannelSerializable == ChannelSpec => Serializable
  <1>1. ChannelInit => Init
    BY DEF ChannelInit, Init
  <1>2. ChannelInv /\ [ChannelNext]_channelVars => ChannelInv' /\ [Next]_vars
    BY ChannelStep
  <1> QED BY <1>1, <1>2, ChannelStart, PTL DEF ChannelSpec, Serializable, Spec

\* However often a command_id is sent, and whichever copies are in flight
\* together, its organization gets one answer, to one command.
THEOREM OneAnswer == ChannelSpec => []OneAnswerPerCommand
  <1>1. ChannelInv => OneAnswerPerCommand
    BY DEF ChannelInv, Given, OneAnswerPerCommand
  <1>2. ChannelInv /\ [ChannelNext]_channelVars => ChannelInv'
    BY ChannelStep
  <1> QED BY <1>1, <1>2, ChannelStart, PTL DEF ChannelSpec

\* A fence certifies the epoch of the world it leaves.
LEMMA FenceStep ==
    ASSUME NEW w, Standing(w), Linked(w), NEW c \in Commands, Accepts(w, c),
           NEW u, u = Executed(w, c), NEW n \in Nonces, u.fence[n] # w.fence[n]
    PROVE  u.fence[n] = Epoch(u)
  <1>1. w \in World /\ Can(w, c) /\ Covers(w, c)
    BY CommandCovers DEF Standing, Accepts
  <1>2. <<"fence", n>> \in Keys \ {IdempotencyRecordKey(c)} /\ EpochKey \in Keys \ {IdempotencyRecordKey(c)}
    BY KeyIs, IndexIs DEF Prefixes, IdempotencyRecordKey, EpochKey
  <1>3. /\ At(u, <<"fence", n>>) = At(After(w, c), <<"fence", n>>)
        /\ At(u, EpochKey) = At(After(w, c), EpochKey)
    BY <1>1, <1>2, ExecutedAt
  <1>4. <<"fence", n>> \in CommandWrites(w, c)
    <2>1. SUFFICES ASSUME <<"fence", n>> \notin CommandWrites(w, c) PROVE FALSE
      OBVIOUS
    <2>2. At(After(w, c), <<"fence", n>>) = At(w, <<"fence", n>>)
      BY <1>1, <1>2, <2>1 DEF Covers
    <2>3. At(u, <<"fence", n>>) = At(w, <<"fence", n>>)
      BY <1>3, <2>2
    <2> QED BY <2>3, KeyIs
  <1>5. c.type = "fence" /\ n = c.input.nonce
    <2>1. \A g : <<"fence", n>> \notin DeactivationWrites(w, g)
      BY DEF DeactivationWrites, EpochKey
    <2>2. c.type \in CommandTypes
      BY CommandShape
    <2> QED BY <1>4, <2>1, <2>2 DEF CommandWrites, CommandTypes, EpochKey
  <1>6. After(w, c) = [w EXCEPT !.fence[n] = Epoch(w)]
    BY <1>5 DEF After, AfterFence
  <1>7. After(w, c).fence[n] = Epoch(w) /\ After(w, c).channel = w.channel
    BY <1>1, <1>6 DEF World
  <1> QED BY <1>3, <1>7 DEF At, EpochKey, Epoch

\* Whoever holds a committed fence holds the epoch that was in force when it
\* was ordered, however long its transaction was in flight.
THEOREM FenceCurrent == ChannelSpec => FenceIsCurrent
  <1> DEFINE A == \A n \in Nonces :
                    ledger'.fence[n] # ledger.fence[n] => ledger'.fence[n] = Epoch(ledger')
  <1>1. ChannelInv /\ [ChannelNext]_channelVars => [A]_channelVars
    <2> SUFFICES ASSUME ChannelInv, [ChannelNext]_channelVars PROVE A
      OBVIOUS
    <2>1. Standing(ledger) /\ Linked(ledger) /\ [Next]_vars
      BY ChannelStep DEF ChannelInv
    <2>2. CASE Bootstrap
      BY <2>1, <2>2 DEF Bootstrap, Bootstrapped, Standing, World
    <2>3. CASE \E c \in Commands : Execute(c)
      BY <2>1, <2>3, FenceStep DEF Execute
    <2>4. CASE UNCHANGED vars
      BY <2>4 DEF vars
    <2> QED BY <2>1, <2>2, <2>3, <2>4, StepCases
  <1>2. ChannelInv /\ [ChannelNext]_channelVars => ChannelInv'
    BY ChannelStep
  <1>3. FenceIsCurrent <=> [][A]_channelVars
    BY DEF FenceIsCurrent
  <1> QED BY <1>1, <1>2, <1>3, ChannelStart, PTL DEF ChannelSpec
=============================================================================
