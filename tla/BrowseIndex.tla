----------------------------- MODULE BrowseIndex -----------------------------
(***************************************************************************)
(* VerifiedBrowseIndex of packages/storage/browse-index.ts: which          *)
(* revisions (proposals and agreements are kept the same way) were         *)
(* published at or before a checkpoint.  Writers prepare a batch and       *)
(* commit it later; prepared batches may overlap and commit in any order,  *)
(* and a late batch may show that a key existed earlier than the index     *)
(* thought.  Readers page through selections that are cached per query and *)
(* checkpoint, in a pool for ordinary selections and one for large ones.   *)
(*                                                                         *)
(* A reference is a key; its digest orders references of one checkpoint.   *)
(* A query selects the keys of one slot or document, of all, or the latest *)
(* of each slot, at a checkpoint.                                          *)
(***************************************************************************)
EXTENDS Integers, Sequences, FiniteSets, SequencesExt

CONSTANTS
    Keys,         \* revision keys, as numbers: their digests compare this way
    SlotKeys,     \* slots
    SlotOfKey,    \* the slot a key's revision belongs to
    MaxAt,        \* checkpoints are 1..MaxAt
    Batches,      \* batches writers may prepare: [at, keys]
    MaxPrepared,  \* bound: batches prepared and not committed
    MaxEntries,   \* selections per pool (MAX_REVISION_CACHE_ENTRIES)
    MaxRefs,      \* references of all ordinary selections together; one selection
                  \* with more goes to the pool of large ones
    MaxLarge      \* references of all large selections together

VARIABLES
    published,  \* key -> the checkpoint it is indexed under, 0 if it is not
    list,       \* every indexed key, newest first (state.revisions)
    prepared,   \* prepare() results not committed: [fresh, demote]
    committed,  \* batches whose commit took effect
    cache       \* selections, least recently used first: [query, refs]

vars == <<published, list, prepared, committed, cache>>

Checkpoints == 1..MaxAt

\* mode and selector, and the checkpoint the caller pinned.
Queries ==
    [mode : {"all", "latest-per-slot"} \union SlotKeys, at : Checkpoints]

------------------------------------------------------------------------------
(* Sequences, by the place of each member: the provers know neither        *)
(* SelectSeq nor SetToSortSeq, which are defined by recursion.             *)

\* The members of S in the order R: the ith comes after i - 1 others.
Listed(S, R) ==
    [i \in 1..Cardinality(S) |->
        CHOOSE x \in S : Cardinality({y \in S : <<y, x>> \in R}) = i - 1]

\* What a sequence has of T, in its order.
Only(seq, T) ==
    LET places == {i \in DOMAIN seq : seq[i] \in T}
        order == Listed(places, {p \in places \X places : p[1] < p[2]})
    IN  [n \in 1..Cardinality(places) |-> seq[order[n]]]

Without(seq, S) == Only(seq, ToSet(seq) \ S)

------------------------------------------------------------------------------
(* Order: newer checkpoints first, then the digest (compareRevisions). *)

Before(pub, k, m) == pub[k] > pub[m] \/ (pub[k] = pub[m] /\ k < m)
Sort(pub, S) == Listed(S, {p \in S \X S : Before(pub, p[1], p[2])})

\* prependLatest: the new references go to the front when the oldest of them
\* is newer than the newest known one, and are sorted in otherwise.
PrependLatest(pub, added, existing) ==
    IF added = <<>> THEN existing
    ELSE IF existing = <<>> \/ Before(pub, Last(added), Head(existing)) THEN added \o existing
    ELSE Sort(pub, ToSet(added) \union ToSet(existing))

------------------------------------------------------------------------------
(* Writing. *)

\* What prepare collects without touching the index: keys it does not know,
\* and keys it knows under a later checkpoint than the batch.
Prepare(b) ==
    /\ Cardinality(prepared) < MaxPrepared
    /\ prepared' = prepared \union
         {[batch |-> b,
           fresh |-> {k \in b.keys : published[k] = 0},
           demote |-> {k \in b.keys : published[k] # 0 /\ b.at < published[k]}]}
    /\ UNCHANGED <<published, list, committed, cache>>

\* The keys a commit moves to its own checkpoint: prepared as new or as
\* earlier, and still so now that other commits may have come first.
Touched(p) ==
    {k \in p.fresh \union p.demote :
        \/ published[k] = 0 /\ k \in p.fresh
        \/ published[k] # 0 /\ p.batch.at < published[k]}

\* Cached selections at or after the checkpoint that gained a reference.
Dropped(touched, at) == {i \in DOMAIN cache : touched # {} /\ at <= cache[i].query.at}

Kept(S) == Only(cache, {cache[i] : i \in DOMAIN cache \ S})

Commit(p) ==
    LET touched == Touched(p)
        pub == [k \in Keys |-> IF k \in touched THEN p.batch.at ELSE published[k]]
    IN
    /\ published' = pub
    /\ list' = PrependLatest(pub, Sort(pub, touched), Without(list, touched))
    /\ cache' = Kept(Dropped(touched, p.batch.at))
    /\ prepared' = prepared \ {p}
    /\ committed' = committed \union {p.batch}

------------------------------------------------------------------------------
(* Reading. *)

InSlot(mode) ==
    IF mode \in SlotKeys THEN Only(list, {k \in Keys : SlotOfKey[k] = mode}) ELSE list

\* What the index itself answers: visible keys in list order, of each slot
\* only the first when the query asks for the latest.
Select(q) ==
    LET visible == Only(InSlot(q.mode), {k \in Keys : published[k] <= q.at})
        first(i) == \A j \in 1..(i - 1) : SlotOfKey[visible[j]] # SlotOfKey[visible[i]]
        firsts == {visible[i] : i \in {i \in DOMAIN visible : first(i)}}
    IN  IF q.mode = "latest-per-slot" THEN Only(visible, firsts)
        ELSE visible

IsLarge(e) == Len(e.refs) > MaxRefs
Pool(entries, large) == Only(entries, {e \in ToSet(entries) : IsLarge(e) = large})

\* The references that selections, all different, hold together.
Refs(S) == UNION {{e} \X DOMAIN e.refs : e \in S}
Weight(entries) == Cardinality(Refs(ToSet(entries)))

Fits(pool, e) ==
    /\ Len(pool) < MaxEntries
    /\ Weight(pool) + Len(e.refs) <= (IF IsLarge(e) THEN MaxLarge ELSE MaxRefs)

\* Fault: the least recently used selection goes, whichever pool it is in.
EvictAny(entries, e) ==
    LET n == CHOOSE n \in 0..Len(entries) :
               /\ Fits(Pool(SubSeq(entries, n + 1, Len(entries)), IsLarge(e)), e)
               /\ \A m \in 0..(n - 1) : ~Fits(Pool(SubSeq(entries, m + 1, Len(entries)), IsLarge(e)), e)
    IN  SubSeq(entries, n + 1, Len(entries))

\* cacheRevisions makes room in the pool of the new selection alone, oldest
\* use first.
Evict(entries, e) ==
    LET pool == Pool(entries, IsLarge(e))
        n == CHOOSE n \in 0..Len(pool) :
               /\ Fits(SubSeq(pool, n + 1, Len(pool)), e)
               /\ \A m \in 0..(n - 1) : ~Fits(SubSeq(pool, m + 1, Len(pool)), e)
    IN  Without(entries, {pool[i] : i \in 1..n})

\* A selection over its pool's whole budget is answered and not kept.
Keeps(e) == IsLarge(e) => Len(e.refs) <= MaxLarge

Cached(q) == {i \in DOMAIN cache : cache[i].query = q}

Query(q) ==
    /\ IF Cached(q) # {}
       THEN LET e == cache[CHOOSE i \in Cached(q) : TRUE]
            IN  cache' = Append(Without(cache, {e}), e)
       ELSE LET e == [query |-> q, refs |-> Select(q)]
            IN  cache' = IF Keeps(e) THEN Append(Evict(cache, e), e) ELSE cache
    /\ UNCHANGED <<published, list, prepared, committed>>

------------------------------------------------------------------------------
Init ==
    /\ published = [k \in Keys |-> 0] /\ list = <<>>
    /\ prepared = {} /\ committed = {} /\ cache = <<>>

Next ==
    \/ \E b \in Batches : Prepare(b)
    \/ \E p \in prepared : Commit(p)
    \/ \E q \in Queries : Query(q)

Spec == Init /\ [][Next]_vars

------------------------------------------------------------------------------
(* Properties. *)

\* Whatever order batches were prepared and committed in, every key stands
\* under the earliest checkpoint that wrote it, so a reader of the past sees
\* it exactly from there on (prepare, commit).
StandsEarliest ==
    \A k \in Keys :
        LET writers == {b.at : b \in {b \in committed : k \in b.keys}} IN
        published[k] = IF writers = {} THEN 0
                       ELSE CHOOSE n \in writers : \A m \in writers : n <= m

\* And the list that readers page through is in order (prependLatest).
EarliestWins ==
    /\ StandsEarliest
    /\ list = Sort(published, {k \in Keys : published[k] # 0})

\* A page taken from the cache is the page the index would answer now, and
\* the two pools keep to their budgets.
CacheAnswersTrue ==
    /\ \A i \in DOMAIN cache : cache[i].refs = Select(cache[i].query)
    /\ \A large \in BOOLEAN :
         /\ Len(Pool(cache, large)) <= MaxEntries
         /\ Weight(Pool(cache, large)) <= (IF large THEN MaxLarge ELSE MaxRefs)

\* A selection too large for the ordinary pool never costs a reader of
\* ordinary selections its pages, nor the other way round: a query evicts
\* from its own pool only.
PoolsIndependent ==
    [][ \A large \in BOOLEAN :
          LET gone == ToSet(Pool(cache, large)) \ ToSet(cache') IN
          (published' = published /\ gone # {}) =>
             \E e \in ToSet(cache') \ ToSet(cache) : IsLarge(e) = large ]_vars

\* A page is the page of its checkpoint, from the index or from the cache, and the
\* two pools of the cache do not cost each other anything (select, publish, evict).
PagesTrue == [](EarliestWins /\ CacheAnswersTrue) /\ PoolsIndependent
==============================================================================
