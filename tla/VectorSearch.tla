----------------------------- MODULE VectorSearch -----------------------------
(***************************************************************************)
(* Searching by similarity: vectorSearch and rebuildVectorIndex of         *)
(* apps/api/service.ts, the guarded provider path of                       *)
(* packages/embeddings/runtime.ts and the external index of                *)
(* packages/storage/pgvector-index.ts.                                     *)
(*                                                                         *)
(* A page embeds the query, takes candidates from an index that may be     *)
(* older or newer than the checkpoint the listing is pinned to, and keeps  *)
(* what the ledger confirms.  A rebuild embeds every revision and replaces *)
(* the rows in one transaction.  Each is one run of the embedding runtime: *)
(* it asks the deployment's policy around every provider call, and it may  *)
(* be aborted by its caller, by its deadline or by close(), at which it    *)
(* answers at once while what it had awaited goes on.                      *)
(*                                                                         *)
(* Revision n is the n-th published one and ranks above the earlier ones;  *)
(* the first Pinned revisions belong to a document the query requires.     *)
(* Scores, scopes and the legacy embedding functions are left out.         *)
(***************************************************************************)
EXTENDS Integers, Sequences, FiniteSets, SequencesExt

CONSTANTS
    Readers,        \* listings, each read page by page
    Rebuilds,       \* runs of the index's rebuild
    MaxRevisions,   \* bound: revisions published
    Pinned,         \* revisions of the required document
    Candidates,     \* candidates the index is asked for (VECTOR_CANDIDATE_LIMIT)
    MaxConcurrent,  \* runs of the embedding runtime at once
    MaxChanges,     \* bound: changes of the policy, aborts, failures
    None

VARIABLES
    head,      \* revisions published
    external,  \* an external index is configured; otherwise the ledger is scanned
    rows,      \* revisions the external index holds
    allowed,   \* what the egress policy answers now
    stopped,   \* close() was called
    reader,    \* listing -> its page in progress, and what it was given
    rebuild,   \* rebuild -> step, checkpoint and whether its run was not aborted
    inFlight,  \* the rebuild callers join, or None
    changes

vars == <<head, external, rows, allowed, stopped, reader, rebuild, inFlight, changes>>
serving == <<head, external, allowed, stopped>>

Change == changes < MaxChanges /\ changes' = changes + 1
Still == UNCHANGED changes

\* Runs of the embedding runtime that have not settled.
Active ==
    {s \in Readers : reader[s].at \notin {"idle", "done", "refused"}} \union
    {r \in Rebuilds : rebuild[r].live}

------------------------------------------------------------------------------
(* The world. *)

Publish ==
    /\ head < MaxRevisions /\ head' = head + 1
    /\ Still /\ UNCHANGED <<external, rows, allowed, stopped, reader, rebuild, inFlight>>

ChangePolicy ==
    /\ Change /\ allowed' = ~allowed
    /\ UNCHANGED <<head, external, rows, stopped, reader, rebuild, inFlight>>

------------------------------------------------------------------------------
(* Listings. *)

\* Those that rank above revision n; the ith has i - 1 above it.
Above(S, n) == {m \in S : m > n}
Descending(S) ==
    [i \in 1..Cardinality(S) |-> CHOOSE n \in S : Cardinality(Above(S, n)) = i - 1]

\* verifyAndRankCandidates: only what the ledger has at the checkpoint.
Verified(S, at) == S \intersect 1..at

\* The required revisions come first, whatever the index says.
Ranked(at, proposed) ==
    LET required == Verified(1..Pinned, at) IN
    Descending(required) \o Descending(Verified(proposed, at) \ required)

Proposed(at) ==
    IF external
    THEN {n \in rows : Cardinality(Above(rows, n)) < Candidates}
    ELSE 1..at

\* A page is asked for: the first one pins the checkpoint, the others bring
\* checkpoint, offset and the list's hash in their cursor.
Ask(s) ==
    /\ reader[s].at = "idle" /\ ~stopped /\ Cardinality(Active) < MaxConcurrent
    /\ reader' = [reader EXCEPT ![s].at = "asked", ![s].granted = allowed,
                    ![s].pin = IF @ = None THEN head ELSE @]
    /\ Still /\ UNCHANGED <<serving, rows, rebuild, inFlight>>

\* A policy that answers no, or an abort: the page fails and may be asked again.
FailPage(s) == reader' = [reader EXCEPT ![s].at = "idle"]

\* Fault: the policy is asked once, before the provider is called.
AskedBefore(s) == reader[s].granted

\* gate: the policy's answer now.
Gate(s) == allowed

\* Before the provider call, again at the moment of sending, and on the result.
Step(s, from, to) ==
    /\ reader[s].at = from
    /\ IF Gate(s) THEN reader' = [reader EXCEPT ![s].at = to] ELSE FailPage(s)
    /\ Still /\ UNCHANGED <<serving, rows, rebuild, inFlight>>

Admit(s) == Step(s, "asked", "admitted")
Send(s) == Step(s, "admitted", "sent")
Receive(s) == Step(s, "sent", "embedded")

\* The cursor's hash: the list of the first page.
SameList(s, list) == reader[s].list \in {None, list}

\* One item a page; the listing ends when nothing follows.
Answer(s) ==
    /\ reader[s].at = "embedded"
    /\ LET list == Ranked(reader[s].pin, Proposed(reader[s].pin))
           given == Len(reader[s].got) IN
       IF ~SameList(s, list) THEN reader' = [reader EXCEPT ![s].at = "refused"]
       ELSE reader' = [reader EXCEPT ![s].list = list,
              ![s].got = IF given < Len(list) THEN Append(@, list[given + 1]) ELSE @,
              ![s].at = IF given + 1 < Len(list) THEN "idle" ELSE "done"]
    /\ Still /\ UNCHANGED <<serving, rows, rebuild, inFlight>>

AbortPage(s) ==
    /\ s \in Active /\ Change /\ FailPage(s)
    /\ UNCHANGED <<serving, rows, rebuild, inFlight>>

------------------------------------------------------------------------------
(* Rebuilding. *)

\* Callers join the run in flight; without one a run starts at the head.
Rebuild(r) ==
    /\ external /\ inFlight = None /\ rebuild[r].at = "new"
    /\ ~stopped /\ Cardinality(Active) < MaxConcurrent
    /\ inFlight' = r
    /\ rebuild' = [rebuild EXCEPT ![r] = [at |-> "scanning", pin |-> head, live |-> TRUE]]
    /\ Still /\ UNCHANGED <<serving, rows, reader>>

Settle(r, at) ==
    /\ rebuild' = [rebuild EXCEPT ![r].at = at, ![r].live = FALSE]
    /\ inFlight' = IF inFlight = r THEN None ELSE inFlight

\* Every revision embedded under the policy, and checked once more.
Scanned(r) ==
    /\ rebuild[r].at = "scanning"
    /\ IF allowed /\ rebuild[r].live
       THEN rebuild' = [rebuild EXCEPT ![r].at = "replacing"] /\ UNCHANGED inFlight
       ELSE Settle(r, "failed")
    /\ Still /\ UNCHANGED <<serving, rows, reader>>

\* replaceAll: delete and insert are one transaction.
Replaced(r) == 1..rebuild[r].pin

\* The transaction commits or is rolled back, whether anybody waits for it or not.
Replace(r) ==
    /\ rebuild[r].at = "replacing"
    /\ \/ /\ rows' = Replaced(r)
          /\ IF rebuild[r].live
             THEN rebuild' = [rebuild EXCEPT ![r].at = "replaced"] /\ UNCHANGED inFlight
             ELSE Settle(r, "left")
          /\ Still
       \/ Change /\ Settle(r, "failed") /\ UNCHANGED rows
    /\ UNCHANGED <<serving, reader>>

AnswerRebuild(r) ==
    /\ rebuild[r].at = "replaced" /\ Settle(r, "done")
    /\ Still /\ UNCHANGED <<serving, rows, reader>>

\* The caller's signal or the deadline: the run answers, its work is left behind
\* at what it awaits.
AbortRebuild(r) ==
    /\ rebuild[r].live /\ Change
    /\ Settle(r, IF rebuild[r].at = "replacing" THEN "replacing" ELSE "failed")
    /\ UNCHANGED <<serving, rows, reader>>

\* closeEmbeddings: every run is aborted.
Close ==
    /\ ~stopped /\ stopped' = TRUE
    /\ reader' = [s \in Readers |-> IF s \in Active THEN [reader[s] EXCEPT !.at = "idle"] ELSE reader[s]]
    /\ rebuild' = [r \in Rebuilds |->
         IF rebuild[r].live
         THEN [rebuild[r] EXCEPT !.live = FALSE, !.at = IF @ = "replacing" THEN @ ELSE "failed"]
         ELSE rebuild[r]]
    /\ inFlight' = None
    /\ Still /\ UNCHANGED <<head, external, rows, allowed>>

Init ==
    /\ head = 0 /\ external \in BOOLEAN /\ rows = {}
    /\ allowed = TRUE /\ stopped = FALSE
    /\ reader = [s \in Readers |->
         [at |-> "idle", granted |-> FALSE, pin |-> None, list |-> None, got |-> <<>>]]
    /\ rebuild = [r \in Rebuilds |-> [at |-> "new", pin |-> 0, live |-> FALSE]]
    /\ inFlight = None /\ changes = 0

Next ==
    \/ Publish \/ ChangePolicy \/ Close
    \/ \E s \in Readers :
         Ask(s) \/ Admit(s) \/ Send(s) \/ Receive(s) \/ Answer(s) \/ AbortPage(s)
    \/ \E r \in Rebuilds :
         Rebuild(r) \/ Scanned(r) \/ Replace(r) \/ AnswerRebuild(r) \/ AbortRebuild(r)

Spec == Init /\ [][Next]_vars

------------------------------------------------------------------------------
(* Properties. *)

\* The pages of a listing are one list: in order, nothing twice, nothing left out,
\* only what the ledger had at the pinned checkpoint and all that the query
\* requires, although the index is replaced between pages and revisions are
\* published (the cursor's candidateSetHash); without an external index the list is
\* complete.
PagesOfOneList ==
    \A s \in Readers : LET r == reader[s] IN
        r.got # <<>> =>
          /\ IsPrefix(r.got, r.list) /\ IsInjective(r.got)
          /\ ToSet(r.list) \subseteq 1..r.pin
          /\ Verified(1..Pinned, r.pin) \subseteq ToSet(r.list)
          /\ r.at = "done" => r.got = r.list
          /\ ~external => ToSet(r.list) = 1..r.pin

\* Nothing is sent while the policy says no or after close(), although both may
\* happen between any two of the awaits before the sending (EmbeddingRuntime.run).
SentUnderPolicy ==
    [][\A s \in Readers : reader[s].at # "sent" /\ reader'[s].at = "sent" =>
         allowed /\ ~stopped]_vars

\* "Concurrent calls join the running execution: this prevents a duplicate scan and
\* replacement" (the comment at rebuildInFlight): never two replacements at once.
OneRebuild ==
    \A a, b \in Rebuilds :
        rebuild[a].at \in {"scanning", "replacing", "replaced"}
        /\ rebuild[b].at \in {"scanning", "replacing", "replaced"} => a = b

\* A listing is one list, and nothing it needs is sent against the policy
\* (vectorSearch, EmbeddingRuntime.run).
SearchHonest == []PagesOfOneList /\ SentUnderPolicy
==============================================================================
