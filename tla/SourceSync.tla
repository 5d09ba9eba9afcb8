------------------------------ MODULE SourceSync ------------------------------
(***************************************************************************)
(* Synchronisation of one private source: the store and its operations     *)
(* (packages/connectors/source-store.ts, within private-store's atomic),   *)
(* and the clients that bring it to the state of a Markdown checkout       *)
(* (sync-markdown.ts) or of a list of Confluence pages (confluence.ts,     *)
(* scheduled by apps/api/confluence-sync.ts).                              *)
(*                                                                         *)
(* The content of a page is its version upstream.  A Markdown checkout is  *)
(* read in one pass and has no versions; Confluence pages are read twice.  *)
(* Limits on the number and the size of files are left out.                *)
(***************************************************************************)
EXTENDS Integers, Sequences, FiniteSets

CONSTANTS
    Paths,       \* pages or files of the source
    Syncs,       \* synchronisations that may overlap
    MaxUpstream, \* bound: edits upstream
    MaxBegun,    \* bound: synchronisations begun
    MaxLost,     \* bound: requests or responses lost
    Retries,     \* retries of a Markdown synchronisation
    None

VARIABLES
    kind,      \* "markdown" or "confluence": a source never mixes them
    upstream,  \* history of the pages: sequence of path -> version
    source,    \* the stored state: version and entries
    receipts,  \* operation -> result, for every operation performed
    drafts,    \* sequence: the operation that wrote each private draft
    sync,      \* synchronisation -> where it stands
    begun, lost

vars == <<kind, upstream, source, receipts, drafts, sync, begun, lost>>

Latest == upstream[Len(upstream)]
NoEntry == [status |-> "absent", page |-> 0, draft |-> 0]
Present(state) == {p \in Paths : state.entries[p].status = "present"}

------------------------------------------------------------------------------
(* The store.  An operation's id is a digest of its kind, source, expected *)
(* version and content, so it is identified with them here.                *)

Import(path, page, expect) == [do |-> "import", path |-> path, page |-> page, expect |-> expect]
Reconcile(present, expect) == [do |-> "reconcile", present |-> present, expect |-> expect]

\* Fault: any page goes in.
NeverOlder(page, entry) == FALSE

\* The version upstream only grows: an older page is a late reader's.
Older(page, entry) == kind = "confluence" /\ page < entry.page

IsCurrent(op) == source.version = op.expect

Accepts(op) ==
    /\ IsCurrent(op)
    /\ IF op.do = "import" THEN ~Older(op.page, source.entries[op.path])
                           ELSE op.present \subseteq Present(source)

\* importMarkdown: a page that is there already keeps its draft.
Unchanged(op) == LET e == source.entries[op.path] IN e.status # "absent" /\ e.page = op.page

NewDrafts(op) == IF op.do = "import" /\ ~Unchanged(op) THEN Append(drafts, op) ELSE drafts

Imported(op) ==
    IF Unchanged(op) /\ source.entries[op.path].status = "present" THEN source
    ELSE [version |-> source.version + 1,
          entries |-> [source.entries EXCEPT ![op.path] =
             [status |-> "present", page |-> op.page, 
              draft |-> IF Unchanged(op) THEN @.draft ELSE Len(drafts) + 1]]]

\* reconcile: what is not listed is marked removed, never forgotten.
Reconciled(op) ==
    LET gone == Present(source) \ op.present IN
    [version |-> IF gone # {} \/ source.version = 0 THEN source.version + 1 ELSE source.version,
     entries |-> [p \in Paths |-> IF p \in gone THEN [source.entries[p] EXCEPT !.status = "removed"]
                                                ELSE source.entries[p]]]

Result(op) == IF op.do = "import" THEN Imported(op) ELSE Reconciled(op)

Done(op) == op \in DOMAIN receipts

Commits(op) == ~Done(op) /\ Accepts(op)

Keeps(op) == Commits(op)

\* operation: a receipt answers a repetition; otherwise check, perform, save
\* and keep the receipt in one transaction.  None: a conflict.
Perform(op) ==
    /\ source' = IF Commits(op) THEN Result(op) ELSE source
    /\ drafts' = IF Keeps(op) THEN NewDrafts(op) ELSE drafts
    /\ receipts' = IF Commits(op) THEN [o \in DOMAIN receipts \union {op} |-> IF o = op THEN Result(op) ELSE receipts[o]]
                   ELSE receipts

Outcome(op) == IF Done(op) THEN receipts[op] ELSE IF Accepts(op) THEN Result(op) ELSE None

------------------------------------------------------------------------------
(* The clients. *)

Idle == [phase |-> "idle", wanted |-> {}, files |-> <<>>, left |-> {}, asked |-> None,
         state |-> None, since |-> 0, seen |-> 0, tries |-> 0]
Failed == [Idle EXCEPT !.phase = "failed"]
At(s, phase) == sync[s].phase = phase
Goes(s, next) == sync' = [sync EXCEPT ![s] = next]

\* The pages configured, or the files of the manifest that exist.
Begin(s) ==
    /\ At(s, "idle") /\ begun < MaxBegun /\ begun' = begun + 1
    /\ \E wanted \in SUBSET Paths :
         Goes(s, [Idle EXCEPT !.phase = "read", !.wanted = wanted, !.left = wanted, !.since = Len(upstream), !.files = [p \in wanted |-> 0]])
    /\ UNCHANGED <<kind, upstream, source, receipts, drafts, lost>>

Read(s) ==
    /\ At(s, "read")
    /\ IF sync[s].left = {}
       THEN Goes(s, [sync[s] EXCEPT !.phase = IF kind = "confluence" THEN "verify" ELSE "load",
                                    !.left = sync[s].wanted])
       ELSE \E p \in sync[s].left : Goes(s, [sync[s] EXCEPT !.files[p] = Latest[p], !.left = @ \ {p}])
    /\ UNCHANGED <<kind, upstream, source, receipts, drafts, begun, lost>>

\* A page that cannot be read, a file behind a link or changed while it was
\* read: no synchronisation goes on with a part of the source.
ReadFails(s) ==
    /\ lost < MaxLost /\ lost' = lost + 1
    /\ At(s, "read") \/ At(s, "verify")
    /\ Goes(s, Failed)
    /\ UNCHANGED <<kind, upstream, source, receipts, drafts, begun>>

SameContent(s, p) == Latest[p] = sync[s].files[p]

\* Every Confluence page again, after all of them were read.
Verify(s) ==
    /\ At(s, "verify")
    /\ IF sync[s].left = {} THEN Goes(s, [sync[s] EXCEPT !.phase = "load"])
       ELSE \E p \in sync[s].left :
              Goes(s, IF SameContent(s, p) THEN [sync[s] EXCEPT !.left = @ \ {p}] ELSE Failed)
    /\ UNCHANGED <<kind, upstream, source, receipts, drafts, begun, lost>>

\* GET of the state; pages older than the stored ones stop a Confluence sync.
Load(s) ==
    /\ At(s, "load")
    /\ Goes(s, IF \E p \in sync[s].wanted : Older(sync[s].files[p], source.entries[p]) THEN Failed
               ELSE [sync[s] EXCEPT !.phase = "drop", !.state = source, !.seen = source.version])
    /\ UNCHANGED <<kind, upstream, source, receipts, drafts, begun, lost>>

\* The entries that differ from the snapshot, in any order.
ToImport(s) == {p \in sync[s].wanted : LET e == sync[s].state.entries[p] IN
                                        e.status # "present" \/ e.page # sync[s].files[p]}

\* What a synchronisation asks next: drop what is stale, import what differs,
\* and in the end reconcile with the whole snapshot.
Request(s) ==
    LET known == sync[s].state IN
    IF At(s, "drop") /\ ~(Present(known) \subseteq sync[s].wanted)
    THEN {Reconcile(Present(known) \intersect sync[s].wanted, known.version)}
    ELSE IF ToImport(s) # {} THEN {Import(p, sync[s].files[p], known.version) : p \in ToImport(s)}
    ELSE {Reconcile(sync[s].wanted, known.version)}

IsLast(s) == ToImport(s) = {} /\ (At(s, "drop") => Present(sync[s].state) \subseteq sync[s].wanted)

Ask(s) ==
    /\ At(s, "drop") \/ At(s, "import")
    /\ \E op \in Request(s) :
         Goes(s, [sync[s] EXCEPT !.phase = IF IsLast(s) THEN "last" ELSE "asked", !.asked = op])
    /\ UNCHANGED <<kind, upstream, source, receipts, drafts, begun, lost>>

Repeats(s) == IF kind = "markdown" /\ sync[s].tries < Retries THEN [sync[s] EXCEPT !.tries = @ + 1] ELSE Failed

\* The store performs the request; the answer arrives, or is lost and the same
\* request is repeated, or the synchronisation gives up.
Answered(s) ==
    /\ At(s, "asked") \/ At(s, "last")
    /\ LET op == sync[s].asked IN
       /\ Perform(op)
       /\ \/ /\ Goes(s, IF Outcome(op) = None THEN Failed
                        ELSE [sync[s] EXCEPT !.phase = IF At(s, "last") THEN "done" ELSE "import",
                                             !.state = Outcome(op), !.asked = None])
             /\ UNCHANGED lost
          \/ lost < MaxLost /\ lost' = lost + 1 /\ Goes(s, Repeats(s))
    /\ UNCHANGED <<kind, upstream, begun>>

\* The request is lost, refused (permission, frozen serving, expired lease), or
\* its process stops.
NotAnswered(s) ==
    /\ lost < MaxLost /\ lost' = lost + 1
    /\ sync[s].phase \in {"load", "drop", "import", "asked", "last"}
    /\ \/ Goes(s, Failed)
       \/ (At(s, "asked") \/ At(s, "last")) /\ Goes(s, Repeats(s))
    /\ UNCHANGED <<kind, upstream, source, receipts, drafts, begun>>

Again(s) ==
    /\ At(s, "done") \/ At(s, "failed")
    /\ begun < MaxBegun
    /\ Goes(s, Idle)
    /\ UNCHANGED <<kind, upstream, source, receipts, drafts, begun, lost>>

Edit(p) ==
    /\ Len(upstream) <= MaxUpstream
    /\ upstream' = Append(upstream, [Latest EXCEPT ![p] = @ + 1])
    /\ UNCHANGED <<kind, source, receipts, drafts, sync, begun, lost>>

------------------------------------------------------------------------------
Init ==
    /\ kind \in {"markdown", "confluence"}
    /\ upstream = <<[p \in Paths |-> 1]>>
    /\ source = [version |-> 0, entries |-> [p \in Paths |-> NoEntry]]
    /\ receipts = <<>> /\ drafts = <<>>
    /\ sync = [s \in Syncs |-> Idle]
    /\ begun = 0 /\ lost = 0

Next ==
    \/ \E s \in Syncs : \/ Begin(s) \/ Read(s) \/ ReadFails(s) \/ Verify(s) \/ Load(s) \/ Ask(s)
                        \/ Answered(s) \/ NotAnswered(s) \/ Again(s)
    \/ \E p \in Paths : Edit(p)

Spec == Init /\ [][Next]_vars

------------------------------------------------------------------------------
(* Properties. *)

\* Every entry, present or removed, names the draft that holds its content; no
\* operation, however often repeated, wrote two drafts, and none that failed one.
OneDraftPerOperation ==
    /\ \A p \in Paths : LET e == source.entries[p] IN
         e.status # "absent" => drafts[e.draft].path = p /\ drafts[e.draft].page = e.page
    /\ \A i, j \in DOMAIN drafts : drafts[i] \in DOMAIN receipts /\ (drafts[i] = drafts[j] => i = j)

\* A synchronisation that succeeds brought the source, at a version not older
\* than the one it found, to exactly its snapshot; and a Confluence snapshot is
\* what all the pages were at one moment since it began, however they were
\* edited meanwhile and whoever else synchronised.
SuccessIsTheSnapshot ==
    \A s \in Syncs : At(s, "done") =>
        LET state == sync[s].state IN
        /\ state.version >= sync[s].seen
        /\ Present(state) = sync[s].wanted
        /\ \A p \in sync[s].wanted : state.entries[p].page = sync[s].files[p]
        /\ kind = "confluence" => \E i \in sync[s].since .. Len(upstream) :
             \A p \in sync[s].wanted : upstream[i][p] = sync[s].files[p]

\* What is stored of a Confluence page never goes back to an older version,
\* even by a synchronisation that read before another one wrote.
PagesNeverRegress ==
    [][ kind = "confluence" => \A p \in Paths : source'.entries[p].page >= source.entries[p].page ]_vars

\* A source holds what its synchronisations read, once and never older
\* (importMarkdown, reconcile, syncConfluenceSource).
SourceFaithful == [](OneDraftPerOperation /\ SuccessIsTheSnapshot) /\ PagesNeverRegress
==============================================================================
