# A verification project for knowledger

knowledger keeps knowledge documents under an explicit agreement: revisions are
published, proposed for an acceptance slot, decided on by the representatives a policy
names, activated, and served to readers only while the agreement and everything it
requires is in force. The ledger is either a local journal or a Hyperledger Fabric
channel. Around it there is an application service, a durable command outbox, a review
workflow that crosses organizations, connectors, indexes and notifications.

This directory holds TLA+ models of the parts of the program where order, concurrency,
failure or long histories decide whether it is correct, the TLC configurations that check
them on small instances, and TLAPS proofs for arbitrary instances.

    tlc -workers 2 -config MCAgreement.cfg MCAgreement     # one run
    tlapm Agreement_proofs.tla                             # the proofs of one module

`PROJECT.json` lists the runs, what every definition translates (file and lines), the
hazards of the code and the properties that watch them, and for each property a plausible
coding mistake ("Fault: ..." operators beside the real ones) that makes TLC report it.

## 1. The system

| Component | State it keeps | Operations | Talks to | What is hard | What makes it correct |
|---|---|---|---|---|---|
| Agreement domain engine (`packages/domain/index.ts`) | the world state under key prefixes: revisions, proposals, decisions, latest decisions, agreements, slot pointers, eligibility epoch, idempotency records, fences | bootstrap; publish, propose, decide, activate, withdraw, suspend, fence; resolve | called by the local ledger and by the chaincode through a get/put context | several records must change together; dependencies between slots; long histories | pointer and status agree, agreements stand on current approvals, epoch covers every change readers can see, one answer per command id |
| Fabric chaincode (`packages/fabric/chaincode.ts`) | none of its own; read and write sets | Invoke: Execute, GetCommand, Init | domain engine, the peer's stub | endorsed on an old state, ordered later, repeated, invalidated | serializable: VALID transactions do what the command would have done alone |
| Gateway transport and outbox (`packages/fabric/gateway.ts`, `sqlite-outbox.ts`) | attempts with status and commit bytes (SQLite), commit handles (memory) | sendCommand: newProposal, endorse, submit, status; reconcile; recoverPending; observeCommand | Fabric gateway, outbox, remote signer | timeouts, answers that are lost, crashes between send and record | rows say what the channel says; a denial is final |
| Application ledger (`application-ledger.ts`) | command queue, refresh queue and generations, pending counter | execute, observeCommand, operations, refresh, close | transport, projection | shared refreshes, refreshes that hang, queue reset | "committed" only from the projection; nobody stuck |
| API service (`apps/api/service.ts`) | drafts, previews, command rows with hints (private store), caches | command, retryCommand, getCommand, listCommands; drafts; reviews; resolve, run; search | ledger, review store, vector index, connectors | hints read before waiting; policy checked before and after awaits; rebuild joined by callers | status precedence; served content is what the ledger serves |
| Review delivery (`review-delivery-store.ts`, `delivery-worker.ts`, `apps/api/review-delivery.ts`) | outbox with lease and attempts, inbox with receipts | enqueue, claim, settle, retry, receive | another organization over HTTP | lost and late packets, expired leases, several processes, changed destinations | bounded attempts, one stored packet, confirmed destination only, every job ends |
| Local ledger (`packages/storage/local-ledger.ts`) | journal, projected state, indexes | execute, read, verify, rebuild | domain engine | crash between journal and state | state is the replay of the journal |
| Block projector and projection (`block-projector.ts`, `sqlite-projection.ts`) | last block, hash chain, state rows, command index | apply block, verify, read | peers' block stream | gaps, forks, partial application | state is the fold of the VALID transactions of a prefix |
| Slack notices (`slack-notice-store.ts`, `packages/review/slack.ts`) | notice rows, leases, confirmed conversations | enqueue, claim, finish, retry after confirmation | Slack API | a result that is not known must not be repeated without a person | no silent repeat |
| Reminder worker (`reminder-worker.ts`) | flight, abort, timer | tick, start, stop | review store, notifier | cancelled work that goes on | one flight |
| Remote signer (`remote-signer.ts`, `infra/fabric/signing-service.ts`) | shared attestation slot, queue | sign under a decision context | signing service | the slot is shared across awaits | the signature carries its own decision |
| Confluence connector (`confluence-oauth.ts`, `confluence.ts`, `confluence-sync.ts`) | encrypted grant, sync cursor | authorize, refresh, revoke, sync | Atlassian | a refresh token works once | a grant is never lost by two refreshes |
| Markdown and git connectors (`sync-markdown.ts`, `source-store.ts`, `git-repository.ts`) | proposals, backups, heads | import, propose change, approve, apply | file system, git | the source moves meanwhile | only an approved change to the expected base is applied |
| Private reviews (`review-store.ts`) | comments, read states, reminders | append, mark, list | service | idempotent operations | append only |
| Browse and vector indexes (`browse-index.ts`, `vector-index.ts`, `pgvector-index.ts`) | entries with epoch | refresh, search, purge | service, embeddings | an index that lags | candidates are filtered again |
| Knowledge client and guarded generation (`packages/client`) | fence nonce | resolve, fence, generate, check | API | eligibility changes during generation | output only under an unchanged epoch |
| Runtime snapshots (`runtime-snapshot.ts`) | lock, staging directories | export, verify, restore, recover | file system | interrupted restore | destination is whole or absent |
| Certificate renewal (`infra/fabric/certificates.ts`) | active certificates, plan directories, reports | prepare, preflight, apply, roll back, resume | file system | power loss between two renames | all organizations renewed, or none |
| HTTP server and shutdown (`server.ts`, `graceful-close.ts`, `main.ts`) | sessions, connections | serve, close | everything | three racing deadlines | shutdown ends, once |
| Authentication and configuration (`packages/auth`, `packages/config`) | sessions, keys | sign in, load, validate | identity provider | key rotation | the roles commands rely on |
| Embeddings (`packages/embeddings`) | in-flight counter | embed | provider | egress without permission, concurrency limit | limit kept, nothing leaves unauthorized |
| Web client (`apps/web`) | page state, pending requests | render, poll | API | stale answers | shows the newest |
| Measurement, tools, examples | none | reports, demos, drills | all | - | - |

What the components share: the ledger's world state is written only by the domain engine;
the service reads it through a projection and never writes it; the outbox and the tracking
hint are two durable views of the same command; the review stores and the ledger never share
a transaction.

## 2. Modules and how they follow the code

    AgreementDomain      the command engine as operators on a world     AgreementDomain_proofs
      StateValidation    the second opinion on a write set
        Agreement        one command at a time                          Agreement_proofs        <- MCAgreement, MCDiamond
          FabricChannel  endorse / order / validate                     FabricChannel_proofs    <- MCFabric
        LocalLedger      journal, tables, index
          Stores         with Projection                                Stores_proofs           <- MCStores
    Projection           blocks in a database and in memory
    CommandDelivery      one command to the channel and back            CommandDelivery_proofs  <- MCCommandDelivery, MCProgress
    ReviewDelivery       a comment to another organization                                      <- MCProgress
    ReviewNotices        schedules, reminders, Slack
      Outboxes           with both                                      Outboxes_proofs         <- MCOutboxes
    ApplicationLedger    queues, shared refreshes, close                                        <- MCApplicationLedger
    BrowseIndex          batches and cached selections
    VectorSearch         listings and rebuilds                                                  <- run rebuild_overlap
    IndexConnection      the shared connection of the index
    KnowledgeUse         resolve, generate, revalidate
      Service            with these five                                Service_proofs          <- MCService
    Signing              slot, signing service, audit log
    CertificateRenewal   plans and renames
    RuntimeData          bindings, backups, restores
    SourceSync           a source and its synchronizations
    OAuthGrant           a grant whose refresh token rotates
      Operations         with these five                                Operations_proofs       <- MCOperations
    Shutdown             the end of an application                                              <- MCProgress

Agreement and LocalLedger both stand on StateValidation; FabricChannel extends Agreement and LocalLedger has
an instance of it, and both implement it. A module and its proofs know no instance: the MC module beside them
gives the constants values for TLC.

**The abstract specification.** Agreement is the promise of the whole system, and two modules are shown to
keep it, one for each kind of ledger a deployment may have. FabricChannel extends it, and `Serializable ==
Spec` says that the committed world of the channel, the same variable `ledger`, behaves as Agreement allows:
endorsement on old states, reordering, repetition and invalidation only stutter or make one step of the serial
ledger. `LocalLedger!ImplementsAgreement == Channel!Spec` maps the *journal*, not the tables, to `ledger`:
whatever crashes, fails or is damaged, its rows are what a sequence of atomic commands produces. A third link
is `Agreement!EveryWriteApplies`: no write set of the engine is one that the projections' validation
(StateValidation) would refuse, which would halt them.

**Composition.** Where components call each other inside one behaviour they are in one module:
service, adapter, gateway, outbox and channel in CommandDelivery; service, client and projection
in KnowledgeUse; store, worker and adapter in ReviewNotices; embedding runtime, index and
service in VectorSearch; connector, store and scheduler in SourceSync; signer, serializer and
signing service in Signing. Stores, Outboxes, Service and Operations each hold several modules whose
states are disjoint in the code as well; the variable `part` says which of them a behaviour plays, and
the others stay in their initial state. This is the union of their state spaces and not a
composition: nothing is claimed about their interaction. They declare the constants with the assumptions
the proofs need, so that a theorem about such a module is one about each of its parts. MCProgress is
such a union too, of parts with fairness, for TLC only.

### AgreementDomain

The world `w` is a record with one function per key prefix of `KEY_PREFIXES`; `None` is a key
never written. Every handler `execute<X>` of `index.ts` is a guard `Can<X>(w, c)`, the
conjunction of every check made before its first `put`, and an effect `After<X>(w, c)`,
everything it puts. `Accepts` and `Executed` add what `execute` does for every command: the
configured identity, the idempotency record, the result. `Resolve` is `resolveAt`,
`Eligible` and `Visits` are `resolveInternal`'s walk (depth 8, 256 slots), `DependencyEligible`
the walk made by an activation. JCS canonicalization and SHA-256 digests are abstracted to
distinct values (a revision digest determines its payload: `RevisionInfo`); the formats
`validateCommand` checks are the types of the inputs. One approximation is stated at
`DependenciesPublished`: the publication walk counts a revision once and its depth by the
first path it meets, which depends on the order of the list, so only a revision that no short
path reaches counts as too deep.

### Agreement

`ledger` is the world; one action per command type plus `Bootstrap`. A refused command and an
exact repeat change nothing and are stuttering steps. This is the promise the whole system
makes: what `execute` does, one command at a time.

### FabricChannel

`Endorse` simulates a command on the committed world and records the keys read and the values
written; `Order` puts it in the total order; `CommitValid`/`CommitInvalid` is MVCC validation;
`Abandon` is a transaction that never gets ordered. Read and write sets are spelled out key by
key from the `ctx.get`/`ctx.put` calls of each handler (`ActivateReads`, `StatusReads`, ...),
because that is where serializability could be lost. A key version is replaced by a `stale`
flag that a commit sets on every transaction in flight that read a key it wrote; within a block
transactions are validated one after the other, so block boundaries do not matter. Endorsing on
a peer that lags is endorsing earlier. `Serializable` states that the channel implements Agreement
under the identity mapping of `ledger`.

### Projection

`journal` and `tables` are the SQLite file: `fabric_raw_blocks` and everything derived from it.
`memory` is what the running `SqliteFabricProjection` keeps: the projector (state and
checkpoint), the chained `digest` of every byte it verified (it stands for the blocks), the
creation `anchors` and the two caches. `Begin`, `CommitSql` and `Publish` are the parts of
`applyBlock` that a crash or a failed statement can separate (`Stop`, `Rollback`); `Redeliver`
is its branch for a block the journal has; `Open` is the constructor. `Prepares` is
`prepareBlock` as a conjunction of its refusals. Reads are operators that yield the set of
answers, empty when the code throws: `Reads` (read, readMany and entries are the same check on
one key, some keys, a prefix), `Receipt`, `Creation`, `Events`. What a replay computes block after block is
a recursive function of the journal: `ProjectorAt` (the projector after n blocks), `Derived` (the
tables) and `Anchors`. A block hash is the header with
its transactions, without the validation filter: the filter is metadata that no hash of Fabric
binds, so `Offered` has two blocks with one header. `DamageRow` and `Replaced` are what happens
to the file under a running process; every derived row may be lost, changed or flipped.

### ApplicationLedger

The promise chains of `FabricApplicationLedger` are sequences per `epoch`; the first of a
sequence runs. `Abandon` is the timer of `refreshAt`, which starts a new epoch while the old
work goes on. `refreshes` are the shared refreshes with the generation that decides who may
join; `sync` is a `catchUp` under way, one step per call of the peer; `calls` are the commands,
with the `await` they are at. `Close` and `CloseGoesOn` are the four waits of `close`. The
transport's call is one step that may fail (`Sent`, `NotSent`): what happens inside it is
CommandDelivery. `operations()` changes nothing and is left out.

### CommandDelivery

The life of one client command. `worker` is `FabricApplicationLedger.execute` and
`FabricGatewayTransport.sendCommand` (one pc per durable write or network call), `reader`
is a status query (`getCommand`, `listCommands`) or the `recoverPending` of a start, `queue`
who is inside the serial command queue. `outbox` rows, the service's `tracking` hint and the
`projected` prefix of blocks survive `Crash`; commit `handles` do not. `Submit` chooses whether
the envelope was sent and whether the acknowledgement came, independently apart from an
acknowledgement implying sending. `Abandon` is the refresh that times out and replaces both
queues, after which an execution and a query overlap. The channel is the part of FabricChannel
a single command sees: of the transactions simulated before the command was recorded at most
one is VALID, later ones replay. `answer` is the status last given to the client.

### ReviewDelivery

`jobs` is the outbox table, `inbox` the receivers' tables, `worker` the claim a process is
working on and the deliveries already tried in its batch, `calls` the `deliver` promises under
way, which go on after their worker stopped waiting (`Promise.race` with the deadline).
`Check` and `Send` are the two sides of the policy hook: authorization, message and
destination before, `throwIfAborted` and authorization again after. A lease token is the job's
`total_attempts`, which every claim raises. Time is events: `Due`, `Expire`, `Timeout`. A
restarted process may be configured with another binding for the same destination id.

### StateValidation and LocalLedger

`LinksHold`, `OverwritesImmutable` and `WellFormed` are the checks of `state-validation.ts` on
the records a write set touches. In LocalLedger a journal row is the world its write set leads
to; `projection`, `history`, `cursor` and `index` are what is derived from the rows. A call goes
through the operation chain (`Transact`, `Begin`) and ends in `HandlerThrows`, `StatementFails`,
`AnswerReplay` or `Commit`; the two branches of `Commit` are a process that lives to enter the
write set in the index and to answer, and one that dies after COMMIT. The handler reads through
both tables and throws where they disagree (`Diverged`). `Open` validates the chain and replays
it. Damage puts an older value back in one table (`LoseProjectionRow`, `LoseHistoryRow`) or
alters a journal row while the file is closed. Reads at an older checkpoint use the history
alone, as the code does, so a damaged history row is only found by the next write or opening:
`DerivedFromJournal` asks for equal tables while nothing was damaged. Reads change nothing and
are not actions.

### BrowseIndex

`Prepare` and `Commit` are the two halves of a batch, which several writers interleave; a batch
that commits late may show that a key is older than the index thought (`demote`). `Select` is
what a query means, `Query` what the cache answers; `Evict` works pool by pool, the ordinary
selections and the large ones. `Listed` and `Only` are the code's sort and filter, written by the place of
each member, so that the provers can reason about them. Only revisions are modelled: proposals and agreements have the
same maps without the cache.

### VectorSearch and IndexConnection

A listing (`Ask`, `Admit`, `Send`, `Receive`, `Answer`) is one run of the embedding runtime per
page, with a question to the egress policy before the provider, at the moment of sending and on
the result; its cursor carries the checkpoint and the hash of the first page's list. `Rebuild`,
`Scanned`, `Replace`, `AnswerRebuild` are a rebuild; `AbortPage`, `AbortRebuild` and `Close` answer
at once and leave the awaited work behind. IndexConnection is what is under the index: the
queue of `exclusive`, the connection shared by successive calls, the statements of a search's transaction
with its local setting, single writes, close, connections lost at any time (`Drops`) and errors
emitted after the end (`LateError`). Calls after close open a new connection, as the code does.
Scores, scopes of a query and the legacy embedding functions are left out.

### KnowledgeUse

`world` is one timeline of what others do (the slot's agreement, the egress policy, fences);
`seen` is how far the projection has followed. A `call` of the service is at one of its awaits
while the timeline goes on. The `client` is `guardedGeneration`: resolve, revalidate, generate,
revalidate. Run records carry the service's boot and a seal; `Damage` and `Restart` are what makes
a stored record worthless. A limit of time is a failure at any await (`CallFails`).

### ReviewNotices

The schedule with its compare-and-swap on the version and its operation ids (`Write`), the
reminders recorded after a refresh (`FindCandidate`, `RecordReminder`), and the notice: `Claim`
under a lease, the adapter's calls (`Ask`, `Vet`, `Post`), `Finish`, an expired lease, cancelled
runs (`CancelRun`, `SettleCancelled`) and the person who decides what is uncertain (`Resolve`).
`shown` is what Slack showed, whatever it answered. Frozen serving and the policy of the target
are refusals that may happen at the second look.

### SourceSync and OAuthGrant

In SourceSync the content of a page is its version upstream. `Commits`, `Result` and `Perform` are
an operation of the source store with its receipt; `sync` is a synchronization under way, at
one of its requests, any of which may be lost before or after it took effect (`NotAnswered`).
Confluence pages are read twice and compared, Markdown files once. OAuthGrant has the stored
grant with its version, the callers at each of their awaits, and counts how often each refresh
token was posted. The limits on size and number and the lease of the schedule are left out.

### Signing

`slot` is the attestation slot of a connection, `owner` the serializer that holds it. An operation
is installed, signed, answered or timed out, and finished; the service receives, records,
signs, records again and answers, within its limit of handlers. The log takes whole or torn
lines and knows what is flushed. `Release` happens without a
signing call in flight, which the comment of `releaseAttestationSerializer` asks of its callers.
Cryptography, frames and the socket file are abstracted to whether the service refuses.

### CertificateRenewal and RuntimeData

Both are about files. A rename is durable once its directory is flushed; `Crash` chooses among
what the disk may hold. In CertificateRenewal `sure` is what a crash now would leave at least, `run`
the apply command with the organizations it still has `todo`, of which `Turn` is the first in the order of
the profiles, and those it `changed`, so that `RollBack` undoes them in reverse.
One maintenance command at a time is assumed: the
code takes no lock, an operator runs it by hand. RuntimeData has jobs (backup,
restore) that read, copy, validate, reserve and publish, runtimes that bind and write, and the
decay of a snapshot; the version of a database stands for its size, hash, inode and times. Snapshots
made before bindings existed are left out.

### Shutdown

`Stages` is the order of `closeApp`. `http` is the wait for the server: the close callback, the timer
that cuts connections, the timer that gives up, and the counts that settle later, in any order.
`OpenNext` and `BootFails` are a start that fails half way. A handler that goes on after its
socket was cut is not followed.

## 3. What is checked

Times are for two workers; every run ends within four minutes.

| Run | Instance | What it asks | Result |
|---|---|---|---|
| `agreement` | either one slot with two representatives, three proposals, four agreements and 25 commands, or three slots where b needs a, c needs b, and a later revision of a needs c | pointers, approvals and manifests agree; one agreement per proposal; ended agreements stay ended; no circle of requirements; an activation is served; the epoch covers every change; every write set passes the projections' validation | holds |
| `diamond` | four slots in a diamond, node limit 4 | is what an activation accepts always served? | **violated**, see findings |
| `fabric` | two transactions in flight; two rival revisions of one slot, a revision of another slot that requires the first, a withdrawal, fences | implements Agreement; one answer per command id; a VALID fence certifies the epoch of its commit | holds |
| `stores` | channel: ten blocks, two with one header and different VALID flags, an empty fork, four that are refused; two damages. Local ledger: a proposal approved, activated, objected to and withdrawn; one crash, one damage | answers are those of the verified journal; every start succeeds and repairs; nothing served is lost; the local journal implements Agreement | holds |
| `command_safety` | three attempts, a query looks at one; one crash, one refresh given up | rows tell the truth; verdicts are sound; a denial is final while the queue holds; settled rows stay | holds |
| `outboxes` | delivery: one job, two processes, two attempts, one retry by a person and one crash; notices: two editors, a reminder and its overdue successor, two leases, two faults | receipts, destination, bounded attempts, late answers; no message repeated without a person; what leaves is current; a person's word stays | holds |
| `progress` | a command (one attempt, one crash, one refresh given up); a delivery (one process, a retry, a crash); a shutdown (two connections, two faults) | a recorded command is reported; every delivery ends, none is sent after its attempt was given up; every shutdown ends and tells what happened | holds |
| `ledger_settles` | an execute or an observation, a refresh, close; two refreshes given up, one call that never settles | everything settles if the peer does, a refresh in any case | holds |
| `ledger_writers` | an execute and a refresh, one given up | one writer of the projection at a time | **violated**, see findings |
| `service` | an execute, an observation, a recovery, a refresh, close; three overlapping batches; two listings, two rebuilds, one fault; two searches, a write and a close on up to three connections; six events, two boots, two runs | refreshes lose no write and raise no false alarm; close waits for all; pages are of their checkpoint and of one list; nothing is sent against the policy; calls on one connection stay apart; knowledge is used only while current | holds |
| `rebuild_overlap` | one listing, two rebuilds, one abort | one rebuild at a time | **violated**, see findings |
| `operations` | signing: three calls, one reconnection, one handler; renewal: three organizations, two plans; data: two backups to one destination, or a backup, a restore and two starts; sources: two synchronizations of two pages; grants: two processes, two lifetimes of a token | the log tells of every signature; a renewal is whole or undone; directories appear whole and are never mixed; no older page returns, no draft twice; a refresh token is posted once | holds |

**Bounds.** In Agreement every identifier can be used once by the code itself, so the command set bounds the
behaviours and TLC explores all of them: the instance is exhaustive for its commands. Two representatives are
the smallest policy in which one can act between two acts of another; three proposals and four agreement ids
allow supersession, a return to an earlier revision and reuse of ids; three slots are the smallest chain whose
circle is not visible from any single pair. Two transactions in flight are enough for every conflict of MVCC,
which is pairwise; the third that a chain of conflicts needs is the committed history. `CommandDelivery` has
three attempts so that one may fail while another is unknown and a third lies beyond what a query loads
(`MaxListed` = 1 instead of 128, and one row more is loaded). When an abandoned execution adds attempts while
a query recovers one, more rows than were counted may be cut off; `DenialIsSound` therefore speaks of verdicts
drawn while all rows are loaded. `Projection` has three heights because a historical read needs a block
before, at and after its point, and its blocks end in equal states so that only the digest tells the histories
apart; two damages let a second one hide the first. The local ledger's damage may hit the pointer, the
decision or the agreement, the three records whose age a command could mistake. `ApplicationLedger` has one
call of each kind: a conflict in its chains is between one who waits and one who is waited for, and a refresh
of an older generation, one of a newer generation and the one that joins need three callers; two heights tell
before from after. Two processes and a crash give a stale lease holder, a new holder, and a restart with other
bindings; the theorems of Outboxes hold for any number of each. In ReviewNotices a second lease is the
duplicate that must not happen, and two faults allow a lost answer and a person. Of three batches each shares
a key with the one before, so that each order of commits moves a key. Three connections let one be ended and
noisy, one lost and one in use. Two runs of KnowledgeUse are one of each boot, six events reach every change
between any two awaits. Two calls behind one handler, and a reconnection, are what the slot can be mixed up
by. Of three organizations one may be renewed, one in between and one not yet. The bounds by name are
declared, each with the comment "bound", in the CONSTANTS of its module.

Deadlock is not checked where the modelled part may rest: commands are used up, a shutdown is
over, a closed ledger does nothing, a bound is reached. `command_safety` checks it.

**Fairness.** Safety runs need none. `CommandDelivery`: steps of the running process are taken
(WF: every network call in them has a deadline and every action includes the branch where it
expires); the command queue is a promise chain, first come first served, so whoever waits gets in (SF
on the three ways in, which others disable again and again); the client asks again (the web
client polls while a command is pending) and the refresh in its query is not for ever refused by the
peer (SF); a start that fails is repeated by whoever supervises the process. Nothing
is assumed of the orderer, of acknowledgements or of submissions. `ApplicationLedger`: a promise that can
go on does (the event loop), a call of the peer settles unless it is one of the silent ones
(the configured peer has a deadline of five seconds on every call), and a timer that nobody
clears fires. `ReviewDelivery`: the
worker's interval keeps ticking (WF on Claim, Rest, Timeout) and time passes (WF on Due,
Expire); nothing is assumed of the network, the receiver or the policy hook. `Shutdown`: the steps of
`closeApp` and its two timers (WF); nothing is assumed of the close callback, of requests or of
sockets, except that a stage that is a promise of another module settles, by itself or by
throwing, as those modules' own runs show or their deadlines provide.

## 4. What is proved

All theorems are for every value of the constants that satisfies the named assumptions of the modules:
any sets of actors, commands, transactions, processes, blocks, keys, organizations, finite or not unless
stated, and any bounds. TLC evaluates the assumptions on every run that extends their module.

| Theorem | Statement | About |
|---|---|---|
| **Agreement_proofs** | | |
| `TypeCorrect` | `Spec => []TypeOK` | worlds stay worlds |
| `PointerExact` | `Spec => []ActivePointerExact` | a pointer and the one active agreement of its slot |
| `StillApprovedAlways` | `Spec => []ActiveStillApproved` | whatever is in force is still approved by all |
| `ConsumedOnce` | `Spec => []ProposalConsumedOnce` | one agreement per proposal |
| `ManifestsValid` | `Spec => []ManifestsStayValid` | cited approvals are decisions of the required representatives |
| `NeverCircular` | `Spec => []RequirementsAcyclic` | what is in force never requires itself |
| `WritesApply` | `Spec => EveryWriteApplies` | no write set would halt a projection |
| `EpochCovers` | `Spec => EpochCoversResolution` | no change of what resolves without a new epoch |
| `EndedStayEnded` | `Spec => EndedAgreementsStayEnded` | ended agreements stay ended |
| **FabricChannel_proofs** | | |
| `ChannelSerializable` | `ChannelSpec => Serializable` | the channel implements Agreement |
| `OneAnswer` | `ChannelSpec => []OneAnswerPerCommand` | one answer per command id |
| `FenceCurrent` | `ChannelSpec => FenceIsCurrent` | a valid fence certifies the epoch it commits on |
| **Stores_proofs** | | |
| `JournalIsTruth` | `SpecStores => []JournalRules`, given `MaxDamage <= 1` | tables, index, receipts follow from the local journal |
| `JournalImplements` | `SpecStores => ImplementsAgreement`, given `MaxDamage <= 1` | the local journal implements Agreement |
| `AnswersAreTrue` | `SpecStores => []AnswersTrue` | answers of the Fabric projection are those of the verified blocks |
| `RestartIsSound` | `SpecStores => []RestartSound` | nothing seen is lost, nobody is locked out without damage |
| **CommandDelivery_proofs** | | |
| `OutboxTellsTruth` | `Spec => []OutboxSound` | rows say what the channel says |
| `SettledForGood` | `Spec => SettledStays` | settled rows stay |
| `DenialsSound` | `Spec => DenialIsSound` | a denied command is not recorded, now or later |
| **Outboxes_proofs** | | |
| `DeliveriesSound` | `Spec => []JobsSound` | rows, leases, attempts, receipts |
| `DestinationKept` | `Spec => []OnlyConfirmedDestination` | packets go where their author confirmed |
| `SettledJobsStay` | `Spec => LateAnswersChangeNothing` | late answers change nothing |
| `CountedOnce` | `Spec => []NothingTwice` | no message again without a person |
| `NoticesHonest` | `Spec => NoticesTrue` | what leaves is wanted, what is final stays |
| `NothingSentLate` | `Spec /\ []LeaseOutlivesDeadline => NoRequestAfterDeadline` | calls that were given up send nothing |
| `NothingSentLateAlone` | `Spec => NoRequestAfterDeadline`, given one worker | the same, whenever leases run out |
| **Service_proofs** | | |
| `RefreshTellsTruth` | `Spec => []RefreshTells` | an "ok" shows every earlier write |
| `NothingIsLeftBehind` | `Spec => []NothingLeftBehind` | the pending counter; what close waits for |
| `UsedWhileCurrent` | `Spec => UseIsCurrent` | knowledge is used while current |
| `CallsKeptApart` | `Spec => []Index!IndexSound` | calls on one connection (a part of `SearchHonest`) |
| `NothingSentAgainstPolicy` | `Spec => Search!SentUnderPolicy` | the egress policy (a part of `SearchHonest`) |
| `SearchIsHonest` | `Spec => SearchHonest` | the pages of a listing, with the two above |
| `PagesAreTrue` | `Spec => PagesTrue` | browse pages of every checkpoint; the pools of the cache |
| **Operations_proofs** | | |
| `TokensOnce` | `Spec => []TokensUsedOnce` | refresh tokens are posted once |
| `AuditKept` | `Spec => []AuditStands` | the audit log tells of every signature |
| `RenewalKept` | `Spec => RenewalWhole` | a renewal is whole or undone |
| `DataKept` | `Spec => DataWhole` | directories are whole, of one moment |
| `SourcesKept` | `Spec => SourceFaithful` | sources hold what was read, never older |

### The arguments

*Agreement.* None of the invariants is inductive alone. A decision that is no approval suspends the
agreement *the slot points at*, so that `ActiveStillApproved` survives it only if the agreement
of the proposal, when active, is the one pointed at (`ActivePointerExact`) and if no other
agreement rests on the same proposal (`ProposalConsumedOnce`). The inductive invariant is

    Standing(w) == w \in World /\ Exact(w) /\ Consumed(w) /\ StillApproved(w)

and, on top of it, `Linked(w)`: whatever a record refers to is stored and of the same slot and policy, and
manifests cite valid decisions. `ManifestsValid` and `WritesApply` come from the two. The proof goes by
command type: lemmas give what each effect leaves at every key, then one lemma per command shows that it keeps
each part. `NeverCircular` is by induction over the steps and not over walks: `Acyclic(w)` says that among any
slots there is one whose agreement requires none of them. Ending agreements keeps it (`FewerNeeds`); an
activation keeps it because whatever the new agreement requires was eligible below its own slot, and so was
all that this requires in turn (`EligibleClosed`), so that nothing leads back to it. For this the recursive
functions of the walk are shown to unfold (`EligibleUnfolds`). For `EpochCovers`, a command either raises the
epoch or leaves agreements and pointers alone (`EpochOrQuiet`), and then every slot resolves to what it did
(`ResolutionKept`).

*Channel.* The invariant (`ChannelInv`) says of a transaction in flight that is not stale (`Current`): the
committed world still holds, at every key it read, what it was simulated on. A lemma per command type
(`Repeats`, `Covers`) shows that a command reads enough, so that it does in the new world what it did in
the old one, and changes only the keys it writes; a commit marks whoever read them. So a VALID commit is
the step of the serial ledger and everything else stutters.

*Local ledger.* The invariant (`JournalInv`) says that one of the two tables, projection or history, is the
one the journal gives, and both while nothing was damaged (`OneDamaged`); rows of commands, index and receipts
follow from it. What runs was refused or computed on worlds that both tables agree on (`MeetsNoDivergence`).
The hypothesis `MaxDamage <= 1` is needed and honest: the two tables check each other, and a damage that hits
both in the same way cannot be noticed before the next start.

*Projection.* The invariant (`FeedInv`) has two halves. What a process keeps is sound whatever becomes of its
file (`MemorySound`): its digest is a chain of blocks that each prepare on the state before, projector and
anchors are those of the digest, cached snapshots and results are of its blocks, within the bound. And a file
whose journal nobody damaged holds exactly the digest, plus the block that was committed and not published yet
(`FileSound`); with no damage at all the tables are the derived ones. For the answers, lemmas say what the
recursive definitions compute: `StatesAre` (the staged state at a point is the last write of each key),
`TablesHold` (the rows are those of each block), `CreationsHold` (the first write). Induction over the length
of a journal is not available as a scheme, since the library's theorems take an operator as a parameter; it is
done once, in the lemmas `Least`, `Ascent` and `Recursion`, from the well-foundedness of the natural numbers
(`WFMin`, `NatLessThanWellFounded`), which take sets.

*Command delivery.* `Inv` relates three places: a transaction is on its way or committed once
(`ChannelSound`); a status about to be written is backed by what the channel did (`Evidence`); and nobody
works in the queue beside somebody else while no refresh was given up (`QueueSound`), from which the
denials follow.

*Outboxes.* A job's number of attempts, its leases and its claims add up (`RowSound`); packets and
answers under way belong to the binding of their job (`PacketsSound`). For notices, what was shown is
counted against the retries a person confirmed, and a notice that may be sent again by itself has
that one showing left (`ShownSound`). Nothing is sent late because a worker that still waits for its
call holds the lease of its job (`Waits`), which nobody else takes over meanwhile: a lease is
longer than the deadline of its call (delivery-worker.ts:45), which is the hypothesis
`LeaseOutlivesDeadline` of `NothingSentLate`, or there is nobody else (`NothingSentLateAlone`). The run
`progress` checks the case of one worker. With several workers and a process that is held up beyond its
lease the property is not claimed.

*Service.* For the adapter (`LedgerInv`): whoever waits for a refresh joined it before it
asked for the tip, or after the last write it must see (`WritesSound`); epochs that lie ahead are empty
(`LaterChains`); and while no refresh was given up (`FirstEpoch`) one command runs, one refresh applies
blocks, and close stands behind them. For the connection: one call at a time, a transaction and its
limit are of the call at work, a live connection is shared or being closed. For the client: a call speaks, from
its fence on, of a checkpoint after the moment it was asked for (`CallSound`). For listings (`PagesInv`): what
was given is the beginning of one list, and that list holds each of its revisions once
(`DescendingEnumerates`: no two candidates have the same number of others above them), only what
the ledger had at the pinned checkpoint, and all that is required (`RankedIsAList`), whatever the index proposes.

*Browse index.* `PagesShown` has three parts. The checkpoints of keys only go down, so that whatever a prepared
batch does not name as new or as earlier stands at or before it when it commits, however late
(`PreparedSound`), and no committed batch wrote a key before the checkpoint it stands under (`BrowseInv`).
The list is sorted (`ListSound`): there is one sorted sequence of a finite set of keys (`SortIs`), what is
taken out of one leaves one (`SortedOnly`), and prepending is sorting (`PrependSorts`). And every kept selection is the sorted
sequence of the keys its query asks for (`CacheSound`): a commit that moves keys drops every selection at or
after its checkpoint, and for those before it nothing that is visible changed (`ChosenStays`). A selection that may be
kept fits into an empty pool, so there is a least number of evictions that makes room for it, all from its own pool (`EvictMakesRoom`).

*Operations.* Whoever has taken a refresh token out of the grant is the only one who has it
(`GrantInv`). One signing call flies at a time and the slot holds its attestation until it was taken
(`SlotTells`). An organization before, at and after its turn of a renewal has the old, either or the
new certificate (`Underway`). Two inventories in a row of files that only get newer tell what there
was between them (`InventorySound`). A version of a source is of one state, so a receipt tells what came
of the very state its operation expected (`VersionsSound`).

### Assumptions on constants

AgreementDomain: `ConfigAssumption` (what `validateConfig` accepts: one human representative per role,
finitely many roles and slots), `InputAssumption` (what `validateCommand` lets through, and that digests bind
payloads). LocalLedger: `LocalAssumption`. Stores: `FeedAssumption` (a decoded block has a number and a
sequence of transactions whose writes map keys to values; caches hold at least one entry). Service:
`LedgerAssumption` (finitely many callers, told apart), `BrowseAssumption` (a batch has a checkpoint and
finitely many keys, digests compare as numbers do, a pool has room for a selection), `IndexAssumption`,
`SearchAssumption` (the placeholder is no list). Operations: `GrantAssumption`,
`SigningAssumption`, `RenewalAssumption`, `DataAssumption`. CommandDelivery and Outboxes:
`BoundsAssumption` (bounds are numbers). The remaining clauses, `NoneAssumption` and its like, say
that the placeholder `None` is no stored value, as `null` is none.

### Only model-checked

* Liveness, which needs fairness and `ENABLED`: `CommittedIsReported`, `EveryJobEnds`, `ShutdownTold`,
  `CallsSettle`.
* `ActivationServes`: in general it is false (run `diamond`), and TLC shows it for the
  instance of `agreement`, whose graph stays far below the node limit.
* The violated properties of section 5.

## 5. What came out

* **Node limits of activation and resolution differ** (run `diamond`). docs/03-CONSENSUS.md:109
  and docs/06-API.md:99 describe one limit of 256 distinct dependency nodes. `dependencyEligible` gives
  the walk of the dependencies a fresh budget; `resolveInternal` counts the root as well, and
  both count a slot once per path. At the limit an activation is accepted and the slot then
  resolves to `DEPENDENCY_NODE_LIMIT`.
* **A refresh that is given up does not stop** (run `ledger_writers`).
  application-ledger.ts:80 says that the application of blocks is a single ordered writer. The
  timer of `refreshAt` replaces the projection queue while the work that holds it goes on, so
  two `catchUp`s run at once; the one with the older tip then reports `PROJECTION_INVALID`,
  which clients do not retry, about an honest peer. Without a refresh given up this cannot
  happen (`NoFalseAlarm`).
* **A rebuild that is given up goes on** (run `rebuild_overlap`). service.ts:1483 and :126 say
  that concurrent rebuilds join the one under way, so that no scan and replacement is done twice. When
  the caller or the deadline aborts a rebuild, its run answers at once and the `finally` clears
  `rebuildInFlight`, while the replacement it awaited goes on; the next call starts its own. The
  rows stay those of one scan, since each replacement is a transaction.
* Behaviours the models contain that are worth knowing, though no doc says otherwise: an attempt
  whose endorsement failed, or whose commit handle was lost before its bytes were stored, stays
  pending for ever unless the peer reports the command as recorded; the `catchUp` of an `execute`
  before its preflight has no timer, so a call of the peer that never settles there keeps that
  command and its place in `pendingCommands` for ever; the tracking hint a query
  read before it waited can be out of date when a hung refresh reset the queue; "failed"
  delivery means not confirmed, the receiver may hold the comment.

## 6. Not modelled

* Cryptography (signatures, MACs, certificates, digests) and formats (JCS, ADF, Markdown, HTML,
  envelopes, frames): pure functions. What they yield is a constant, a distinct value or a
  nondeterministic refusal.
* Authentication and configuration: tokens and files are checked by functions of their input;
  the roles, identities and policies they yield are the constants of AgreementDomain.
* The web client: rendering in a browser. What the models use of it is that it polls a pending
  command.
* HTTP routing and parsing, paging of lists, drafts and previews (one read or one write of one
  row), health reports, measurement, demos, drills and examples.
* In modelled components: what section 2 names as left out, and `PROJECT.json` under each
  component.

## 7. Plan

Models that could be added: the exact depth-first walks of publication, activation and resolution against
their definitions as reachability (recursive, TLC only).
