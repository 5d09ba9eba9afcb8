------------------------------ MODULE Operations ------------------------------
(***************************************************************************)
(* What operators run beside the service: the signing service, the renewal *)
(* of certificates, backups and restores, synchronisation of sources and   *)
(* the grant of their connector.  They share no state, so a behaviour      *)
(* plays one of them and the others stay in their initial state.           *)
(***************************************************************************)
EXTENDS Integers, Sequences, FiniteSets

CONSTANTS
    Ops, MaxClients, MaxConcurrency, MaxSigningFaults,              \* Signing
    Orgs, Days, Before, MaxNow, MaxPlans, MaxRenewalFaults,         \* CertificateRenewal
    Databases, Bindings, Backups, Restores, Starts, Rosters,        \* RuntimeData
    MaxWrites, MaxDataFaults, Torn, Bad,
    Paths, Syncs, MaxUpstream, MaxBegun, MaxLost, Retries,          \* SourceSync
    Callers, Margin, Life, MaxTime, MaxReconnects,                  \* OAuthGrant
    None

\* An access token lives for a whole number of time units (expires_in).
ASSUME GrantAssumption == Life \in Int

\* The placeholder is none of the calls and numbers no connection.
ASSUME SigningAssumption == None \notin Ops \union Nat

\* Days are whole days.
ASSUME RenewalAssumption == Days \subseteq Int /\ Before \in Int

\* What a file of a runtime may hold: a version of a database, a binding, the
\* manifest of a snapshot, nothing, or something broken.
Content == Nat \union Bindings \union {None, Torn, Bad}
Files == Databases \union {"binding"}
Directory == [by : Backups \union Restores \union Starts \union {None},
              files : [Files \union {"manifest"} -> Content \union [Files -> Content]]]

\* A runtime has databases; nothing is told apart from what is there.
ASSUME DataAssumption ==
    /\ Databases # {} /\ Databases \intersect {"binding", "manifest"} = {}
    /\ Backups \intersect Restores = {}
    /\ None \notin Nat \union Bindings \union {Torn, Bad} /\ Torn \notin Bindings
    /\ None \notin Directory /\ None \notin [Files -> Content]

VARIABLES
    part,
    owner, connected, slot, ops, queue, wired, requires, requests, log, flushed, service, expired,
    signingFaults,
    now, active, sure, plans, run, renewalFaults,
    dir, job, boot, moments, dataFaults,
    kind, upstream, source, receipts, drafts, sync, begun, lost,
    grant, spent, issued, caller, clock, reconnects

signing == <<owner, connected, slot, ops, queue, wired, requires, requests, log, flushed, service,
             expired, signingFaults>>
renewal == <<now, active, sure, plans, run, renewalFaults>>
data == <<dir, job, boot, moments, dataFaults>>
sources == <<kind, upstream, source, receipts, drafts, sync, begun, lost>>
grants == <<grant, spent, issued, caller, clock, reconnects>>
vars == <<part, signing, renewal, data, sources, grants>>

Signing == INSTANCE Signing WITH MaxFaults <- MaxSigningFaults, faults <- signingFaults
Renewal == INSTANCE CertificateRenewal WITH MaxFaults <- MaxRenewalFaults, faults <- renewalFaults
Data == INSTANCE RuntimeData WITH MaxFaults <- MaxDataFaults, faults <- dataFaults
Sources == INSTANCE SourceSync
Grants == INSTANCE OAuthGrant

\* The backups, restores and starts there are.
Roster == {j \in Backups \union Restores : job[j].at = "new"}
          \union {s \in Starts : boot[s].at = "new"}

Init ==
    /\ part \in {"signing", "renewal", "data", "sources", "grants"}
    /\ Signing!Init /\ Renewal!Init /\ Data!Init /\ Sources!Init /\ Grants!Init
    \* one initial state is enough for a part that is not played
    /\ part = "signing" \/ ~(wired \/ requires)
    /\ part = "data" \/ Roster = CHOOSE r \in Rosters : TRUE
    /\ part = "sources" \/ kind = "markdown"

Next ==
    \/ /\ part = "signing" /\ Signing!Next
       /\ UNCHANGED <<part, renewal, data, sources, grants>>
    \/ /\ part = "renewal" /\ Renewal!Next
       /\ UNCHANGED <<part, signing, data, sources, grants>>
    \/ /\ part = "data" /\ Data!Next
       /\ UNCHANGED <<part, signing, renewal, sources, grants>>
    \/ /\ part = "sources" /\ Sources!Next
       /\ UNCHANGED <<part, signing, renewal, data, grants>>
    \/ /\ part = "grants" /\ Grants!Next
       /\ UNCHANGED <<part, signing, renewal, data, sources>>

Spec == Init /\ [][Next]_vars

------------------------------------------------------------------------------
(* Properties. *)

\* The audit log tells of every call that succeeded, of the decision that was
\* signed, and can be read (openAuditLog, createAttestationSerializer).
AuditStands == Signing!AuditStands

\* A renewal is whole or undone (applyLocalCertificateRenewal).
RenewalWhole == Renewal!RenewalWhole

\* Directories appear whole and are never mixed (publishStaging, writeBinding).
DataWhole == Data!DataWhole

\* A source holds what its synchronisations read, once and never older
\* (importMarkdown, reconcile, syncConfluenceSource).
SourceFaithful == Sources!SourceFaithful

\* A refresh token is used once (getAccessToken).
TokensUsedOnce == Grants!TokensUsedOnce
===============================================================================
