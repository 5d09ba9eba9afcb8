------------------------------- MODULE Signing -------------------------------
(***************************************************************************)
(* Attested remote signing: the attestation slot that the signing calls of *)
(* a Gateway connection share and its serializer, and the socket protocol  *)
(* (packages/fabric/remote-signer.ts); the organisation's signing service  *)
(* and its audit log (infra/fabric/signing-service.ts); the builders and   *)
(* calls of OfficialGatewayClient (packages/fabric/gateway.ts).            *)
(*                                                                         *)
(* An operation is one signer-bearing SDK call.  Its attestation, and the  *)
(* digest it has signed, are told apart by the operation alone; the keys   *)
(* of Ed25519 type, frames and encodings are abstracted to whether the     *)
(* service refuses.  Clients 1, 2, ... are successive connections over one *)
(* attestation context of the caller.                                      *)
(***************************************************************************)
EXTENDS Integers, Sequences, FiniteSets

CONSTANTS
    Ops,             \* signer-bearing operations
    MaxClients,      \* bound: connections made one after the other
    MaxConcurrency,  \* handlers the service runs at once
    MaxFaults,       \* bound: crashes, shutdowns, disk faults, timeouts, expiry
    None

VARIABLES
    owner,      \* client whose serializer owns the context, or None
    connected,  \* clients so far
    slot,       \* context.current: the operation whose attestation is installed
    ops,        \* operation -> client, progress and what its request carried
    queue,      \* operations waiting in the serializers, in order
    wired,      \* the configured signer reads this context
    requires,   \* the key requires attestation
    requests,   \* sign requests at the service, and whether the client listens
    log,        \* the audit log: records, and at most one torn line
    flushed,    \* how much of it is known to be on disk
    service,    \* "up", "closing", "closed" or "down" (crashed)
    expired,    \* the certificate of the key is past its validity
    faults

client == <<owner, connected, slot, ops, queue>>
setup == <<wired, requires>>
audit == <<log, flushed>>
vars == <<client, setup, requests, audit, service, expired, faults>>
atService == <<setup, requests, audit, service, expired, faults>>

Trouble == faults < MaxFaults /\ faults' = faults + 1

InFlight(c) == {o \in Ops : ops[o].client = c /\ ops[o].pc \in {"installed", "signing", "signed"}}

------------------------------------------------------------------------------
(* The serializer. *)

\* createAttestationSerializer: a context is claimed by one serializer only.
Connect ==
    /\ owner = None /\ connected < MaxClients
    /\ connected' = connected + 1 /\ owner' = connected'
    /\ UNCHANGED <<slot, ops, queue, atService>>

\* A call is queued, or rejected at once by a serializer that was released.
Call(o, c) ==
    /\ ops[o].pc = "new"
    /\ IF owner = c
       THEN /\ ops' = [ops EXCEPT ![o].client = c, ![o].pc = "queued"]
            /\ queue' = Append(queue, o)
       ELSE /\ ops' = [ops EXCEPT ![o].client = c, ![o].pc = "failed"]
            /\ UNCHANGED queue
    /\ UNCHANGED <<owner, connected, slot, atService>>

\* Fault: calls overlap, as they do without the queue.
AnyTurn(o) == TRUE

\* The operations of one client run one after the other.
Turn(o) == InFlight(ops[o].client) = {}

Start(o) ==
    /\ queue # <<>> /\ o = Head(queue) /\ Turn(o)
    /\ queue' = Tail(queue)
    /\ IF owner = ops[o].client
       THEN ops' = [ops EXCEPT ![o].pc = "installed"] /\ slot' = o
       ELSE ops' = [ops EXCEPT ![o].pc = "failed"] /\ UNCHANGED slot
    /\ UNCHANGED <<owner, connected, atService>>

\* An operation ends; whatever it left in the slot is taken out.
Ends(o, outcome) ==
    /\ ops' = [ops EXCEPT ![o].pc = outcome]
    /\ slot' = IF slot = o THEN None ELSE slot
    /\ UNCHANGED <<owner, connected, queue>>

\* The authorization that is checked first throws, or the call never signs.
FailEarly(o) == ops[o].pc = "installed" /\ Ends(o, "failed") /\ UNCHANGED atService

\* attestationSlot and createRemoteSigner: the signer takes whatever is in
\* the slot and sends it with the digest it was given.
Sign(o) ==
    LET taken == IF wired THEN slot ELSE None IN
    /\ ops[o].pc = "installed"
    /\ slot' = IF wired THEN None ELSE slot
    /\ ops' = [ops EXCEPT ![o].pc = "signing", ![o].carried = taken]
    /\ requests' = IF service # "up" THEN requests
                   ELSE requests \union {[op |-> o, att |-> taken, pc |-> "sent", listening |-> TRUE]}
    /\ UNCHANGED <<owner, connected, queue, setup, audit, service, expired, faults>>

Asked(o) == {r \in requests : r.op = o /\ r.listening}

\* The answer: an attested request needs a receipt over this very request.
\* The caller's hook for receipts may fail the call.
Answered(o) ==
    /\ ops[o].pc = "signing"
    /\ \E r \in Asked(o) :
         /\ r.pc \in {"ok", "rejected"}
         /\ requests' = requests \ {r}
         /\ \/ /\ r.pc = "ok" /\ r.att = ops[o].carried
               /\ ops' = [ops EXCEPT ![o].pc = "signed"]
               /\ UNCHANGED <<owner, connected, slot, queue>>
            \/ Ends(o, "failed")
    /\ UNCHANGED <<setup, audit, service, expired, faults>>

\* The signer's timer; the service may still be at work on the request.
TimesOut(o) ==
    /\ ops[o].pc = "signing" /\ Trouble
    /\ Ends(o, "failed")
    /\ requests' = {IF r.op = o THEN [r EXCEPT !.listening = FALSE] ELSE r : r \in requests}
    /\ UNCHANGED <<setup, audit, service, expired>>

\* The service could not be reached, or dropped the connection.
Disconnected(o) ==
    /\ ops[o].pc = "signing" /\ Asked(o) = {}
    /\ Ends(o, "failed")
    /\ UNCHANGED atService

\* A successful call whose attestation is still there was not attested.
Consumed(o) == slot # o

\* The peer answers the signed call, or refuses it.
Finish(o) ==
    /\ ops[o].pc = "signed"
    /\ Ends(o, "failed") \/ Ends(o, IF Consumed(o) THEN "succeeded" ELSE "failed")
    /\ UNCHANGED atService

Owned(c) == owner = c

\* close and releaseAttestationSerializer, also of a client that was closed
\* before.  Its caller holds no signing call in flight; queued ones will fail.
Release(c) ==
    /\ InFlight(c) = {} /\ Owned(c)
    /\ owner' = None /\ slot' = None
    /\ UNCHANGED <<connected, ops, queue, atService>>

------------------------------------------------------------------------------
(* The audit log of the service. *)

Record(kind, r) == [kind |-> kind, op |-> r.op, att |-> r.att]
TornLine == [kind |-> "torn", op |-> None, att |-> None]
IsTorn(l) == Len(l) > 0 /\ l[Len(l)] = TornLine

\* A closed descriptor and a torn log take nothing.
CanAppend(l) == service # "closed" /\ ~IsTorn(l)

Recorded(rec) ==
    /\ CanAppend(log)
    /\ log' = Append(log, rec) /\ flushed' = Len(log')
    /\ UNCHANGED faults

\* What the log may be after an append: as it was, with the line, whose flush
\* may have failed, or with a part of it.
After(l, rec) == IF CanAppend(l) THEN {l, Append(l, rec), Append(l, TornLine)} ELSE {l}

\* The append of rec throws; noting the failure is tried once.
RecordingFails(rec, r) ==
    /\ log' \in UNION {After(l, Record("failed", r)) : l \in After(log, rec)}
    /\ UNCHANGED flushed
    /\ IF CanAppend(log) THEN Trouble ELSE UNCHANGED faults

------------------------------------------------------------------------------
(* A request at the service. *)

Active == {r \in requests : r.pc = "signing"}

\* An answer nobody listens to is gone.
Moves(r, pc) ==
    requests' = (requests \ {r}) \union (IF r.listening THEN {[r EXCEPT !.pc = pc]} ELSE {})

Refuses(r, rec) == Moves(r, "rejected") /\ (Recorded(rec) \/ RecordingFails(rec, r))

\* The attestation is of the key's own identity, which the builders see to
\* (buildDecision, buildQueryAttestation); only its absence can be refused.
Refused(r) == expired \/ (r.att = None /\ requires)

\* serveSocket up to the signatures: the number of handlers is bounded, the
\* certificate and the attestation are checked.
Receive(r) ==
    /\ service = "up" /\ r.pc = "sent"
    /\ IF Cardinality(Active) >= MaxConcurrency
       THEN Moves(r, "rejected") /\ UNCHANGED <<audit, faults>>
       ELSE IF Refused(r) THEN Refuses(r, Record("refused", r))
       ELSE requests' = (requests \ {r}) \union {[r EXCEPT !.pc = "signing"]}
            /\ UNCHANGED <<audit, faults>>
    /\ UNCHANGED <<client, setup, service, expired>>

Signed(r) == Record(IF r.att = None THEN "signing" ELSE "attested", r)

\* The record is on disk before the answer leaves.
Acknowledge(r) ==
    \/ Moves(r, "ok") /\ Recorded(Signed(r))
    \/ Moves(r, "rejected") /\ RecordingFails(Signed(r), r)

\* Both signatures settled; one may have failed, or taken too long.
SignaturesSettle(r) ==
    /\ r.pc = "signing"
    /\ \/ Refuses(r, Record("failed", r))
       \/ ~expired /\ Acknowledge(r)
    /\ UNCHANGED <<client, setup, service, expired>>

------------------------------------------------------------------------------
(* The life of the service. *)

\* close: every connection is destroyed; handlers go on.
Close ==
    /\ service = "up" /\ service' = "closing" /\ Trouble
    /\ requests' = {[r EXCEPT !.listening = FALSE] : r \in Active}
    /\ UNCHANGED <<client, setup, audit, expired>>

\* The log is closed when the handlers are done, or at the latest after the
\* time they can take.
CloseLog ==
    /\ service = "closing" /\ service' = "closed"
    /\ IF Active = {} THEN UNCHANGED faults ELSE Trouble
    /\ UNCHANGED <<client, setup, requests, audit, expired>>

\* A crash loses what was not flushed.
Crash ==
    /\ service \in {"up", "closing"} /\ service' = "down" /\ Trouble
    /\ requests' = {}
    /\ \E n \in flushed..Len(log) : log' = SubSeq(log, 1, n) /\ flushed' = n
    /\ UNCHANGED <<client, setup, expired>>

\* loadKeys: key, certificate and actor agree by configuration, time passes.
KeysLoad == ~expired

\* openAuditLog: the file is the configured one and ends with a whole record.
LogOpens == ~IsTorn(log)

\* startSigningService: an expired key or a torn log is refused.
Restart ==
    /\ service \in {"closed", "down"} /\ KeysLoad /\ LogOpens
    /\ service' = "up" /\ requests' = {}
    /\ UNCHANGED <<client, setup, audit, expired, faults>>

Expires ==
    /\ ~expired /\ expired' = TRUE /\ Trouble
    /\ UNCHANGED <<client, setup, requests, audit, service>>

------------------------------------------------------------------------------
Init ==
    /\ owner = None /\ connected = 0 /\ slot = None /\ queue = <<>>
    /\ ops = [o \in Ops |-> [client |-> 0, pc |-> "new", carried |-> None]]
    /\ wired \in BOOLEAN /\ requires \in BOOLEAN
    /\ requests = {} /\ log = <<>> /\ flushed = 0 /\ service = "up" /\ expired = FALSE
    /\ faults = 0

Next ==
    \/ Connect
    \/ \E c \in 1..connected : Release(c) \/ \E o \in Ops : Call(o, c)
    \/ \E o \in Ops : \/ Start(o) \/ FailEarly(o) \/ Sign(o) \/ Answered(o)
                      \/ TimesOut(o) \/ Disconnected(o) \/ Finish(o)
    \/ \E r \in requests : Receive(r) \/ SignaturesSettle(r)
    \/ Close \/ CloseLog \/ Crash \/ Restart \/ Expires

Spec == Init /\ [][Next]_vars

------------------------------------------------------------------------------
(* Properties. *)

\* The evidence an auditor reads is of the call that was signed: whatever
\* calls overlap, fail, time out or cross a reconnection, no digest is ever
\* countersigned with the decision of another call.
EvidenceMatches ==
    \A i \in 1..Len(log) : log[i].kind = "attested" => log[i].att = log[i].op

\* A call of an attested connection that succeeded left its evidence on disk,
\* through disk faults, a shutdown or a crash at any point, and through a
\* signer that was never given the context.
SuccessLeavesEvidence ==
    \A o \in Ops : ops[o].pc = "succeeded" =>
      \E i \in 1..flushed : log[i] = [kind |-> "attested", op |-> o, att |-> o]

\* The log stays readable: a torn line is only ever the last one.
LogStaysReadable == \A i \in 1..(Len(log) - 1) : log[i] # TornLine

\* The audit log tells of every call that succeeded, of the decision that was
\* signed, and can be read (openAuditLog, createAttestationSerializer).
AuditStands == EvidenceMatches /\ SuccessLeavesEvidence /\ LogStaysReadable
==============================================================================
