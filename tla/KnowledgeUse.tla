----------------------------- MODULE KnowledgeUse -----------------------------
(***************************************************************************)
(* Use of agreed knowledge by a model: guardedGeneration of the client     *)
(* (packages/client), resolve and revalidate of the service                *)
(* (apps/api/service.ts), the projection they read, and the permissions    *)
(* asked on the way.  One slot, one adapter, one generation at a time.     *)
(*                                                                         *)
(* What others do is one timeline: the agreement active in the slot, the   *)
(* egress policy, the fences.  The projection has seen a prefix of it.  A  *)
(* call that outlives its limit (10 s, 30 s, the generation's own) fails,  *)
(* at any of its steps.                                                    *)
(***************************************************************************)
EXTENDS Integers, Sequences

CONSTANTS
    MaxWorld,    \* bound: events of the timeline
    MaxBoots,    \* bound: starts of the service
    MaxRuns,     \* bound: runs issued
    MaxDamage,   \* bound: stored run records altered
    None

VARIABLES
    world,    \* sequence of [active, epoch, egress]: the slot's agreement (0: none)
    seen,     \* position of the verified projection
    boot,     \* bootId of the running service
    runs,     \* run id -> its record in the actor's vault
    altered,  \* run records altered in the vault
    call,     \* the service call in progress, or None
    client    \* the generation: phase, run id, manifest it holds, the call it waits for

vars == <<world, seen, boot, runs, altered, call, client>>

Now == Len(world)
Idle == [phase |-> "idle", run |-> 0, manifest |-> None, asked |-> 0]
Withheld == [Idle EXCEPT !.phase = "withheld"]

------------------------------------------------------------------------------
(* The ledger and the policy. *)

Happens(event) == Now < MaxWorld /\ world' = Append(world, event)

\* An activation, supersession, withdrawal or suspension moves the slot and
\* the eligibility epoch; an agreement that ended never becomes active again.
ChangeSlot ==
    /\ \E a \in {0, Now + 1} :
         a # world[Now].active /\ Happens([world[Now] EXCEPT !.active = a, !.epoch = @ + 1])
    /\ UNCHANGED <<seen, boot, runs, altered, call, client>>

\* The deployment's egress hook answers otherwise, or throws or hangs.
ChangePolicy ==
    /\ \E e \in {"allow", "deny", "unavailable"} \ {world[Now].egress} :
         Happens([world[Now] EXCEPT !.egress = e])
    /\ UNCHANGED <<seen, boot, runs, altered, call, client>>

\* Another request advances the shared projection.
Advance ==
    /\ seen < Now /\ seen' \in seen + 1 .. Now
    /\ UNCHANGED <<world, boot, runs, altered, call, client>>

\* The service restarts: a new bootId and a new integrity key, no answer.
Restart ==
    /\ boot < MaxBoots /\ boot' = boot + 1
    /\ call' = None
    /\ client' = IF call = None THEN client ELSE Withheld
    /\ UNCHANGED <<world, seen, runs, altered>>

\* A stored run is not trusted: its manifest may be replaced, but the
\* integrity stamp cannot be made anew.
Damage ==
    /\ altered < MaxDamage /\ altered' = altered + 1
    /\ \E id \in DOMAIN runs, k \in 1..Now :
         /\ world[k].active # runs[id].agreement
         /\ runs' = [runs EXCEPT ![id].agreement = world[k].active, ![id].sealed = FALSE]
    /\ UNCHANGED <<world, seen, boot, call, client>>

------------------------------------------------------------------------------
(* The service. *)

Withhold == call' = None /\ client' = Withheld

\* Any await of the call may throw or exceed its limit.
CallFails ==
    /\ call # None
    /\ Withhold
    /\ UNCHANGED <<world, seen, boot, runs, altered>>

\* storedRunBlockReason: issued by this boot, and exactly as issued.
RecordStands(r) == r.boot = boot /\ r.sealed

\* revalidate: the run's own record first, read once for the whole call.
CheckRecord ==
    /\ call # None /\ call.step = "record"
    /\ IF RecordStands(runs[call.run])
       THEN call' = [call EXCEPT !.step = "fence", !.record = runs[call.run]] /\ UNCHANGED client
       ELSE Withhold
    /\ UNCHANGED <<world, seen, boot, runs, altered>>

\* Fault: the state already projected is taken for the present.
ReadProjected(at) == at = seen /\ UNCHANGED <<world, seen>>

\* A fence is committed now, and the projection has reached it.
Fenced(at) ==
    /\ Happens(world[Now])
    /\ at = Now + 1 /\ seen' = at

\* resolveRun: everything is resolved at the fence's own checkpoint.
Fence ==
    /\ call # None /\ call.step = "fence"
    /\ \E at \in 1..MaxWorld :
         /\ Fenced(at)
         /\ call' = [call EXCEPT !.step = "refresh", !.at = at]
    /\ UNCHANGED <<boot, runs, altered, client>>

Superseded == world[seen].epoch # world[call.at].epoch

\* refresh, and the epoch again: FENCE_SUPERSEDED, or nothing to provide.
Refresh ==
    /\ call # None /\ call.step = "refresh"
    /\ seen' \in seen .. Now
    /\ IF world[seen'].epoch # world[call.at].epoch \/ world[call.at].active = 0
       THEN Withhold
       ELSE call' = [call EXCEPT !.step = "approvals"] /\ UNCHANGED client
    /\ UNCHANGED <<world, boot, runs, altered>>

\* validateAgreementApprovals was awaited: the epoch a third time, and for a
\* revalidation the manifest against the stored one (storedManifestMismatch).
Assemble ==
    /\ call # None /\ call.step = "approvals"
    /\ IF Superseded \/ (call.run # 0 /\ call.record.agreement # world[call.at].active)
       THEN Withhold
       ELSE call' = [call EXCEPT !.step = "egress"] /\ UNCHANGED client
    /\ UNCHANGED <<world, seen, boot, runs, altered>>

\* checkEgress: nothing but a true answer allows.
Allowed == world[Now].egress = "allow"

Manifest(id) == [run |-> id, agreement |-> world[call.at].active, at |-> call.at]

\* validateRefreshedManifest: same run, same knowledge, a later checkpoint.
Refreshes(m) == m.run = client.manifest.run /\ m.agreement = client.manifest.agreement
                /\ m.at > client.manifest.at

\* What the generation does next with a manifest it accepts.
Accept(m, id) == [client EXCEPT !.manifest = m, !.run = id, !.phase =
                    CASE @ = "resolve" -> "authorize" [] @ = "before" -> "generate" [] OTHER -> "provided"]

\* The verdict, the run's record (rewritten whole by a revalidation), the
\* answer, the client's own checks.
Answer ==
    /\ call # None /\ call.step = "egress"
    /\ LET id == IF call.run = 0 THEN Len(runs) + 1 ELSE call.run IN
       /\ IF ~Allowed
          THEN client' = Withheld /\ UNCHANGED runs
          ELSE /\ runs' = IF call.run # 0 THEN [runs EXCEPT ![id] = call.record]
                          ELSE Append(runs, [agreement |-> Manifest(id).agreement, boot |-> boot, sealed |-> TRUE,
                                             issued |-> Manifest(id).agreement])
               /\ client' = IF call.run = 0 \/ Refreshes(Manifest(id)) THEN Accept(Manifest(id), id)
                            ELSE Withheld
    /\ call' = None
    /\ UNCHANGED <<world, seen, boot, altered>>

------------------------------------------------------------------------------
(* guardedGeneration. *)

\* The three calls: resolve, and revalidate before generating and releasing.
Ask(phase) ==
    /\ call = None /\ client.phase = phase
    /\ phase = "resolve" => Len(runs) < MaxRuns
    /\ client' = [client EXCEPT !.asked = Now]
    /\ call' = [step |-> IF phase = "resolve" THEN "fence" ELSE "record", at |-> 0, record |-> None,
                run |-> IF phase = "resolve" THEN 0 ELSE client.run]

Calls == (\E phase \in {"resolve", "before", "after"} : Ask(phase))
         /\ UNCHANGED <<world, seen, boot, runs, altered>>

\* The caller's own authorize and generate callbacks, or their failure, or the
\* deadline of the whole.
Callback ==
    /\ call = None
    /\ \E step \in {<<"idle", "resolve">>, <<"authorize", "before">>, <<"generate", "permit">>, <<"permit", "after">>} :
         /\ client.phase = step[1]
         /\ client' \in {[client EXCEPT !.phase = step[2]], Withheld}
    /\ UNCHANGED <<world, seen, boot, runs, altered, call>>

\* The next generation.
Again ==
    /\ client.phase \in {"provided", "withheld"} /\ Len(runs) < MaxRuns
    /\ client' = Idle
    /\ UNCHANGED <<world, seen, boot, runs, altered, call>>

------------------------------------------------------------------------------
Init ==
    /\ world = <<[active |-> 1, epoch |-> 1, egress |-> "allow"]>>
    /\ seen = 1 /\ boot = 1 /\ runs = <<>> /\ altered = 0 /\ call = None /\ client = Idle

Next ==
    \/ ChangeSlot \/ ChangePolicy \/ Advance \/ Restart \/ Damage
    \/ CallFails \/ CheckRecord \/ Fence \/ Refresh \/ Assemble \/ Answer
    \/ Calls \/ Callback \/ Again

Spec == Init /\ [][Next]_vars

------------------------------------------------------------------------------
(* Properties. *)

InForceSince(a, i) == \E k \in i + 1 .. Now : world[k].active = a
AllowedSince(i) == \E k \in i .. Now : world[k].egress = "allow"

\* The model is given the knowledge, and its draft leaves the client, only if
\* after the moment that last check was asked for the agreement was still in
\* force and the policy still allowed the adapter: a withdrawal or a refusal
\* that came before the check always stops it.  (guardedGeneration: fresh
\* fences gate both egress and release.)
GatedUse ==
    [][ client'.phase \in {"generate", "provided"} /\ client'.phase # client.phase =>
          /\ InForceSince(client'.manifest.agreement, client.asked)
          /\ AllowedSince(client.asked) ]_vars

\* A revalidation that reports "valid" speaks of the very agreement the run was
\* issued for, by the boot that issued it, whatever became of the stored record.
ValidMeansIssued ==
    [][ (Answer /\ call.run # 0 /\ Allowed) =>
          /\ runs[call.run].issued = world[call.at].active
          /\ runs[call.run].boot = boot ]_vars

\* Knowledge is used only while it is current, and "valid" is said of what was
\* issued (guardedGeneration, revalidate).
UseIsCurrent == GatedUse /\ ValidMeansIssued
==============================================================================
