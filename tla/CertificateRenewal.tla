-------------------------- MODULE CertificateRenewal --------------------------
(***************************************************************************)
(* Renewal of the enrollment certificates of the organisations            *)
(* (infra/fabric/certificates.ts): a plan is prepared beside the active    *)
(* files and applied later, one rename per organisation, with rollback on  *)
(* failure and resumption after a crash.                                   *)
(*                                                                         *)
(* A certificate is told apart by its expiry and the plan that issued it.  *)
(* One maintenance command runs at a time.  A rename is durable once its   *)
(* directory is flushed; a crash before that keeps either file.            *)
(***************************************************************************)
EXTENDS Integers, Sequences, FiniteSets

CONSTANTS
    Orgs,       \* sequence of the organisations, in the order of the profiles
    Days,       \* validity periods an operator asks for
    Before,     \* renewBeforeDays
    MaxNow,     \* bound: the clock
    MaxPlans,   \* bound: plans prepared
    MaxFaults,  \* bound: crashes and failed writes
    None

VARIABLES
    now,     \* the clock, in days
    active,  \* organisation -> the certificate in its MSP directory
    sure,    \* organisation -> the certificate a crash now would leave at least
    plans,   \* prepared plans: expiry and issuer of old and new, status, whether durable
    run,     \* the apply command in progress, or None
    faults

vars == <<now, active, sure, plans, run, faults>>

OrgSet == {Orgs[i] : i \in 1..Len(Orgs)}
Trouble == faults < MaxFaults /\ faults' = faults + 1

------------------------------------------------------------------------------
\* prepareRenewal: when some certificate is inside the window, all are
\* reissued over the same keys; none may end up with a shorter life.  An
\* interrupted preparation leaves no plan file.
Prepare(days) ==
    LET new == [o \in OrgSet |-> [expires |-> now + days, plan |-> Len(plans) + 1]] IN
    /\ run = None /\ Len(plans) < MaxPlans
    /\ days > Before
    /\ \E o \in OrgSet : active[o].expires - now <= Before
    /\ \A o \in OrgSet : new[o].expires > active[o].expires
    /\ plans' = Append(plans, [old |-> active, new |-> new, status |-> "prepared"])
    /\ UNCHANGED <<now, active, sure, run, faults>>

\* The active file is the one the plan replaces, or already the new one.
Expected(p, o) == active[o] \in {plans[p].old[o], plans[p].new[o]}

\* preflightApply: every organisation is examined before any file changes.
Begin(p) ==
    /\ run = None
    /\ \A o \in OrgSet : Expected(p, o) /\ plans[p].new[o].expires - now > Before
    /\ run' = [plan |-> p, start |-> active, clean |-> sure = active, changed |-> <<>>, failed |-> FALSE, at |-> "install",
               todo |-> {o \in OrgSet : active[o] # plans[p].new[o]}]
    /\ UNCHANGED <<now, active, sure, plans, faults>>

\* Organisations take their turns in the order of the profiles.
Turn(o) == \E i \in 1..Len(Orgs) : /\ o = Orgs[i] /\ o \in run.todo
                                   /\ \A j \in 1..(i - 1) : Orgs[j] \notin run.todo

\* The item is on the list for rollback before its file is touched.
Noted(r, o) == [r EXCEPT !.changed = Append(@, o)]

\* atomicWrite: a flushed temporary file is renamed over the target ...
Install(o) ==
    /\ run # None /\ run.at = "install" /\ Turn(o)
    /\ \/ /\ active' = [active EXCEPT ![o] = plans[run.plan].new[o]]
          /\ run' = [Noted(run, o) EXCEPT !.at = "flush"]
          /\ UNCHANGED faults
       \/ /\ Trouble
          /\ run' = [Noted(run, o) EXCEPT !.at = "rollback"]
          /\ UNCHANGED active
    /\ UNCHANGED <<now, sure, plans>>

\* Fault: success is reported without the flush of the directory.
NoFlush(o) == sure

Flushed(o) == [sure EXCEPT ![o] = active[o]]

\* ... and its directory is flushed.
Flush(o) ==
    /\ run # None /\ run.at = "flush" /\ Turn(o)
    /\ \/ /\ sure' = Flushed(o)
          /\ run' = [run EXCEPT !.at = "install", !.todo = @ \ {o}]
          /\ UNCHANGED faults
       \/ Trouble /\ run' = [run EXCEPT !.at = "rollback"] /\ UNCHANGED sure
    /\ UNCHANGED <<now, active, plans>>

\* The plan is rewritten as applied; a failure of its flush rolls back too.
MarkApplied ==
    /\ run # None /\ run.at = "install" /\ run.todo = {}
    /\ \/ /\ plans' = [plans EXCEPT ![run.plan].status = "applied"]
          /\ run' = [run EXCEPT !.at = "done"]
          /\ UNCHANGED faults
       \/ /\ Trouble
          /\ plans' \in {plans, [plans EXCEPT ![run.plan].status = "applied"]}
          /\ run' = [run EXCEPT !.at = "rollback"]
    /\ UNCHANGED <<now, active, sure>>

\* The last changed file gets its old bytes back, or that fails, before or
\* after the rename.
RollBack ==
    /\ run # None /\ run.at = "rollback" /\ run.changed # <<>>
    /\ LET o == run.changed[Len(run.changed)]
           restored == [active EXCEPT ![o] = plans[run.plan].old[o]]
           rest == [run EXCEPT !.changed = SubSeq(@, 1, Len(@) - 1)]
       IN
       \/ /\ active' = restored /\ sure' = [sure EXCEPT ![o] = restored[o]]
          /\ run' = rest /\ UNCHANGED faults
       \/ /\ Trouble /\ active' \in {active, restored}
          /\ run' = [rest EXCEPT !.failed = TRUE] /\ UNCHANGED sure
    /\ UNCHANGED <<now, plans>>

Succeeds == run # None /\ run.at = "done"
Fails == run # None /\ run.at = "rollback" /\ run.changed = <<>>

\* The command reports success, APPLY_FAILED or ROLLBACK_FAILED.
Report ==
    /\ Succeeds \/ Fails
    /\ run' = None
    /\ UNCHANGED <<now, active, sure, plans, faults>>

Crash ==
    /\ Trouble
    /\ active' \in {f \in [OrgSet -> {active[o] : o \in OrgSet} \union {sure[o] : o \in OrgSet}] :
                      \A o \in OrgSet : f[o] \in {active[o], sure[o]}}
    /\ sure' = active' /\ run' = None
    /\ UNCHANGED <<now, plans>>

Tick == now < MaxNow /\ now' = now + 1 /\ UNCHANGED <<active, sure, plans, run, faults>>

Init ==
    /\ now = 0
    /\ active = [o \in OrgSet |-> [expires |-> Before, plan |-> 0]] /\ sure = active
    /\ plans = <<>> /\ run = None /\ faults = 0

Next ==
    \/ \E days \in Days : Prepare(days)
    \/ \E p \in 1..Len(plans) : Begin(p)
    \/ \E o \in OrgSet : Install(o) \/ Flush(o)
    \/ MarkApplied \/ RollBack \/ Report \/ Crash \/ Tick

Spec == Init /\ [][Next]_vars

------------------------------------------------------------------------------
(* Properties. *)

\* Nobody's certificate is ever something else than the old or the new one of
\* the plan being applied, nor will a crash make it so: the same plan can then
\* be resumed, and two plans never mix.  (A command that begins after a failed
\* rollback left a rename unflushed may lose that rename to a power failure.)
NeverMixed ==
    run # None => \A o \in OrgSet :
        /\ active[o] \in {plans[run.plan].old[o], plans[run.plan].new[o]}
        /\ run.clean => sure[o] \in {plans[run.plan].old[o], plans[run.plan].new[o]}

\* A command that reports APPLY_FAILED changed nothing: every organisation has
\* the certificate it had when the command began, also on disk.
FailureRestores ==
    [][ (Fails /\ Report /\ ~run.failed) =>
          active = run.start /\ (run.clean => sure = run.start) ]_vars

\* A command that reports success installed every certificate of the plan,
\* none of them shorter-lived than the one it replaced, and what it installed
\* itself survives a crash.
SuccessInstalls ==
    [][ (Succeeds /\ Report) =>
          \A o \in OrgSet : /\ active[o] = plans[run.plan].new[o]
                            /\ active[o].expires >= run.start[o].expires
                            /\ run.clean => sure[o] = active[o] ]_vars

\* A renewal is whole or undone, through failures and crashes at any point
\* (applyLocalCertificateRenewal).
RenewalWhole == []NeverMixed /\ FailureRestores /\ SuccessInstalls
==============================================================================
