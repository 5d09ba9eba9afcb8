---------------------------- MODULE ReviewNotices ----------------------------
(***************************************************************************)
(* Review schedules, deadline reminders and the optional Slack notice of a *)
(* reminder: packages/storage/review-store.ts, generateReviewReminders of  *)
(* apps/api/service.ts, packages/review/reminder-worker.ts and slack.ts,   *)
(* apps/api/slack-notifications.ts, packages/storage/slack-notice-store.ts *)
(*                                                                         *)
(* One revision and one reviewer who is also the Slack recipient.  Time is *)
(* what it decides: whether the deadline passed, whether a lease or a rate *)
(* limit ran out.  A request that repeats an operation id, or names an     *)
(* older version of a notice, changes nothing and is no action; frozen     *)
(* serving and the policy of the target show as refusals that may happen.  *)
(***************************************************************************)
EXTENDS Integers

CONSTANTS
    Operations,   \* operation ids of schedule and completion requests
    MaxVersion,   \* bound: versions of the schedule
    MaxReminded,  \* bound: versions whose deadline is reached while they stand
    MaxClaims,    \* bound: leases ever taken
    MaxFaults,    \* bound: retries a person confirms, crashes, cancelled runs
                  \* and changes of configuration, together
    None

Phases == {"due", "overdue"}
Reminders == (1..MaxReminded) \X Phases

VARIABLES
    schedule,   \* review_schedules: version, deadline, whether assigned and completed
    events,     \* review_events: operation id -> the version it wrote, or None
    reminders,  \* review_reminders: reminder -> "none", "unread" or "read"
    scan,       \* the candidate generateReviewReminders is working on, or None
    access,     \* the recipient is a human identity of the configuration
    binding,    \* hash of the configured recipient, address and app URL
    notices,    \* slack_notices: reminder -> row or None
    limit,      \* slack_notice_limits: Team after a rate limit, the claim whose
                \* lease limits the DM, or None when all of it passed
    claims,     \* leases taken so far; the last one's token
    jobs,       \* sends in progress, a posted one with the reply it will get
    shown,      \* reminder -> messages the recipient received
    retries,    \* reminder -> retries a person confirmed, duplicate risk included
    faults

reviews == <<schedule, events, reminders, scan>>
told == <<shown, retries>>
vars == <<reviews, access, binding, notices, limit, claims, jobs, told, faults>>
outside == <<access, binding, notices, limit, claims, jobs, told, faults>>

Final == {"provider_accepted", "user_confirmed", "dismissed"}
NeedsPerson == {"unknown", "blocked", "failed"}
MaxTries == 3
Team == MaxClaims + 1

Trouble == faults < MaxFaults /\ faults' = faults + 1

------------------------------------------------------------------------------
(* Schedules and reminders. *)

\* The CAS of ReviewStore.write: the stored schedule has the version the
\* request names.
Current(expected) == schedule.version = expected

\* ReviewStore.write: for a new operation, event, schedule and assignees in one
\* transaction.
Write(op, expected, next) ==
    /\ events[op] = None /\ expected < MaxVersion
    /\ Current(expected)
    /\ schedule' = [next EXCEPT !.version = expected + 1]
    /\ events' = [events EXCEPT ![op] = expected + 1]
    /\ UNCHANGED <<reminders, scan, outside>>

\* scheduleReview: against the version the editor saw.
ScheduleReview(op, expected, deadline, assigned) ==
    Write(op, expected, [schedule EXCEPT !.deadline = deadline, !.assigned = assigned,
                                         !.completed = FALSE])

\* completeReview: by an assignee, not twice before the next deadline, which a
\* repeated schedule has and another has not.
CompleteReview(op, expected, next) ==
    /\ schedule.assigned
    /\ schedule.completed => schedule.deadline \in Phases
    /\ next = "later" => schedule.deadline # "none"
    /\ Write(op, expected, [schedule EXCEPT !.completed = TRUE, !.deadline = next])

DeadlinePasses ==
    /\ schedule.deadline \in {"later", "due"} /\ schedule.version <= MaxReminded
    /\ schedule' = [schedule EXCEPT !.deadline = IF @ = "later" THEN "due" ELSE "overdue"]
    /\ UNCHANGED <<events, reminders, scan, outside>>

Superseded(r) == r[2] = "due" /\ reminders[<<r[1], "overdue">>] # "none"

\* What the assignee is to be reminded of now.
Candidate == <<schedule.version, schedule.deadline>>

\* reminderCandidates: unless that reminder, or the overdue one, exists.
FindCandidate ==
    /\ scan = None /\ schedule.assigned /\ schedule.deadline \in Phases
    /\ reminders[Candidate] = "none" /\ ~Superseded(Candidate)
    /\ scan' = Candidate
    /\ UNCHANGED <<schedule, events, reminders, outside>>

\* recordReminder: the ledger was refreshed meanwhile, so the candidate is
\* compared with the schedule of now.  A run that was cancelled, or finds the
\* recipient gone or serving frozen, drops it.
RecordReminder ==
    /\ scan # None /\ scan' = None
    /\ \/ /\ access
          /\ schedule.version = scan[1] /\ schedule.deadline \in Phases /\ schedule.assigned
          /\ ~Superseded(scan)
          /\ reminders' = [reminders EXCEPT ![scan] = IF @ = "none" THEN "unread" ELSE @]
       \/ UNCHANGED reminders
    /\ UNCHANGED <<schedule, events, outside>>

\* reminderPredicate: the reminder is of the schedule as it stands.
OfSchedule(r) == schedule.version = r[1] /\ schedule.assigned /\ schedule.deadline \in Phases

ReadReminder(r) ==
    /\ reminders[r] = "unread" /\ OfSchedule(r)
    /\ reminders' = [reminders EXCEPT ![r] = "read"]
    /\ UNCHANGED <<schedule, events, scan, outside>>

\* outboundReminder: still worth telling anybody outside.
Outbound(r) == reminders[r] = "unread" /\ OfSchedule(r) /\ ~Superseded(r)

------------------------------------------------------------------------------
(* Claiming a notice. *)

\* Nothing was tried yet, or a person or a harmless failure made it due again.
Claimable(r) ==
    \/ notices[r] = None
    \/ /\ notices[r] # None
       /\ notices[r].status = "retry_wait" /\ notices[r].binding = binding
       /\ notices[r].attempts < MaxTries

Expired(r) == notices[r] # None /\ notices[r].status = "sending" /\ notices[r].lapsed

\* One run of the worker at a time looks at the reminders; a cancelled one
\* may still have a send to settle.
Idle == \A j \in jobs : j.cancelled

\* claim: an expired lease is never sent again by itself.
Claim(r) ==
    /\ Idle /\ Outbound(r) /\ access
    /\ \/ /\ Expired(r)
          /\ notices' = [notices EXCEPT ![r].status = "unknown", ![r].token = None]
          /\ UNCHANGED <<limit, claims, jobs>>
       \/ /\ Claimable(r) /\ limit = None
          /\ claims < MaxClaims /\ claims' = claims + 1
          /\ notices' = [notices EXCEPT ![r] =
               [status |-> "sending", token |-> claims', lapsed |-> FALSE, binding |-> binding,
                attempts |-> IF notices[r] = None THEN 1 ELSE notices[r].attempts + 1]]
          /\ limit' = claims'
          /\ jobs' = jobs \union {[reminder |-> r, token |-> claims', at |-> "claimed",
                                   reply |-> None, cancelled |-> FALSE]}
    /\ UNCHANGED <<reviews, access, binding, told, faults>>

Owns(j) ==
    LET n == notices[j.reminder] IN
    n.status = "sending" /\ n.token = j.token /\ ~n.lapsed

LeaseExpires(r) ==
    /\ notices[r] # None /\ notices[r].status = "sending" /\ ~notices[r].lapsed
    /\ notices' = [notices EXCEPT ![r].lapsed = TRUE]
    /\ UNCHANGED <<reviews, access, binding, limit, claims, jobs, told, faults>>

\* The DM's limit outlives the lease it was set for.
LimitPasses ==
    /\ limit # None /\ limit' = None
    /\ \A r \in Reminders :
         (notices[r] # None /\ notices[r].token = limit) => notices[r].lapsed
    /\ UNCHANGED <<reviews, access, binding, notices, claims, jobs, told, faults>>

------------------------------------------------------------------------------
(* Sending. *)

\* settle: the result of job j, unless its lease went to somebody else.  The
\* limit of the DM is lifted only if it is still this job's.
Settle(j, status, limited) ==
    LET n == notices[j.reminder]
        spent == status = "retry_wait" /\ n.attempts >= MaxTries
    IN
    /\ jobs' = jobs \ {j}
    /\ IF n.status = "sending" /\ n.token = j.token
       THEN /\ notices' = [notices EXCEPT ![j.reminder].token = None,
                             ![j.reminder].status = IF spent THEN "failed" ELSE status]
            /\ limit' = IF limited THEN Team ELSE IF limit = j.token THEN None ELSE limit
       ELSE UNCHANGED <<notices, limit>>

\* Fault: a call that got no answer is tried again.
RetryUncertain(j) == "retry_wait"

\* What an abort, an error or an unreadable answer means for the notice.
Uncertain(j) == IF j.at = "posted" THEN "unknown" ELSE "retry_wait"

Moved(j, at) == jobs' = (jobs \ {j}) \union {[j EXCEPT !.at = at]}

\* auth.test and conversations.open, which only ask.
Ask(j) ==
    /\ j.at = "claimed" /\ ~j.cancelled
    /\ \/ access /\ Outbound(j.reminder) /\ Owns(j) /\ Moved(j, "opened") /\ UNCHANGED <<notices, limit>>
       \/ Settle(j, "retry_wait", TRUE)
       \/ Settle(j, Uncertain(j), FALSE)
       \/ Settle(j, "blocked", FALSE)
    /\ UNCHANGED <<reviews, access, binding, claims, told, faults>>

\* The first half of beforeSend: refresh, serving, identity, reminder and the
\* target's policy, with a wait after each.
Vet(j) ==
    /\ j.at = "opened" /\ ~j.cancelled
    /\ \/ access /\ Outbound(j.reminder) /\ Moved(j, "vetted") /\ UNCHANGED <<notices, limit>>
       \/ Settle(j, "blocked", FALSE)
    /\ UNCHANGED <<reviews, access, binding, claims, told, faults>>

\* Fault: what was true before the waits is not looked at again.
NoSecondLook(j) == TRUE

\* The last, synchronous half of beforeSend.
StillWanted(j) == access /\ Outbound(j.reminder) /\ Owns(j)

\* Slack shows the message or refuses it; its internal error leaves that open.
\* It may do so later, which changes nothing the adapter can see.
Replies(isShown) == IF isShown THEN {"ok", "internal_error"}
                    ELSE {"limited", "denied", "internal_error"}

Post(j) ==
    /\ j.at = "vetted" /\ ~j.cancelled
    /\ IF StillWanted(j)
       THEN /\ \E isShown \in BOOLEAN : \E reply \in Replies(isShown) :
                 /\ jobs' = (jobs \ {j}) \union {[j EXCEPT !.at = "posted", !.reply = reply]}
                 /\ shown' = [shown EXCEPT ![j.reminder] = IF isShown THEN @ + 1 ELSE @]
            /\ UNCHANGED <<notices, limit>>
       ELSE Settle(j, "blocked", FALSE) /\ UNCHANGED shown
    /\ UNCHANGED <<reviews, access, binding, claims, retries, faults>>

\* The answer arrives in time, or the adapter's timer ends the wait.
Finish(j) ==
    /\ j.at = "posted" /\ ~j.cancelled
    /\ \/ j.reply = "ok" /\ Settle(j, "provider_accepted", FALSE)
       \/ j.reply = "limited" /\ (Settle(j, "retry_wait", TRUE) \/ Settle(j, "blocked", FALSE))
       \/ j.reply = "denied" /\ Settle(j, "blocked", FALSE)
       \/ Settle(j, Uncertain(j), FALSE)
    /\ UNCHANGED <<reviews, access, binding, claims, told, faults>>

\* The worker's timer, or close(): the run ends at once and a new one may
\* begin before the adapter's abort has settled the notice.
CancelRun(j) ==
    /\ ~j.cancelled /\ Trouble
    /\ jobs' = (jobs \ {j}) \union {[j EXCEPT !.cancelled = TRUE]}
    /\ UNCHANGED <<reviews, access, binding, notices, limit, claims, told>>

SettleCancelled(j) ==
    /\ j.cancelled
    /\ Settle(j, Uncertain(j), FALSE)
    /\ UNCHANGED <<reviews, access, binding, claims, told, faults>>

------------------------------------------------------------------------------
(* People and operations. *)

\* The status resolve sees: a lease that ran out counts as unknown, a notice
\* for a target that is no longer configured as blocked.
Effective(r) ==
    IF Expired(r) THEN "unknown"
    ELSE IF notices[r].status = "retry_wait" /\ notices[r].binding # binding THEN "blocked"
    ELSE notices[r].status

Resolve(r, outcome) ==
    /\ access /\ notices[r] # None
    /\ Effective(r) \in NeedsPerson
    /\ \/ /\ outcome = "retry" /\ Outbound(r) /\ notices[r].binding = binding
          /\ Trouble
          /\ retries' = [retries EXCEPT ![r] = @ + 1]
          /\ notices' = [notices EXCEPT ![r].status = "retry_wait", ![r].attempts = 0,
                                        ![r].token = None]
       \/ /\ outcome \in {"user_confirmed", "dismissed"}
          /\ notices' = [notices EXCEPT ![r].status = outcome, ![r].token = None]
          /\ UNCHANGED <<retries, faults>>
    /\ UNCHANGED <<reviews, access, binding, limit, claims, jobs, shown>>

\* A new configuration removes the recipient's identity, or restores it.
AccessChanges ==
    /\ Trouble
    /\ access' = ~access
    /\ UNCHANGED <<reviews, binding, notices, limit, claims, jobs, told>>

\* The process dies and comes back, perhaps with another Slack target.
Restart ==
    /\ Trouble
    /\ jobs' = {} /\ scan' = None
    /\ binding' \in {binding, binding + 1}
    /\ UNCHANGED <<schedule, events, reminders, access, notices, limit, claims, told>>

------------------------------------------------------------------------------
Init ==
    /\ schedule = [version |-> 0, deadline |-> "none", assigned |-> FALSE, completed |-> FALSE]
    /\ events = [op \in Operations |-> None]
    /\ reminders = [r \in Reminders |-> "none"] /\ scan = None
    /\ access = TRUE /\ binding = 0
    /\ notices = [r \in Reminders |-> None]
    /\ limit = None /\ claims = 0 /\ jobs = {}
    /\ shown = [r \in Reminders |-> 0] /\ retries = [r \in Reminders |-> 0]
    /\ faults = 0

Next ==
    \/ \E op \in Operations, v \in 0..MaxVersion, deadline \in {"none", "later"} :
          \/ \E assigned \in BOOLEAN : ScheduleReview(op, v, deadline, assigned)
          \/ CompleteReview(op, v, deadline)
    \/ DeadlinePasses \/ FindCandidate \/ RecordReminder
    \/ \E r \in Reminders : ReadReminder(r) \/ Claim(r) \/ LeaseExpires(r)
    \/ LimitPasses
    \/ \E j \in jobs : Ask(j) \/ Vet(j) \/ Post(j) \/ Finish(j) \/ CancelRun(j) \/ SettleCancelled(j)
    \/ \E r \in Reminders, outcome \in {"retry", "user_confirmed", "dismissed"} : Resolve(r, outcome)
    \/ AccessChanges \/ Restart

Spec == Init /\ [][Next]_vars

------------------------------------------------------------------------------
(* Properties. *)

\* Nobody is told twice without a person having accepted that risk: crashes,
\* timeouts, lost answers and rate limits never make the worker repeat a
\* message that may have been shown.
NoSilentDuplicate == \A r \in Reminders : shown[r] <= 1 + retries[r]

\* A message leaves only for a reminder that is unread, of the schedule as it
\* stands and not replaced by the overdue one, to a recipient still entitled,
\* by the holder of the lease, however long the checks before it waited.
PostedWhileCurrent ==
    [][ \A j \in jobs' : (j.at = "posted" /\ ~ \E i \in jobs : i.token = j.token /\ i.at = "posted")
          => access /\ Outbound(j.reminder) /\ Owns(j) ]_vars

\* What a notice finally says is true and stays: acceptance means the message
\* was shown, and neither a late answer nor another run overturns it or what
\* a person decided.
ResolutionsStand ==
    /\ [](\A r \in Reminders :
            (notices[r] # None /\ notices[r].status = "provider_accepted") => shown[r] > 0)
    /\ [][ \A r \in Reminders :
             (notices[r] # None /\ notices[r].status \in Final)
               => notices'[r].status = notices[r].status ]_vars

\* No edit of a schedule is lost: every version was written by exactly one
\* operation, however many editors worked from the same version.
EachVersionOneEvent ==
    \A v \in 1..schedule.version : \E op \in Operations : {o \in Operations : events[o] = v} = {op}

\* What people wrote or were shown is counted exactly: no edit is lost, no message
\* repeated (write in review-store.ts, claim in slack-notice-store.ts).
NothingTwice == NoSilentDuplicate /\ EachVersionOneEvent

\* What leaves is current, and what a notice finally says stays (send in slack.ts,
\* settle and resolve in slack-notice-store.ts).
NoticesTrue == PostedWhileCurrent /\ ResolutionsStand
==============================================================================
