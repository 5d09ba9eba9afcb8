-------------------------------- MODULE Outboxes --------------------------------
(***************************************************************************)
(* The two outboxes whose rows are claimed under a lease: review packets   *)
(* sent to another organization, and notices posted to Slack, with the     *)
(* schedules and reminders they are made from.  They share no state, so a  *)
(* behaviour plays one and the other stays in its initial state.           *)
(***************************************************************************)
EXTENDS Integers

CONSTANTS
    Deliveries, Workers, Bindings, MaxAttempts, MaxRetries, MaxCrashes,   \* ReviewDelivery
    Edits, MaxVersion, MaxReminded, MaxClaims, MaxFaults,                 \* ReviewNotices
    None

VARIABLES
    part,
    jobs, inbox, received, binding, worker, calls, requests, replies, retries, crashes,
    schedule, events, reminders, scan, access, configured, notices, limit, claims, sends, shown,
    confirmed, faults

delivery == <<jobs, inbox, received, binding, worker, calls, requests, replies, retries, crashes>>
slack == <<schedule, events, reminders, scan, access, configured, notices, limit, claims, sends,
           shown, confirmed, faults>>
vars == <<part, delivery, slack>>

Delivery == INSTANCE ReviewDelivery

Notices == INSTANCE ReviewNotices WITH
    Operations <- Edits, binding <- configured, jobs <- sends, retries <- confirmed

\* A row of review_deliveries, and one of slack_notices.
Row == [status : Delivery!Statuses, attempts : Nat, total : Nat, due : BOOLEAN, leased : BOOLEAN,
        binding : Bindings, receipt : Nat \union {None}]
NoticeStatuses == {"sending", "retry_wait", "unknown", "blocked", "failed",
                   "provider_accepted", "user_confirmed", "dismissed"}
Notice == [status : NoticeStatuses, token : Nat \union {None}, lapsed : BOOLEAN, binding : Nat,
           attempts : Nat]

\* The placeholder is no row, no number and no delivery.
ASSUME NoneAssumption == None \notin Row \union Notice \union Nat \union Deliveries

ASSUME BoundsAssumption ==
    /\ {MaxAttempts, MaxRetries, MaxCrashes} \subseteq Nat
    /\ {MaxVersion, MaxReminded, MaxClaims, MaxFaults} \subseteq Nat

Init ==
    /\ part \in {"delivery", "notices"}
    /\ Delivery!Init /\ Notices!Init

Next ==
    \/ part = "delivery" /\ Delivery!Next /\ UNCHANGED <<part, slack>>
    \/ part = "notices" /\ Notices!Next /\ UNCHANGED <<part, delivery>>

Spec == Init /\ [][Next]_vars

------------------------------------------------------------------------------
(* Properties. *)

\* A job is what its packets and its claims made of it (settle and claim,
\* review-delivery-store.ts).
JobsSound == Delivery!JobsSound

\* A comment only reaches the destination its author confirmed (deliver).
OnlyConfirmedDestination == Delivery!OnlyConfirmedDestination

\* Late answers of a claim whose lease passed to another change nothing (settle).
LateAnswersChangeNothing == Delivery!LateAnswersChangeNothing

\* No request is sent once the worker gave its call up (deliver).
NoRequestAfterDeadline == Delivery!NoRequestAfterDeadline

\* No edit is lost and no message repeated (write in review-store.ts, claim in
\* slack-notice-store.ts).
NothingTwice == Notices!NothingTwice

\* What leaves is current, and what a notice finally says stays (send in slack.ts,
\* settle and resolve in slack-notice-store.ts).
NoticesTrue == Notices!NoticesTrue
===============================================================================
