------------------------------- MODULE OAuthGrant -------------------------------
(***************************************************************************)
(* The stored grant of a Confluence connection and the processes that take *)
(* access tokens from it (packages/connectors/confluence-oauth.ts).  The   *)
(* provider rotates refresh tokens: using one twice revokes the grant.     *)
(* The secret backend is the deployment's: an atomic compare-and-swap on   *)
(* the version is all that is asked of it.                                 *)
(*                                                                         *)
(* Token n is the pair issued by the n-th rotation; an access token lives  *)
(* until a given time.  A caller may be cancelled, denied, or crash at any *)
(* of its awaits; what it sent by then is not taken back.                  *)
(***************************************************************************)
EXTENDS Integers

CONSTANTS
    Callers,      \* calls of getAccessToken, of any number of processes
    Margin,       \* refreshBeforeMs
    Life,         \* lifetime of an access token
    MaxTime,      \* bound: the clock
    MaxReconnects,\* bound: consents given anew
    None

VARIABLES
    grant,     \* the stored grant: version, state, token, expiry, attempt
    spent,     \* refresh token posted to the provider -> how often
    issued,    \* tokens issued so far
    caller,    \* caller -> its step and what it read
    clock,
    reconnects

vars == <<grant, spent, issued, caller, clock, reconnects>>

Start == [at |-> "start", read |-> None, got |-> None]
Times(t) == IF t \in DOMAIN spent THEN spent[t] ELSE 0
Steps(c, at) == caller' = [caller EXCEPT ![c].at = at]
Gives(c) == caller' = [caller EXCEPT ![c] = [Start EXCEPT !.at = "failed"]]

\* use: load; a refresh in progress is not waited for; a token with enough life
\* left is returned after a second look, an older one is refreshed.
Load(c) ==
    /\ caller[c].at = "start"
    /\ IF grant.state = "refreshing" THEN Gives(c)
       ELSE caller' = [caller EXCEPT ![c].read = grant,
                          ![c].at = IF grant.expires > clock + Margin THEN "use" ELSE "claim"]
    /\ UNCHANGED <<grant, spent, issued, clock, reconnects>>

\* The grant is the one read before the permission was asked again.
StillGranted(c) == grant = caller[c].read /\ caller[c].read.expires > clock

Use(c) ==
    /\ caller[c].at = "use"
    /\ IF StillGranted(c)
       THEN caller' = [caller EXCEPT ![c].at = "done", ![c].got = caller[c].read.token]
       ELSE Gives(c)
    /\ UNCHANGED <<grant, spent, issued, clock, reconnects>>

\* Fault: the mark is written without comparing the version.
Overwrites(version) == TRUE

Unchanged(version) == grant.version = version

\* The intent is stored before the rotating token can be consumed.
Claim(c) ==
    /\ caller[c].at = "claim"
    /\ IF Unchanged(caller[c].read.version)
       THEN /\ grant' = [version |-> caller[c].read.version + 1, state |-> "refreshing", token |-> 0,
                         expires |-> 0, attempt |-> c]
            /\ Steps(c, "own")
       ELSE Gives(c) /\ UNCHANGED grant
    /\ UNCHANGED <<spent, issued, clock, reconnects>>

\* After permission is asked once more: is the mark still this attempt's?
Own(c) ==
    /\ caller[c].at = "own"
    /\ IF grant.state = "refreshing" /\ grant.attempt = c /\ grant.version = caller[c].read.version + 1
       THEN Steps(c, "post") ELSE Gives(c)
    /\ UNCHANGED <<grant, spent, issued, clock, reconnects>>

\* The refresh token is posted; the provider rotates it, or refuses, or its
\* answer is lost.  (started = Date.now() before the request.)
Post(c) ==
    /\ caller[c].at = "post"
    /\ LET t == caller[c].read.token IN
       spent' = [u \in DOMAIN spent \union {t} |-> Times(u) + (IF u = t THEN 1 ELSE 0)]
    /\ \/ /\ issued' = issued + 1
          /\ \/ caller' = [caller EXCEPT ![c].at = "save", ![c].got = [token |-> issued + 1, expires |-> clock + Life]]
             \/ Gives(c)
       \/ Gives(c) /\ UNCHANGED issued
    /\ UNCHANGED <<grant, clock, reconnects>>

Save(c) ==
    /\ caller[c].at = "save"
    /\ IF Unchanged(caller[c].read.version + 1)
       THEN /\ grant' = [version |-> caller[c].read.version + 2, state |-> "ready", token |-> caller[c].got.token,
                         expires |-> caller[c].got.expires, attempt |-> None]
            /\ caller' = [caller EXCEPT ![c].at = "use", ![c].read = grant']
       ELSE Gives(c) /\ UNCHANGED grant
    /\ UNCHANGED <<spent, issued, clock, reconnects>>

\* A denied permission, a timeout, close(), a crash; and the next call.
Stops(c) ==
    /\ caller[c].at \notin {"start", "failed"}
    /\ Gives(c)
    /\ UNCHANGED <<grant, spent, issued, clock, reconnects>>

Calls(c) ==
    /\ caller[c].at = "failed" \/ caller[c].at = "done"
    /\ caller' = [caller EXCEPT ![c] = Start]
    /\ UNCHANGED <<grant, spent, issued, clock, reconnects>>

\* The deployment connects again: a new grant, at a version never used before.
Reconnect ==
    /\ reconnects < MaxReconnects /\ reconnects' = reconnects + 1
    /\ issued' = issued + 1
    /\ grant' = [version |-> grant.version + 1, state |-> "ready", token |-> issued + 1,
                 expires |-> clock + Life, attempt |-> None]
    /\ UNCHANGED <<spent, caller, clock>>

Tick == clock < MaxTime /\ clock' = clock + 1 /\ UNCHANGED <<grant, spent, issued, caller, reconnects>>

Init ==
    /\ grant = [version |-> 1, state |-> "ready", token |-> 1, expires |-> Life, attempt |-> None]
    /\ spent = [t \in {} |-> 0] /\ issued = 1
    /\ caller = [c \in Callers |-> Start]
    /\ clock = 0 /\ reconnects = 0

Next ==
    \/ \E c \in Callers : Load(c) \/ Use(c) \/ Claim(c) \/ Own(c) \/ Post(c) \/ Save(c) \/ Stops(c) \/ Calls(c)
    \/ Reconnect \/ Tick

Spec == Init /\ [][Next]_vars

------------------------------------------------------------------------------
(* Properties. *)

\* No refresh token is posted twice, by two processes or by a retry after a
\* lost answer, a timeout or a crash; and what is stored as ready was never
\* posted, so the grant is not revoked by its own users.
TokensUsedOnce ==
    /\ \A t \in DOMAIN spent : Times(t) <= 1
    /\ grant.state = "ready" => Times(grant.token) = 0
==============================================================================
