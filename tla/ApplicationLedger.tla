--------------------------- MODULE ApplicationLedger ---------------------------
(***************************************************************************)
(* FabricApplicationLedger (packages/fabric/application-ledger.ts): the    *)
(* serial line of commands, the gate to the projection, the refreshes that *)
(* callers share by generation, the timer that gives a refresh up, and     *)
(* close.  What a command does to the channel is in CommandDelivery; here  *)
(* a command is recorded at some height or not.                            *)
(*                                                                         *)
(* A promise chain is a sequence: whoever is first runs, and leaves when   *)
(* it settles.  The timer puts new, empty chains in the place of both; the *)
(* work of the old ones goes on.  A chain is named by the number of resets *)
(* before it.  Blocks are counted; the peer is honest and only grows.      *)
(***************************************************************************)
EXTENDS Integers, Sequences, SequencesExt, FiniteSets

CONSTANTS
    Commands,      \* calls of execute, observeCommand and recoverPending
    Kind,          \* command -> "execute", "observe" or "recover"
    Readers,       \* calls of refresh
    MaxPending,    \* maxPendingCommands (64)
    MaxHeight,     \* blocks of the channel
    MaxResets,     \* times the timer of a refresh fires
    MaxSilent,     \* calls of the peer that never settle
    None

VARIABLES
    height,        \* blocks the peer has
    recorded,      \* command -> height of the block that records it, or None
    projected,     \* blocks of the projection
    available,
    epoch,         \* resets so far: names the current queue and projectionQueue
    line,          \* the queue of every epoch: commands
    gate,          \* the projectionQueue of every epoch: commands and refreshes
    pending,       \* pendingCommands
    generation,    \* refreshGeneration
    calls,         \* what each command is doing
    refreshes,     \* every refreshAt that started work
    inFlight,      \* refreshInFlight, an index of refreshes, or None
    readers,       \* reader -> what it is doing, and the refresh it waits for
    sync,          \* owner -> the catchUp it is in, or None
    silent,        \* calls of the peer that never settle, so far
    closing,       \* how far close has come, and the end of the chain it waits for
    written,       \* height of the peer when the generation was last raised
    floor          \* caller -> height its refresh must reach

channel == <<height, recorded>>
chains == <<epoch, line, gate>>
refreshing == <<generation, refreshes, inFlight, written, floor>>
vars == <<channel, projected, available, chains, pending, refreshing, calls, readers, sync,
          silent, closing>>

RefreshIds == 1..(Cardinality(Commands) + Cardinality(Readers))
Owners == Commands \union RefreshIds
Epochs == 0..MaxResets

Closed == closing.step # "open"

Settled(r) == refreshes[r].promise # "open"

------------------------------------------------------------------------------
(* The two chains. *)

\* The operation of x runs: all before it in its chain have settled.
Runs(chain, x) == chain # <<>> /\ Head(chain) = x

\* Whoever is first has settled and leaves its chain.
Leaves(of, x) == [e \in Epochs |-> IF Runs(of[e], x) THEN Tail(of[e]) ELSE of[e]]

AtGate(o) == [gate EXCEPT ![epoch] = Append(@, o)]

Inside(o) == \E e \in Epochs : Runs(gate[e], o)

\* Fault: a command keeps the gate while it talks to the channel.
KeepsGate(o) == IF o \in Commands THEN gate ELSE Leaves(gate, o)

\* The operation of o in the gate settles.
Passes(o) == Leaves(gate, o)

CountedOut(answer) == pending - 1

\* The promise of c settles: finally lowers the counter, the line moves on.
Settles(c, answer) ==
    /\ calls' = [calls EXCEPT ![c].pc = "done", ![c].answer = answer]
    /\ pending' = CountedOut(answer)
    /\ line' = Leaves(line, c)

GoesTo(c, pc) ==
    /\ calls' = [calls EXCEPT ![c].pc = pc]
    /\ UNCHANGED <<pending, line>>

------------------------------------------------------------------------------
(* Refreshes. *)

\* Fault: any refresh under way is shared.
AnyRefresh(g) == inFlight # None

\* A refresh under way is shared by callers of its generation or an older one.
Joins(g) == inFlight # None /\ refreshes[inFlight].generation >= g

\* refreshAt.  Without a previous refresh the work enters the gate at once.
\* The caller waits for inFlight'.
RefreshAt(g) ==
    IF Joins(g)
    THEN UNCHANGED <<refreshes, inFlight, gate>>
    ELSE LET r == Len(refreshes) + 1 IN
         /\ refreshes' = Append(refreshes,
                [generation |-> g, previous |-> inFlight, promise |-> "open",
                 work |-> IF inFlight = None THEN "gate" ELSE "previous"])
         /\ gate' = IF inFlight = None THEN AtGate(r) ELSE gate
         /\ inFlight' = r

\* previous.catch(() => undefined), then project.
FollowPrevious(r) ==
    /\ r \in DOMAIN refreshes
    /\ refreshes[r].work = "previous" /\ Settled(refreshes[r].previous)
    /\ refreshes' = [refreshes EXCEPT ![r].work = "gate"]
    /\ gate' = AtGate(r)
    /\ UNCHANGED <<channel, projected, available, epoch, line, pending, generation, inFlight,
                   written, floor, calls, readers, sync, silent, closing>>

Timed(r) == TRUE

\* The timer: the refresh is given up and both chains are replaced.
Abandon(r) ==
    /\ r \in DOMAIN refreshes
    /\ ~Settled(r) /\ Timed(r)
    /\ epoch < MaxResets
    /\ available' = FALSE
    /\ inFlight' = IF inFlight = r THEN None ELSE inFlight
    /\ epoch' = epoch + 1
    /\ refreshes' = [refreshes EXCEPT ![r].promise = "abandoned"]
    /\ UNCHANGED <<channel, projected, line, gate, pending, generation, written, floor, calls,
                   readers, sync, silent, closing>>

CallRefresh(d) ==
    /\ readers[d].pc = "idle" /\ ~Closed
    /\ RefreshAt(generation)
    /\ readers' = [readers EXCEPT ![d] = [pc |-> "waiting", refresh |-> inFlight']]
    /\ floor' = [floor EXCEPT ![d] = written]
    /\ UNCHANGED <<channel, projected, available, epoch, line, pending, generation, written,
                   calls, sync, silent, closing>>

RefreshReturns(d) ==
    /\ readers[d].pc = "waiting" /\ Settled(readers[d].refresh)
    /\ readers' = [readers EXCEPT ![d].pc = "done"]
    /\ UNCHANGED <<channel, projected, available, chains, pending, refreshing, calls, sync,
                   silent, closing>>

------------------------------------------------------------------------------
(* catchUp, run by a refresh or by an execute before its preflight. *)

Synchronizes(o) ==
    IF o \in Commands THEN Kind[o] = "execute" /\ calls[o].pc = "gate"
    ELSE o \in DOMAIN refreshes /\ refreshes[o].work = "gate"

\* getTip is sent.
AskTip(o) ==
    /\ Synchronizes(o) /\ Inside(o) /\ sync[o] = None
    /\ sync' = [sync EXCEPT ![o] = [asked |-> height, tip |-> None, next |-> None, mute |-> FALSE]]
    /\ UNCHANGED <<channel, projected, available, chains, pending, refreshing, calls, readers,
                   silent, closing>>

\* committed: the record in the projection.
Recorded(c) == recorded[c] # None /\ recorded[c] <= projected

\* What a command that reads the projection answers; a closed one throws.
Reading(c, otherwise) ==
    IF closing.step = "done" THEN "failed" ELSE IF Recorded(c) THEN "committed" ELSE otherwise

\* execute after its synchronize: a record ends it, or the preflight does.
Preflight(c, outcome) ==
    /\ UNCHANGED <<refreshes, inFlight>>
    /\ CASE outcome = "ok" /\ Recorded(c) -> Settles(c, "committed")
         [] outcome = "ok" /\ ~Recorded(c) -> GoesTo(c, "transport") \/ Settles(c, "refused")
         [] OTHER -> Settles(c, outcome)

\* The work of a refresh settles its promise, unless that was given up.
Refreshed(r, outcome) ==
    /\ refreshes' = [refreshes EXCEPT ![r].work = outcome,
                                      ![r].promise = IF Settled(r) THEN @ ELSE outcome]
    /\ inFlight' = IF inFlight = r THEN None ELSE inFlight
    /\ UNCHANGED <<calls, pending, line>>

\* synchronize settles: "ok", "behind" (retryable) or "invalid" (not).
Synchronized(o, outcome) ==
    /\ available' = (outcome = "ok")
    /\ sync' = [sync EXCEPT ![o] = None]
    /\ gate' = Passes(o)
    /\ IF o \in Commands THEN Preflight(o, outcome) ELSE Refreshed(o, outcome)

Continues(o, next) ==
    /\ sync' = [sync EXCEPT ![o] = next]
    /\ UNCHANGED <<available, gate, refreshes, inFlight, calls, pending, line>>

\* The tip as the peer had it at some moment since it was asked.
TipArrives(o) ==
    /\ sync[o] # None /\ sync[o].tip = None /\ ~sync[o].mute /\ closing.step # "done"
    /\ \E tip \in sync[o].asked..height :
          CASE tip < projected -> Synchronized(o, "behind")
            [] tip = projected -> Synchronized(o, "ok")
            [] OTHER -> Continues(o, [sync[o] EXCEPT !.tip = tip, !.next = projected])
    /\ UNCHANGED <<channel, projected, epoch, generation, written, floor, readers, silent, closing>>

\* A block arrives and is applied; one the projection has is applied again.
\* After the last one the projection must stand where the tip was.
BlockArrives(o) ==
    /\ sync[o] # None /\ sync[o].tip # None /\ ~sync[o].mute /\ closing.step # "done"
    /\ LET next == sync[o].next + 1 IN
       /\ projected' = IF next > projected THEN next ELSE projected
       /\ IF next < sync[o].tip THEN Continues(o, [sync[o] EXCEPT !.next = next])
          ELSE Synchronized(o, IF projected' = sync[o].tip THEN "ok" ELSE "invalid")
    /\ UNCHANGED <<channel, epoch, generation, written, floor, readers, silent, closing>>

\* A call of the peer fails, or catchupTimeoutMs has passed.
PeerFails(o) ==
    /\ sync[o] # None /\ ~sync[o].mute
    /\ Synchronized(o, "behind")
    /\ UNCHANGED <<channel, projected, epoch, generation, written, floor, readers, silent, closing>>

\* A call of the peer never settles.
PeerSilent(o) ==
    /\ sync[o] # None /\ ~sync[o].mute /\ silent < MaxSilent
    /\ silent' = silent + 1
    /\ sync' = [sync EXCEPT ![o].mute = TRUE]
    /\ UNCHANGED <<channel, projected, available, chains, pending, refreshing, calls, readers, closing>>

------------------------------------------------------------------------------
(* Commands. *)

Full == pending >= MaxPending

\* serial.
Call(c) ==
    /\ calls[c].pc = "idle"
    /\ IF Closed \/ Full
       THEN /\ calls' = [calls EXCEPT ![c].pc = "done", ![c].answer = IF Closed THEN "closed" ELSE "busy"]
            /\ UNCHANGED <<pending, line>>
       ELSE /\ calls' = [calls EXCEPT ![c].pc = "queued"]
            /\ pending' = pending + 1
            /\ line' = [line EXCEPT ![epoch] = Append(@, c)]
    /\ UNCHANGED <<channel, projected, available, epoch, gate, refreshing, readers, sync, silent, closing>>

\* The turn of c: recoverPending goes to the transport, the others through the gate.
Begin(c) ==
    /\ calls[c].pc = "queued" /\ \E e \in Epochs : Runs(line[e], c)
    /\ IF Kind[c] = "recover" THEN GoesTo(c, "transport") /\ gate' = gate
       ELSE GoesTo(c, "gate") /\ gate' = AtGate(c)
    /\ UNCHANGED <<channel, projected, available, epoch, refreshing, readers, sync, silent, closing>>

\* observeCommand reads first: ready() throws unless the projection is fresh.
Look(c) ==
    /\ Kind[c] = "observe" /\ calls[c].pc = "gate" /\ Inside(c)
    /\ gate' = Passes(c)
    /\ IF Closed \/ ~available THEN Settles(c, "unavailable")
       ELSE IF Recorded(c) THEN Settles(c, "committed")
       ELSE GoesTo(c, "transport")
    /\ UNCHANGED <<channel, projected, available, epoch, refreshing, readers, sync, silent, closing>>

\* ++refreshGeneration.
Raised ==
    /\ generation' = generation + 1
    /\ written' = height

\* The transport settled, and the refresh of the new generation is awaited.
Sent(c) ==
    /\ calls[c].pc = "transport"
    /\ Raised
    /\ RefreshAt(generation + 1)
    /\ calls' = [calls EXCEPT ![c].pc = "refresh", ![c].refresh = inFlight']
    /\ floor' = [floor EXCEPT ![c] = height]
    /\ UNCHANGED <<channel, projected, available, epoch, line, pending, readers, sync, silent, closing>>

\* The transport throws or says invalid.  An observation has written nothing.
NotSent(c) ==
    /\ calls[c].pc = "transport"
    /\ IF Kind[c] = "observe" THEN UNCHANGED <<generation, written>> ELSE Raised
    /\ Settles(c, "failed")
    /\ UNCHANGED <<channel, projected, available, epoch, gate, refreshes, inFlight, floor,
                   readers, sync, silent, closing>>

\* An observation that did not ask the peer needs no refresh.
Unasked(c) ==
    /\ calls[c].pc = "transport" /\ Kind[c] = "observe"
    /\ GoesTo(c, "conclude")
    /\ gate' = AtGate(c)
    /\ UNCHANGED <<channel, projected, available, epoch, refreshing, readers, sync, silent, closing>>

\* The refresh a command waits for settled.  A write that may have happened
\* answers pending when it cannot be seen; the others report the error.
Resume(c) ==
    /\ calls[c].pc = "refresh" /\ Settled(calls[c].refresh)
    /\ LET outcome == refreshes[calls[c].refresh].promise IN
       IF outcome = "ok" /\ Kind[c] = "observe"
       THEN GoesTo(c, "conclude") /\ gate' = AtGate(c)
       ELSE /\ gate' = gate
            /\ Settles(c, IF outcome = "invalid" THEN "invalid"
                          ELSE IF outcome = "ok"
                               THEN IF Kind[c] = "recover" THEN "recovered" ELSE Reading(c, "pending")
                          ELSE IF Kind[c] = "execute" THEN "pending" ELSE "behind")
    /\ UNCHANGED <<channel, projected, available, epoch, refreshing, readers, sync, silent, closing>>

Conclude(c) ==
    /\ calls[c].pc = "conclude" /\ Inside(c)
    /\ gate' = Passes(c)
    /\ Settles(c, Reading(c, "observed"))
    /\ UNCHANGED <<channel, projected, available, epoch, refreshing, readers, sync, silent, closing>>

------------------------------------------------------------------------------
(* close. *)

End(chain) == IF chain = <<>> THEN None ELSE Last(chain)

\* Fault: close does not wait for the commands.
NoLine == None

LineEnd == End(line[epoch])

Close ==
    /\ ~Closed
    /\ closing' = [step |-> "queue", epoch |-> epoch, after |-> LineEnd]
    /\ UNCHANGED <<channel, projected, available, chains, pending, refreshing, calls, readers, sync, silent>>

\* What close waits for has settled.
Reached ==
    CASE closing.step = "queue" -> closing.after \notin Range(line[closing.epoch])
      [] closing.step \in {"gate", "last"} -> closing.after \notin Range(gate[closing.epoch])
      [] closing.step = "refresh" -> Settled(closing.after)
      [] OTHER -> FALSE

AwaitGate(step) == [step |-> step, epoch |-> epoch, after |-> End(gate[epoch])]

\* The command chain, the gate, the refresh in flight, the gate again; then
\* the routes, the peer and the projection are closed.
CloseGoesOn ==
    /\ Reached
    /\ closing' =
         CASE closing.step = "queue" -> AwaitGate("gate")
           [] closing.step = "gate" /\ inFlight # None -> [step |-> "refresh", epoch |-> epoch, after |-> inFlight]
           [] closing.step = "gate" /\ inFlight = None -> AwaitGate("last")
           [] closing.step = "refresh" -> AwaitGate("last")
           [] OTHER -> [step |-> "done", epoch |-> epoch, after |-> None]
    /\ UNCHANGED <<channel, projected, available, chains, pending, refreshing, calls, readers, sync, silent>>

------------------------------------------------------------------------------
(* The channel. *)

\* A block of the channel; it may record a command that was sent, now or by
\* an earlier attempt.
Grow ==
    /\ height < MaxHeight
    /\ height' = height + 1
    /\ \/ UNCHANGED recorded
       \/ \E c \in Commands :
             /\ recorded[c] = None
             /\ Kind[c] = "execute" => calls[c].pc \in {"transport", "refresh"}
             /\ recorded' = [recorded EXCEPT ![c] = height']
    /\ UNCHANGED <<projected, available, chains, pending, refreshing, calls, readers, sync, silent, closing>>

------------------------------------------------------------------------------

\* The adapter was just made, and nothing called it.
Fresh ==
    /\ height = 1 /\ recorded = [c \in Commands |-> None]
    /\ projected = 0 /\ available = FALSE
    /\ epoch = 0 /\ line = [e \in Epochs |-> <<>>] /\ gate = [e \in Epochs |-> <<>>]
    /\ pending = 0 /\ generation = 0
    /\ refreshes = <<>> /\ inFlight = None
    /\ readers = [d \in Readers |-> [pc |-> "idle", refresh |-> None]]
    /\ sync = [o \in Owners |-> None] /\ silent = 0
    /\ closing = [step |-> "open", epoch |-> 0, after |-> None]
    /\ written = 0 /\ floor = [x \in Commands \union Readers |-> 0]

Init == Fresh /\ calls = [c \in Commands |-> [pc |-> "idle", refresh |-> None, answer |-> None]]

CommandStep(c) ==
    Begin(c) \/ Look(c) \/ Sent(c) \/ NotSent(c) \/ Unasked(c) \/ Resume(c) \/ Conclude(c)

SyncStep(o) == AskTip(o) \/ TipArrives(o) \/ BlockArrives(o) \/ PeerFails(o)

Next ==
    \/ \E c \in Commands : Call(c) \/ CommandStep(c)
    \/ \E o \in Owners : SyncStep(o) \/ PeerSilent(o)
    \/ \E r \in RefreshIds : FollowPrevious(r) \/ Abandon(r)
    \/ \E d \in Readers : CallRefresh(d) \/ RefreshReturns(d)
    \/ Close \/ CloseGoesOn
    \/ Grow

\* Promises that can go on do; a call of the peer that is not silent settles;
\* a timer that is not cleared fires.
Fairness ==
    /\ \A c \in Commands : WF_vars(CommandStep(c))
    /\ \A o \in Owners : WF_vars(SyncStep(o))
    /\ \A r \in RefreshIds : WF_vars(FollowPrevious(r)) /\ WF_vars(Abandon(r))
    /\ \A d \in Readers : WF_vars(RefreshReturns(d))
    /\ WF_vars(CloseGoesOn)

Spec == Init /\ [][Next]_vars

------------------------------------------------------------------------------
(* Properties. *)

\* The shape of the state; the counter keeps the limit of serial.
TypeOK ==
    /\ projected \in 0..height /\ height \in 1..MaxHeight /\ available \in BOOLEAN
    /\ epoch \in Epochs
    /\ \A e \in Epochs : line[e] \in Seq(Commands) /\ gate[e] \in Seq(Owners)
    /\ pending \in 0..MaxPending
    /\ \A c \in Commands :
          calls[c].pc \in {"idle", "queued", "gate", "transport", "refresh", "conclude", "done"}
    /\ Len(refreshes) <= Cardinality(RefreshIds)
    /\ inFlight \in (DOMAIN refreshes) \union {None}
    /\ \A d \in Readers : readers[d].refresh \in DOMAIN refreshes \union {None}

\* pendingCommands counts the promises that have not settled, whatever became
\* of the chains they were in: it goes back to zero.
PendingExact == pending = Cardinality({c \in Commands : calls[c].pc \notin {"idle", "done"}})

\* A caller whose refresh succeeded sees every block that was on the peer when
\* the last write before the call settled: sharing refreshes loses no write.
WritesAreSeen ==
    /\ \A c \in Commands :
          calls[c].pc = "refresh" /\ refreshes[calls[c].refresh].promise = "ok" => projected >= floor[c]
    /\ \A d \in Readers :
          readers[d].pc = "waiting" /\ refreshes[readers[d].refresh].promise = "ok" => projected >= floor[d]

\* "Projection application is a single ordered writer."
SingleWriter == \A o, p \in Owners : sync[o] # None /\ sync[p] # None => o = p

\* While no refresh was given up, an honest peer never yields
\* PROJECTION_INVALID, the error that is not retried.
NoFalseAlarm ==
    epoch = 0 =>
        /\ \A c \in Commands : calls[c].answer # "invalid"
        /\ \A r \in DOMAIN refreshes : refreshes[r].promise # "invalid"

\* While no refresh was given up, the projection, the peer and the routes are
\* closed only after everything that uses them has settled.
QuietClose ==
    epoch = 0 /\ closing.step = "done" =>
        /\ \A o \in Owners : sync[o] = None
        /\ gate[epoch] = <<>> /\ line[epoch] = <<>>
        /\ \A r \in DOMAIN refreshes : Settled(r)

\* As long as the peer settles every call, every command and close settle:
\* commands that hold the line wait for refreshes, refreshes for the gate and
\* for older refreshes.
EverythingSettles ==
    /\ \A c \in Commands : calls[c].pc # "idle" ~> calls[c].pc = "done" \/ silent > 0
    /\ Closed ~> closing.step = "done" \/ silent > 0

\* A caller of refresh gets an answer even while a call of the peer never
\* settles, its own or one of whoever holds the gate before it.
RefreshEnds == \A d \in Readers : readers[d].pc # "idle" ~> readers[d].pc = "done"

\* A refresh that answers tells the truth: "ok" only when every earlier write is
\* visible, "invalid" never about an honest peer (refreshAt, catchUp).
RefreshTells == WritesAreSeen /\ NoFalseAlarm

\* What was admitted is counted and waited for, by its caller and by close
\* (serial, close).
NothingLeftBehind == TypeOK /\ PendingExact /\ QuietClose

\* As long as the peer settles its calls every call settles, and a refresh even
\* when it does not (serial, refreshAt, close).
CallsSettle == EverythingSettles /\ RefreshEnds
====
