--------------------------- MODULE IndexConnection ---------------------------
(***************************************************************************)
(* The shared connection of the external candidate index                   *)
(* (packages/storage/pgvector-index.ts): its queue, the connection that is *)
(* opened by the first call and shared by the next, the transaction of a   *)
(* search and the single statements of a writer, lost connections, close.  *)
(*                                                                         *)
(* replaceAll runs on a connection of its own and is Replace of module     *)
(* VectorSearch.  A search is told apart by the limit it sets for its      *)
(* transaction, a write by the call that makes it.                         *)
(***************************************************************************)
EXTENDS Integers, Sequences

CONSTANTS
    Searches,   \* calls of candidates
    Writes,     \* calls of upsert, remove and clear
    Closings,   \* calls of close
    MaxOpened,  \* bound: connections ever opened
    None

Calls == Searches \union Writes \union Closings
Connections == 1..MaxOpened

VARIABLES
    at,       \* call -> how far it is
    queue,    \* calls that wait for their turn
    using,    \* call -> the connection it was given, or None
    opening,  \* the shared connection, or None
    conns,    \* connection -> "none", "connecting", "open" or "ended"
    noisy,    \* ended connections that may still emit an error event
    limits,   \* connection -> the search whose limit its transaction has set, or None
    inTx,     \* connection -> a transaction is open
    unsaved,  \* connection -> writes made inside that transaction
    rows,     \* committed writes
    found     \* search -> the search whose limit its rows were read under, or None

calls == <<at, queue, using>>
server == <<limits, inTx, unsaved, rows, found>>
vars == <<calls, opening, conns, noisy, server>>

Started == {c \in Calls : at[c] \notin {"new", "queued", "done", "failed"}}

\* exclusive: a call joins the queue.
Call(c) ==
    /\ at[c] = "new"
    /\ at' = [at EXCEPT ![c] = "queued"] /\ queue' = Append(queue, c)
    /\ UNCHANGED <<using, opening, conns, noisy, server>>

\* Fault: calls overlap on the shared connection.
Whenever == TRUE

\* The call before it has settled, whichever way.
Turn == Started = {}

First == IF queue = <<>> THEN None ELSE Head(queue)
Opened == {n \in Connections : conns[n] # "none"}

\* connect: the first call opens a connection, the next ones share it.
Start(c) ==
    /\ c = First /\ c \notin Closings /\ Turn
    /\ queue' = Tail(queue)
    /\ at' = [at EXCEPT ![c] = "connecting"]
    /\ IF opening # None
       THEN /\ using' = [using EXCEPT ![c] = opening]
            /\ UNCHANGED <<opening, conns>>
       ELSE \E n \in Connections :
              /\ Opened = 1..n - 1 /\ opening' = n
              /\ conns' = [conns EXCEPT ![n] = "connecting"]
              /\ using' = [using EXCEPT ![c] = n]
    /\ UNCHANGED <<noisy, server>>

\* Fault: whatever connection is shared is forgotten.
ForgetAny(n) == None

\* A connection that fails forgets itself, and no other.
Forget(n) == IF opening = n THEN None ELSE opening

\* What was not committed is gone with its connection.
Lost(n) ==
    /\ conns' = [conns EXCEPT ![n] = "ended"]
    /\ inTx' = [inTx EXCEPT ![n] = FALSE] /\ limits' = [limits EXCEPT ![n] = None]
    /\ unsaved' = [unsaved EXCEPT ![n] = {}]
    /\ UNCHANGED <<rows, found>>

Connected(n) ==
    /\ conns[n] = "connecting" /\ conns' = [conns EXCEPT ![n] = "open"]
    /\ UNCHANGED <<calls, opening, noisy, server>>

\* The module is missing or the server refuses; its error event may follow.
ConnectFails(n) ==
    /\ conns[n] = "connecting" /\ Lost(n)
    /\ opening' = Forget(n) /\ noisy' = noisy \union {n}
    /\ UNCHANGED calls

\* The error event of a connection in use, or idle.
Drops(n) ==
    /\ conns[n] = "open" /\ Lost(n)
    /\ opening' = Forget(n) /\ noisy' = noisy \union {n}
    /\ UNCHANGED calls

\* An error event of a connection that was given up already.
LateError(n) ==
    /\ n \in noisy /\ noisy' = noisy \ {n}
    /\ opening' = Forget(n)
    /\ UNCHANGED <<calls, conns, server>>

------------------------------------------------------------------------------
(* Statements.  Each may fail, with its connection or alone. *)

Alive(c) == using[c] # None /\ conns[using[c]] = "open"
Goes(c, from, to) == at[c] = from /\ at' = [at EXCEPT ![c] = to] /\ UNCHANGED <<queue, using>>
Still == UNCHANGED <<opening, conns, noisy>>

\* BEGIN inside another transaction is a warning and changes nothing.
Begin(c) ==
    /\ c \in Searches /\ Alive(c) /\ Goes(c, "connecting", "begun")
    /\ inTx' = [inTx EXCEPT ![using[c]] = TRUE]
    /\ Still /\ UNCHANGED <<limits, unsaved, rows, found>>

SetLimit(c) ==
    /\ Alive(c) /\ Goes(c, "begun", "limited")
    /\ limits' = [limits EXCEPT ![using[c]] = c]
    /\ Still /\ UNCHANGED <<inTx, unsaved, rows, found>>

Select(c) ==
    /\ Alive(c) /\ Goes(c, "limited", "read")
    /\ found' = [found EXCEPT ![c] = limits[using[c]]]
    /\ Still /\ UNCHANGED <<limits, inTx, unsaved, rows>>

\* The transaction ends and with it the settings that were local to it.
EndsTx(n, kept) ==
    /\ inTx' = [inTx EXCEPT ![n] = FALSE] /\ limits' = [limits EXCEPT ![n] = None]
    /\ rows' = rows \union kept /\ unsaved' = [unsaved EXCEPT ![n] = {}]
    /\ UNCHANGED found

Commit(c) ==
    /\ Alive(c) /\ Goes(c, "read", "done")
    /\ EndsTx(using[c], unsaved[using[c]])
    /\ Still

\* A statement of the transaction fails: ROLLBACK, then the error is thrown.
StatementFails(c) ==
    /\ \E s \in {"begun", "limited", "read"} : Goes(c, s, "rollback")
    /\ Still /\ UNCHANGED server

\* A ROLLBACK that fails does so with its connection.
RollBack(c) ==
    /\ Goes(c, "rollback", "failed")
    /\ IF Alive(c) THEN EndsTx(using[c], {}) ELSE UNCHANGED server
    /\ Still

\* The connection, BEGIN or the statement of a write fails; a write whose
\* answer was lost with the connection may be there.
Refused(c) ==
    /\ Goes(c, "connecting", "failed")
    /\ conns[using[c]] \in {"open", "ended"}
    /\ \/ UNCHANGED rows
       \/ c \in Writes /\ conns[using[c]] = "ended" /\ rows' = rows \union {c}
    /\ Still /\ UNCHANGED <<limits, inTx, unsaved, found>>

\* upsert, remove and clear are one statement each.
Write(c) ==
    /\ c \in Writes /\ Alive(c) /\ Goes(c, "connecting", "done")
    /\ IF inTx[using[c]]
       THEN unsaved' = [unsaved EXCEPT ![using[c]] = @ \union {c}] /\ UNCHANGED rows
       ELSE rows' = rows \union {c} /\ UNCHANGED unsaved
    /\ Still /\ UNCHANGED <<limits, inTx, found>>

------------------------------------------------------------------------------
\* close, in a turn of the queue: the connection is forgotten, and ended once it
\* is known to be open.
BeginClose(c) ==
    /\ c = First /\ c \in Closings /\ Turn
    /\ queue' = Tail(queue) /\ opening' = None
    /\ using' = [using EXCEPT ![c] = opening]
    /\ at' = [at EXCEPT ![c] = "closing"]
    /\ UNCHANGED <<conns, noisy, server>>

EndClose(c) ==
    /\ Goes(c, "closing", "done")
    /\ using[c] # None => conns[using[c]] # "connecting"
    /\ IF Alive(c) THEN Lost(using[c]) ELSE UNCHANGED <<conns, server>>
    /\ UNCHANGED <<opening, noisy>>

------------------------------------------------------------------------------
Init ==
    /\ at = [c \in Calls |-> "new"] /\ queue = <<>> /\ using = [c \in Calls |-> None]
    /\ opening = None /\ conns = [n \in Connections |-> "none"] /\ noisy = {}
    /\ limits = [n \in Connections |-> None] /\ inTx = [n \in Connections |-> FALSE]
    /\ unsaved = [n \in Connections |-> {}] /\ rows = {}
    /\ found = [c \in Searches |-> None]

Next ==
    \/ \E c \in Calls : \/ Call(c) \/ Start(c) \/ Refused(c) \/ Write(c)
                        \/ BeginClose(c) \/ EndClose(c)
    \/ \E c \in Searches : \/ Begin(c) \/ SetLimit(c) \/ Select(c) \/ Commit(c)
                           \/ StatementFails(c) \/ RollBack(c)
    \/ \E n \in Connections : Connected(n) \/ ConnectFails(n) \/ Drops(n) \/ LateError(n)

Spec == Init /\ [][Next]_vars

------------------------------------------------------------------------------
(* Properties. *)

\* The rows of a search were read under its own limit, and a write that was
\* acknowledged is not undone by the ROLLBACK of another call.
CallsStayApart ==
    /\ \A c \in Searches : found[c] \in {None, c}
    /\ \A c \in Writes : at[c] = "done" => c \in rows

\* Through failed and dropped connections, late error events and close, an
\* open connection is the shared one or still somebody's, and the shared one
\* is never one that failed.
NoConnectionForgotten ==
    /\ \A n \in Connections : conns[n] \in {"connecting", "open"} =>
         opening = n \/ \E c \in Started : using[c] = n
    /\ opening # None => conns[opening] \in {"connecting", "open"}

\* What a search is answered from: the shared connection keeps the calls apart
\* and is not lost (exclusive, connect, close).
IndexSound == CallsStayApart /\ NoConnectionForgotten
==============================================================================
