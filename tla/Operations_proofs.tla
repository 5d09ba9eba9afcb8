--------------------------- MODULE Operations_proofs ---------------------------
(***************************************************************************)
(* The operations beside the service, proved of any number of callers,     *)
(* backups, certificates and synchronisations.  Of each part an inductive  *)
(* invariant is shown to hold of the union of the parts: a step of another *)
(* part leaves its variables alone.                                        *)
(***************************************************************************)
EXTENDS Operations, TLAPS

------------------------------------------------------------------------------
(* The grant of a connector. *)

GrantRecord == [version : Int, state : {"ready", "refreshing"}, token : Int, expires : Int,
                attempt : Callers \union {None}]
CallSteps == {"start", "use", "claim", "own", "post", "save", "done", "failed"}

Tokens == Int \union {None} \union [token : Int, expires : Int]

GrantTyped ==
    /\ issued \in Int /\ clock \in Int
    /\ grant \in GrantRecord
    /\ caller \in [Callers -> [at : CallSteps, read : GrantRecord \union {None}, got : Tokens]]
    /\ \A c \in Callers :
          /\ caller[c].at \in {"use", "claim", "own", "post", "save"} => caller[c].read \in GrantRecord
          /\ caller[c].at = "save" => caller[c].got \in [token : Int, expires : Int]
    /\ spent \in [DOMAIN spent -> Int]

\* The caller has a refresh token that nobody else has: the one it took out of
\* the grant, or the one the provider gave it for that.
Holds(c) == caller[c].at \in {"own", "post", "save"}
InHand(c) == IF caller[c].at = "save" THEN caller[c].got.token ELSE caller[c].read.token

\* Never posted, and not to be taken out of the grant by another.
Fresh(t) == t <= issued /\ t \notin DOMAIN spent

GrantInv ==
    /\ GrantTyped
    /\ \A t \in DOMAIN spent : t \in Int /\ t <= issued /\ spent[t] = 1
    /\ grant.state = "ready" => Fresh(grant.token)
    \* who still sees the version it read sees the grant it read
    /\ \A c \in Callers : caller[c].at = "claim" =>
          /\ caller[c].read.version <= grant.version
          /\ caller[c].read.version = grant.version => grant.state = "ready" /\ grant.token = caller[c].read.token
    /\ \A c \in Callers : Holds(c) =>
          /\ Fresh(InHand(c))
          /\ grant.state = "ready" => InHand(c) # grant.token
    /\ \A c, d \in Callers : Holds(c) /\ Holds(d) /\ c # d => InHand(c) # InHand(d)

\* A step of a call that got something keeps its record a record.
LEMMA CallTyped ==
  ASSUME NEW A, NEW R, NEW G, NEW f \in [Callers -> [at : A, read : R, got : G]],
         NEW h, NEW c \in Callers, NEW a \in A, NEW g \in G,
         h = [f EXCEPT ![c].at = a, ![c].got = g]
  PROVE  h \in [Callers -> [at : A, read : R, got : G]]
  OBVIOUS

\* The grant begins with a token nobody has used.
LEMMA GrantInit == Init => GrantInv
  BY GrantAssumption DEF Init, Grants!Init, Grants!Start, GrantInv, GrantTyped, GrantRecord, Tokens, CallSteps, Fresh, Holds

\* What a call of getAccessToken does keeps every refresh token in one hand.
LEMMA GrantStep == GrantInv /\ Grants!Next => GrantInv'
<1> SUFFICES ASSUME GrantInv, Grants!Next PROVE GrantInv'
  OBVIOUS
<1> USE DEF GrantInv, GrantTyped, GrantRecord, CallSteps, Fresh, Holds, InHand
<1>c. ASSUME NEW c \in Callers,
             \/ Grants!Load(c) \/ Grants!Use(c) \/ Grants!Claim(c) \/ Grants!Own(c)
             \/ Grants!Post(c) \/ Grants!Save(c) \/ Grants!Stops(c) \/ Grants!Calls(c)
      PROVE  GrantInv'
  <2>1. CASE Grants!Load(c)
    <3>1. CASE grant.state = "refreshing"
      BY <2>1, <3>1 DEF Grants!Load, Grants!Gives, Grants!Start, Tokens
    <3>2. CASE grant.state = "ready"
      <4>1. PICK at \in {"use", "claim"} : caller' = [caller EXCEPT ![c].read = grant, ![c].at = at]
        BY <2>1, <3>2 DEF Grants!Load
      <4>2. /\ caller'[c].at = at /\ caller'[c].read = grant /\ caller'[c].got = caller[c].got
            /\ \A d \in Callers \ {c} : caller'[d] = caller[d]
        BY <4>1
      <4>3. GrantTyped'
        BY <2>1, <4>1, <4>2 DEF Grants!Load
      <4> QED BY <2>1, <3>2, <4>2, <4>3 DEF Grants!Load
    <3> QED BY <3>1, <3>2
  <2>2. CASE Grants!Use(c)
    <3>1. CASE Grants!StillGranted(c)
      <4>1. caller' = [caller EXCEPT ![c].at = "done", ![c].got = caller[c].read.token]
        BY <2>2, <3>1 DEF Grants!Use
      <4>2. /\ caller'[c].at = "done" /\ caller'[c].read = caller[c].read
            /\ caller'[c].got = caller[c].read.token /\ caller[c].read \in GrantRecord
            /\ \A d \in Callers \ {c} : caller'[d] = caller[d]
        BY <2>2, <4>1 DEF Grants!Use
      <4>3. caller[c].read.token \in Int
        BY <4>2
      <4>3b. caller[c].read.token \in Tokens
        BY <4>3 DEF Tokens
      <4>4. caller' \in [Callers -> [at : CallSteps, read : GrantRecord \union {None}, got : Tokens]]
        <5> DEFINE R == GrantRecord \union {None}
        <5>1. caller \in [Callers -> [at : CallSteps, read : R, got : Tokens]] /\ "done" \in CallSteps
          OBVIOUS
        <5> HIDE DEF R
        <5>2. caller' \in [Callers -> [at : CallSteps, read : R, got : Tokens]]
          BY <4>1, <4>3b, <5>1, CallTyped
        <5> QED BY <5>2 DEF R
      <4> QED BY <2>2, <4>2, <4>4, SMTT(40) DEF Grants!Use
    <3>2. CASE ~Grants!StillGranted(c)
      BY <2>2, <3>2 DEF Grants!Use, Grants!Gives, Grants!Start, Tokens
    <3> QED BY <3>1, <3>2
  <2>3. CASE Grants!Claim(c)
    BY <2>3 DEF Grants!Claim, Grants!Gives, Grants!Start, Tokens, Grants!Unchanged, Grants!Steps
  <2>4. CASE Grants!Own(c)
    BY <2>4 DEF Grants!Own, Grants!Gives, Grants!Start, Tokens, Grants!Steps
  <2>5. CASE Grants!Post(c)
    <3> DEFINE t == caller[c].read.token
               rotated == [token |-> issued + 1, expires |-> clock + Life]
    <3>1. t \in Int /\ Fresh(t) /\ (grant.state = "ready" => t # grant.token)
      BY <2>5 DEF Grants!Post
    <3>2. \A d \in Callers \ {c} : Holds(d) => InHand(d) # t
      BY <2>5 DEF Grants!Post
    <3>3. /\ DOMAIN spent' = DOMAIN spent \union {t}
          /\ \A u \in DOMAIN spent' : spent'[u] = 1
          /\ spent' \in [DOMAIN spent' -> Int]
      BY <2>5, <3>1 DEF Grants!Post, Grants!Times
    <3>4. UNCHANGED <<grant, clock>> /\ issued' \in Int /\ issued' >= issued
      BY <2>5 DEF Grants!Post
    <3>5. CASE Grants!Gives(c)
      BY <3>1, <3>2, <3>3, <3>4, <3>5 DEF Grants!Gives, Grants!Start, Tokens
    <3>6. CASE /\ issued' = issued + 1
               /\ caller' = [caller EXCEPT ![c].at = "save", ![c].got = rotated]
      <4>1. /\ caller'[c].at = "save" /\ caller'[c].read = caller[c].read /\ caller'[c].got = rotated
            /\ caller[c].read \in GrantRecord
            /\ \A d \in Callers \ {c} : caller'[d] = caller[d]
        BY <2>5, <3>6 DEF Grants!Post
      <4>2. rotated \in [token : Int, expires : Int]
        BY GrantAssumption
      <4>2b. rotated \in Tokens
        BY <4>2 DEF Tokens
      <4>3. caller' \in [Callers -> [at : CallSteps, read : GrantRecord \union {None}, got : Tokens]]
        <5> DEFINE R == GrantRecord \union {None}
        <5>1. caller \in [Callers -> [at : CallSteps, read : R, got : Tokens]] /\ "save" \in CallSteps
          OBVIOUS
        <5> HIDE DEF R, rotated
        <5>2. caller' \in [Callers -> [at : CallSteps, read : R, got : Tokens]]
          BY <3>6, <4>2b, <5>1, CallTyped
        <5> QED BY <5>2 DEF R
      <4>4. GrantTyped'
        BY <3>3, <3>4, <4>1, <4>2, <4>3
      <4>5. rotated.token = issued + 1
        OBVIOUS
      <4>6. issued' = issued + 1
        BY <3>6
      <4> HIDE DEF rotated
      <4>7. /\ grant'.state = "ready" => Fresh(grant.token)'
            /\ \A d \in Callers : caller'[d].at = "claim" =>
                 /\ caller'[d].read.version <= grant'.version
                 /\ caller'[d].read.version = grant'.version =>
                      grant'.state = "ready" /\ grant'.token = caller'[d].read.token
        BY <3>1, <3>3, <3>4, <4>1, <4>6
      <4>8. \A d \in Callers : Holds(d)' =>
                 /\ Fresh(InHand(d))'
                 /\ grant'.state = "ready" => InHand(d)' # grant'.token
        BY <3>1, <3>2, <3>3, <3>4, <4>1, <4>5, <4>6
      <4>9. \A d, e \in Callers : Holds(d)' /\ Holds(e)' /\ d # e => InHand(d)' # InHand(e)'
        BY <4>1, <4>5, <4>6
      <4> QED BY <3>1, <3>3, <3>4, <4>4, <4>6, <4>7, <4>8, <4>9
    <3> QED BY <2>5, <3>5, <3>6 DEF Grants!Post
  <2>6. CASE Grants!Save(c)
    BY <2>6 DEF Grants!Save, Grants!Gives, Grants!Start, Tokens, Grants!Unchanged
  <2>7. CASE Grants!Stops(c)
    BY <2>7 DEF Grants!Stops, Grants!Gives, Grants!Start, Tokens
  <2>8. CASE Grants!Calls(c)
    BY <2>8 DEF Grants!Calls, Grants!Start, Tokens
  <2> QED BY <1>c, <2>1, <2>2, <2>3, <2>4, <2>5, <2>6, <2>7, <2>8
<1>r. CASE Grants!Reconnect
  BY <1>r, GrantAssumption DEF Grants!Reconnect
<1>t. CASE Grants!Tick
  BY <1>t DEF Grants!Tick
<1> QED BY <1>c, <1>r, <1>t DEF Grants!Next

\* The other parts do not touch the grant.
LEMMA GrantInductive == GrantInv /\ [Next]_vars => GrantInv'
<1> SUFFICES ASSUME GrantInv, [Next]_vars PROVE GrantInv'
  OBVIOUS
<1>1. CASE UNCHANGED grants
  BY <1>1 DEF grants, GrantInv, GrantTyped, GrantRecord, Fresh, Holds, InHand
<1> QED BY <1>1, GrantStep DEF Next, vars

\* No refresh token is posted twice (getAccessToken): whoever has one has taken
\* it out of the grant, and the version it compared is never seen again.
THEOREM TokensOnce == Spec => []TokensUsedOnce
<1>1. GrantInv => TokensUsedOnce
  BY DEF GrantInv, Fresh, TokensUsedOnce, Grants!TokensUsedOnce, Grants!Times
<1> QED BY <1>1, GrantInit, GrantInductive, PTL DEF Spec

------------------------------------------------------------------------------
(* Attested signing. *)

Line == [kind : {"attested", "signing", "refused", "failed", "torn"},
         op : Ops \union {None}, att : Ops \union {None}]
Request == [op : Ops, att : Ops \union {None}, pc : {"sent", "signing", "ok", "rejected"},
            listening : BOOLEAN]
Progress == {"new", "queued", "installed", "signing", "signed", "succeeded", "failed"}

SigningTyped ==
    /\ owner \in Nat \union {None}
    /\ slot \in Ops \union {None}
    /\ ops \in [Ops -> [client : Nat, pc : Progress, carried : Ops \union {None}]]
    /\ connected \in Nat
    /\ wired \in BOOLEAN
    /\ requests \subseteq Request

\* A log that can be read, flushed up to n, whose evidence is of the calls signed.
LogStands(l, n) ==
    /\ l \in Seq(Line)
    /\ n \in 0..Len(l)
    /\ \A i \in 1..(Len(l) - 1) : l[i] # Signing!TornLine
    /\ \A i \in 1..Len(l) : l[i].kind = "attested" => l[i].att = l[i].op

Flying(o) == ops[o].pc \in {"installed", "signing", "signed"}

\* Calls sign one at a time, and only those of the client that owns the context.
OneFlies ==
    /\ \A o \in Ops : Flying(o) => ops[o].client = owner /\ owner # None
    /\ \A o, p \in Ops : Flying(o) /\ Flying(p) => o = p

\* The slot holds the attestation of the call that flies, until the signer of
\* the connection, if it reads the slot at all, has taken it.
SlotTells ==
    /\ slot # None => Flying(slot)
    /\ \A o \in Ops : Flying(o) => (slot = o <=> (ops[o].pc = "installed" \/ ~wired))
    /\ \A o \in Ops : ops[o].pc \in {"signing", "signed"} => ops[o].carried = IF wired THEN o ELSE None

EvidenceOf(o) == [kind |-> "attested", op |-> o, att |-> o]
Evidenced(o) == \E i \in 1..flushed : log[i] = EvidenceOf(o)

\* Answers and successes of attested calls are told by what is on disk.
ToldOnDisk ==
    /\ \A r \in requests : /\ r.att = IF wired THEN r.op ELSE None
                           /\ r.pc = "ok" /\ wired => Evidenced(r.op)
    /\ \A o \in Ops : ops[o].pc = "signed" /\ wired => Evidenced(o)
    /\ \A o \in Ops : ops[o].pc = "succeeded" => Evidenced(o)

SigningInv == SigningTyped /\ LogStands(log, flushed) /\ OneFlies /\ SlotTells /\ ToldOnDisk

\* Nothing that was on disk is lost.
Kept ==
    /\ flushed \in Nat /\ flushed' \in Nat /\ flushed <= flushed'
    /\ \A i \in 1..flushed : log'[i] = log[i]

\* What is on disk stays there.
LEMMA EvidenceKept == ASSUME Kept, NEW o, Evidenced(o) PROVE Evidenced(o)'
  BY DEF Kept, Evidenced

\* A line is added to a log that is not torn.
LEMMA AppendStands ==
  ASSUME NEW l, NEW n, NEW rec \in Line, LogStands(l, n), ~Signing!IsTorn(l),
         rec.kind = "attested" => rec.att = rec.op
  PROVE  /\ LogStands(Append(l, rec), n) /\ LogStands(Append(l, rec), Len(l) + 1)
         /\ Len(Append(l, rec)) = Len(l) + 1
         /\ Append(l, rec)[Len(l) + 1] = rec
         /\ \A i \in 1..Len(l) : Append(l, rec)[i] = l[i]
<1> DEFINE m == Append(l, rec)
<1>1. /\ l \in Seq(Line) /\ m \in Seq(Line) /\ Len(l) \in Nat /\ Len(m) = Len(l) + 1
      /\ m[Len(l) + 1] = rec /\ \A i \in 1..Len(l) : m[i] = l[i]
  BY DEF LogStands
<1> HIDE DEF m
<1>2. \A i \in 1..(Len(m) - 1) : m[i] # Signing!TornLine
  BY <1>1 DEF LogStands, Signing!IsTorn
<1>3. \A i \in 1..Len(m) : m[i].kind = "attested" => m[i].att = m[i].op
  BY <1>1 DEF LogStands
<1>4. LogStands(m, n) /\ LogStands(m, Len(l) + 1)
  BY <1>1, <1>2, <1>3 DEF LogStands
<1> QED BY <1>1, <1>4 DEF m

\* A record that was written and flushed (audit.record) is on disk, and what
\* was there still is.
LEMMA RecordedStands ==
  ASSUME LogStands(log, flushed), NEW rec \in Line, Signing!Recorded(rec),
         rec.kind = "attested" => rec.att = rec.op
  PROVE  LogStands(log, flushed)' /\ Kept /\ \E i \in 1..flushed' : log'[i] = rec
<1>1. ~Signing!IsTorn(log) /\ log' = Append(log, rec) /\ flushed' = Len(log')
  BY DEF Signing!Recorded, Signing!CanAppend
<1>2. /\ LogStands(Append(log, rec), Len(log) + 1)
      /\ Len(Append(log, rec)) = Len(log) + 1
      /\ Append(log, rec)[Len(log) + 1] = rec
      /\ \A i \in 1..Len(log) : Append(log, rec)[i] = log[i]
  BY <1>1, AppendStands
<1>3. /\ flushed \in 0..Len(log) /\ Len(log) \in Nat /\ flushed' = Len(log) + 1
      /\ log'[Len(log) + 1] = rec /\ \A i \in 1..Len(log) : log'[i] = log[i]
  BY <1>1, <1>2 DEF LogStands
<1>4. LogStands(log, flushed)'
  BY <1>1, <1>2, <1>3
<1>5. Kept
  BY <1>3 DEF Kept
<1>6. \E i \in 1..flushed' : log'[i] = rec
  BY <1>3
<1> QED BY <1>4, <1>5, <1>6

\* The torn line and the records of requests are lines; only one kind attests.
LEMMA Records ==
  ASSUME NEW r \in Request, r.att \in {None, r.op}, NEW what \in {"attested", "signing", "refused", "failed"},
         what = "attested" => r.att # None
  PROVE  /\ Signing!Record(what, r) \in Line
         /\ Signing!Record(what, r).kind = "attested" =>
              Signing!Record(what, r).att = Signing!Record(what, r).op
         /\ Signing!Record(what, r) # Signing!TornLine
         /\ Signing!TornLine \in Line /\ Signing!TornLine.kind # "attested"
  BY DEF Request, Line, Signing!Record, Signing!TornLine

\* Whatever becomes of an append, the log stays readable and grows at most.
LEMMA AfterStands ==
  ASSUME NEW l, NEW n, LogStands(l, n), NEW rec \in Line, rec.kind = "attested" => rec.att = rec.op,
         NEW m \in Signing!After(l, rec)
  PROVE  LogStands(m, n) /\ Len(m) >= Len(l) /\ \A i \in 1..Len(l) : m[i] = l[i]
<1>1. Len(l) \in Nat
  BY DEF LogStands
<1>2. CASE m = l
  BY <1>1, <1>2
<1>3. CASE ~Signing!IsTorn(l) /\ m = Append(l, rec)
  BY <1>1, <1>3, AppendStands
<1>4. CASE ~Signing!IsTorn(l) /\ m = Append(l, Signing!TornLine)
  <2>1. Signing!TornLine \in Line /\ Signing!TornLine.kind # "attested"
    BY DEF Line, Signing!TornLine
  <2> QED BY <1>1, <1>4, <2>1, AppendStands
<1> QED BY <1>2, <1>3, <1>4 DEF Signing!After, Signing!CanAppend

\* A failed append, and the note of it, leave what was on disk.
LEMMA FailedStands ==
  ASSUME LogStands(log, flushed), NEW r \in Request, r.att \in {None, r.op},
         NEW rec \in Line, rec.kind = "attested" => rec.att = rec.op, Signing!RecordingFails(rec, r)
  PROVE  LogStands(log, flushed)' /\ Kept
<1>1. PICK l \in Signing!After(log, rec) : log' \in Signing!After(l, Signing!Record("failed", r))
  BY DEF Signing!RecordingFails
<1>2. LogStands(l, flushed) /\ Len(l) >= Len(log) /\ \A i \in 1..Len(log) : l[i] = log[i]
  BY <1>1, AfterStands
<1>3. /\ Signing!Record("failed", r) \in Line
      /\ Signing!Record("failed", r).kind # "attested"
  BY DEF Request, Line, Signing!Record
<1>4. LogStands(log', flushed) /\ Len(log') >= Len(l) /\ \A i \in 1..Len(l) : log'[i] = l[i]
  BY <1>1, <1>2, <1>3, AfterStands
<1>5. flushed' = flushed
  BY DEF Signing!RecordingFails
<1>6. flushed \in 0..Len(log) /\ Len(log) \in Nat /\ Len(l) \in Nat
  BY <1>2 DEF LogStands
<1>7. Kept
  BY <1>2, <1>4, <1>5, <1>6 DEF Kept
<1>8. LogStands(log, flushed)'
  BY <1>4, <1>5
<1> QED BY <1>7, <1>8

\* A crash keeps what was flushed.
LEMMA CrashStands ==
  ASSUME LogStands(log, flushed), NEW n \in flushed..Len(log), log' = SubSeq(log, 1, n), flushed' = n
  PROVE  LogStands(log, flushed)' /\ Kept
<1>1. /\ log \in Seq(Line) /\ Len(log) \in Nat /\ flushed \in 0..Len(log) /\ n \in 0..Len(log)
      /\ flushed <= n
  BY DEF LogStands
<1>2. log' \in Seq(Line) /\ Len(log') = n /\ \A i \in 1..n : log'[i] = log[i]
  BY <1>1
<1>3. LogStands(log', n)
  BY <1>1, <1>2 DEF LogStands
<1> QED BY <1>1, <1>2, <1>3 DEF Kept

\* Nothing is signed before a call is made.
LEMMA SigningInit == Init => SigningInv
  BY SigningAssumption DEF Init, Signing!Init, SigningInv, SigningTyped, Request, Progress, LogStands,
     OneFlies, SlotTells, ToldOnDisk, Flying

\* What a call that ends leaves behind: the slot without its attestation.
LEMMA CallEnds ==
  ASSUME SigningInv, NEW o \in Ops, NEW outcome \in {"succeeded", "failed"}, Signing!Ends(o, outcome),
         Flying(o), outcome = "succeeded" => Evidenced(o),
         requests' \subseteq Request,
         \A r \in requests' : \E q \in requests : q.op = r.op /\ q.att = r.att /\ q.pc = r.pc,
         UNCHANGED <<Signing!setup, Signing!audit>>
  PROVE  SigningInv'
<1> USE DEF SigningInv
<1>1. SigningTyped'
  BY DEF SigningTyped, Signing!Ends, Progress, Signing!setup
<1>2. /\ ops'[o].pc = outcome /\ ~Flying(o)'
      /\ \A p \in Ops \ {o} : ops'[p] = ops[p]
      /\ slot' = IF slot = o THEN None ELSE slot
      /\ UNCHANGED <<owner, wired, log, flushed>>
  BY DEF SigningTyped, Signing!Ends, Flying, Signing!setup, Signing!audit
<1>3. OneFlies'
  BY <1>2 DEF OneFlies, Flying
<1>4. SlotTells'
  BY <1>2, SigningAssumption DEF SigningTyped, SlotTells, OneFlies, Flying
<1>5. ToldOnDisk'
  BY <1>2 DEF ToldOnDisk, Evidenced
<1>6. LogStands(log, flushed)'
  BY <1>2
<1> QED BY <1>1, <1>3, <1>4, <1>5, <1>6

\* What a service does to requests and log is told by four facts.
LEMMA ServiceSteps ==
  ASSUME SigningInv, UNCHANGED <<Signing!client, Signing!setup>>, LogStands(log, flushed)', Kept,
         requests' \subseteq Request,
         \A r \in requests' : \E q \in requests :
            /\ q.op = r.op /\ q.att = r.att
            /\ r.pc = "ok" => q.pc = "ok" \/ (wired => Evidenced(r.op)')
  PROVE  SigningInv'
<1>1. UNCHANGED <<owner, slot, ops, wired, connected>>
  BY DEF Signing!client, Signing!setup
<1>2. SigningTyped' /\ OneFlies' /\ SlotTells'
  BY <1>1 DEF SigningInv, SigningTyped, OneFlies, SlotTells, Flying
<1>3. \A o : Evidenced(o) => Evidenced(o)'
  BY EvidenceKept
<1>4. ASSUME NEW r \in requests'
      PROVE  r.att = (IF wired THEN r.op ELSE None) /\ (r.pc = "ok" /\ wired => Evidenced(r.op)')
  <2>1. PICK q \in requests : /\ q.op = r.op /\ q.att = r.att
                              /\ r.pc = "ok" => q.pc = "ok" \/ (wired => Evidenced(r.op)')
    BY <1>4
  <2> QED BY <2>1, <1>3 DEF SigningInv, ToldOnDisk
<1>5. ToldOnDisk'
  BY <1>1, <1>3, <1>4 DEF SigningInv, ToldOnDisk
<1> QED BY <1>2, <1>5 DEF SigningInv

\* The serializer keeps one call in flight, with its own attestation.
LEMMA SerializerSteps ==
  ASSUME SigningInv,
         \/ Signing!Connect
         \/ \E c \in 1..connected : Signing!Release(c) \/ \E o \in Ops : Signing!Call(o, c)
         \/ \E o \in Ops : Signing!Start(o)
  PROVE  SigningInv'
<1> USE DEF SigningInv, Evidenced
<1>1. UNCHANGED <<requests, log, flushed, wired>>
  BY DEF Signing!Connect, Signing!Release, Signing!Call, Signing!Start, Signing!atService, Signing!setup, Signing!audit
<1>2. CASE Signing!Connect
  <2>1. owner = None /\ owner' \in Nat /\ connected' \in Nat /\ UNCHANGED <<slot, ops>>
    BY <1>2 DEF SigningTyped, Signing!Connect
  <2>2. \A o \in Ops : ~Flying(o) /\ ~Flying(o)'
    BY <2>1 DEF OneFlies, Flying
  <2> QED BY <1>1, <2>1, <2>2 DEF SigningTyped, OneFlies, SlotTells, ToldOnDisk, Flying
<1>3. ASSUME NEW c \in 1..connected, Signing!Release(c) PROVE SigningInv'
  <2>1. \A o \in Ops : ~Flying(o) /\ ~Flying(o)'
    BY <1>3, SigningAssumption DEF SigningTyped, OneFlies, Flying, Signing!Release, Signing!InFlight, Signing!Owned
  <2>2. owner' = None /\ slot' = None /\ UNCHANGED <<ops, connected>>
    BY <1>3 DEF Signing!Release
  <2> QED BY <1>1, <2>1, <2>2 DEF SigningTyped, OneFlies, SlotTells, ToldOnDisk, Flying
<1>4. ASSUME NEW c \in 1..connected, NEW o \in Ops, Signing!Call(o, c) PROVE SigningInv'
  <2>1. PICK pc \in {"queued", "failed"} : ops' = [ops EXCEPT ![o].client = c, ![o].pc = pc]
    BY <1>4 DEF Signing!Call
  <2>2. UNCHANGED <<owner, slot, connected>> /\ ops[o].pc = "new" /\ c \in Nat
    BY <1>4 DEF Signing!Call, SigningTyped
  <2>3. /\ ops' \in [Ops -> [client : Nat, pc : Progress, carried : Ops \union {None}]]
        /\ ops'[o].pc = pc /\ \A p \in Ops \ {o} : ops'[p] = ops[p]
    BY <2>1, <2>2 DEF SigningTyped, Progress
  <2>4. \A p \in Ops : Flying(p)' <=> Flying(p)
    BY <2>2, <2>3 DEF Flying
  <2>5. OneFlies' /\ SlotTells'
    BY <1>1, <2>2, <2>3, <2>4 DEF SigningTyped, OneFlies, SlotTells, Flying
  <2> QED BY <1>1, <2>2, <2>3, <2>5 DEF SigningTyped, ToldOnDisk
<1>5. ASSUME NEW o \in Ops, Signing!Start(o) PROVE SigningInv'
  <2>1. UNCHANGED <<owner, connected>> /\ Signing!InFlight(ops[o].client) = {}
    BY <1>5 DEF Signing!Start, Signing!Turn
  <2>2. CASE owner = ops[o].client
    <3>1. ops' = [ops EXCEPT ![o].pc = "installed"] /\ slot' = o
      BY <1>5, <2>2 DEF Signing!Start
    <3>2. \A p \in Ops : ~Flying(p)
      BY <2>1, <2>2 DEF OneFlies, Flying, Signing!InFlight
    <3>3. /\ ops'[o].pc = "installed" /\ ops'[o].client = ops[o].client
          /\ \A p \in Ops \ {o} : ops'[p] = ops[p]
          /\ ops' \in [Ops -> [client : Nat, pc : Progress, carried : Ops \union {None}]]
          /\ ops[o].client \in Nat
      BY <3>1 DEF SigningTyped, Progress
    <3>4. \A p \in Ops : Flying(p)' <=> p = o
      BY <3>2, <3>3 DEF Flying
    <3>5. OneFlies'
      BY <2>1, <2>2, <3>3, <3>4, SigningAssumption DEF OneFlies
    <3>6. SlotTells'
      BY <1>1, <3>1, <3>3, <3>4 DEF SlotTells, Flying
    <3> QED BY <1>1, <2>1, <3>1, <3>3, <3>5, <3>6 DEF SigningTyped, ToldOnDisk
  <2>3. CASE owner # ops[o].client
    <3>1. ops' = [ops EXCEPT ![o].pc = "failed"] /\ slot' = slot
      BY <1>5, <2>3 DEF Signing!Start
    <3>2. ~Flying(o)
      BY <2>3 DEF OneFlies
    <3>3. /\ ops'[o].pc = "failed" /\ \A p \in Ops \ {o} : ops'[p] = ops[p]
          /\ ops' \in [Ops -> [client : Nat, pc : Progress, carried : Ops \union {None}]]
      BY <3>1 DEF SigningTyped, Progress
    <3>4. \A p \in Ops : Flying(p)' <=> Flying(p)
      BY <3>2, <3>3 DEF Flying
    <3>5. OneFlies' /\ SlotTells'
      BY <1>1, <2>1, <3>1, <3>2, <3>3, <3>4 DEF OneFlies, SlotTells, Flying
    <3> QED BY <1>1, <2>1, <3>1, <3>3, <3>5 DEF SigningTyped, ToldOnDisk
  <2> QED BY <2>2, <2>3
<1> QED BY <1>2, <1>3, <1>4, <1>5

\* A signed call carries the attestation it put into the slot, or none.
LEMMA SignSteps ==
  ASSUME SigningInv, NEW o \in Ops, Signing!Sign(o)
  PROVE  SigningInv'
<1> DEFINE taken == IF wired THEN slot ELSE None
           asked == [op |-> o, att |-> taken, pc |-> "sent", listening |-> TRUE]
<1> USE DEF SigningInv
<1>1. /\ ops[o].pc = "installed" /\ slot = o
      /\ slot' = IF wired THEN None ELSE slot
      /\ ops' = [ops EXCEPT ![o].pc = "signing", ![o].carried = taken]
      /\ UNCHANGED <<owner, connected, wired, log, flushed>>
  BY DEF Signing!Sign, SlotTells, Flying, Signing!setup, Signing!audit
<1>2. taken = (IF wired THEN o ELSE None) /\ taken \in Ops \union {None}
  BY <1>1
<1>3. requests' \subseteq requests \union {asked}
  BY DEF Signing!Sign
<1>4. asked \in Request
  BY <1>2 DEF Request
<1> HIDE DEF taken
<1>5. /\ ops' \in [Ops -> [client : Nat, pc : Progress, carried : Ops \union {None}]]
      /\ ops'[o].pc = "signing" /\ ops'[o].carried = taken /\ ops'[o].client = ops[o].client
      /\ \A p \in Ops \ {o} : ops'[p] = ops[p]
  BY <1>1, <1>2 DEF SigningTyped, Progress
<1>6. \A p \in Ops : (Flying(p)' <=> Flying(p)) /\ (Flying(p) <=> p = o)
  BY <1>1, <1>5 DEF Flying, OneFlies
<1>7. SigningTyped'
  BY <1>1, <1>3, <1>4, <1>5 DEF SigningTyped
<1>8. OneFlies'
  BY <1>1, <1>5, <1>6 DEF OneFlies
<1>9. SlotTells'
  BY <1>1, <1>2, <1>5, <1>6, SigningAssumption DEF SlotTells, Flying
<1>10. ToldOnDisk'
  BY <1>1, <1>2, <1>3, <1>5 DEF ToldOnDisk, Evidenced
<1> QED BY <1>1, <1>7, <1>8, <1>9, <1>10

\* A call is answered for what is on disk; the others end it.
LEMMA AnswerSteps ==
  ASSUME SigningInv, NEW o \in Ops,
         \/ Signing!FailEarly(o) \/ Signing!Answered(o) \/ Signing!TimesOut(o)
         \/ Signing!Disconnected(o) \/ Signing!Finish(o)
  PROVE  SigningInv'
<1>1. CASE Signing!FailEarly(o)
  <2>1. Flying(o) /\ Signing!Ends(o, "failed") /\ UNCHANGED <<requests, Signing!setup, Signing!audit>>
    BY <1>1 DEF Signing!FailEarly, Flying, Signing!atService
  <2> QED BY <2>1, CallEnds DEF SigningInv, SigningTyped
<1>2. CASE Signing!Answered(o)
  <2>1. PICK r \in requests :
           /\ r.op = o /\ requests' = requests \ {r}
           /\ \/ /\ r.pc = "ok" /\ ops' = [ops EXCEPT ![o].pc = "signed"]
                 /\ UNCHANGED <<owner, connected, slot, queue>>
              \/ Signing!Ends(o, "failed")
    BY <1>2 DEF Signing!Answered, Signing!Asked
  <2>2. ops[o].pc = "signing" /\ Flying(o) /\ UNCHANGED <<Signing!setup, Signing!audit>>
    BY <1>2 DEF Signing!Answered, Flying
  <2>3. CASE Signing!Ends(o, "failed")
    BY <2>1, <2>2, <2>3, CallEnds DEF SigningInv, SigningTyped
  <2>4. CASE /\ r.pc = "ok" /\ ops' = [ops EXCEPT ![o].pc = "signed"]
             /\ UNCHANGED <<owner, connected, slot, queue>>
    <3> USE DEF SigningInv
    <3>1. /\ ops' \in [Ops -> [client : Nat, pc : Progress, carried : Ops \union {None}]]
          /\ ops'[o].pc = "signed" /\ ops'[o].client = ops[o].client /\ ops'[o].carried = ops[o].carried
          /\ \A p \in Ops \ {o} : ops'[p] = ops[p]
      BY <2>4 DEF SigningTyped, Progress
    <3>2. wired => Evidenced(o)
      BY <2>1, <2>4 DEF ToldOnDisk
    <3>3. \A p \in Ops : Flying(p)' <=> Flying(p)
      BY <2>2, <3>1 DEF Flying
    <3>4. UNCHANGED <<wired, log, flushed>>
      BY <2>2 DEF Signing!setup, Signing!audit
    <3>5. SigningTyped'
      BY <2>1, <2>4, <3>1, <3>4 DEF SigningTyped
    <3>6. OneFlies'
      BY <2>4, <3>1, <3>3 DEF OneFlies
    <3>7. SlotTells'
      BY <2>2, <2>4, <3>1, <3>3, <3>4 DEF SigningTyped, SlotTells, Flying
    <3>8. ToldOnDisk'
      BY <2>1, <3>1, <3>2, <3>4 DEF ToldOnDisk, Evidenced
    <3> QED BY <3>4, <3>5, <3>6, <3>7, <3>8
  <2> QED BY <2>1, <2>3, <2>4
<1>3. CASE Signing!TimesOut(o)
  <2>1. Flying(o) /\ Signing!Ends(o, "failed") /\ UNCHANGED <<Signing!setup, Signing!audit>>
    BY <1>3 DEF Signing!TimesOut, Flying
  <2>2. requests' = {IF r.op = o THEN [r EXCEPT !.listening = FALSE] ELSE r : r \in requests}
    BY <1>3 DEF Signing!TimesOut
  <2>3. \A r \in requests' : r \in Request /\ \E q \in requests : q.op = r.op /\ q.att = r.att /\ q.pc = r.pc
    <3>1. \A q \in requests : /\ q \in Request
                              /\ [q EXCEPT !.listening = FALSE] \in Request
                              /\ [q EXCEPT !.listening = FALSE].op = q.op
                              /\ [q EXCEPT !.listening = FALSE].att = q.att
                              /\ [q EXCEPT !.listening = FALSE].pc = q.pc
      BY DEF SigningInv, SigningTyped, Request
    <3> QED BY <2>2, <3>1, ZenonT(40)
  <2> QED BY <2>1, <2>3, CallEnds
<1>4. CASE Signing!Disconnected(o)
  <2>1. Flying(o) /\ Signing!Ends(o, "failed") /\ UNCHANGED <<requests, Signing!setup, Signing!audit>>
    BY <1>4 DEF Signing!Disconnected, Flying, Signing!atService
  <2> QED BY <2>1, CallEnds DEF SigningInv, SigningTyped
<1>5. CASE Signing!Finish(o)
  <2>1. /\ ops[o].pc = "signed" /\ UNCHANGED <<requests, Signing!setup, Signing!audit>>
        /\ \/ Signing!Ends(o, "failed")
           \/ Signing!Ends(o, "succeeded") /\ slot # o
    BY <1>5 DEF Signing!Finish, Signing!Consumed, Signing!atService
  <2>2. Flying(o)
    BY <2>1 DEF Flying
  <2>3. CASE Signing!Ends(o, "failed")
    BY <2>1, <2>2, <2>3, CallEnds DEF SigningInv, SigningTyped
  <2>4. CASE Signing!Ends(o, "succeeded") /\ slot # o
    <3>1. Evidenced(o)
      BY <2>1, <2>2, <2>4 DEF SigningInv, SlotTells, ToldOnDisk
    <3> QED BY <2>1, <2>2, <2>4, <3>1, CallEnds DEF SigningInv, SigningTyped
  <2> QED BY <2>1, <2>3, <2>4
<1> QED BY <1>1, <1>2, <1>3, <1>4, <1>5

\* A request is refused or answered only with what its attestation was.
LEMMA RefusalSteps ==
  ASSUME SigningInv, NEW r \in requests, NEW what \in {"refused", "failed"},
         Signing!Refuses(r, Signing!Record(what, r)), UNCHANGED <<Signing!client, Signing!setup>>
  PROVE  SigningInv'
<1> DEFINE rec == Signing!Record(what, r)
<1>1. r \in Request /\ r.att \in {None, r.op} /\ LogStands(log, flushed)
  BY DEF SigningInv, SigningTyped, ToldOnDisk
<1>2. rec \in Line /\ (rec.kind = "attested" => rec.att = rec.op)
  BY <1>1, Records
<1> HIDE DEF rec
<1>3. Signing!Recorded(rec) \/ Signing!RecordingFails(rec, r)
  BY DEF Signing!Refuses, rec
<1>4. LogStands(log, flushed)' /\ Kept
  BY <1>1, <1>2, <1>3, RecordedStands, FailedStands
<1>5. requests' = (requests \ {r}) \union (IF r.listening THEN {[r EXCEPT !.pc = "rejected"]} ELSE {})
  BY DEF Signing!Refuses, Signing!Moves
<1>6. [r EXCEPT !.pc = "rejected"] \in Request /\ [r EXCEPT !.pc = "rejected"].op = r.op
      /\ [r EXCEPT !.pc = "rejected"].att = r.att /\ [r EXCEPT !.pc = "rejected"].pc = "rejected"
  BY <1>1 DEF Request
<1>7. requests \subseteq Request
  BY DEF SigningInv, SigningTyped
<1>8. requests' \subseteq Request
  BY <1>5, <1>6, <1>7
<1>9. \A q \in requests' : \E s \in requests : s.op = q.op /\ s.att = q.att /\ (q.pc = "ok" => s.pc = "ok")
  BY <1>5, <1>6
<1> QED BY <1>4, <1>8, <1>9, ServiceSteps

\* The record of a signature is on disk before its answer leaves.
LEMMA AcknowledgeSteps ==
  ASSUME SigningInv, NEW r \in requests, Signing!Acknowledge(r), UNCHANGED <<Signing!client, Signing!setup>>
  PROVE  SigningInv'
<1> DEFINE rec == Signing!Signed(r)
<1>1. r \in Request /\ r.att = (IF wired THEN r.op ELSE None) /\ LogStands(log, flushed)
  BY DEF SigningInv, SigningTyped, ToldOnDisk
<1>2. rec \in Line /\ (rec.kind = "attested" => rec.att = rec.op)
  BY <1>1, Records DEF Signing!Signed
<1>3. r.att # None => rec = EvidenceOf(r.op)
  BY <1>1 DEF Signing!Signed, Signing!Record, EvidenceOf
<1>4. r.op \in Ops
  BY <1>1 DEF Request
<1> HIDE DEF rec
<1>5. PICK pc \in {"ok", "rejected"} :
         /\ Signing!Moves(r, pc)
         /\ \/ pc = "ok" /\ Signing!Recorded(rec)
            \/ pc = "rejected" /\ Signing!RecordingFails(rec, r)
  BY DEF Signing!Acknowledge, rec
<1>6. LogStands(log, flushed)' /\ Kept
  BY <1>1, <1>2, <1>5, RecordedStands, FailedStands
<1>7. pc = "ok" => \E i \in 1..flushed' : log'[i] = rec
  BY <1>1, <1>2, <1>5, RecordedStands
<1>8. pc = "ok" /\ wired => Evidenced(r.op)'
  BY <1>1, <1>3, <1>4, <1>7, SigningAssumption DEF Evidenced
<1>9. requests' = (requests \ {r}) \union (IF r.listening THEN {[r EXCEPT !.pc = pc]} ELSE {})
  BY <1>5 DEF Signing!Moves
<1>10. [r EXCEPT !.pc = pc] \in Request /\ [r EXCEPT !.pc = pc].op = r.op
       /\ [r EXCEPT !.pc = pc].att = r.att /\ [r EXCEPT !.pc = pc].pc = pc
  BY <1>1 DEF Request
<1>11. requests \subseteq Request
  BY DEF SigningInv, SigningTyped
<1>12. requests' \subseteq Request
  BY <1>9, <1>10, <1>11
<1>13. \A q \in requests' : \E s \in requests :
          /\ s.op = q.op /\ s.att = q.att
          /\ q.pc = "ok" => s.pc = "ok" \/ (wired => Evidenced(q.op)')
  BY <1>8, <1>9, <1>10
<1> QED BY <1>6, <1>12, <1>13, ServiceSteps

\* The service: its handlers, its shutdown, its crashes.
LEMMA HandlerSteps ==
  ASSUME SigningInv, NEW r \in requests, Signing!Receive(r) \/ Signing!SignaturesSettle(r)
  PROVE  SigningInv'
<1>1. UNCHANGED <<Signing!client, Signing!setup>>
  BY DEF Signing!Receive, Signing!SignaturesSettle
<1>2. CASE \E what \in {"refused", "failed"} : Signing!Refuses(r, Signing!Record(what, r))
  BY <1>1, <1>2, RefusalSteps
<1>3. CASE Signing!Acknowledge(r)
  BY <1>1, <1>3, AcknowledgeSteps
<1>4. CASE /\ \E pc \in {"rejected", "signing"} : requests' \subseteq (requests \ {r}) \union {[r EXCEPT !.pc = pc]}
           /\ UNCHANGED Signing!audit
  <2>1. PICK pc \in {"rejected", "signing"} : requests' \subseteq (requests \ {r}) \union {[r EXCEPT !.pc = pc]}
    BY <1>4
  <2>2. r \in Request /\ requests \subseteq Request
    BY DEF SigningInv, SigningTyped
  <2>3. [r EXCEPT !.pc = pc] \in Request /\ [r EXCEPT !.pc = pc].op = r.op
        /\ [r EXCEPT !.pc = pc].att = r.att /\ [r EXCEPT !.pc = pc].pc = pc
    BY <2>2 DEF Request
  <2>4. \A q \in requests' : \E s \in requests : s.op = q.op /\ s.att = q.att /\ (q.pc = "ok" => s.pc = "ok")
    BY <2>1, <2>3
  <2>5. UNCHANGED <<log, flushed>>
    BY <1>4 DEF Signing!audit
  <2>6. LogStands(log, flushed)' /\ Kept
    BY <2>5 DEF SigningInv, LogStands, Kept
  <2>7. requests' \subseteq Request
    BY <2>1, <2>2, <2>3
  <2> QED BY <1>1, <2>4, <2>6, <2>7, ServiceSteps
<1>5. CASE Signing!Receive(r)
  <2>1. \/ Signing!Moves(r, "rejected") /\ UNCHANGED Signing!audit
        \/ Signing!Refuses(r, Signing!Record("refused", r))
        \/ requests' = (requests \ {r}) \union {[r EXCEPT !.pc = "signing"]} /\ UNCHANGED Signing!audit
    BY <1>5 DEF Signing!Receive
  <2> QED BY <2>1, <1>2, <1>4 DEF Signing!Moves
<1>6. CASE Signing!SignaturesSettle(r)
  BY <1>2, <1>3, <1>6 DEF Signing!SignaturesSettle
<1> QED BY <1>5, <1>6

\* The service is closed, crashes, starts again; a certificate expires.
LEMMA LifeSteps ==
  ASSUME SigningInv,
         Signing!Close \/ Signing!CloseLog \/ Signing!Crash \/ Signing!Restart \/ Signing!Expires
  PROVE  SigningInv'
<1> USE DEF SigningInv
<1>1. UNCHANGED <<Signing!client, Signing!setup>>
  BY DEF Signing!Close, Signing!CloseLog, Signing!Crash, Signing!Restart, Signing!Expires
<1>2. requests \subseteq Request
  BY DEF SigningTyped
<1>3. /\ requests' \subseteq Request
      /\ \A q \in requests' : \E s \in requests : s.op = q.op /\ s.att = q.att /\ (q.pc = "ok" => s.pc = "ok")
  <2>1. CASE Signing!Close
    <3>1. requests' = {[q EXCEPT !.listening = FALSE] : q \in Signing!Active}
      BY <2>1 DEF Signing!Close
    <3>2. \A q \in Signing!Active : /\ q \in requests /\ [q EXCEPT !.listening = FALSE] \in Request
                                    /\ [q EXCEPT !.listening = FALSE].op = q.op
                                    /\ [q EXCEPT !.listening = FALSE].att = q.att
                                    /\ [q EXCEPT !.listening = FALSE].pc = q.pc
      BY <1>2 DEF Signing!Active, Request
    <3>3. ASSUME NEW q \in requests'
          PROVE  q \in Request /\ \E s \in requests : s.op = q.op /\ s.att = q.att /\ (q.pc = "ok" => s.pc = "ok")
      <4>1. PICK s \in Signing!Active : q = [s EXCEPT !.listening = FALSE]
        BY <3>1, <3>3
      <4> QED BY <3>2, <4>1
    <3> QED BY <3>3
  <2>2. CASE Signing!CloseLog \/ Signing!Expires
    BY <2>2, <1>2 DEF Signing!CloseLog, Signing!Expires
  <2>3. CASE Signing!Crash \/ Signing!Restart
    BY <2>3 DEF Signing!Crash, Signing!Restart
  <2> QED BY <2>1, <2>2, <2>3
<1>4. LogStands(log, flushed)' /\ Kept
  <2>1. CASE Signing!Crash
    BY <2>1, CrashStands DEF Signing!Crash
  <2>2. CASE UNCHANGED <<log, flushed>>
    BY <2>2 DEF LogStands, Kept
  <2> QED BY <2>1, <2>2 DEF Signing!Close, Signing!CloseLog, Signing!Restart, Signing!Expires, Signing!audit
<1> QED BY <1>1, <1>3, <1>4, ServiceSteps

\* The other parts do not sign.
LEMMA SigningInductive == SigningInv /\ [Next]_vars => SigningInv'
<1> SUFFICES ASSUME SigningInv, [Next]_vars PROVE SigningInv'
  OBVIOUS
<1>1. CASE UNCHANGED signing
  BY <1>1 DEF signing, SigningInv, SigningTyped, LogStands, OneFlies, SlotTells, ToldOnDisk, Flying, Evidenced
<1>2. CASE Signing!Next
  BY <1>2, SerializerSteps, SignSteps, AnswerSteps, HandlerSteps, LifeSteps DEF Signing!Next
<1> QED BY <1>1, <1>2 DEF Next, vars

\* The audit log tells of every call that succeeded, of the decision that was
\* signed, and can be read (openAuditLog, createAttestationSerializer): one call
\* of one client is in flight, so the slot never holds another's attestation.
THEOREM AuditKept == Spec => []AuditStands
<1>1. SigningInv => AuditStands
  <2> SUFFICES ASSUME SigningInv PROVE AuditStands
    OBVIOUS
  <2>1. Signing!EvidenceMatches
    BY DEF SigningInv, LogStands, Signing!EvidenceMatches
  <2>2. Signing!SuccessLeavesEvidence
    BY DEF SigningInv, ToldOnDisk, Evidenced, EvidenceOf, Signing!SuccessLeavesEvidence
  <2>3. Signing!LogStaysReadable
    BY DEF SigningInv, LogStands, Signing!LogStaysReadable
  <2> QED BY <2>1, <2>2, <2>3 DEF AuditStands, Signing!AuditStands
<1> QED BY <1>1, SigningInit, SigningInductive, PTL DEF Spec

------------------------------------------------------------------------------
(* The renewal of certificates. *)

Certificates == [Renewal!OrgSet -> [expires : Int, plan : Int]]
Plan == [old : Certificates, new : Certificates, status : {"prepared", "applied"}]
Run == [plan : Int, start : Certificates, clean : BOOLEAN, changed : Seq(Renewal!OrgSet), failed : BOOLEAN,
        at : {"install", "flush", "rollback", "done"}, todo : SUBSET Renewal!OrgSet]

RenewalTyped ==
    /\ now \in Int
    /\ active \in Certificates /\ sure \in Certificates
    /\ plans \in Seq(Plan)
    /\ \A i \in 1..Len(plans), o \in Renewal!OrgSet : plans[i].old[o].expires < plans[i].new[o].expires
    /\ run # None => run \in Run /\ run.plan \in 1..Len(plans)

Old(o) == plans[run.plan].old[o]
New(o) == plans[run.plan].new[o]
Changed(o) == \E i \in 1..Len(run.changed) : run.changed[i] = o

\* How far the run is with the certificate of an organisation.
Underway(o) ==
    /\ active[o] \in {Old(o), New(o)} /\ run.start[o] \in {Old(o), New(o)}
    /\ run.clean => sure[o] \in {Old(o), New(o)}
    \* only what was old is replaced, so what is rolled back is what there was
    /\ o \in run.todo \/ Changed(o) => run.start[o] = Old(o)
    /\ ~run.failed /\ ~Changed(o) => active[o] = run.start[o] /\ (run.clean => sure[o] = run.start[o])
    \* what needs no turn any more is installed
    /\ run.at # "rollback" /\ o \notin run.todo => active[o] = New(o) /\ (run.clean => sure[o] = New(o))
    /\ run.at = "flush" /\ Renewal!Turn(o) => active[o] = New(o) /\ Changed(o)

RenewalInv ==
    /\ RenewalTyped
    /\ run # None => /\ \A o \in Renewal!OrgSet : Underway(o)
                     /\ run.at = "done" => run.todo = {}

\* Nothing is prepared yet.
LEMMA RenewalInit == Init => RenewalInv
<1> SUFFICES ASSUME Init PROVE RenewalInv
  OBVIOUS
<1>1. /\ now = 0 /\ active = [o \in Renewal!OrgSet |-> [expires |-> Before, plan |-> 0]]
      /\ sure = active /\ plans = <<>> /\ run = None
  BY DEF Init, Renewal!Init
<1> QED BY <1>1, RenewalAssumption DEF RenewalInv, RenewalTyped, Certificates

\* Only one organisation has its turn.
LEMMA OneTurn ==
  ASSUME NEW o, NEW p, Renewal!Turn(o), Renewal!Turn(p)
  PROVE  o = p /\ o \in run.todo
  BY DEF Renewal!Turn

\* A plan gives every certificate a longer life.
LEMMA PrepareSteps ==
  ASSUME RenewalInv, NEW days \in Days, Renewal!Prepare(days)
  PROVE  RenewalInv'
<1> DEFINE new == [o \in Renewal!OrgSet |-> [expires |-> now + days, plan |-> Len(plans) + 1]]
           plan == [old |-> active, new |-> new, status |-> "prepared"]
<1>1. /\ run = None /\ \A o \in Renewal!OrgSet : new[o].expires > active[o].expires
      /\ plans' = Append(plans, plan) /\ UNCHANGED <<now, active, sure, run>>
  BY DEF Renewal!Prepare
<1>2. new \in Certificates
  BY RenewalAssumption DEF RenewalInv, RenewalTyped, Certificates
<1>2a. active \in Certificates
  BY DEF RenewalInv, RenewalTyped
<1> HIDE DEF new
<1>3. plan \in Plan /\ plan.old = active /\ plan.new = new
  BY <1>2, <1>2a DEF Plan
<1>3a. \A o \in Renewal!OrgSet : active[o].expires \in Int /\ new[o].expires \in Int
  BY <1>2, <1>2a DEF Certificates
<1> HIDE DEF plan
<1>4. \A i \in 1..Len(plans'), o \in Renewal!OrgSet : plans'[i].old[o].expires < plans'[i].new[o].expires
  BY <1>1, <1>3, <1>3a DEF RenewalInv, RenewalTyped
<1> QED BY <1>1, <1>3, <1>4 DEF RenewalInv, RenewalTyped

\* The files are examined before any of them changes.
LEMMA BeginSteps ==
  ASSUME RenewalInv, NEW p \in 1..Len(plans), Renewal!Begin(p)
  PROVE  RenewalInv'
<1> DEFINE todo == {o \in Renewal!OrgSet : active[o] # plans[p].new[o]}
<1>1. /\ run' = [plan |-> p, start |-> active, clean |-> sure = active, changed |-> <<>>, failed |-> FALSE,
                 at |-> "install", todo |-> todo]
      /\ \A o \in Renewal!OrgSet : active[o] \in {plans[p].old[o], plans[p].new[o]}
      /\ UNCHANGED <<now, active, sure, plans>>
  BY DEF Renewal!Begin, Renewal!Expected
<1>2. /\ run'.plan = p /\ run'.start = active /\ run'.clean = (sure = active) /\ run'.changed = <<>>
      /\ run'.failed = FALSE /\ run'.at = "install" /\ run'.todo = todo
  BY <1>1
<1>3. run' \in Run
  BY <1>1 DEF RenewalInv, RenewalTyped, Run
<1>4. RenewalTyped'
  BY <1>1, <1>2, <1>3 DEF RenewalInv, RenewalTyped
<1>5. ASSUME NEW o \in Renewal!OrgSet PROVE Underway(o)'
  <2>1. ~Changed(o)'
    BY <1>2 DEF Changed
  <2>2. run'.clean => sure[o] = active[o]
    BY <1>2
  <2>3. Old(o)' = plans[p].old[o] /\ New(o)' = plans[p].new[o]
    BY <1>1, <1>2 DEF Old, New
  <2> QED BY <1>1, <1>2, <2>1, <2>2, <2>3 DEF Underway
<1> QED BY <1>2, <1>4, <1>5 DEF RenewalInv

\* An item is listed for rollback before its file is touched.
LEMMA InstallSteps ==
  ASSUME RenewalInv, NEW o \in Renewal!OrgSet, Renewal!Install(o)
  PROVE  RenewalInv'
<1>1. PICK at \in {"flush", "rollback"} : run' = [Renewal!Noted(run, o) EXCEPT !.at = at]
  BY DEF Renewal!Install
<1>2. /\ run # None /\ run.at = "install" /\ Renewal!Turn(o) /\ UNCHANGED <<now, sure, plans>>
      /\ \/ run'.at = "flush" /\ active' = [active EXCEPT ![o] = New(o)]
         \/ run'.at = "rollback" /\ active' = active
  <2>1. run \in Run
    BY DEF RenewalInv, RenewalTyped, Renewal!Install
  <2> QED BY <2>1 DEF Renewal!Install, Renewal!Noted, New, Run
<1>3. run \in Run /\ run.plan \in 1..Len(plans) /\ plans \in Seq(Plan) /\ active \in Certificates
  BY <1>2 DEF RenewalInv, RenewalTyped
<1>4. /\ run' \in Run
      /\ run'.plan = run.plan /\ run'.start = run.start /\ run'.clean = run.clean /\ run'.failed = run.failed
      /\ run'.todo = run.todo /\ run'.changed = Append(run.changed, o) /\ run'.at = at
  <2> DEFINE changed == Append(run.changed, o)
  <2>1. changed \in Seq(Renewal!OrgSet)
    BY <1>3 DEF Run
  <2>2. run' = [[run EXCEPT !.changed = changed] EXCEPT !.at = at]
    BY <1>1 DEF Renewal!Noted
  <2> HIDE DEF changed
  <2>3. run' \in Run /\ run'.changed = changed /\ run'.plan = run.plan /\ run'.start = run.start
        /\ run'.clean = run.clean /\ run'.failed = run.failed /\ run'.todo = run.todo /\ run'.at = at
    BY <1>3, <2>1, <2>2 DEF Run
  <2> QED BY <2>3 DEF changed
<1>5. \A p \in Renewal!OrgSet : /\ Old(p)' = Old(p) /\ New(p)' = New(p)
                                /\ (Changed(p)' <=> Changed(p) \/ p = o)
                                /\ (Renewal!Turn(p)' <=> Renewal!Turn(p))
  BY <1>2, <1>3, <1>4 DEF Old, New, Changed, Run, Renewal!Turn
<1>6. New(o) \in [expires : Int, plan : Int]
  <2>1. plans[run.plan] \in Plan
    BY <1>3
  <2>2. plans[run.plan].new \in Certificates
    BY <2>1 DEF Plan
  <2> QED BY <2>2 DEF New, Certificates
<1>7. /\ active' \in Certificates /\ \A p \in Renewal!OrgSet \ {o} : active'[p] = active[p]
      /\ active'[o] \in {active[o], New(o)} /\ (at = "flush" => active'[o] = New(o))
  BY <1>2, <1>3, <1>4, <1>6 DEF Certificates
<1>8. RenewalTyped'
  BY <1>2, <1>3, <1>4, <1>7 DEF RenewalInv, RenewalTyped
<1>9. ASSUME NEW p \in Renewal!OrgSet PROVE Underway(p)'
  <2>1. Underway(p) /\ Underway(o)
    BY <1>2 DEF RenewalInv
  <2>2. Renewal!Turn(p) => p = o
    BY <1>2, OneTurn
  <2>3. o \in run.todo
    BY <1>2, OneTurn
  <2>4. CASE p = o
    BY <1>2, <1>4, <1>5, <1>7, <2>1, <2>2, <2>3, <2>4 DEF Underway
  <2>5. CASE p # o
    BY <1>2, <1>4, <1>5, <1>7, <2>1, <2>2, <2>5 DEF Underway
  <2> QED BY <2>4, <2>5
<1> QED BY <1>4, <1>8, <1>9 DEF RenewalInv

\* What is flushed is what was installed.
LEMMA FlushSteps ==
  ASSUME RenewalInv, NEW o \in Renewal!OrgSet, Renewal!Flush(o)
  PROVE  RenewalInv'
<1>1. /\ run # None /\ run.at = "flush" /\ Renewal!Turn(o) /\ UNCHANGED <<now, active, plans>>
      /\ \/ /\ sure' = [sure EXCEPT ![o] = active[o]]
            /\ run' = [run EXCEPT !.at = "install", !.todo = @ \ {o}]
         \/ run' = [run EXCEPT !.at = "rollback"] /\ UNCHANGED sure
  BY DEF Renewal!Flush, Renewal!Flushed
<1>2. run \in Run /\ run.plan \in 1..Len(plans) /\ plans \in Seq(Plan)
      /\ active \in Certificates /\ sure \in Certificates
  BY <1>1 DEF RenewalInv, RenewalTyped
<1>3. /\ run' \in Run
      /\ run'.plan = run.plan /\ run'.start = run.start /\ run'.clean = run.clean /\ run'.failed = run.failed
      /\ run'.changed = run.changed
      /\ \/ run'.at = "install" /\ run'.todo = run.todo \ {o}
         \/ run'.at = "rollback" /\ run'.todo = run.todo
  BY <1>1, <1>2, ZenonT(40) DEF Run
<1>4. \A p \in Renewal!OrgSet : Old(p)' = Old(p) /\ New(p)' = New(p) /\ (Changed(p)' <=> Changed(p))
  BY <1>1, <1>3 DEF Old, New, Changed
<1>5. /\ sure' \in Certificates /\ \A p \in Renewal!OrgSet \ {o} : sure'[p] = sure[p]
      /\ sure'[o] \in {sure[o], active[o]} /\ (run'.at = "install" => sure'[o] = active[o])
  <2>1. run'.at = "rollback" => sure' = sure
    BY <1>1, <1>2 DEF Run
  <2>2. sure' = [sure EXCEPT ![o] = active[o]] \/ sure' = sure
    BY <1>1
  <2>3. active[o] \in [expires : Int, plan : Int]
    BY <1>2 DEF Certificates
  <2>4. run'.at = "install" => sure' = [sure EXCEPT ![o] = active[o]]
    BY <1>1, <1>2 DEF Run
  <2> QED BY <1>2, <2>2, <2>3, <2>4 DEF Certificates
<1>6. RenewalTyped'
  BY <1>1, <1>2, <1>3, <1>5 DEF RenewalInv, RenewalTyped
<1>7. ASSUME NEW p \in Renewal!OrgSet PROVE Underway(p)'
  <2>1. Underway(p) /\ Underway(o)
    BY <1>1 DEF RenewalInv
  <2>2. active[o] = New(o) /\ Changed(o)
    BY <1>1, <2>1 DEF Underway
  <2>3. CASE p = o
    BY <1>1, <1>3, <1>4, <1>5, <2>1, <2>2, <2>3 DEF Underway
  <2>4. CASE p # o
    BY <1>1, <1>3, <1>4, <1>5, <2>1, <2>2, <2>4 DEF Underway
  <2> QED BY <2>3, <2>4
<1> QED BY <1>3, <1>6, <1>7 DEF RenewalInv

\* A plan is applied when nobody has a turn left; the plan stays what it was.
LEMMA MarkSteps ==
  ASSUME RenewalInv, Renewal!MarkApplied
  PROVE  RenewalInv'
<1> DEFINE marked == [plans EXCEPT ![run.plan].status = "applied"]
<1>1. /\ run # None /\ run.at = "install" /\ run.todo = {} /\ UNCHANGED <<now, active, sure>>
      /\ plans' \in {plans, marked}
      /\ \E at \in {"done", "rollback"} : run' = [run EXCEPT !.at = at]
  BY DEF Renewal!MarkApplied
<1>2. run \in Run /\ run.plan \in 1..Len(plans) /\ plans \in Seq(Plan)
  BY <1>1 DEF RenewalInv, RenewalTyped
<1>3. /\ run' \in Run
      /\ run'.plan = run.plan /\ run'.start = run.start /\ run'.clean = run.clean /\ run'.failed = run.failed
      /\ run'.changed = run.changed /\ run'.todo = {} /\ run'.at \in {"done", "rollback"}
  BY <1>1, <1>2 DEF Run
<1>4. /\ marked \in Seq(Plan) /\ Len(marked) = Len(plans)
      /\ \A i \in 1..Len(plans) : marked[i].old = plans[i].old /\ marked[i].new = plans[i].new
  <2> DEFINE applied == [plans[run.plan] EXCEPT !.status = "applied"]
  <2>1. /\ applied \in Plan /\ applied.old = plans[run.plan].old /\ applied.new = plans[run.plan].new
    <3>1. plans[run.plan] \in Plan
      BY <1>2
    <3> QED BY <3>1 DEF Plan
  <2>2. marked = [plans EXCEPT ![run.plan] = applied]
    OBVIOUS
  <2> HIDE DEF applied, marked
  <2> QED BY <1>2, <2>1, <2>2
<1> HIDE DEF marked
<1>5. /\ plans' \in Seq(Plan) /\ Len(plans') = Len(plans)
      /\ \A i \in 1..Len(plans) : plans'[i].old = plans[i].old /\ plans'[i].new = plans[i].new
  BY <1>1, <1>2, <1>4
<1>6. \A o \in Renewal!OrgSet : Old(o)' = Old(o) /\ New(o)' = New(o) /\ (Changed(o)' <=> Changed(o))
  BY <1>2, <1>3, <1>5 DEF Old, New, Changed
<1>7. RenewalTyped'
  BY <1>1, <1>2, <1>3, <1>5 DEF RenewalInv, RenewalTyped
<1>8. \A o \in Renewal!OrgSet : Underway(o)'
  BY <1>1, <1>3, <1>6 DEF RenewalInv, Underway
<1> QED BY <1>3, <1>7, <1>8 DEF RenewalInv

\* The last changed file gets back what there was when the command began.
LEMMA RollBackSteps ==
  ASSUME RenewalInv, Renewal!RollBack
  PROVE  RenewalInv'
<1> DEFINE n == Len(run.changed)
           o == run.changed[n]
           rest == SubSeq(run.changed, 1, n - 1)
           restored == [active EXCEPT ![o] = Old(o)]
<1>1. /\ run # None /\ run.at = "rollback" /\ run.changed # <<>> /\ UNCHANGED <<now, plans>>
      /\ \/ /\ active' = restored /\ sure' = [sure EXCEPT ![o] = restored[o]]
            /\ run' = [run EXCEPT !.changed = rest]
         \/ /\ active' \in {active, restored} /\ sure' = sure
            /\ run' = [[run EXCEPT !.changed = rest] EXCEPT !.failed = TRUE]
  BY DEF Renewal!RollBack, Old
<1>2. run \in Run /\ run.plan \in 1..Len(plans) /\ plans \in Seq(Plan)
      /\ active \in Certificates /\ sure \in Certificates /\ run.changed \in Seq(Renewal!OrgSet)
  BY <1>1 DEF RenewalInv, RenewalTyped, Run
<1>3. n \in Nat \ {0} /\ o \in Renewal!OrgSet
  BY <1>1, <1>2
<1>4. rest \in Seq(Renewal!OrgSet) /\ Len(rest) = n - 1 /\ \A i \in 1..(n - 1) : rest[i] = run.changed[i]
  BY <1>2, <1>3
<1> DEFINE Rest(p) == \E i \in 1..Len(rest) : rest[i] = p
<1>5. \A p \in Renewal!OrgSet : Changed(p) <=> Rest(p) \/ p = o
  BY <1>3, <1>4 DEF Changed
<1>6. Old(o) \in [expires : Int, plan : Int]
  <2>1. plans[run.plan] \in Plan
    BY <1>2
  <2>2. plans[run.plan].old \in Certificates
    BY <2>1 DEF Plan
  <2> QED BY <1>3, <2>2 DEF Old, Certificates
<1>7. restored \in Certificates /\ restored[o] = Old(o) /\ \A p \in Renewal!OrgSet \ {o} : restored[p] = active[p]
  BY <1>2, <1>3, <1>6 DEF Certificates
<1> HIDE DEF rest, o, n, restored
<1>8. /\ run' \in Run
      /\ run'.plan = run.plan /\ run'.start = run.start /\ run'.clean = run.clean
      /\ run'.changed = rest /\ run'.at = run.at /\ run'.todo = run.todo
      /\ \/ active' = restored /\ sure' = [sure EXCEPT ![o] = restored[o]] /\ run'.failed = run.failed
         \/ active' \in {active, restored} /\ sure' = sure /\ run'.failed
  <2>1. CASE /\ active' = restored /\ sure' = [sure EXCEPT ![o] = restored[o]]
             /\ run' = [run EXCEPT !.changed = rest]
    BY <1>2, <1>4, <2>1 DEF Run
  <2>2. CASE /\ active' \in {active, restored} /\ sure' = sure
             /\ run' = [[run EXCEPT !.changed = rest] EXCEPT !.failed = TRUE]
    BY <1>2, <1>4, <2>2 DEF Run
  <2> QED BY <1>1, <2>1, <2>2
<1>9. /\ sure' \in Certificates /\ active' \in Certificates
      /\ \A p \in Renewal!OrgSet \ {o} : sure'[p] = sure[p] /\ active'[p] = active[p]
      /\ active'[o] \in {active[o], Old(o)} /\ sure'[o] \in {sure[o], Old(o)}
      /\ (~run'.failed => ~run.failed /\ active'[o] = Old(o) /\ sure'[o] = Old(o))
  <2>1. [sure EXCEPT ![o] = restored[o]] \in Certificates
    BY <1>2, <1>3, <1>6, <1>7 DEF Certificates
  <2>2. \A p \in Renewal!OrgSet : [sure EXCEPT ![o] = restored[o]][p] = IF p = o THEN Old(o) ELSE sure[p]
    BY <1>2, <1>7 DEF Certificates
  <2> QED BY <1>2, <1>3, <1>7, <1>8, <2>1, <2>2
<1>10. \A p \in Renewal!OrgSet : Old(p)' = Old(p) /\ New(p)' = New(p) /\ (Changed(p)' <=> Rest(p))
  BY <1>1, <1>8 DEF Old, New, Changed
<1>11. RenewalTyped'
  BY <1>1, <1>2, <1>8, <1>9 DEF RenewalInv, RenewalTyped
<1> HIDE DEF Rest
<1>12. ASSUME NEW p \in Renewal!OrgSet PROVE Underway(p)'
  <2>1. Underway(p)
    BY <1>1 DEF RenewalInv
  <2>2. CASE p = o
    <3>1. Changed(p) /\ run.start[p] = Old(p)
      BY <1>5, <2>1, <2>2 DEF Underway
    <3>2. /\ active'[p] \in {active[p], Old(p)} /\ sure'[p] \in {sure[p], Old(p)}
          /\ ~run'.failed => active'[p] = Old(p) /\ sure'[p] = Old(p)
      BY <1>9, <2>2
    <3>3. run'.at = "rollback" /\ run'.start = run.start /\ run'.clean = run.clean
      BY <1>1, <1>8
    <3> QED BY <1>10, <2>1, <3>1, <3>2, <3>3 DEF Underway
  <2>3. CASE p # o
    BY <1>1, <1>5, <1>8, <1>9, <1>10, <2>1, <2>3 DEF Underway
  <2> QED BY <2>2, <2>3
<1> QED BY <1>1, <1>8, <1>11, <1>12 DEF RenewalInv

\* After a crash every file is one of the two it may be.
LEMMA RestSteps ==
  ASSUME RenewalInv, Renewal!Report \/ Renewal!Crash \/ Renewal!Tick
  PROVE  RenewalInv'
<1>1. CASE Renewal!Report
  BY <1>1 DEF Renewal!Report, RenewalInv, RenewalTyped
<1>2. CASE Renewal!Crash
  <2>1. /\ run' = None /\ sure' = active' /\ UNCHANGED <<now, plans>>
        /\ active' \in {f \in [Renewal!OrgSet -> {active[o] : o \in Renewal!OrgSet} \union {sure[o] : o \in Renewal!OrgSet}] :
                          \A o \in Renewal!OrgSet : f[o] \in {active[o], sure[o]}}
    BY <1>2 DEF Renewal!Crash
  <2>2. active \in Certificates /\ sure \in Certificates
    BY DEF RenewalInv, RenewalTyped
  <2>3. active' \in Certificates
    BY <2>1, <2>2 DEF Certificates
  <2> QED BY <2>1, <2>3 DEF RenewalInv, RenewalTyped
<1>3. CASE Renewal!Tick
  BY <1>3 DEF Renewal!Tick, RenewalInv, RenewalTyped, Underway, Old, New, Changed, Renewal!Turn
<1> QED BY <1>1, <1>2, <1>3

\* The other parts do not touch a certificate.
LEMMA RenewalInductive == RenewalInv /\ [Next]_vars => RenewalInv'
<1> SUFFICES ASSUME RenewalInv, [Next]_vars PROVE RenewalInv'
  OBVIOUS
<1>1. CASE UNCHANGED renewal
  BY <1>1 DEF renewal, RenewalInv, RenewalTyped, Underway, Old, New, Changed, Renewal!Turn
<1>2. CASE Renewal!Next
  BY <1>2, PrepareSteps, BeginSteps, InstallSteps, FlushSteps, MarkSteps, RollBackSteps, RestSteps DEF Renewal!Next
<1> QED BY <1>1, <1>2 DEF Next, vars

\* A command that ends has done all or, as far as it reports so, nothing.
LEMMA RenewalEnds ==
  ASSUME RenewalInv
  PROVE  /\ Renewal!NeverMixed
         /\ Renewal!Fails /\ ~run.failed => active = run.start /\ (run.clean => sure = run.start)
         /\ Renewal!Succeeds => \A o \in Renewal!OrgSet :
               /\ active[o] = New(o) /\ active[o].expires >= run.start[o].expires
               /\ run.clean => sure[o] = active[o]
<1>1. Renewal!NeverMixed
  BY DEF RenewalInv, Underway, Old, New, Renewal!NeverMixed
<1>2. ASSUME Renewal!Fails, ~run.failed PROVE active = run.start /\ (run.clean => sure = run.start)
  <2>1. run # None /\ run.changed = <<>> /\ run \in Run /\ active \in Certificates /\ sure \in Certificates
    BY <1>2 DEF RenewalInv, RenewalTyped, Renewal!Fails
  <2>2. run.start \in Certificates
    BY <2>1 DEF Run
  <2>3. \A o \in Renewal!OrgSet : ~Changed(o)
    BY <2>1 DEF Changed
  <2>4. \A o \in Renewal!OrgSet : active[o] = run.start[o] /\ (run.clean => sure[o] = run.start[o])
    BY <1>2, <2>1, <2>3 DEF RenewalInv, Underway
  <2> QED BY <2>1, <2>2, <2>4 DEF Certificates
<1>3. ASSUME Renewal!Succeeds, NEW o \in Renewal!OrgSet
      PROVE  /\ active[o] = New(o) /\ active[o].expires >= run.start[o].expires
             /\ run.clean => sure[o] = active[o]
  <2>1. run # None /\ run.at = "done" /\ Underway(o) /\ o \notin run.todo
    BY <1>3 DEF RenewalInv, Renewal!Succeeds
  <2>2. active[o] = New(o) /\ (run.clean => sure[o] = New(o)) /\ run.start[o] \in {Old(o), New(o)}
    BY <2>1 DEF Underway
  <2>3. plans \in Seq(Plan) /\ run.plan \in 1..Len(plans) /\ Old(o).expires < New(o).expires
    BY <2>1 DEF RenewalInv, RenewalTyped, Old, New
  <2>4. plans[run.plan] \in Plan
    BY <2>3
  <2>5. plans[run.plan].old \in Certificates /\ plans[run.plan].new \in Certificates
    BY <2>4 DEF Plan
  <2>6. Old(o).expires \in Int /\ New(o).expires \in Int
    BY <2>5 DEF Certificates, Old, New
  <2> QED BY <2>2, <2>3, <2>6
<1> QED BY <1>1, <1>2, <1>3

\* A renewal is whole or undone, through failures and crashes at any point
\* (applyLocalCertificateRenewal): what is rolled back is what there was when
\* the command began, and what has had its turn is new and on disk.
THEOREM RenewalKept == Spec => RenewalWhole
<1>1. RenewalInv => Renewal!NeverMixed
  BY RenewalEnds
<1>2. RenewalInv /\ [Next]_vars =>
        [(Renewal!Fails /\ Renewal!Report /\ ~run.failed) =>
           active = run.start /\ (run.clean => sure = run.start)]_(Renewal!vars)
  BY RenewalEnds
<1>3. RenewalInv /\ [Next]_vars =>
        [(Renewal!Succeeds /\ Renewal!Report) =>
           \A o \in Renewal!OrgSet : /\ active[o] = plans[run.plan].new[o]
                                     /\ active[o].expires >= run.start[o].expires
                                     /\ run.clean => sure[o] = active[o]]_(Renewal!vars)
  BY RenewalEnds DEF New
<1> QED BY <1>1, <1>2, <1>3, RenewalInit, RenewalInductive, PTL
        DEF Spec, RenewalWhole, Renewal!RenewalWhole, Renewal!FailureRestores, Renewal!SuccessInstalls

------------------------------------------------------------------------------
(* Backups, restores and starts of a runtime. *)

Moments == {m \in [Files -> Content] : m.binding \in Bindings /\ \A d \in Databases : m[d] \in Nat}
Contents(p) == Data!Contents(Data!Holds(p))

JobSteps == {"absent", "new", "read", "reread", "copy", "check", "recheck", "validate", "reserve", "publish",
             "done", "failed", "crashed"}
BootSteps == {"absent", "new", "bound", "empty", "failed", "serving", "stopped"}
Places == {"data", "copy", "restored"}
FileMap == [Files \union {"manifest"} -> Content \union [Files -> Content]]
JobRecord == [at : JobSteps, left : SUBSET Files, known : [Files -> Content], staging : FileMap]
BootRecord == [at : BootSteps, path : {"data", "restored", None}, binding : Bindings \union {None}]

DataTyped ==
    /\ dir \in [Places -> Directory \union {None}]
    /\ job \in [Data!Jobs -> JobRecord]
    /\ boot \in [Starts -> BootRecord]
    /\ moments \subseteq Moments

\* Databases are numbered versions, and there are none without a binding; what
\* the data directory holds is remembered; a manifest is of a moment.
Opened(p) == \E d \in Databases : Data!Holds(p)[d] # None
DirectoriesSound ==
    /\ \A p \in {"data", "restored"} : Data!Exists(p) =>
          /\ \A d \in Databases : Data!Holds(p)[d] \in Nat \union {None}
          /\ Opened(p) => Data!Holds(p).binding \in Bindings
    /\ Data!Exists("data") /\ Opened("data") => Contents("data") \in moments
    /\ Data!Exists("copy") /\ Data!Holds("copy").manifest # None => Data!Holds("copy").manifest \in moments

\* A start that got through is of the directory's own binding.
StartSound(s) ==
    /\ boot[s].at \in {"empty", "bound", "serving"} => boot[s].path \in {"data", "restored"} /\ boot[s].binding \in Bindings
    /\ boot[s].at \in {"bound", "serving"} => /\ Data!Exists(boot[s].path)
                                             /\ Data!Holds(boot[s].path).binding = boot[s].binding
    /\ boot[s].at = "serving" => \A d \in Databases : Data!Holds(boot[s].path)[d] \in Nat

\* A file only gets newer, and what is not a database only appears.
Since(a, b) == a = b \/ (a \in Nat /\ b \in Nat /\ a <= b)

Whole(p) == Data!Exists(p) /\ \A f \in Files : Data!Holds(p)[f] # None

\* A backup has seen, after one inventory, files no newer than those of some
\* moment; the second inventory shows that they are those of that moment.
Seen(j) == \E m \in moments : \A f \in Files :
    /\ Since(job[j].known[f], m[f]) /\ Since(m[f], Data!Holds("data")[f])
    /\ f \notin job[j].left => job[j].known[f] = m[f]

Known(j) == job[j].known \in moments

InventorySound(j) ==
    /\ job[j].at \in {"read", "reread", "copy", "check", "recheck", "validate"} => job[j].left # {}
    /\ j \in Backups =>
         /\ job[j].at \in {"read", "reread"} => Whole("data")
         /\ job[j].at = "read" => \A f \in Files \ job[j].left : Since(job[j].known[f], Data!Holds("data")[f])
         /\ job[j].at = "reread" => Seen(j)
         /\ job[j].at \in {"copy", "check", "recheck", "validate", "reserve", "publish"} => Known(j)
    /\ j \in Restores =>
         /\ job[j].at \in {"read", "copy", "validate", "check", "reserve", "publish"} => Known(j)
         /\ job[j].at \notin {"reread", "recheck"}

\* What passed the validation is what is known.
Validated(j) == IF j \in Backups THEN {"reserve", "publish"} ELSE {"check", "reserve", "publish"}
StagingSound(j) ==
    /\ job[j].at = "validate" => \A f \in Files \ job[j].left : Data!AsKnown(j, f)
    /\ job[j].at \in Validated(j) => \A f \in Files : Data!AsKnown(j, f)
    /\ job[j].at = "publish" => job[j].staging.manifest = job[j].known

DataInv ==
    /\ DataTyped
    /\ DirectoriesSound
    /\ \A s \in Starts : StartSound(s)
    /\ \A j \in Data!Jobs : InventorySound(j) /\ StagingSound(j)

\* Nothing of a directory goes away, and its binding stays.
Remains(p) ==
    Data!Exists(p) => \A f \in Files : Data!Holds(p)[f] # None =>
        /\ Data!Exists(p)' /\ Data!Holds(p)'[f] # None
        /\ f = "binding" => Data!Holds(p)'[f] = Data!Holds(p)[f]
Stays == \A p \in Places : Remains(p)

\* The data directory, once it is there, only gets newer.
Grows ==
    /\ moments \subseteq moments'
    /\ Data!Exists("data") => Data!Exists("data")' /\ \A f \in Files :
          Data!Holds("data")[f] # None => Since(Data!Holds("data")[f], Data!Holds("data")'[f])

\* Nobody has started anything.
LEMMA DataInit == Init => DataInv
<1> SUFFICES ASSUME Init PROVE DataInv
  OBVIOUS
<1>1. PICK roster \in Rosters :
         /\ dir = [p \in Places |-> None]
         /\ job = [j \in Data!Jobs |-> [at |-> IF j \in roster THEN "new" ELSE "absent", left |-> {},
                                       known |-> Data!Contents(Data!Empty), staging |-> Data!Empty]]
         /\ boot = [s \in Starts |-> [at |-> IF s \in roster THEN "new" ELSE "absent",
                                      path |-> None, binding |-> None]]
         /\ moments = {}
  BY DEF Init, Data!Init, Places
<1>2. Data!Contents(Data!Empty) \in [Files -> Content]
  BY DEF Data!Contents, Data!Empty, Data!Files, Files, Content
<1>3. Data!Empty \in FileMap
  BY DEF Data!Empty, Data!Files, Files, Content, FileMap
<1>4. \A j \in Data!Jobs : job[j] \in JobRecord
  BY <1>1, <1>2, <1>3 DEF JobRecord, JobSteps
<1>5. DataTyped
  BY <1>1, <1>4 DEF DataTyped, BootRecord, BootSteps
<1>6. \A p \in Places : ~Data!Exists(p)
  BY <1>1 DEF Data!Exists
<1>7. DirectoriesSound
  BY <1>6 DEF DirectoriesSound, Places
<1>8. \A s \in Starts : StartSound(s)
  BY <1>1 DEF StartSound
<1>9. \A j \in Data!Jobs : job[j].at \in {"new", "absent"}
  BY <1>1
<1>10. \A j \in Data!Jobs : InventorySound(j) /\ StagingSound(j)
  BY <1>9 DEF InventorySound, StagingSound, Validated
<1> QED BY <1>5, <1>7, <1>8, <1>10 DEF DataInv

\* What is done to one directory of files leaves the rest sound.
LEMMA DirectoriesKept ==
  ASSUME DataInv, moments \subseteq moments', moments' \subseteq Moments,
         NEW p \in {"data", "restored"}, NEW F \in FileMap, Data!Exists(p),
         dir' = [dir EXCEPT ![p].files = F],
         \A f \in Files : Data!Holds(p)[f] # None =>
            Since(Data!Holds(p)[f], F[f]) /\ (f = "binding" => F[f] = Data!Holds(p)[f]),
         \A d \in Databases : F[d] \in Nat \union {None},
         (\E d \in Databases : F[d] # None) =>
            F.binding \in Bindings /\ (p = "data" => Data!Contents(F) \in moments')
  PROVE  /\ dir' \in [Places -> Directory \union {None}]
         /\ DirectoriesSound' /\ Stays /\ Grows
         /\ Data!Exists(p)' /\ Data!Holds(p)' = F
<1>1. dir \in [Places -> Directory \union {None}] /\ p \in Places
  BY DEF DataInv, DataTyped, Places
<1>2. dir[p] \in Directory /\ dir[p] # None
  BY <1>1 DEF Data!Exists
<1>3. /\ [dir[p] EXCEPT !.files = F] \in Directory /\ [dir[p] EXCEPT !.files = F].files = F
  BY <1>2 DEF Directory, FileMap
<1>4. /\ dir' \in [Places -> Directory \union {None}]
      /\ dir'[p] \in Directory /\ dir'[p].files = F /\ \A q \in Places \ {p} : dir'[q] = dir[q]
  BY <1>1, <1>2, <1>3
<1>5. Data!Exists(p)' /\ Data!Holds(p)' = F
  BY <1>4, DataAssumption DEF Data!Exists, Data!Holds
<1>6. \A q \in Places \ {p} : (Data!Exists(q)' <=> Data!Exists(q)) /\ Data!Holds(q)' = Data!Holds(q)
  BY <1>4 DEF Data!Exists, Data!Holds
<1>7. DirectoriesSound'
  <2>1. DirectoriesSound /\ "copy" \in Places \ {p}
    BY DEF DataInv, Places
  <2>2. ASSUME NEW q \in {"data", "restored"}, Data!Exists(q)'
        PROVE  /\ \A d \in Databases : Data!Holds(q)'[d] \in Nat \union {None}
               /\ Opened(q)' => Data!Holds(q)'.binding \in Bindings
    <3>1. CASE q = p
      BY <1>5, <3>1 DEF Opened
    <3>2. CASE q # p
      <4>1. q \in Places \ {p}
        BY <3>2 DEF Places
      <4> QED BY <1>6, <2>1, <2>2, <4>1 DEF Opened, DirectoriesSound
    <3> QED BY <3>1, <3>2
  <2>3. Data!Exists("data")' /\ Opened("data")' => Contents("data")' \in moments'
    <3>1. CASE p = "data"
      BY <1>5, <3>1 DEF Opened, Contents, Data!Contents
    <3>2. CASE p # "data"
      <4>1. "data" \in Places \ {p}
        BY <3>2 DEF Places
      <4> QED BY <1>6, <2>1, <4>1 DEF Opened, DirectoriesSound, Contents, Data!Contents
    <3> QED BY <3>1, <3>2
  <2>4. Data!Exists("copy")' /\ Data!Holds("copy")'.manifest # None => Data!Holds("copy")'.manifest \in moments'
    BY <1>6, <2>1 DEF DirectoriesSound
  <2> QED BY <2>2, <2>3, <2>4 DEF DirectoriesSound
<1>8. Stays
  <2>1. Remains(p)
    BY <1>5, DataAssumption DEF Remains, Since
  <2>2. \A q \in Places \ {p} : Remains(q)
    BY <1>6 DEF Remains
  <2> QED BY <2>1, <2>2 DEF Stays
<1>9. Grows
  BY <1>5, <1>6 DEF Grows, Places, Since
<1> QED BY <1>4, <1>5, <1>7, <1>8, <1>9

\* A start that does nothing stays sound.
LEMMA StartKept ==
  ASSUME DataInv, Stays, DirectoriesSound', NEW s \in Starts, boot'[s] = boot[s]
  PROVE  StartSound(s)'
<1>1. StartSound(s)
  BY DEF DataInv
<1>2. CASE boot[s].at \in {"bound", "serving"}
  <2>1. PICK p \in {"data", "restored"} :
           /\ p = boot[s].path /\ Data!Exists(p) /\ Data!Holds(p).binding = boot[s].binding
           /\ boot[s].binding \in Bindings
    BY <1>1, <1>2 DEF StartSound
  <2>2. Remains(p)
    BY <2>1 DEF Stays, Places
  <2>3. Data!Exists(p)' /\ Data!Holds(p)'.binding = boot[s].binding
    BY <2>1, <2>2, DataAssumption DEF Remains, Files
  <2>4. boot[s].at = "serving" => \A d \in Databases : Data!Holds(p)'[d] \in Nat
    <3>1. boot[s].at = "serving" => \A d \in Databases : Data!Holds(p)[d] \in Nat
      BY <1>1, <2>1 DEF StartSound
    <3>2. boot[s].at = "serving" => \A d \in Databases : Data!Holds(p)'[d] # None
      BY <2>1, <2>2, <3>1, DataAssumption DEF Remains, Files
    <3> QED BY <2>1, <2>3, <3>2 DEF DirectoriesSound
  <2>5. boot'[s].path = p /\ boot'[s].binding = boot[s].binding /\ boot'[s].at = boot[s].at
    BY <2>1
  <2> QED BY <2>1, <2>3, <2>4, <2>5 DEF StartSound, Data!Exists, Data!Holds
<1> QED BY <1>1, <1>2 DEF StartSound

\* A job that does nothing stays sound while the runtime writes.
LEMMA JobKept ==
  ASSUME DataInv, Grows, NEW j \in Data!Jobs, job'[j] = job[j]
  PROVE  InventorySound(j)' /\ StagingSound(j)'
<1>1. InventorySound(j) /\ StagingSound(j)
  BY DEF DataInv
<1>2. StagingSound(j)'
  BY <1>1 DEF StagingSound, Data!AsKnown
<1>3. Known(j) => Known(j)'
  BY DEF Known, Grows
<1>4. Whole("data") => /\ Whole("data")'
                       /\ \A f \in Files : Since(Data!Holds("data")[f], Data!Holds("data")'[f])
  BY DataAssumption DEF Whole, Grows, Since
<1>5. \A x, y, z : Since(x, y) /\ Since(y, z) => Since(x, z)
  BY DEF Since
<1>6. Whole("data") /\ Seen(j) => Seen(j)'
  <2> SUFFICES ASSUME Whole("data"), Seen(j) PROVE Seen(j)'
    OBVIOUS
  <2>1. PICK m \in moments : \A f \in Files :
          /\ Since(job[j].known[f], m[f]) /\ Since(m[f], Data!Holds("data")[f])
          /\ f \notin job[j].left => job[j].known[f] = m[f]
    BY DEF Seen
  <2>2. \A f \in Files : Since(m[f], Data!Holds("data")'[f])
    BY <1>4, <1>5, <2>1
  <2>3. m \in moments'
    BY DEF Grows
  <2> QED BY <2>1, <2>2, <2>3 DEF Seen
<1>7. ASSUME Whole("data"), NEW f, Since(job[j].known[f], Data!Holds("data")[f]), f \in Files
      PROVE  Since(job[j].known[f], Data!Holds("data")'[f])
  BY <1>4, <1>5, <1>7
<1>8. InventorySound(j)'
  BY <1>1, <1>3, <1>4, <1>6, <1>7 DEF InventorySound
<1> QED BY <1>2, <1>8

\* An empty directory comes and goes without loss.
LEMMA EmptyKept ==
  ASSUME DataInv, UNCHANGED moments, NEW p \in Places, NEW v,
         v = None \/ (v \in Directory /\ v.files = Data!Empty),
         ~Data!Exists(p) \/ (p # "data" /\ Data!Holds(p) = Data!Empty),
         dir' = [dir EXCEPT ![p] = v]
  PROVE  /\ dir' \in [Places -> Directory \union {None}]
         /\ DirectoriesSound' /\ Stays /\ Grows
<1>1. dir \in [Places -> Directory \union {None}] /\ DirectoriesSound
  BY DEF DataInv, DataTyped
<1>2. /\ dir' \in [Places -> Directory \union {None}]
      /\ dir'[p] = v /\ \A q \in Places \ {p} : dir'[q] = dir[q]
  BY <1>1
<1>3. \A q \in Places \ {p} : (Data!Exists(q)' <=> Data!Exists(q)) /\ Data!Holds(q)' = Data!Holds(q)
  BY <1>2 DEF Data!Exists, Data!Holds
<1>4. \A e \in Files \union {"manifest"} : Data!Empty[e] = None
  BY DEF Data!Empty, Data!Files, Files
<1>5. \A e \in Files \union {"manifest"} : Data!Exists(p)' => Data!Holds(p)'[e] = None
  BY <1>2, <1>4 DEF Data!Exists, Data!Holds
<1>6. \A e \in Files \union {"manifest"} : Data!Exists(p) => p # "data" /\ Data!Holds(p)[e] = None
  BY <1>4
<1>7. ASSUME NEW q \in {"data", "restored"}, Data!Exists(q)'
      PROVE  /\ \A d \in Databases : Data!Holds(q)'[d] \in Nat \union {None}
             /\ Opened(q)' => Data!Holds(q)'.binding \in Bindings
  <2>1. CASE q = p
    BY <1>5, <1>7, <2>1 DEF Opened, Files
  <2>2. CASE q # p
    <3>1. q \in Places \ {p}
      BY <2>2 DEF Places
    <3> QED BY <1>1, <1>3, <1>7, <3>1 DEF Opened, DirectoriesSound
  <2> QED BY <2>1, <2>2
<1>8. Data!Exists("data")' /\ Opened("data")' => Contents("data")' \in moments'
  <2>1. CASE p = "data"
    BY <1>5, <2>1 DEF Opened, Files
  <2>2. CASE p # "data"
    <3>1. "data" \in Places \ {p}
      BY <2>2 DEF Places
    <3> QED BY <1>1, <1>3, <3>1 DEF Opened, DirectoriesSound, Contents, Data!Contents
  <2> QED BY <2>1, <2>2
<1>9. Data!Exists("copy")' /\ Data!Holds("copy")'.manifest # None => Data!Holds("copy")'.manifest \in moments'
  <2>1. CASE p = "copy"
    BY <1>5, <2>1
  <2>2. CASE p # "copy"
    <3>1. "copy" \in Places \ {p}
      BY <2>2 DEF Places
    <3> QED BY <1>1, <1>3, <3>1 DEF DirectoriesSound
  <2> QED BY <2>1, <2>2
<1>10. Stays
  <2>1. Remains(p)
    BY <1>6 DEF Remains
  <2>2. \A q \in Places \ {p} : Remains(q)
    BY <1>3 DEF Remains
  <2> QED BY <2>1, <2>2 DEF Stays
<1>11. Grows
  <2>1. CASE p = "data"
    BY <1>6, <2>1 DEF Grows
  <2>2. CASE p # "data"
    <3>1. "data" \in Places \ {p}
      BY <2>2 DEF Places
    <3> QED BY <1>3, <3>1 DEF Grows, Since
  <2> QED BY <2>1, <2>2
<1> QED BY <1>2, <1>7, <1>8, <1>9, <1>10, <1>11 DEF DirectoriesSound

\* A step that leaves the directories alone.
LEMMA Untouched ==
  ASSUME DataInv, UNCHANGED <<dir, moments>>
  PROVE  dir' \in [Places -> Directory \union {None}] /\ DirectoriesSound' /\ Stays /\ Grows
  BY DEF DataInv, DataTyped, DirectoriesSound, Stays, Remains, Grows, Since, Opened, Contents, Data!Contents,
     Data!Exists, Data!Holds

\* A step of one start.
LEMMA StartCloses ==
  ASSUME DataInv, NEW s \in Starts, Stays, Grows, DirectoriesSound', UNCHANGED job,
         dir' \in [Places -> Directory \union {None}], moments' \subseteq Moments,
         NEW r \in BootRecord, boot' = [boot EXCEPT ![s] = r], StartSound(s)'
  PROVE  DataInv'
<1>1. boot' \in [Starts -> BootRecord] /\ \A t \in Starts \ {s} : boot'[t] = boot[t]
  BY DEF DataInv, DataTyped
<1>2. DataTyped'
  BY <1>1 DEF DataInv, DataTyped
<1>3. \A t \in Starts : StartSound(t)'
  BY <1>1, StartKept
<1>4. \A j \in Data!Jobs : InventorySound(j)' /\ StagingSound(j)'
  BY JobKept
<1> QED BY <1>2, <1>3, <1>4 DEF DataInv

\* ensureConfigurationScope: a start takes a directory of its own binding or an
\* empty one.
LEMMA LookSteps ==
  ASSUME DataInv, NEW s \in Starts, NEW p \in {"data", "restored"}, NEW b \in Bindings, Data!Look(s, p, b)
  PROVE  DataInv' /\ Stays /\ boot'[s].at # "serving"
<1> DEFINE files == IF Data!Exists(p) THEN Data!Holds(p) ELSE Data!Empty
           r == [path |-> p, binding |-> b,
                 at |-> IF files.binding = b THEN "bound"
                        ELSE IF files = Data!Empty THEN "empty" ELSE "failed"]
<1>1. /\ boot' = [boot EXCEPT ![s] = r]
      /\ dir' = IF Data!Exists(p) THEN dir ELSE [dir EXCEPT ![p] = [by |-> s, files |-> Data!Empty]]
      /\ UNCHANGED <<job, moments>>
  BY DEF Data!Look
<1>2. r \in BootRecord /\ r.path = p /\ r.binding = b /\ r.at \in {"bound", "empty", "failed"}
      /\ (r.at = "bound" => files.binding = b)
  BY DEF BootRecord, BootSteps
<1>3. /\ dir' \in [Places -> Directory \union {None}] /\ DirectoriesSound' /\ Stays /\ Grows
  <2>1. CASE Data!Exists(p)
    BY <1>1, <2>1, Untouched
  <2>2. CASE ~Data!Exists(p)
    <3>1. Data!Empty \in FileMap
      BY DEF Data!Empty, Data!Files, Files, Content, FileMap
    <3> DEFINE v == [by |-> s, files |-> Data!Empty]
    <3>2. v \in Directory /\ v.files = Data!Empty
      BY <3>1 DEF Directory, FileMap
    <3>3. p \in Places /\ dir' = [dir EXCEPT ![p] = v] /\ UNCHANGED moments
      BY <1>1, <2>2 DEF Places
    <3> HIDE DEF v
    <3> QED BY <2>2, <3>2, <3>3, EmptyKept
  <2> QED BY <2>1, <2>2
<1>4. r.at = "bound" => Data!Exists(p)' /\ Data!Holds(p)'.binding = b
  <2>1. Data!Empty.binding = None
    BY DEF Data!Empty, Data!Files, Files
  <2>2. r.at = "bound" => Data!Exists(p) /\ Data!Holds(p).binding = b
    BY <1>2, <2>1, DataAssumption
  <2> QED BY <1>1, <2>2 DEF Data!Exists, Data!Holds
<1>5. boot'[s] = r
  BY <1>1 DEF DataInv, DataTyped
<1> HIDE DEF r, files
<1>6. StartSound(s)'
  BY <1>2, <1>4, <1>5 DEF StartSound, Data!Exists, Data!Holds
<1>7. moments' \subseteq Moments
  BY <1>1 DEF DataInv, DataTyped
<1> QED BY <1>1, <1>2, <1>3, <1>5, <1>6, <1>7, StartCloses

\* openSync with "wx": the binding is written where there is none.
LEMMA BindingSteps ==
  ASSUME DataInv, NEW s \in Starts, Data!WriteBinding(s)
  PROVE  DataInv' /\ Stays /\ boot'[s].at # "serving"
<1>1. PICK p \in {"data", "restored"} : p = boot[s].path /\ boot[s].binding \in Bindings
  BY DEF DataInv, StartSound, Data!WriteBinding
<1>2. UNCHANGED <<job, moments>>
  BY DEF Data!WriteBinding
<1>3. PICK at \in {"failed", "bound"}, b \in {boot[s].binding, Torn} :
         /\ boot' = [boot EXCEPT ![s].at = at]
         /\ at = "bound" => b = boot[s].binding
         /\ \/ ~Data!Unbound(p) /\ UNCHANGED dir /\ at = "failed"
            \/ Data!Unbound(p) /\ dir' = [dir EXCEPT ![p].files.binding = b]
  BY <1>1 DEF Data!WriteBinding, Data!BootAt
<1> DEFINE r == [boot[s] EXCEPT !.at = at]
<1>4. boot[s] \in BootRecord /\ boot \in [Starts -> BootRecord] /\ moments' \subseteq Moments
  BY <1>2 DEF DataInv, DataTyped
<1>5. /\ r \in BootRecord /\ r.at = at /\ r.path = boot[s].path /\ r.binding = boot[s].binding
      /\ boot' = [boot EXCEPT ![s] = r] /\ boot'[s] = r
  BY <1>3, <1>4 DEF BootRecord, BootSteps
<1> HIDE DEF r
<1>6. CASE ~Data!Unbound(p) /\ UNCHANGED dir /\ at = "failed"
  <2>1. /\ dir' \in [Places -> Directory \union {None}] /\ DirectoriesSound' /\ Stays /\ Grows
    BY <1>2, <1>6, Untouched
  <2>2. StartSound(s)'
    BY <1>5, <1>6 DEF StartSound
  <2> QED BY <1>2, <1>4, <1>5, <1>6, <2>1, <2>2, StartCloses
<1>7. CASE Data!Unbound(p) /\ dir' = [dir EXCEPT ![p].files.binding = b]
  <2> DEFINE F == [Data!Holds(p) EXCEPT !.binding = b]
  <2>1. Data!Exists(p) /\ Data!Holds(p).binding = None
    BY <1>7 DEF Data!Unbound
  <2>2. dir[p] \in Directory /\ dir \in [Places -> Directory \union {None}] /\ p \in Places
    BY <2>1 DEF DataInv, DataTyped, Data!Exists, Places
  <2>3. Data!Holds(p) \in FileMap /\ b \in Content
    BY <1>1, <2>2 DEF Data!Holds, Directory, FileMap, Content
  <2>4. dir' = [dir EXCEPT ![p].files = F]
    BY <1>7 DEF Data!Holds
  <2>5. /\ F \in FileMap /\ F.binding = b
        /\ \A f \in Files : f # "binding" => F[f] = Data!Holds(p)[f]
        /\ "binding" \in Files /\ Databases \subseteq Files /\ "binding" \notin Databases
    BY <2>3, DataAssumption DEF FileMap, Files
  <2>6. \A d \in Databases : F[d] = None
    BY <1>1, <2>1, <2>5, DataAssumption DEF DataInv, DirectoriesSound, Opened
  <2> HIDE DEF F
  <2>7. \A f \in Files : Data!Holds(p)[f] # None => Since(Data!Holds(p)[f], F[f]) /\ (f = "binding" => F[f] = Data!Holds(p)[f])
    BY <2>1, <2>5 DEF Since
  <2>8. /\ dir' \in [Places -> Directory \union {None}] /\ DirectoriesSound' /\ Stays /\ Grows
        /\ Data!Exists(p)' /\ Data!Holds(p)' = F
    BY <1>2, <1>4, <2>1, <2>4, <2>5, <2>6, <2>7, DirectoriesKept
  <2>9. StartSound(s)'
    BY <1>1, <1>3, <1>5, <2>5, <2>8 DEF StartSound
  <2> QED BY <1>2, <1>3, <1>4, <1>5, <2>8, <2>9, StartCloses
<1> QED BY <1>3, <1>6, <1>7

\* Databases are made where there are none; what they are is remembered.
LEMMA OpenSteps ==
  ASSUME DataInv, NEW s \in Starts, Data!OpenDatabases(s)
  PROVE  DataInv' /\ Stays
<1>1. PICK p \in {"data", "restored"} :
         /\ p = boot[s].path /\ boot[s].binding \in Bindings
         /\ Data!Exists(p) /\ Data!Holds(p).binding = boot[s].binding
  BY DEF DataInv, StartSound, Data!OpenDatabases
<1> DEFINE F == [e \in Files \union {"manifest"} |->
                   IF e \in Databases /\ Data!Holds(p)[e] = None THEN 1 ELSE Data!Holds(p)[e]]
           r == [boot[s] EXCEPT !.at = "serving"]
<1>2. /\ dir' = [dir EXCEPT ![p].files = F]
      /\ moments' = IF p = "data" THEN moments \union {Data!Contents(F)} ELSE moments
      /\ boot' = [boot EXCEPT ![s].at = "serving"] /\ UNCHANGED job
  BY <1>1 DEF Data!OpenDatabases, Data!BootAt, Data!Remember, Data!Empty, Data!Files, Files
<1>3. /\ boot[s] \in BootRecord /\ boot \in [Starts -> BootRecord] /\ moments \subseteq Moments
      /\ dir \in [Places -> Directory \union {None}] /\ p \in Places
  BY DEF DataInv, DataTyped, Places
<1>4. dir[p] \in Directory
  BY <1>1, <1>3 DEF Data!Exists
<1>5. Data!Holds(p) \in FileMap
  BY <1>4 DEF Data!Holds, Directory, FileMap
<1>6. \A d \in Databases : Data!Holds(p)[d] \in Nat \union {None}
  BY <1>1 DEF DataInv, DirectoriesSound
<1>7. /\ F \in FileMap /\ F.binding \in Bindings /\ F.binding = boot[s].binding
      /\ \A d \in Databases : F[d] \in Nat
      /\ \A f \in Files : Data!Holds(p)[f] # None => F[f] = Data!Holds(p)[f]
      /\ DOMAIN F = Files \union {"manifest"}
  <2>1. "binding" \in Files /\ "binding" \notin Databases /\ Databases \subseteq Files
    BY DataAssumption DEF Files
  <2>2. ASSUME NEW e \in Files \union {"manifest"} PROVE F[e] \in Content \union [Files -> Content]
    BY <1>5 DEF FileMap, Content
  <2>3. F \in FileMap
    BY <2>2 DEF FileMap
  <2> QED BY <1>1, <1>6, <2>1, <2>3
<1> HIDE DEF F
<1>8. Data!Contents(F) \in Moments
  <2>1. \A f \in Files : F[f] \in Content
    BY <1>7 DEF Files, Content
  <2> QED BY <1>7, <2>1 DEF Data!Contents, Data!Files, Files, Moments
<1>9. moments \subseteq moments' /\ moments' \subseteq Moments /\ (p = "data" => Data!Contents(F) \in moments')
  BY <1>2, <1>3, <1>8
<1>10. \A f \in Files : Data!Holds(p)[f] # None => Since(Data!Holds(p)[f], F[f]) /\ (f = "binding" => F[f] = Data!Holds(p)[f])
  BY <1>7 DEF Since
<1>11. /\ dir' \in [Places -> Directory \union {None}] /\ DirectoriesSound' /\ Stays /\ Grows
       /\ Data!Exists(p)' /\ Data!Holds(p)' = F
  BY <1>1, <1>2, <1>7, <1>9, <1>10, DirectoriesKept
<1>12. /\ r \in BootRecord /\ r.at = "serving" /\ r.path = p /\ r.binding = boot[s].binding
       /\ boot' = [boot EXCEPT ![s] = r] /\ boot'[s] = r
  BY <1>1, <1>2, <1>3 DEF BootRecord, BootSteps
<1> HIDE DEF r
<1>13. StartSound(s)'
  BY <1>1, <1>7, <1>11, <1>12 DEF StartSound
<1> QED BY <1>2, <1>9, <1>11, <1>12, <1>13, StartCloses

\* A runtime writes a new version of a database.
LEMMA WriteSteps ==
  ASSUME DataInv, NEW s \in Starts, NEW d \in Databases, Data!Write(s, d)
  PROVE  DataInv' /\ Stays
<1>1. PICK p \in {"data", "restored"} :
         /\ p = boot[s].path /\ boot[s].binding \in Bindings
         /\ Data!Exists(p) /\ Data!Holds(p).binding = boot[s].binding
         /\ \A e \in Databases : Data!Holds(p)[e] \in Nat
  BY DEF DataInv, StartSound, Data!Write
<1> DEFINE F == [Data!Holds(p) EXCEPT ![d] = @ + 1]
<1>2. /\ dir' = [dir EXCEPT ![p].files[d] = @ + 1]
      /\ moments' = IF p = "data" THEN moments \union {Data!Contents(F)} ELSE moments
      /\ UNCHANGED <<job, boot>>
  BY <1>1 DEF Data!Write, Data!Remember
<1>3. /\ boot[s] \in BootRecord /\ boot \in [Starts -> BootRecord] /\ moments \subseteq Moments
      /\ dir \in [Places -> Directory \union {None}] /\ p \in Places
  BY DEF DataInv, DataTyped, Places
<1>4. dir[p] \in Directory
  BY <1>1, <1>3 DEF Data!Exists
<1>5. Data!Holds(p) \in FileMap
  BY <1>4 DEF Data!Holds, Directory, FileMap
<1>6. dir' = [dir EXCEPT ![p].files = F]
  BY <1>2 DEF Data!Holds
<1>7. /\ F \in FileMap /\ F.binding = boot[s].binding
      /\ F[d] = Data!Holds(p)[d] + 1
      /\ \A f \in Files \ {d} : F[f] = Data!Holds(p)[f]
  <2>1. "binding" \in Files /\ "binding" # d /\ d \in Files
    BY DataAssumption DEF Files
  <2>2. Data!Holds(p)[d] + 1 \in Content
    BY <1>1 DEF Content
  <2> QED BY <1>1, <1>5, <2>1, <2>2 DEF FileMap
<1> HIDE DEF F
<1>8. \A e \in Databases : F[e] \in Nat
  BY <1>1, <1>7 DEF Files
<1>9. Data!Contents(F) \in Moments
  <2>1. \A f \in Files : F[f] \in Content
    BY <1>1, <1>7, <1>8 DEF Files, Content
  <2> QED BY <1>1, <1>7, <1>8, <2>1 DEF Data!Contents, Data!Files, Files, Moments
<1>10. moments \subseteq moments' /\ moments' \subseteq Moments /\ (p = "data" => Data!Contents(F) \in moments')
  BY <1>2, <1>3, <1>9
<1>11. \A f \in Files : Data!Holds(p)[f] # None => Since(Data!Holds(p)[f], F[f]) /\ (f = "binding" => F[f] = Data!Holds(p)[f])
  BY <1>1, <1>7, DataAssumption DEF Since, Files
<1>12. F.binding \in Bindings
  BY <1>1, <1>7
<1>13. /\ dir' \in [Places -> Directory \union {None}] /\ DirectoriesSound' /\ Stays /\ Grows
       /\ Data!Exists(p)' /\ Data!Holds(p)' = F
  BY <1>1, <1>6, <1>7, <1>8, <1>10, <1>11, <1>12, DirectoriesKept
<1>14. StartSound(s)'
  BY <1>2, <1>13, StartKept
<1>15. boot' = [boot EXCEPT ![s] = boot[s]]
  BY <1>2, <1>3
<1> QED BY <1>2, <1>3, <1>10, <1>13, <1>14, <1>15, StartCloses

\* A runtime stops.
LEMMA StopSteps ==
  ASSUME DataInv, NEW s \in Starts, Data!Stop(s)
  PROVE  DataInv' /\ Stays /\ boot'[s].at # "serving"
<1> DEFINE r == [boot[s] EXCEPT !.at = "stopped"]
<1>1. boot' = [boot EXCEPT ![s] = r] /\ UNCHANGED <<dir, job, moments>>
  BY DEF Data!Stop, Data!BootAt
<1>2. boot[s] \in BootRecord /\ boot \in [Starts -> BootRecord] /\ moments' \subseteq Moments
  BY <1>1 DEF DataInv, DataTyped
<1>3. r \in BootRecord /\ r.at = "stopped" /\ boot'[s] = r
  BY <1>1, <1>2 DEF BootRecord, BootSteps
<1> HIDE DEF r
<1>4. dir' \in [Places -> Directory \union {None}] /\ DirectoriesSound' /\ Stays /\ Grows
  BY <1>1, Untouched
<1>5. StartSound(s)'
  BY <1>3 DEF StartSound
<1> QED BY <1>1, <1>2, <1>3, <1>4, <1>5, StartCloses

\* A step of one job.
LEMMA JobCloses ==
  ASSUME DataInv, NEW j \in Data!Jobs, Stays, Grows, DirectoriesSound', UNCHANGED <<boot, moments>>,
         dir' \in [Places -> Directory \union {None}],
         job' \in [Data!Jobs -> JobRecord], \A k \in Data!Jobs \ {j} : job'[k] = job[k],
         InventorySound(j)', StagingSound(j)'
  PROVE  DataInv'
<1>1. DataTyped'
  BY DEF DataInv, DataTyped
<1>2. \A t \in Starts : StartSound(t)'
  BY StartKept
<1>3. \A k \in Data!Jobs : InventorySound(k)' /\ StagingSound(k)'
  BY JobKept
<1> QED BY <1>1, <1>2, <1>3 DEF DataInv

\* The order of the passes.
LEMMA Passes ==
  ASSUME NEW j \in Data!Jobs
  PROVE  /\ j \in Backups /\ job[j].at = "read" => Data!Following(j) = "reread"
         /\ j \in Backups /\ job[j].at = "reread" => Data!Following(j) = "copy"
         /\ j \in Backups /\ job[j].at = "copy" => Data!Following(j) = "check"
         /\ j \in Backups /\ job[j].at = "check" => Data!Following(j) = "recheck"
         /\ j \in Backups /\ job[j].at = "recheck" => Data!Following(j) = "validate"
         /\ j \in Backups /\ job[j].at = "validate" => Data!Following(j) = "reserve"
         /\ j \notin Backups /\ job[j].at = "read" => Data!Following(j) = "copy"
         /\ j \notin Backups /\ job[j].at = "copy" => Data!Following(j) = "validate"
         /\ j \notin Backups /\ job[j].at = "validate" => Data!Following(j) = "check"
         /\ j \notin Backups /\ job[j].at = "check" => Data!Following(j) = "reserve"
<1> DEFINE b == <<"read", "reread", "copy", "check", "recheck", "validate", "reserve">>
           r == <<"read", "copy", "validate", "check", "reserve">>
           n(s) == CHOOSE i \in DOMAIN s : s[i] = job[j].at
<1>1. ASSUME job[j].at \in {"read", "reread", "copy", "check", "recheck", "validate"}
      PROVE  n(b) \in 1..7 /\ b[n(b)] = job[j].at
  <2>1. \E i \in 1..7 : b[i] = job[j].at
    <3>1. b[1] = "read" /\ b[2] = "reread" /\ b[3] = "copy" /\ b[4] = "check" /\ b[5] = "recheck" /\ b[6] = "validate"
      OBVIOUS
    <3> QED BY <1>1, <3>1
  <2>2. DOMAIN b = 1..7
    OBVIOUS
  <2> QED BY <2>1, <2>2
<1>2. ASSUME job[j].at \in {"read", "copy", "check", "validate"}
      PROVE  n(r) \in 1..5 /\ r[n(r)] = job[j].at
  <2>1. \E i \in 1..5 : r[i] = job[j].at
    <3>1. r[1] = "read" /\ r[2] = "copy" /\ r[3] = "validate" /\ r[4] = "check"
      OBVIOUS
    <3> QED BY <1>2, <3>1
  <2>2. DOMAIN r = 1..5
    OBVIOUS
  <2> QED BY <2>1, <2>2
<1>3. /\ j \in Backups => Data!Following(j) = b[n(b) + 1]
      /\ j \notin Backups => Data!Following(j) = r[n(r) + 1]
  BY DEF Data!Following, Data!Steps
<1> HIDE DEF n
<1>4. \A i \in 1..7 : /\ b[i] = "read" => b[i + 1] = "reread"
                      /\ b[i] = "reread" => b[i + 1] = "copy"
                      /\ b[i] = "copy" => b[i + 1] = "check"
                      /\ b[i] = "check" => b[i + 1] = "recheck"
                      /\ b[i] = "recheck" => b[i + 1] = "validate"
                      /\ b[i] = "validate" => b[i + 1] = "reserve"
  OBVIOUS
<1>5. \A i \in 1..5 : /\ r[i] = "read" => r[i + 1] = "copy"
                      /\ r[i] = "copy" => r[i + 1] = "validate"
                      /\ r[i] = "validate" => r[i + 1] = "check"
                      /\ r[i] = "check" => r[i + 1] = "reserve"
  OBVIOUS
<1> HIDE DEF b, r
<1> QED BY <1>1, <1>2, <1>3, <1>4, <1>5

\* What one file of a pass changes of its job.
LEMMA FileDone ==
  ASSUME DataInv, NEW j \in Data!Jobs, NEW f \in job[j].left, NEW r \in JobRecord,
         r.at = job[j].at, Data!Did(j, f, r), Data!Following(j) \in JobSteps
  PROVE  /\ job' \in [Data!Jobs -> JobRecord] /\ \A k \in Data!Jobs \ {j} : job'[k] = job[k]
         /\ job'[j].known = r.known /\ job'[j].staging = r.staging
         /\ \/ /\ job[j].left \ {f} # {}
               /\ job'[j].at = job[j].at /\ job'[j].left = job[j].left \ {f}
            \/ /\ job[j].left \ {f} = {}
               /\ job'[j].at = Data!Following(j) /\ job'[j].left = Files
<1> DEFINE rest == job[j].left \ {f}
           q == IF rest = {} THEN [r EXCEPT !.at = Data!Following(j), !.left = Files]
                ELSE [r EXCEPT !.left = rest]
<1>1. job' = [job EXCEPT ![j] = q] /\ job \in [Data!Jobs -> JobRecord]
  BY DEF Data!Did, Data!Files, Files, DataInv, DataTyped
<1>2. job[j] \in JobRecord
  BY <1>1
<1>3. rest \in SUBSET Files
  BY <1>2 DEF JobRecord
<1>4. CASE rest = {}
  <2>1. q \in JobRecord /\ q.known = r.known /\ q.staging = r.staging /\ q.at = Data!Following(j) /\ q.left = Files
    BY <1>3, <1>4 DEF JobRecord
  <2> HIDE DEF q
  <2> QED BY <1>1, <1>4, <2>1
<1>5. CASE rest # {}
  <2>1. q \in JobRecord /\ q.known = r.known /\ q.staging = r.staging /\ q.at = job[j].at /\ q.left = rest
    BY <1>3, <1>5 DEF JobRecord
  <2> HIDE DEF q
  <2> QED BY <1>1, <1>5, <2>1
<1> QED BY <1>4, <1>5

\* A job that has ended is sound whatever it knew.
LEMMA JobEnds ==
  ASSUME DataInv, NEW j \in Data!Jobs, NEW at \in {"done", "failed", "crashed"}, Data!Ended(j, at)
  PROVE  /\ job' \in [Data!Jobs -> JobRecord] /\ \A k \in Data!Jobs \ {j} : job'[k] = job[k]
         /\ job'[j].at = at /\ InventorySound(j)' /\ StagingSound(j)'
<1> DEFINE q == [at |-> at, left |-> {}, known |-> Data!Contents(Data!Empty), staging |-> Data!Empty]
<1>1. Data!Contents(Data!Empty) \in [Files -> Content] /\ Data!Empty \in FileMap
  BY DEF Data!Contents, Data!Empty, Data!Files, Files, Content, FileMap
<1>2. q \in JobRecord /\ q.at = at
  BY <1>1 DEF JobRecord, JobSteps
<1>3. job' = [job EXCEPT ![j] = q] /\ job \in [Data!Jobs -> JobRecord]
  BY DEF Data!Ended, DataInv, DataTyped
<1> HIDE DEF q
<1>4. job' \in [Data!Jobs -> JobRecord] /\ (\A k \in Data!Jobs \ {j} : job'[k] = job[k]) /\ job'[j].at = at
  BY <1>2, <1>3
<1> QED BY <1>4 DEF InventorySound, StagingSound, Validated

\* A job begins with whole files, a restore with a manifest of a moment.
LEMMA BeginJobSteps ==
  ASSUME DataInv, NEW j \in Data!Jobs, Data!Begin(j)
  PROVE  DataInv' /\ Stays /\ job'[j].at # "done"
<1> DEFINE known == IF j \in Backups THEN Data!Contents(Data!Empty) ELSE Data!Holds("copy").manifest
           q == [job[j] EXCEPT !.at = "read", !.left = Files, !.known = known]
<1>1. /\ Data!Exists(Data!From(j)) /\ \A f \in Files : Data!Holds(Data!From(j))[f] \notin {None, Torn}
      /\ j \in Restores => Data!Holds(Data!From(j)).manifest # None
      /\ UNCHANGED <<dir, boot, moments>>
  BY DEF Data!Begin, Data!Files, Files
<1>2. job' = [job EXCEPT ![j] = q] /\ job \in [Data!Jobs -> JobRecord] /\ moments \subseteq Moments
  BY DEF Data!Begin, Data!Files, Files, Data!From, DataInv, DataTyped
<1>3. j \in Backups \/ (j \in Restores /\ j \notin Backups)
  BY DEF Data!Jobs
<1>4. j \notin Backups => known \in moments
  BY <1>1, <1>3 DEF Data!From, DataInv, DirectoriesSound
<1>5. known \in [Files -> Content]
  <2>1. Data!Contents(Data!Empty) \in [Files -> Content]
    BY DEF Data!Contents, Data!Empty, Data!Files, Files, Content
  <2> QED BY <1>2, <1>4, <2>1 DEF Moments
<1> HIDE DEF known
<1>6. job[j] \in JobRecord
  BY <1>2
<1>7. q \in JobRecord /\ q.at = "read" /\ q.left = Files /\ q.known = known
  BY <1>5, <1>6 DEF JobRecord, JobSteps
<1> HIDE DEF q
<1>8. /\ job' \in [Data!Jobs -> JobRecord] /\ \A k \in Data!Jobs \ {j} : job'[k] = job[k]
      /\ job'[j].at = "read" /\ job'[j].left = Files /\ job'[j].known = known
  BY <1>2, <1>7
<1>9. /\ dir' \in [Places -> Directory \union {None}] /\ DirectoriesSound' /\ Stays /\ Grows
  BY <1>1, Untouched
<1>10. j \in Backups => Whole("data")'
  BY <1>1 DEF Data!From, Whole, Data!Exists, Data!Holds
<1>11. Files # {}
  BY DEF Files
<1>12. j \in Backups => j \notin Restores
  BY DataAssumption
<1>13. InventorySound(j)'
  BY <1>1, <1>4, <1>8, <1>10, <1>11, <1>12 DEF InventorySound, Known
<1>14. StagingSound(j)'
  BY <1>8 DEF StagingSound, Validated
<1> QED BY <1>1, <1>8, <1>9, <1>13, <1>14, JobCloses

\* What is known of a moment is not changed by looking again.
LEMMA KnownStands ==
  ASSUME DataInv, NEW j \in Data!Jobs, Known(j), NEW f \in Files, NEW v, v # None, job[j].known[f] \in {None, v}
  PROVE  job[j].known[f] = v
<1>1. job[j].known \in Moments
  BY DEF DataInv, DataTyped, Known
<1>2. job[j].known[f] # None
  BY <1>1, DataAssumption DEF Moments, Files
<1> QED BY <1>2

\* What an inventory has read, and what it still has to read.
LEMMA ReadSteps ==
  ASSUME DataInv, NEW j \in Data!Jobs, Data!Read(j)
  PROVE  DataInv' /\ Stays /\ job'[j].at # "done"
<1>1. /\ UNCHANGED <<dir, boot, moments>> /\ job[j].at \in {"read", "reread", "check", "recheck"}
      /\ InventorySound(j) /\ StagingSound(j)
      /\ job[j] \in JobRecord /\ job[j].left \subseteq Files /\ job[j].left # {}
  BY DEF Data!Read, DataInv, DataTyped, InventorySound, JobRecord
<1>2. /\ dir' \in [Places -> Directory \union {None}] /\ DirectoriesSound' /\ Stays /\ Grows
  BY <1>1, Untouched
<1>3. CASE Data!Discard(j)
  BY <1>1, <1>2, <1>3, JobEnds, JobCloses DEF Data!Discard
<1>4. CASE ~Data!Discard(j)
  <2>1. PICK f \in job[j].left : f = Data!NextFile(j)
    BY <1>1 DEF Data!NextFile
  <2>2. PICK now1 : /\ now1 = IF Data!Exists(Data!From(j)) THEN Data!Holds(Data!From(j))[f] ELSE None
                    /\ now1 # None /\ job[j].known[f] \in {None, now1}
                    /\ Data!Did(j, f, [job[j] EXCEPT !.known[f] = now1])
    BY <1>4, <2>1 DEF Data!Read
  <2> DEFINE r == [job[j] EXCEPT !.known[f] = now1]
  <2>3. f \in Files /\ Data!Exists(Data!From(j)) /\ now1 = Data!Holds(Data!From(j))[f]
    BY <1>1, <2>2
  <2>4. (j \in Backups /\ j \notin Restores) \/ (j \in Restores /\ j \notin Backups)
    BY DataAssumption DEF Data!Jobs
  \* nothing that is of a moment changes
  <2>5. Known(j) => job[j].known[f] = now1
    BY <2>2, <2>3, KnownStands
  <2>6. now1 \in Content
    <3>1. CASE Known(j)
      BY <1>1, <2>3, <2>5, <3>1 DEF JobRecord
    <3>2. CASE ~Known(j)
      <4>1. Data!From(j) = "data" /\ Whole("data")
        BY <1>1, <2>4, <3>2 DEF InventorySound, Data!From
      <4>2. Opened("data")
        BY <4>1, DataAssumption DEF Whole, Opened, Files
      <4> QED BY <2>3, <4>1, <4>2 DEF DataInv, DirectoriesSound, Content, Files
    <3> QED BY <3>1, <3>2
  <2>7. r \in JobRecord /\ r.at = job[j].at /\ r.staging = job[j].staging
        /\ r.known = [job[j].known EXCEPT ![f] = now1]
    BY <1>1, <2>3, <2>6 DEF JobRecord
  <2>8. r.known[f] = now1 /\ \A g \in Files \ {f} : r.known[g] = job[j].known[g]
    BY <1>1, <2>3, <2>7 DEF JobRecord
  <2>9. Known(j) => r.known = job[j].known
    BY <1>1, <2>3, <2>5, <2>7 DEF JobRecord
  <2>10. Data!Following(j) \in JobSteps
    BY <1>1, <2>4, Passes DEF JobSteps, InventorySound
  <2>11. r.known \in [Files -> Content]
    BY <2>7 DEF JobRecord
  <2>11a. Data!Did(j, f, r)
    BY <2>2
  <2> HIDE DEF r
  <2>12. /\ job' \in [Data!Jobs -> JobRecord] /\ \A k \in Data!Jobs \ {j} : job'[k] = job[k]
         /\ job'[j].known = r.known /\ job'[j].staging = job[j].staging
         /\ \/ /\ job[j].left \ {f} # {}
               /\ job'[j].at = job[j].at /\ job'[j].left = job[j].left \ {f}
            \/ /\ job[j].left \ {f} = {}
               /\ job'[j].at = Data!Following(j) /\ job'[j].left = Files
    BY <2>7, <2>10, <2>11a, FileDone
  <2>13. Files # {} /\ job'[j].left # {}
    BY <2>12 DEF Files
  <2>14. Known(j) => Known(j)'
    BY <1>1, <2>9, <2>12 DEF Known
  <2>15. Whole("data") => Whole("data")'
    BY <1>1 DEF Whole, Data!Exists, Data!Holds
  <2>16. CASE j \in Backups /\ job[j].at = "read"
    <3>1. Whole("data") /\ now1 = Data!Holds("data")[f]
          /\ \A g \in Files \ job[j].left : Since(job[j].known[g], Data!Holds("data")[g])
      BY <1>1, <2>3, <2>16 DEF InventorySound, Data!From
    <3>2. \A g \in Files \ (job[j].left \ {f}) : Since(r.known[g], Data!Holds("data")'[g])
      BY <1>1, <2>8, <3>1 DEF Since, Data!Holds
    <3>3. CASE job[j].left \ {f} # {}
      <4>1. InventorySound(j)'
        BY <2>4, <2>12, <2>13, <2>15, <2>16, <3>1, <3>2, <3>3 DEF InventorySound
      <4>2. StagingSound(j)'
        BY <2>12, <2>16, <3>3 DEF StagingSound, Validated
      <4> QED BY <1>1, <1>2, <2>12, <2>16, <3>3, <4>1, <4>2, JobCloses
    <3>4. CASE job[j].left \ {f} = {}
      <4>1. job'[j].at = "reread" /\ job'[j].left = Files
        BY <2>12, <2>16, <3>4, Passes
      <4>2. Contents("data") \in moments
        <5>1. Opened("data")
          BY <3>1, DataAssumption DEF Whole, Opened, Files
        <5> QED BY <3>1, <5>1 DEF DataInv, DirectoriesSound, Whole
      <4>3. \A g \in Files : Contents("data")[g] = Data!Holds("data")[g]
        BY DEF Contents, Data!Contents, Data!Files, Files
      <4>4. Seen(j)'
        <5>1. \A g \in Files : /\ Since(job'[j].known[g], Contents("data")[g])
                               /\ Since(Contents("data")[g], Data!Holds("data")'[g])
                               /\ g \notin job'[j].left => job'[j].known[g] = Contents("data")[g]
          BY <1>1, <2>12, <3>2, <3>4, <4>1, <4>3 DEF Since, Data!Holds
        <5> QED BY <1>1, <4>2, <5>1 DEF Seen
      <4>5. InventorySound(j)'
        BY <2>4, <2>13, <2>15, <2>16, <3>1, <4>1, <4>4 DEF InventorySound
      <4>6. StagingSound(j)'
        BY <2>16, <4>1 DEF StagingSound, Validated
      <4> QED BY <1>1, <1>2, <2>12, <4>1, <4>5, <4>6, JobCloses
    <3> QED BY <3>3, <3>4
  <2>17. CASE j \in Backups /\ job[j].at = "reread"
    <3>1. Whole("data") /\ now1 = Data!Holds("data")[f] /\ Seen(j)
      BY <1>1, <2>3, <2>17 DEF InventorySound, Data!From
    <3>2. PICK m \in moments : \A g \in Files :
            /\ Since(job[j].known[g], m[g]) /\ Since(m[g], Data!Holds("data")[g])
            /\ g \notin job[j].left => job[j].known[g] = m[g]
      BY <3>1 DEF Seen
    <3>3. m \in Moments
      BY DEF DataInv, DataTyped
    <3>4. m[f] # None
      BY <2>3, <3>3, DataAssumption DEF Moments, Files
    <3>5. job[j].known[f] # None
      BY <2>3, <3>2, <3>4, DataAssumption DEF Since
    <3>6. now1 = job[j].known[f] /\ m[f] = now1
      BY <2>2, <2>3, <3>1, <3>2, <3>5 DEF Since
    <3>7. \A g \in Files : r.known[g] = job[j].known[g]
      BY <2>8, <3>6
    <3>8. \A g \in Files : /\ Since(r.known[g], m[g]) /\ Since(m[g], Data!Holds("data")'[g])
                           /\ g \notin job[j].left \ {f} => r.known[g] = m[g]
      BY <1>1, <3>2, <3>6, <3>7 DEF Data!Holds
    <3>9. CASE job[j].left \ {f} # {}
      <4>1. Seen(j)'
        BY <1>1, <2>12, <3>8, <3>9 DEF Seen
      <4>2. InventorySound(j)'
        BY <2>4, <2>12, <2>13, <2>15, <2>17, <3>1, <3>9, <4>1 DEF InventorySound
      <4>3. StagingSound(j)'
        BY <2>12, <2>17, <3>9 DEF StagingSound, Validated
      <4> QED BY <1>1, <1>2, <2>12, <2>17, <3>9, <4>2, <4>3, JobCloses
    <3>10. CASE job[j].left \ {f} = {}
      <4>1. job'[j].at = "copy" /\ job'[j].left = Files
        BY <2>12, <2>17, <3>10, Passes
      <4>2. r.known = m
        BY <2>11, <3>3, <3>8, <3>10 DEF Moments
      <4>3. Known(j)'
        BY <1>1, <2>12, <4>2 DEF Known
      <4>4. InventorySound(j)'
        BY <2>4, <2>13, <2>17, <4>1, <4>3 DEF InventorySound
      <4>5. StagingSound(j)'
        BY <2>17, <4>1 DEF StagingSound, Validated
      <4> QED BY <1>1, <1>2, <2>12, <4>1, <4>4, <4>5, JobCloses
    <3> QED BY <3>9, <3>10
  <2>18. CASE ~(j \in Backups /\ job[j].at \in {"read", "reread"})
    <3>1. Known(j) /\ Known(j)' /\ job'[j].known = job[j].known
      BY <1>1, <2>4, <2>9, <2>12, <2>14, <2>18 DEF InventorySound
    <3>2. job'[j].at \in {job[j].at, Data!Following(j)}
      BY <2>12
    <3>3. IF j \in Backups THEN job'[j].at \in {"check", "recheck", "validate"}
          ELSE job'[j].at \in {"read", "copy", "check", "reserve"}
      BY <1>1, <2>4, <2>18, <3>2, Passes DEF InventorySound
    <3>4. InventorySound(j)'
      BY <2>4, <2>13, <3>1, <3>3 DEF InventorySound
    <3>5. job'[j].at \in Validated(j) => job[j].at \in Validated(j)
      BY <1>1, <2>4, <2>18, <3>2, <3>3, Passes DEF Validated, InventorySound
    <3>6. job'[j].at = "validate" => job'[j].left = Files
      BY <1>1, <2>12
    <3>7. StagingSound(j)'
      BY <1>1, <2>12, <3>1, <3>3, <3>5, <3>6 DEF StagingSound, Data!AsKnown, Validated
    <3> QED BY <1>1, <1>2, <2>12, <3>3, <3>4, <3>7, JobCloses
  <2> QED BY <1>1, <2>16, <2>17, <2>18
<1> QED BY <1>3, <1>4

\* A copy is staged; good or bad, the validation that follows will tell.
LEMMA CopySteps ==
  ASSUME DataInv, NEW j \in Data!Jobs, Data!Copy(j)
  PROVE  DataInv' /\ Stays /\ job'[j].at # "done"
<1>1. /\ UNCHANGED <<dir, boot, moments>> /\ job[j].at = "copy"
      /\ InventorySound(j) /\ job[j] \in JobRecord /\ job[j].left \subseteq Files /\ job[j].left # {}
      /\ dir \in [Places -> Directory \union {None}]
  BY DEF Data!Copy, DataInv, DataTyped, InventorySound, JobRecord
<1>2. /\ dir' \in [Places -> Directory \union {None}] /\ DirectoriesSound' /\ Stays /\ Grows
  BY <1>1, Untouched
<1>3. CASE Data!Discard(j)
  BY <1>1, <1>2, <1>3, JobEnds, JobCloses DEF Data!Discard
<1>4. CASE ~Data!Discard(j)
  <2>1. PICK f \in job[j].left : f = Data!NextFile(j)
    BY <1>1 DEF Data!NextFile
  <2>2. PICK v : /\ v \in {Data!Holds(Data!From(j))[f], Bad} /\ Data!Exists(Data!From(j))
                 /\ Data!Did(j, f, [job[j] EXCEPT !.staging[f] = v])
    BY <1>4, <2>1 DEF Data!Copy
  <2> DEFINE r == [job[j] EXCEPT !.staging[f] = v]
  <2>3. Data!From(j) \in Places /\ f \in Files
    BY <1>1 DEF Data!From, Places
  <2>4. dir[Data!From(j)] \in Directory
    BY <1>1, <2>2, <2>3 DEF Data!Exists
  <2>5. v \in Content \union [Files -> Content]
    BY <2>2, <2>3, <2>4 DEF Directory, Data!Holds, Content
  <2>6. r \in JobRecord /\ r.at = job[j].at /\ r.known = job[j].known
    <3>1. [job[j].staging EXCEPT ![f] = v] \in FileMap
      BY <1>1, <2>3, <2>5 DEF JobRecord, FileMap
    <3> QED BY <1>1, <3>1 DEF JobRecord
  <2>7. (j \in Backups /\ j \notin Restores) \/ (j \in Restores /\ j \notin Backups)
    BY DataAssumption DEF Data!Jobs
  <2>8. Data!Following(j) = IF j \in Backups THEN "check" ELSE "validate"
    BY <1>1, Passes
  <2>8a. Data!Did(j, f, r) /\ Data!Following(j) \in JobSteps
    BY <2>2, <2>8 DEF JobSteps
  <2> HIDE DEF r
  <2>9. /\ job' \in [Data!Jobs -> JobRecord] /\ \A k \in Data!Jobs \ {j} : job'[k] = job[k]
        /\ job'[j].known = job[j].known
        /\ \/ /\ job[j].left \ {f} # {}
              /\ job'[j].at = job[j].at /\ job'[j].left = job[j].left \ {f}
           \/ /\ job[j].left \ {f} = {}
              /\ job'[j].at = Data!Following(j) /\ job'[j].left = Files
    BY <2>6, <2>8a, FileDone
  <2>10. Known(j) /\ Known(j)' /\ job'[j].left # {}
    BY <1>1, <2>7, <2>9 DEF InventorySound, Known, Files
  <2>11. \/ job'[j].at = "copy"
         \/ j \in Backups /\ job'[j].at = "check"
         \/ j \notin Backups /\ job'[j].at = "validate" /\ job'[j].left = Files
    BY <1>1, <2>8, <2>9
  <2>12. InventorySound(j)'
    BY <2>7, <2>10, <2>11 DEF InventorySound
  <2>13. StagingSound(j)'
    BY <2>11 DEF StagingSound, Validated
  <2> QED BY <1>1, <1>2, <2>9, <2>11, <2>12, <2>13, JobCloses
<1> QED BY <1>3, <1>4

\* validateCopiedFile: what is staged is what is known.
LEMMA ValidateSteps ==
  ASSUME DataInv, NEW j \in Data!Jobs, Data!Validate(j)
  PROVE  DataInv' /\ Stays /\ job'[j].at # "done"
<1>1. /\ UNCHANGED <<dir, boot, moments>> /\ job[j].at = "validate"
      /\ InventorySound(j) /\ StagingSound(j)
      /\ job[j] \in JobRecord /\ job[j].left \subseteq Files /\ job[j].left # {}
  BY DEF Data!Validate, DataInv, DataTyped, InventorySound, JobRecord
<1>2. /\ dir' \in [Places -> Directory \union {None}] /\ DirectoriesSound' /\ Stays /\ Grows
  BY <1>1, Untouched
<1>3. CASE Data!Discard(j)
  BY <1>1, <1>2, <1>3, JobEnds, JobCloses DEF Data!Discard
<1>4. CASE ~Data!Discard(j)
  <2>1. PICK f \in job[j].left : f = Data!NextFile(j)
    BY <1>1 DEF Data!NextFile
  <2>2. Data!AsKnown(j, f) /\ Data!Did(j, f, job[j])
    BY <1>4, <2>1 DEF Data!Validate
  <2>3. (j \in Backups /\ j \notin Restores) \/ (j \in Restores /\ j \notin Backups)
    BY DataAssumption DEF Data!Jobs
  <2>4. Data!Following(j) = IF j \in Backups THEN "reserve" ELSE "check"
    BY <1>1, Passes
  <2>5. Data!Following(j) \in JobSteps
    BY <2>4 DEF JobSteps
  <2>6. /\ job' \in [Data!Jobs -> JobRecord] /\ \A k \in Data!Jobs \ {j} : job'[k] = job[k]
        /\ job'[j].known = job[j].known /\ job'[j].staging = job[j].staging
        /\ \/ /\ job[j].left \ {f} # {}
              /\ job'[j].at = job[j].at /\ job'[j].left = job[j].left \ {f}
           \/ /\ job[j].left \ {f} = {}
              /\ job'[j].at = Data!Following(j) /\ job'[j].left = Files
    BY <1>1, <2>2, <2>5, FileDone
  <2>7. Known(j) /\ Known(j)' /\ job'[j].left # {}
    BY <1>1, <2>3, <2>6 DEF InventorySound, Known, Files
  <2>8. \/ job'[j].at = "validate" /\ job'[j].left = job[j].left \ {f}
        \/ job[j].left \ {f} = {} /\ j \in Backups /\ job'[j].at = "reserve"
        \/ job[j].left \ {f} = {} /\ j \notin Backups /\ job'[j].at = "check"
    BY <1>1, <2>4, <2>6
  <2>9. InventorySound(j)'
    BY <2>3, <2>7, <2>8 DEF InventorySound
  <2>10. \A g \in Files \ (job[j].left \ {f}) : Data!AsKnown(j, g)'
    BY <1>1, <2>2, <2>6 DEF StagingSound, Data!AsKnown
  <2>11. StagingSound(j)'
    BY <2>8, <2>10 DEF StagingSound, Validated
  <2> QED BY <1>1, <1>2, <2>6, <2>8, <2>9, <2>11, JobCloses
<1> QED BY <1>3, <1>4

\* mkdir reserves a destination that is missing.
LEMMA ReserveSteps ==
  ASSUME DataInv, NEW j \in Data!Jobs, Data!Reserve(j)
  PROVE  DataInv' /\ Stays /\ job'[j].at # "done"
<1>1. /\ UNCHANGED <<boot, moments>> /\ job[j].at = "reserve"
      /\ InventorySound(j) /\ StagingSound(j) /\ job[j] \in JobRecord
      /\ job \in [Data!Jobs -> JobRecord]
  BY DEF Data!Reserve, DataInv, DataTyped
<1>2. CASE Data!Exists(Data!To(j))
  <2>1. Data!Discard(j) /\ UNCHANGED dir
    BY <1>2 DEF Data!Reserve
  <2>2. /\ dir' \in [Places -> Directory \union {None}] /\ DirectoriesSound' /\ Stays /\ Grows
    BY <1>1, <2>1, Untouched
  <2> QED BY <1>1, <2>1, <2>2, JobEnds, JobCloses DEF Data!Discard
<1>3. CASE ~Data!Exists(Data!To(j))
  <2> DEFINE v == [by |-> j, files |-> Data!Empty]
             q == [job[j] EXCEPT !.at = "publish", !.staging.manifest = job[j].known]
  <2>1. Data!Empty \in FileMap
    BY DEF Data!Empty, Data!Files, Files, Content, FileMap
  <2>2. v \in Directory /\ v.files = Data!Empty
    BY <2>1 DEF Directory, FileMap, Data!Jobs
  <2>3. dir' = [dir EXCEPT ![Data!To(j)] = v] /\ Data!To(j) \in Places
    BY <1>3 DEF Data!Reserve, Data!To, Places
  <2> HIDE DEF v
  <2>4. /\ dir' \in [Places -> Directory \union {None}] /\ DirectoriesSound' /\ Stays /\ Grows
    BY <1>1, <1>3, <2>2, <2>3, EmptyKept
  <2>5. q \in JobRecord /\ q.at = "publish" /\ q.known = job[j].known /\ q.staging.manifest = job[j].known
        /\ \A f \in Files : q.staging[f] = job[j].staging[f]
    <3>1. [job[j].staging EXCEPT !.manifest = job[j].known] \in FileMap
          /\ [job[j].staging EXCEPT !.manifest = job[j].known].manifest = job[j].known
      BY <1>1 DEF JobRecord, FileMap
    <3>2. "manifest" \notin Files
      BY DataAssumption DEF Files
    <3> QED BY <1>1, <3>1, <3>2 DEF JobRecord, FileMap, JobSteps
  <2>6. job' = [job EXCEPT ![j] = q]
    BY <1>3 DEF Data!Reserve
  <2> HIDE DEF q
  <2>7. /\ job' \in [Data!Jobs -> JobRecord] /\ \A k \in Data!Jobs \ {j} : job'[k] = job[k]
        /\ job'[j] = q
    BY <1>1, <2>5, <2>6
  <2>8. (j \in Backups /\ j \notin Restores) \/ (j \in Restores /\ j \notin Backups)
    BY DataAssumption DEF Data!Jobs
  <2>9. Known(j) /\ Known(j)'
    BY <1>1, <2>5, <2>7, <2>8 DEF InventorySound, Known
  <2>10. InventorySound(j)'
    BY <2>5, <2>7, <2>8, <2>9 DEF InventorySound
  <2>11. StagingSound(j)'
    BY <1>1, <2>5, <2>7 DEF StagingSound, Validated, Data!AsKnown
  <2> QED BY <1>1, <2>4, <2>5, <2>7, <2>10, <2>11, JobCloses
<1> QED BY <1>2, <1>3

\* What a job has staged is a moment, and says so.
LEMMA StagedWhole ==
  ASSUME DataInv, NEW j \in Data!Jobs, job[j].at = "publish"
  PROVE  /\ job[j].staging \in FileMap
         /\ Data!Contents(job[j].staging) \in moments
         /\ job[j].staging.manifest = Data!Contents(job[j].staging)
         /\ \A f \in Files : Data!Contents(job[j].staging)[f] = job[j].staging[f]
<1>1. job[j] \in JobRecord /\ InventorySound(j) /\ StagingSound(j)
  BY DEF DataInv, DataTyped
<1>2. job[j].known \in moments /\ job[j].known \in [Files -> Content]
  BY <1>1 DEF InventorySound, Known, Data!Jobs, JobRecord
<1>3. \A f \in Files : job[j].staging[f] = job[j].known[f]
  BY <1>1 DEF StagingSound, Validated, Data!AsKnown
<1>4. Data!Contents(job[j].staging) = job[j].known
  BY <1>2, <1>3 DEF Data!Contents, Data!Files, Files
<1> QED BY <1>1, <1>2, <1>3, <1>4 DEF StagingSound, JobRecord

\* rename puts a whole directory where an empty one was.
LEMMA PublishSteps ==
  ASSUME DataInv, NEW j \in Data!Jobs, Data!Publish(j)
  PROVE  /\ DataInv' /\ Stays
         /\ job'[j].at = "done" => /\ dir'[Data!To(j)].files.manifest = Data!Contents(dir'[Data!To(j)].files)
                                   /\ Data!Contents(dir'[Data!To(j)].files) \in moments
<1>1. /\ UNCHANGED <<boot, moments>> /\ job[j].at = "publish"
      /\ dir \in [Places -> Directory \union {None}] /\ DirectoriesSound /\ moments \subseteq Moments
  BY DEF Data!Publish, DataInv, DataTyped
<1>2. CASE ~Data!StillReserved(j)
  <2>1. Data!Ended(j, "failed") /\ UNCHANGED dir
    BY <1>2 DEF Data!Publish, Data!Discard
  <2>2. /\ dir' \in [Places -> Directory \union {None}] /\ DirectoriesSound' /\ Stays /\ Grows
    BY <1>1, <2>1, Untouched
  <2> QED BY <1>1, <2>1, <2>2, JobEnds, JobCloses
<1>3. CASE Data!StillReserved(j)
  <2> DEFINE S == job[j].staging
             v == [by |-> None, files |-> S]
  <2>1. PICK p \in {"copy", "restored"} : p = Data!To(j)
    BY DEF Data!To
  <2>2. dir' = [dir EXCEPT ![p] = v] /\ Data!Ended(j, "done")
    BY <1>3, <2>1 DEF Data!Publish
  <2>3. /\ S \in FileMap /\ Data!Contents(S) \in moments /\ S.manifest = Data!Contents(S)
        /\ \A f \in Files : Data!Contents(S)[f] = S[f]
    BY <1>1, StagedWhole
  <2> HIDE DEF S
  <2>4. v \in Directory /\ v.files = S /\ p \in Places
    BY <2>3 DEF Directory, FileMap, Places
  <2> HIDE DEF v
  <2>5. /\ dir' \in [Places -> Directory \union {None}] /\ dir'[p] = v
        /\ \A q \in Places \ {p} : dir'[q] = dir[q]
    BY <1>1, <2>2, <2>4
  <2>6. Data!Exists(p)' /\ Data!Holds(p)' = S
    BY <2>4, <2>5, DataAssumption DEF Data!Exists, Data!Holds
  <2>7. \A q \in Places \ {p} : (Data!Exists(q)' <=> Data!Exists(q)) /\ Data!Holds(q)' = Data!Holds(q)
    BY <2>5 DEF Data!Exists, Data!Holds
  <2>8. \A e \in Files \union {"manifest"} : Data!Holds(p)[e] = None
    <3>1. Data!Holds(p) = Data!Empty
      BY <1>3, <2>1 DEF Data!StillReserved
    <3> QED BY <3>1 DEF Data!Empty, Data!Files, Files
  <2>9. S.binding \in Bindings /\ \A d \in Databases : S[d] \in Nat
    BY <1>1, <2>3 DEF Moments, Files
  <2>10. "data" \in Places \ {p}
    BY DEF Places
  <2>11. DirectoriesSound'
    <3>1. ASSUME NEW q \in {"data", "restored"}, Data!Exists(q)'
          PROVE  /\ \A d \in Databases : Data!Holds(q)'[d] \in Nat \union {None}
                 /\ Opened(q)' => Data!Holds(q)'.binding \in Bindings
      <4>1. CASE q = p
        BY <2>6, <2>9, <4>1
      <4>2. CASE q # p
        <5>1. q \in Places \ {p}
          BY <4>2 DEF Places
        <5> QED BY <1>1, <2>7, <3>1, <5>1 DEF Opened, DirectoriesSound
      <4> QED BY <4>1, <4>2
    <3>2. Data!Exists("data")' /\ Opened("data")' => Contents("data")' \in moments'
      BY <1>1, <2>7, <2>10 DEF Opened, DirectoriesSound, Contents, Data!Contents
    <3>3. Data!Exists("copy")' /\ Data!Holds("copy")'.manifest # None => Data!Holds("copy")'.manifest \in moments'
      <4>1. CASE p = "copy"
        BY <1>1, <2>3, <2>6, <4>1
      <4>2. CASE p # "copy"
        <5>1. "copy" \in Places \ {p}
          BY <4>2 DEF Places
        <5> QED BY <1>1, <2>7, <5>1 DEF DirectoriesSound
      <4> QED BY <4>1, <4>2
    <3> QED BY <3>1, <3>2, <3>3 DEF DirectoriesSound
  <2>12. Stays
    <3>1. Remains(p)
      BY <2>8 DEF Remains
    <3>2. \A q \in Places \ {p} : Remains(q)
      BY <2>7 DEF Remains
    <3> QED BY <3>1, <3>2 DEF Stays
  <2>13. Grows
    BY <1>1, <2>7, <2>10 DEF Grows, Since
  <2>14. DataInv'
    BY <1>1, <2>2, <2>5, <2>11, <2>12, <2>13, JobEnds, JobCloses
  <2>15. dir'[Data!To(j)].files = S
    BY <2>1, <2>4, <2>5
  <2> QED BY <2>3, <2>12, <2>14, <2>15
<1> QED BY <1>2, <1>3

\* An error or a crash leaves nothing of others touched.
LEMMA RefuseSteps ==
  ASSUME DataInv, NEW j \in Data!Jobs, Data!Refuse(j)
  PROVE  DataInv' /\ Stays /\ job'[j].at # "done"
<1>1. PICK at \in {"failed", "crashed"} : Data!Ended(j, at)
  BY DEF Data!Refuse, Data!Discard
<1>2. UNCHANGED <<boot, moments>>
  BY DEF Data!Refuse
<1>3. /\ dir' \in [Places -> Directory \union {None}] /\ DirectoriesSound' /\ Stays /\ Grows
  <2>1. CASE UNCHANGED dir
    BY <1>2, <2>1, Untouched
  <2>2. CASE Data!StillReserved(j) /\ dir' = [dir EXCEPT ![Data!To(j)] = None]
    <3>1. Data!To(j) \in Places /\ Data!To(j) # "data" /\ Data!Holds(Data!To(j)) = Data!Empty
      BY <2>2 DEF Data!To, Places, Data!StillReserved
    <3> DEFINE p == Data!To(j)
    <3>2. p \in Places /\ p # "data" /\ Data!Holds(p) = Data!Empty /\ dir' = [dir EXCEPT ![p] = None]
      BY <2>2, <3>1
    <3> HIDE DEF p
    <3> QED BY <1>2, <3>2, EmptyKept
  <2> QED BY <2>1, <2>2 DEF Data!Refuse
<1> QED BY <1>1, <1>2, <1>3, JobEnds, JobCloses

\* A step outside of starts and jobs.
LEMMA OthersClose ==
  ASSUME DataInv, Stays, Grows, DirectoriesSound', UNCHANGED <<job, boot, moments>>,
         dir' \in [Places -> Directory \union {None}]
  PROVE  DataInv'
<1>1. DataTyped'
  BY DEF DataInv, DataTyped
<1>2. \A t \in Starts : StartSound(t)'
  BY StartKept
<1>3. \A k \in Data!Jobs : InventorySound(k)' /\ StagingSound(k)'
  BY JobKept
<1> QED BY <1>1, <1>2, <1>3 DEF DataInv

\* A snapshot that goes bad keeps its manifest.
LEMMA DecaySteps ==
  ASSUME DataInv, NEW d \in Databases, Data!Decay(d)
  PROVE  DataInv' /\ Stays
<1> DEFINE F == [Data!Holds("copy") EXCEPT ![d] = Bad]
           v == [dir["copy"] EXCEPT !.files = F]
<1>1. /\ Data!Exists("copy") /\ Data!Holds("copy")[d] # None /\ UNCHANGED <<job, boot, moments>>
      /\ dir' = [dir EXCEPT !["copy"].files[d] = Bad]
      /\ dir \in [Places -> Directory \union {None}] /\ DirectoriesSound
  BY DEF Data!Decay, DataInv, DataTyped
<1>2. dir["copy"] \in Directory
  BY <1>1 DEF Data!Exists, Places
<1>3. dir["copy"].files \in FileMap /\ Data!Holds("copy") = dir["copy"].files
  BY <1>2 DEF Directory, FileMap, Data!Holds
<1>4. "manifest" \notin Databases /\ d \in Files /\ "binding" # d /\ Databases \subseteq Files
  BY DataAssumption DEF Files
<1>5. F \in FileMap /\ F[d] = Bad /\ \A e \in (Files \union {"manifest"}) \ {d} : F[e] = Data!Holds("copy")[e]
  BY <1>3, <1>4 DEF FileMap, Content
<1>6. dir' = [dir EXCEPT !["copy"] = v]
  BY <1>1 DEF Data!Holds
<1> HIDE DEF F
<1>7. v \in Directory /\ v.files = F
  BY <1>2, <1>5 DEF Directory, FileMap
<1> HIDE DEF v
<1>8. /\ dir' \in [Places -> Directory \union {None}] /\ dir'["copy"] = v
      /\ \A q \in Places \ {"copy"} : dir'[q] = dir[q]
  BY <1>1, <1>6, <1>7 DEF Places
<1>9. Data!Exists("copy")' /\ Data!Holds("copy")' = F
  BY <1>7, <1>8, DataAssumption DEF Data!Exists, Data!Holds
<1>10. \A q \in Places \ {"copy"} : (Data!Exists(q)' <=> Data!Exists(q)) /\ Data!Holds(q)' = Data!Holds(q)
  BY <1>8 DEF Data!Exists, Data!Holds
<1>11. {"data", "restored"} \subseteq Places \ {"copy"}
  BY DEF Places
<1>12. DirectoriesSound'
  BY <1>1, <1>4, <1>5, <1>9, <1>10, <1>11 DEF DirectoriesSound, Opened, Contents, Data!Contents
<1>13. Stays
  <2>1. Remains("copy")
    BY <1>4, <1>5, <1>9, DataAssumption DEF Remains
  <2>2. \A q \in Places \ {"copy"} : Remains(q)
    BY <1>10 DEF Remains
  <2> QED BY <2>1, <2>2 DEF Stays
<1>14. Grows
  BY <1>1, <1>10, <1>11 DEF Grows, Since
<1> QED BY <1>1, <1>8, <1>12, <1>13, <1>14, OthersClose

\* Whatever is done to the directories of a runtime, nothing of them goes away,
\* and a job that is done has put a moment where it said it would.
LEMMA DataStep ==
  ASSUME DataInv, Data!Next
  PROVE  /\ DataInv' /\ Stays
         /\ \A j \in Data!Jobs : job[j].at # "done" /\ job'[j].at = "done" =>
               /\ dir'[Data!To(j)].files.manifest = Data!Contents(dir'[Data!To(j)].files)
               /\ Data!Contents(dir'[Data!To(j)].files) \in moments
<1>1. ASSUME NEW s \in Starts,
             \/ \E p \in {"data", "restored"}, b \in Bindings : Data!Look(s, p, b)
             \/ Data!WriteBinding(s) \/ Data!OpenDatabases(s) \/ Data!Stop(s)
             \/ \E d \in Databases : Data!Write(s, d)
      PROVE  DataInv' /\ Stays /\ UNCHANGED job
  <2>1. UNCHANGED job
    BY <1>1 DEF Data!Look, Data!WriteBinding, Data!OpenDatabases, Data!Stop, Data!Write
  <2> QED BY <1>1, <2>1, LookSteps, BindingSteps, OpenSteps, StopSteps, WriteSteps
<1>2. ASSUME NEW j \in Data!Jobs,
             \/ Data!Begin(j) \/ Data!Read(j) \/ Data!Copy(j) \/ Data!Validate(j)
             \/ Data!Reserve(j) \/ Data!Publish(j) \/ Data!Refuse(j)
      PROVE  /\ DataInv' /\ Stays
             /\ job'[j].at = "done" => /\ dir'[Data!To(j)].files.manifest = Data!Contents(dir'[Data!To(j)].files)
                                       /\ Data!Contents(dir'[Data!To(j)].files) \in moments
  BY <1>2, BeginJobSteps, ReadSteps, CopySteps, ValidateSteps, ReserveSteps, PublishSteps, RefuseSteps
<1>3. ASSUME NEW j \in Data!Jobs,
             \/ Data!Begin(j) \/ Data!Read(j) \/ Data!Copy(j) \/ Data!Validate(j)
             \/ Data!Reserve(j) \/ Data!Publish(j) \/ Data!Refuse(j)
      PROVE  \A k \in Data!Jobs \ {j} : job'[k].at = job[k].at
  <2>1. job \in [Data!Jobs -> JobRecord]
    BY DEF DataInv, DataTyped
  <2>2. \E q : job' = [job EXCEPT ![j] = q]
    BY <1>3 DEF Data!Begin, Data!Read, Data!Copy, Data!Validate, Data!Reserve, Data!Publish, Data!Refuse,
                Data!Discard, Data!Ended, Data!Did
  <2> QED BY <2>1, <2>2
<1>4. ASSUME NEW p \in {"copy", "restored"}, Data!Tidy(p)
      PROVE  DataInv' /\ Stays /\ UNCHANGED job
  <2>1. /\ p \in Places /\ p # "data" /\ Data!Holds(p) = Data!Empty /\ dir' = [dir EXCEPT ![p] = None]
        /\ UNCHANGED <<job, boot, moments>>
    BY <1>4 DEF Data!Tidy, Places
  <2>2. /\ dir' \in [Places -> Directory \union {None}] /\ DirectoriesSound' /\ Stays /\ Grows
    BY <2>1, EmptyKept
  <2> QED BY <2>1, <2>2, OthersClose
<1>5. ASSUME NEW d \in Databases, Data!Decay(d)
      PROVE  DataInv' /\ Stays /\ UNCHANGED job
  <2>1. UNCHANGED job
    BY <1>5 DEF Data!Decay
  <2> QED BY <1>5, <2>1, DecaySteps
<1>6. CASE DataInv' /\ Stays /\ UNCHANGED job
  BY <1>6
<1>7. CASE \E j \in Data!Jobs : \/ Data!Begin(j) \/ Data!Read(j) \/ Data!Copy(j) \/ Data!Validate(j)
                                \/ Data!Reserve(j) \/ Data!Publish(j) \/ Data!Refuse(j)
  BY <1>2, <1>3, <1>7
<1> QED BY <1>1, <1>4, <1>5, <1>6, <1>7 DEF Data!Next

\* The other parts do not touch a directory.
LEMMA DataInductive == DataInv /\ [Next]_vars => DataInv'
<1> SUFFICES ASSUME DataInv, [Next]_vars PROVE DataInv'
  OBVIOUS
<1>1. CASE UNCHANGED data
  <2>1. UNCHANGED <<dir, job, boot, moments>>
    BY <1>1 DEF data
  <2>2. dir' \in [Places -> Directory \union {None}] /\ DirectoriesSound' /\ Stays /\ Grows
    BY <2>1, Untouched
  <2> QED BY <2>1, <2>2, OthersClose
<1>2. CASE Data!Next
  BY <1>2, DataStep
<1> QED BY <1>1, <1>2 DEF Next, vars

\* Directories appear whole and are never mixed (publishStaging, writeBinding):
\* two inventories in a row, of files that only get newer, tell what there was
\* between them, and nothing is put where something is.
THEOREM DataKept == Spec => DataWhole
<1>1. DataInv /\ DataInv' /\ [Next]_vars =>
        [\A j \in Data!Jobs : job[j].at # "done" /\ job'[j].at = "done" =>
           LET files == dir'[Data!To(j)].files IN
           /\ files.manifest = Data!Contents(files)
           /\ j \in Backups => Data!Contents(files) \in moments
           /\ j \in Restores => Data!Contents(files) \in moments]_(Data!vars)
  <2> SUFFICES ASSUME DataInv, [Next]_vars, ~UNCHANGED Data!vars
               PROVE  \A j \in Data!Jobs : job[j].at # "done" /\ job'[j].at = "done" =>
                         LET files == dir'[Data!To(j)].files IN
                         /\ files.manifest = Data!Contents(files)
                         /\ j \in Backups => Data!Contents(files) \in moments
                         /\ j \in Restores => Data!Contents(files) \in moments
    OBVIOUS
  <2>1. Data!Next
    BY DEF Next, vars, data, Data!vars
  <2> QED BY <2>1, DataStep
<1>2. DataInv /\ DataInv' /\ [Next]_vars =>
        [/\ \A p \in DOMAIN dir, f \in Data!Files :
              Data!Exists(p) /\ Data!Holds(p)[f] # None =>
                /\ dir'[p] # None /\ dir'[p].files[f] # None
                /\ f = "binding" => dir'[p].files[f] = Data!Holds(p)[f]
         /\ \A s \in Starts : boot'[s].at = "serving" =>
              dir'[boot'[s].path].files.binding = boot'[s].binding]_(Data!vars)
  <2> SUFFICES ASSUME DataInv, DataInv', [Next]_vars, ~UNCHANGED Data!vars
               PROVE  /\ \A p \in DOMAIN dir, f \in Data!Files :
                           Data!Exists(p) /\ Data!Holds(p)[f] # None =>
                             /\ dir'[p] # None /\ dir'[p].files[f] # None
                             /\ f = "binding" => dir'[p].files[f] = Data!Holds(p)[f]
                      /\ \A s \in Starts : boot'[s].at = "serving" =>
                           dir'[boot'[s].path].files.binding = boot'[s].binding
    OBVIOUS
  <2>1. Data!Next
    BY DEF Next, vars, data, Data!vars
  <2>2. Stays /\ DOMAIN dir = Places
    BY <2>1, DataStep DEF DataInv, DataTyped
  <2>3. \A p \in Places, f \in Files : Data!Exists(p) /\ Data!Holds(p)[f] # None =>
          /\ dir'[p] # None /\ dir'[p].files[f] # None
          /\ f = "binding" => dir'[p].files[f] = Data!Holds(p)[f]
    BY <2>2 DEF Stays, Remains, Data!Exists, Data!Holds
  <2>4. \A s \in Starts : boot'[s].at = "serving" => dir'[boot'[s].path].files.binding = boot'[s].binding
    BY DEF DataInv, StartSound, Data!Holds
  <2> QED BY <2>2, <2>3, <2>4 DEF Data!Files, Files
<1> QED BY <1>1, <1>2, DataInit, DataInductive, PTL
        DEF Spec, DataWhole, Data!DataWhole, Data!PublishedWhole, Data!NothingReplaced

------------------------------------------------------------------------------
(* Synchronisation of a source. *)

Pages == [Paths -> Nat]
State == [version : Nat,
          entries : [Paths -> [status : {"absent", "present", "removed"}, page : Nat, draft : Nat]]]
Operation == [do : {"import"}, path : Paths, page : Nat, expect : Nat]
             \union [do : {"reconcile"}, present : SUBSET Paths, expect : Nat]
Snapshot == UNION {[W -> Nat] : W \in SUBSET Paths}
Phases == {"idle", "failed", "read", "verify", "load", "drop", "import", "asked", "last", "done"}
SyncRecord == [phase : Phases, wanted : SUBSET Paths, files : Snapshot, left : SUBSET Paths,
               asked : Operation \union {None}, state : State \union {None},
               since : Nat, seen : Nat, tries : Nat]

SourcesTyped ==
    /\ upstream \in Seq(Pages) /\ Len(upstream) >= 1
    /\ source \in State
    /\ drafts \in Seq(Operation)
    /\ DOMAIN receipts \subseteq Operation /\ receipts \in [DOMAIN receipts -> State]
    /\ sync \in [Syncs -> SyncRecord]

\* Pages are edited, never taken back.
HistoryGrows == \A i, j \in 1..Len(upstream) : i <= j => \A p \in Paths : upstream[i][p] <= upstream[j][p]

DraftsSound ==
    /\ \A p \in Paths : LET e == source.entries[p] IN
         e.status # "absent" => e.draft \in 1..Len(drafts) /\ drafts[e.draft].path = p /\ drafts[e.draft].page = e.page
    /\ \A i \in 1..Len(drafts) : drafts[i] \in DOMAIN receipts
    /\ \A i, j \in 1..Len(drafts) : drafts[i] = drafts[j] => i = j

\* The states somebody still has.
Loaded == {"drop", "import", "asked", "last", "done"}
HeldStates == {source} \union {receipts[op] : op \in DOMAIN receipts}
              \union {sync[s].state : s \in {t \in Syncs : sync[t].phase \in Loaded}}

Follows(op, from, to) ==
    /\ to.version >= from.version
    /\ op.do = "reconcile" => /\ Sources!Present(to) = op.present
                              /\ \A p \in Paths : to.entries[p].page = from.entries[p].page

\* A version is of one state, so a receipt tells what came of the very state
\* its operation expected.
VersionsSound ==
    /\ \A st \in HeldStates : st.version <= source.version /\ (st.version = source.version => st = source)
    /\ \A op \in DOMAIN receipts :
          /\ op.expect <= source.version
          /\ \A st \in HeldStates : st.version = op.expect => Follows(op, st, receipts[op])

SyncSound(y) ==
    /\ y.phase \notin {"idle", "failed"} => y.files \in [y.wanted -> Nat] /\ y.since \in 1..Len(upstream)
    /\ y.phase \in {"read", "verify"} => y.left \subseteq y.wanted
    \* pages read so far may have been edited since
    /\ y.phase = "read" => \A p \in y.wanted \ y.left : y.files[p] <= Sources!Latest[p]
    \* after the first round: no newer than the pages of some moment, and for
    \* those read again, the pages of that moment
    /\ y.phase = "verify" => \E i \in y.since..Len(upstream) : \A p \in y.wanted :
          y.files[p] <= upstream[i][p] /\ (p \notin y.left => y.files[p] = upstream[i][p])
    /\ kind = "confluence" /\ y.phase \in Loaded \union {"load"} =>
          \E i \in y.since..Len(upstream) : \A p \in y.wanted : y.files[p] = upstream[i][p]
    /\ y.phase \in Loaded => y.state \in State /\ y.state.version >= y.seen
    /\ y.phase \in {"asked", "last"} => y.asked \in Operation /\ y.asked.expect = y.state.version
    /\ y.phase = "last" => y.asked = Sources!Reconcile(y.wanted, y.state.version)
    /\ y.phase \in {"last", "done"} => \A p \in y.wanted : y.state.entries[p].page = y.files[p]
    /\ y.phase = "done" => Sources!Present(y.state) = y.wanted

SourcesInv ==
    /\ SourcesTyped /\ HistoryGrows /\ DraftsSound /\ VersionsSound
    /\ \A s \in Syncs : SyncSound(sync[s])

\* A source begins empty.
LEMMA SourcesInit == Init => SourcesInv
<1> SUFFICES ASSUME Init PROVE SourcesInv
  OBVIOUS
<1>1. /\ upstream = <<[p \in Paths |-> 1]>>
      /\ source = [version |-> 0, entries |-> [p \in Paths |-> Sources!NoEntry]]
      /\ receipts = <<>> /\ drafts = <<>> /\ sync = [s \in Syncs |-> Sources!Idle]
  BY DEF Init, Sources!Init
<1>2. DOMAIN receipts = {} /\ receipts \in [DOMAIN receipts -> State]
  BY <1>1
<1>3. <<>> \in Snapshot
  <2>1. <<>> \in [{} -> Nat]
    OBVIOUS
  <2> QED BY <2>1 DEF Snapshot
<1>4. Sources!Idle \in SyncRecord /\ Sources!Idle.phase = "idle"
  BY <1>3 DEF Sources!Idle, SyncRecord, Phases
<1>5. source \in State
  BY <1>1 DEF State, Sources!NoEntry
<1>6. upstream \in Seq(Pages) /\ Len(upstream) = 1
  BY <1>1 DEF Pages
<1>7. SourcesTyped
  BY <1>1, <1>2, <1>4, <1>5, <1>6 DEF SourcesTyped
<1>8. HistoryGrows
  BY <1>6 DEF HistoryGrows, Pages
<1>9. DraftsSound
  BY <1>1 DEF DraftsSound, Sources!NoEntry
<1>10. HeldStates = {source}
  BY <1>1, <1>2, <1>4 DEF HeldStates, Loaded
<1>11. VersionsSound
  BY <1>1, <1>2, <1>5, <1>10 DEF VersionsSound, State
<1>12. \A s \in Syncs : SyncSound(sync[s])
  BY <1>1, <1>4 DEF SyncSound, Loaded
<1> QED BY <1>7, <1>8, <1>9, <1>11, <1>12 DEF SourcesInv

\* A step of one synchronisation that leaves the store and the pages alone.
LEMMA OneMoves ==
  ASSUME SourcesInv, NEW s \in Syncs, NEW next \in SyncRecord, Sources!Goes(s, next),
         UNCHANGED <<kind, upstream, source, receipts, drafts>>,
         SyncSound(next), next.phase \in Loaded => next.state \in HeldStates
  PROVE  SourcesInv'
<1>1. sync' = [sync EXCEPT ![s] = next] /\ sync \in [Syncs -> SyncRecord]
  BY DEF Sources!Goes, SourcesInv, SourcesTyped
<1>2. sync' \in [Syncs -> SyncRecord] /\ sync'[s] = next /\ \A t \in Syncs \ {s} : sync'[t] = sync[t]
  BY <1>1
<1>3. HeldStates' \subseteq HeldStates
  BY <1>2 DEF HeldStates
<1>4. VersionsSound'
  BY <1>3 DEF VersionsSound, SourcesInv, Follows, Sources!Present
<1>5. \A y : SyncSound(y) => SyncSound(y)'
  BY DEF SyncSound, Sources!Latest, Sources!Present, Sources!Reconcile
<1>6. \A t \in Syncs : SyncSound(sync[t])'
  <2> SUFFICES ASSUME NEW t \in Syncs PROVE SyncSound(sync[t])'
    OBVIOUS
  <2>1. PICK y : y = sync'[t]
    OBVIOUS
  <2>2. SyncSound(y)
    BY <2>1, <1>2 DEF SourcesInv
  <2>3. SyncSound(y)'
    BY <2>2, <1>5
  <2> QED BY <2>1, <2>3 DEF SyncSound
<1>7. SourcesTyped' /\ HistoryGrows' /\ DraftsSound'
  BY <1>2 DEF SourcesInv, SourcesTyped, HistoryGrows, DraftsSound
<1> QED BY <1>4, <1>6, <1>7 DEF SourcesInv

\* A synchronisation that has failed, or not begun, claims nothing.
LEMMA Blank ==
  /\ Sources!Idle \in SyncRecord /\ SyncSound(Sources!Idle) /\ Sources!Idle.phase \notin Loaded
  /\ Sources!Failed \in SyncRecord /\ SyncSound(Sources!Failed) /\ Sources!Failed.phase \notin Loaded
<1>1. <<>> \in Snapshot
  <2>1. <<>> \in [{} -> Nat]
    OBVIOUS
  <2> QED BY <2>1 DEF Snapshot
<1>2. Sources!Idle \in SyncRecord /\ Sources!Idle.phase = "idle"
  BY <1>1 DEF Sources!Idle, SyncRecord, Phases
<1>3. Sources!Failed \in SyncRecord /\ Sources!Failed.phase = "failed"
  BY <1>1 DEF Sources!Failed, Sources!Idle, SyncRecord, Phases
<1> QED BY <1>2, <1>3 DEF SyncSound, Loaded

\* It begins with the pages asked for, none of them read (Begin).
LEMMA BeginsSound == ASSUME SourcesInv, NEW s \in Syncs, Sources!Begin(s) PROVE SourcesInv'
<1>1. PICK W \in SUBSET Paths :
        Sources!Goes(s, [Sources!Idle EXCEPT !.phase = "read", !.wanted = W, !.left = W,
                                             !.since = Len(upstream), !.files = [p \in W |-> 0]])
  BY DEF Sources!Begin
<1>2. PICK y : y = [Sources!Idle EXCEPT !.phase = "read", !.wanted = W, !.left = W,
                                        !.since = Len(upstream), !.files = [p \in W |-> 0]]
  OBVIOUS
<1>3. Len(upstream) \in Nat /\ Len(upstream) >= 1
  BY DEF SourcesInv, SourcesTyped
<1>4. y.files = [p \in W |-> 0] /\ y.wanted = W /\ y.left = W /\ y.phase = "read" /\ y.since = Len(upstream)
  BY <1>2 DEF Sources!Idle
<1>5. y.files \in Snapshot
  <2>1. y.files \in [W -> Nat]
    BY <1>4
  <2> QED BY <2>1 DEF Snapshot
<1>6. y \in SyncRecord
  BY <1>2, <1>3, <1>4, <1>5 DEF Sources!Idle, SyncRecord, Phases
<1>7. SyncSound(y)
  BY <1>3, <1>4 DEF SyncSound, Loaded
<1>8. y.phase \notin Loaded
  BY <1>4 DEF Loaded
<1> QED BY <1>1, <1>2, <1>6, <1>7, <1>8, OneMoves DEF Sources!Begin

\* A page read is at its latest (Read).
LEMMA ReadsSound == ASSUME SourcesInv, NEW s \in Syncs, Sources!Read(s) PROVE SourcesInv'
<1> PICK y : y = sync[s]
  OBVIOUS
<1>0. y \in SyncRecord /\ SyncSound(y) /\ y.phase = "read"
  BY DEF SourcesInv, SourcesTyped, Sources!Read, Sources!At
<1>1. /\ Len(upstream) \in Nat /\ Len(upstream) >= 1 /\ upstream[Len(upstream)] \in Pages
      /\ Sources!Latest = upstream[Len(upstream)]
  BY DEF SourcesInv, SourcesTyped, Sources!Latest
<1>2. /\ y.files \in [y.wanted -> Nat] /\ y.since \in 1..Len(upstream)
      /\ \A p \in y.wanted \ y.left : y.files[p] <= Sources!Latest[p]
      /\ y.left \subseteq y.wanted /\ y.wanted \subseteq Paths
  BY <1>0 DEF SyncSound, SyncRecord
<1>3. CASE y.left = {}
  <2>1. PICK z : z = [y EXCEPT !.phase = IF kind = "confluence" THEN "verify" ELSE "load", !.left = y.wanted]
    OBVIOUS
  <2>2. Sources!Goes(s, z)
    BY <1>3, <2>1 DEF Sources!Read
  <2>3. /\ z.phase = (IF kind = "confluence" THEN "verify" ELSE "load")
        /\ z.left = y.wanted /\ z.wanted = y.wanted /\ z.files = y.files /\ z.since = y.since
    BY <1>0, <2>1 DEF SyncRecord
  <2>4. z \in SyncRecord
    BY <1>0, <2>1 DEF SyncRecord, Phases
  <2>5. SyncSound(z)
    <3>1. \A p \in y.wanted : y.files[p] <= upstream[Len(upstream)][p]
      BY <1>1, <1>2, <1>3
    <3>2. \E i \in z.since..Len(upstream) : \A p \in z.wanted :
            z.files[p] <= upstream[i][p] /\ (p \notin z.left => z.files[p] = upstream[i][p])
      BY <1>1, <1>2, <3>1, <2>3
    <3> QED BY <1>2, <2>3, <3>2 DEF SyncSound, Loaded
  <2> QED BY <2>2, <2>3, <2>4, <2>5, OneMoves DEF Sources!Read, Loaded
<1>4. CASE y.left # {}
  <2>1. PICK p \in y.left : Sources!Goes(s, [y EXCEPT !.files[p] = Sources!Latest[p], !.left = @ \ {p}])
    BY <1>4 DEF Sources!Read
  <2>2. PICK z : z = [y EXCEPT !.files[p] = Sources!Latest[p], !.left = @ \ {p}]
    OBVIOUS
  <2>3. /\ z.phase = "read" /\ z.wanted = y.wanted /\ z.since = y.since /\ z.left = y.left \ {p}
        /\ z.files = [y.files EXCEPT ![p] = Sources!Latest[p]]
    BY <1>0, <2>2 DEF SyncRecord
  <2>4. Sources!Latest[p] \in Nat /\ p \in y.wanted
    BY <1>1, <1>2 DEF Pages
  <2>5. z.files \in [z.wanted -> Nat]
    BY <1>2, <2>3, <2>4
  <2>6. z.files \in Snapshot
    BY <2>5, <2>3, <1>2 DEF Snapshot
  <2>7. z \in SyncRecord
    BY <1>0, <2>2, <2>3, <2>6 DEF SyncRecord, Phases
  <2>8. \A q \in z.wanted \ z.left : z.files[q] <= Sources!Latest[q]
    BY <1>2, <2>3, <2>4
  <2>9. SyncSound(z)
    BY <1>2, <2>3, <2>5, <2>8 DEF SyncSound, Loaded
  <2> QED BY <2>1, <2>2, <2>3, <2>7, <2>9, OneMoves DEF Sources!Read, Loaded
<1> QED BY <1>3, <1>4

\* A failure ends a synchronisation with nothing claimed (ReadFails).
LEMMA ReadFailsSound == ASSUME SourcesInv, NEW s \in Syncs, Sources!ReadFails(s) PROVE SourcesInv'
<1>1. PICK y : y = Sources!Failed
  OBVIOUS
<1> QED BY <1>1, Blank, OneMoves DEF Sources!ReadFails

\* A page that is the same when it is read again was the same all the time
\* between: versions only grow (Verify).
LEMMA VerifiesSound == ASSUME SourcesInv, NEW s \in Syncs, Sources!Verify(s) PROVE SourcesInv'
<1> PICK y : y = sync[s]
  OBVIOUS
<1>0. y \in SyncRecord /\ SyncSound(y) /\ y.phase = "verify"
  BY DEF SourcesInv, SourcesTyped, Sources!Verify, Sources!At
<1>1. /\ Len(upstream) \in Nat /\ Len(upstream) >= 1 /\ \A i \in 1..Len(upstream) : upstream[i] \in Pages
      /\ Sources!Latest = upstream[Len(upstream)]
  BY DEF SourcesInv, SourcesTyped, Sources!Latest
<1>2. /\ y.files \in [y.wanted -> Nat] /\ y.since \in 1..Len(upstream)
      /\ y.left \subseteq y.wanted /\ y.wanted \subseteq Paths
  BY <1>0 DEF SyncSound, SyncRecord
<1>3. PICK i \in y.since..Len(upstream) : \A p \in y.wanted :
        y.files[p] <= upstream[i][p] /\ (p \notin y.left => y.files[p] = upstream[i][p])
  BY <1>0 DEF SyncSound
<1>4. CASE y.left = {}
  <2>1. PICK z : z = [y EXCEPT !.phase = "load"]
    OBVIOUS
  <2>2. Sources!Goes(s, z)
    BY <1>4, <2>1 DEF Sources!Verify
  <2>3. z.phase = "load" /\ z.wanted = y.wanted /\ z.files = y.files /\ z.since = y.since
    BY <1>0, <2>1 DEF SyncRecord
  <2>4. z \in SyncRecord
    BY <1>0, <2>1 DEF SyncRecord, Phases
  <2>5. \A p \in y.wanted : y.files[p] = upstream[i][p]
    BY <1>3, <1>4
  <2>6. SyncSound(z)
    BY <1>2, <1>3, <2>3, <2>5 DEF SyncSound, Loaded
  <2> QED BY <2>2, <2>3, <2>4, <2>6, OneMoves DEF Sources!Verify, Loaded
<1>5. ASSUME NEW p \in y.left, Sources!SameContent(s, p), Sources!Goes(s, [y EXCEPT !.left = @ \ {p}])
      PROVE  SourcesInv'
  <2>1. PICK z : z = [y EXCEPT !.left = @ \ {p}]
    OBVIOUS
  <2>2. Sources!Goes(s, z)
    BY <1>5, <2>1
  <2>3. /\ z.phase = "verify" /\ z.wanted = y.wanted /\ z.files = y.files /\ z.since = y.since
        /\ z.left = y.left \ {p}
    BY <1>0, <2>1 DEF SyncRecord
  <2>4. z \in SyncRecord
    BY <1>0, <2>1 DEF SyncRecord, Phases
  <2>5. i \in 1..Len(upstream) /\ p \in Paths /\ p \in y.wanted
    BY <1>1, <1>2
  <2>6. upstream[i][p] <= upstream[Len(upstream)][p] /\ upstream[i][p] \in Nat
        /\ upstream[Len(upstream)][p] \in Nat
    BY <1>1, <2>5 DEF SourcesInv, HistoryGrows, Pages
  <2>7. y.files[p] = upstream[Len(upstream)][p] /\ y.files[p] <= upstream[i][p]
    BY <1>1, <1>3, <1>5, <2>5 DEF Sources!SameContent
  <2>8. y.files[p] = upstream[i][p]
    BY <2>6, <2>7
  <2>9. SyncSound(z)
    BY <1>2, <1>3, <2>3, <2>8 DEF SyncSound, Loaded
  <2> QED BY <2>2, <2>3, <2>4, <2>9, OneMoves DEF Sources!Verify, Loaded
<1>6. CASE Sources!Goes(s, Sources!Failed)
  <2>1. PICK z : z = Sources!Failed
    OBVIOUS
  <2> QED BY <1>6, <2>1, Blank, OneMoves DEF Sources!Verify
<1> QED BY <1>4, <1>5, <1>6 DEF Sources!Verify

\* The state loaded is the store's (Load).
LEMMA LoadsSound == ASSUME SourcesInv, NEW s \in Syncs, Sources!Load(s) PROVE SourcesInv'
<1> PICK y : y = sync[s]
  OBVIOUS
<1>0. y \in SyncRecord /\ SyncSound(y) /\ y.phase = "load" /\ source \in State
  BY DEF SourcesInv, SourcesTyped, Sources!Load, Sources!At
<1>1. CASE Sources!Goes(s, Sources!Failed)
  <2>1. PICK z : z = Sources!Failed
    OBVIOUS
  <2> QED BY <1>1, <2>1, Blank, OneMoves DEF Sources!Load
<1>2. CASE Sources!Goes(s, [y EXCEPT !.phase = "drop", !.state = source, !.seen = source.version])
  <2>1. PICK z : z = [y EXCEPT !.phase = "drop", !.state = source, !.seen = source.version]
    OBVIOUS
  <2>2. Sources!Goes(s, z)
    BY <1>2, <2>1
  <2>3. /\ z.phase = "drop" /\ z.wanted = y.wanted /\ z.files = y.files /\ z.since = y.since
        /\ z.state = source /\ z.seen = source.version
    BY <1>0, <2>1 DEF SyncRecord
  <2>4. source.version \in Nat
    BY <1>0 DEF State
  <2>5. z \in SyncRecord
    BY <1>0, <2>1, <2>4 DEF SyncRecord, Phases
  <2>6. SyncSound(z)
    BY <1>0, <2>3, <2>4 DEF SyncSound, Loaded
  <2>7. z.state \in HeldStates
    BY <2>3 DEF HeldStates
  <2> QED BY <2>2, <2>5, <2>6, <2>7, OneMoves DEF Sources!Load
<1> QED BY <1>1, <1>2 DEF Sources!Load

\* What is asked expects the state known, and the last request is for the
\* whole snapshot, when nothing is left to import.
LEMMA RequestSound ==
  ASSUME SourcesInv, NEW s \in Syncs, sync[s].phase \in {"drop", "import"}, NEW op \in Sources!Request(s)
  PROVE  /\ op \in Operation /\ op.expect = sync[s].state.version
         /\ Sources!IsLast(s) => /\ op = Sources!Reconcile(sync[s].wanted, sync[s].state.version)
                                 /\ \A p \in sync[s].wanted : sync[s].state.entries[p].page = sync[s].files[p]
<1> PICK y : y = sync[s]
  OBVIOUS
<1>0. y \in SyncRecord /\ SyncSound(y)
  BY DEF SourcesInv, SourcesTyped
<1>1. y.files \in [y.wanted -> Nat] /\ y.wanted \subseteq Paths /\ y.state \in State
  BY <1>0 DEF SyncSound, SyncRecord, Loaded
<1>2. y.state.version \in Nat
  BY <1>1 DEF State
<1>3. \A W \in SUBSET Paths : Sources!Reconcile(W, y.state.version) \in Operation
                              /\ Sources!Reconcile(W, y.state.version).expect = y.state.version
  BY <1>2 DEF Sources!Reconcile, Operation
<1>4. \A p \in Sources!ToImport(s) :
        /\ Sources!Import(p, y.files[p], y.state.version) \in Operation
        /\ Sources!Import(p, y.files[p], y.state.version).expect = y.state.version
  <2>1. Sources!ToImport(s) \subseteq y.wanted
    BY DEF Sources!ToImport
  <2> QED BY <1>1, <1>2, <2>1 DEF Sources!Import, Operation
<1>5. Sources!Present(y.state) \intersect y.wanted \in SUBSET Paths
  BY <1>1
<1>6. op \in Operation /\ op.expect = y.state.version
  BY <1>1, <1>3, <1>4, <1>5 DEF Sources!Request
<1>7. Sources!IsLast(s) => op = Sources!Reconcile(y.wanted, y.state.version)
  BY DEF Sources!IsLast, Sources!Request
<1>8. Sources!IsLast(s) => \A p \in y.wanted : y.state.entries[p].page = y.files[p]
  BY DEF Sources!IsLast, Sources!ToImport
<1> QED BY <1>6, <1>7, <1>8

\* (Ask)
LEMMA AsksSound == ASSUME SourcesInv, NEW s \in Syncs, Sources!Ask(s) PROVE SourcesInv'
<1> PICK y : y = sync[s]
  OBVIOUS
<1>0. y \in SyncRecord /\ SyncSound(y) /\ y.phase \in {"drop", "import"} /\ y.state \in HeldStates
  BY DEF SourcesInv, SourcesTyped, Sources!Ask, Sources!At, HeldStates, Loaded
<1>1. PICK op \in Sources!Request(s) :
        Sources!Goes(s, [y EXCEPT !.phase = IF Sources!IsLast(s) THEN "last" ELSE "asked", !.asked = op])
  BY DEF Sources!Ask
<1>2. PICK z : z = [y EXCEPT !.phase = IF Sources!IsLast(s) THEN "last" ELSE "asked", !.asked = op]
  OBVIOUS
<1>3. /\ z.phase = (IF Sources!IsLast(s) THEN "last" ELSE "asked")
      /\ z.wanted = y.wanted /\ z.files = y.files /\ z.since = y.since
      /\ z.state = y.state /\ z.seen = y.seen /\ z.asked = op
  BY <1>0, <1>2 DEF SyncRecord
<1>4. /\ op \in Operation /\ op.expect = y.state.version
      /\ Sources!IsLast(s) => /\ op = Sources!Reconcile(y.wanted, y.state.version)
                              /\ \A p \in y.wanted : y.state.entries[p].page = y.files[p]
  BY <1>0, RequestSound
<1>5. z \in SyncRecord
  BY <1>0, <1>2, <1>4 DEF SyncRecord, Phases
<1>6. SyncSound(z)
  BY <1>0, <1>3, <1>4 DEF SyncSound, Loaded
<1> QED BY <1>0, <1>1, <1>2, <1>3, <1>5, <1>6, OneMoves DEF Sources!Ask

\* A synchronisation that repeats its request is where it was.
LEMMA RepeatsSound ==
  ASSUME NEW s \in Syncs, SourcesInv, sync[s].phase \in {"asked", "last"}
  PROVE  /\ Sources!Repeats(s) \in SyncRecord /\ SyncSound(Sources!Repeats(s))
         /\ Sources!Repeats(s).phase \in Loaded => Sources!Repeats(s).state = sync[s].state
<1> PICK y : y = sync[s]
  OBVIOUS
<1>0. y \in SyncRecord /\ SyncSound(y)
  BY DEF SourcesInv, SourcesTyped
<1>1. CASE Sources!Repeats(s) = Sources!Failed
  BY <1>1, Blank
<1>2. CASE Sources!Repeats(s) = [y EXCEPT !.tries = @ + 1]
  <2>1. PICK z : z = [y EXCEPT !.tries = @ + 1]
    OBVIOUS
  <2>2. /\ z.phase = y.phase /\ z.wanted = y.wanted /\ z.files = y.files /\ z.since = y.since
        /\ z.left = y.left /\ z.state = y.state /\ z.seen = y.seen /\ z.asked = y.asked
    BY <1>0, <2>1 DEF SyncRecord
  <2>3. z \in SyncRecord
    BY <1>0, <2>1 DEF SyncRecord
  <2>4. SyncSound(z)
    BY <1>0, <2>2 DEF SyncSound
  <2> QED BY <1>2, <2>1, <2>2, <2>3, <2>4
<1> QED BY <1>1, <1>2 DEF Sources!Repeats

\* (NotAnswered)
LEMMA NotAnsweredSound == ASSUME SourcesInv, NEW s \in Syncs, Sources!NotAnswered(s) PROVE SourcesInv'
<1>1. CASE Sources!Goes(s, Sources!Failed)
  <2>1. PICK z : z = Sources!Failed
    OBVIOUS
  <2> QED BY <1>1, <2>1, Blank, OneMoves DEF Sources!NotAnswered
<1>2. CASE sync[s].phase \in {"asked", "last"} /\ Sources!Goes(s, Sources!Repeats(s))
  <2>1. PICK z : z = Sources!Repeats(s)
    OBVIOUS
  <2>2. sync[s].state \in HeldStates
    BY <1>2 DEF HeldStates, Loaded
  <2>3. z \in SyncRecord /\ SyncSound(z) /\ (z.phase \in Loaded => z.state \in HeldStates)
    BY <1>2, <2>1, <2>2, RepeatsSound
  <2> QED BY <1>2, <2>1, <2>3, OneMoves DEF Sources!NotAnswered
<1> QED BY <1>1, <1>2 DEF Sources!NotAnswered, Sources!At

\* (Again)
LEMMA AgainSound == ASSUME SourcesInv, NEW s \in Syncs, Sources!Again(s) PROVE SourcesInv'
<1>1. PICK z : z = Sources!Idle
  OBVIOUS
<1> QED BY <1>1, Blank, OneMoves DEF Sources!Again

\* An edit makes a page newer (Edit).
LEMMA EditSound == ASSUME SourcesInv, NEW p \in Paths, Sources!Edit(p) PROVE SourcesInv'
<1> PICK n : n = Len(upstream)
  OBVIOUS
<1>0. n \in Nat /\ n >= 1 /\ upstream \in Seq(Pages) /\ \A i \in 1..n : upstream[i] \in Pages
  BY DEF SourcesInv, SourcesTyped
<1> PICK new : new = [upstream[n] EXCEPT ![p] = @ + 1]
  OBVIOUS
<1>1. upstream' = Append(upstream, new)
  BY DEF Sources!Edit, Sources!Latest
<1>2. new \in Pages /\ \A q \in Paths : upstream[n][q] \in Nat /\ upstream[n][q] <= new[q]
  BY <1>0 DEF Pages
<1>3. /\ upstream' \in Seq(Pages) /\ Len(upstream') = n + 1 /\ upstream'[n + 1] = new
      /\ \A i \in 1..n : upstream'[i] = upstream[i]
  BY <1>0, <1>1, <1>2
<1>4. HistoryGrows'
  <2> SUFFICES ASSUME NEW i \in 1..(n + 1), NEW j \in 1..(n + 1), i <= j, NEW q \in Paths
               PROVE  upstream'[i][q] <= upstream'[j][q]
    BY <1>3 DEF HistoryGrows
  <2>1. CASE j \in 1..n
    BY <2>1, <1>0, <1>3 DEF SourcesInv, HistoryGrows
  <2>2. CASE i = n + 1 /\ j = n + 1
    BY <2>2, <1>2, <1>3 DEF Pages
  <2>3. CASE i \in 1..n /\ j = n + 1
    <3>1. upstream[i][q] <= upstream[n][q] /\ upstream[i][q] \in Nat
      BY <2>3, <1>0 DEF SourcesInv, HistoryGrows, Pages
    <3>2. new[q] \in Nat
      BY <1>2 DEF Pages
    <3> QED BY <2>3, <3>1, <3>2, <1>2, <1>3
  <2> QED BY <1>0, <2>1, <2>2, <2>3
<1>5. /\ sync' = sync /\ source' = source /\ receipts' = receipts /\ drafts' = drafts /\ kind' = kind
  BY DEF Sources!Edit
<1>6. \A s \in Syncs : SyncSound(sync[s])'
  <2> SUFFICES ASSUME NEW s \in Syncs PROVE SyncSound(sync[s])'
    OBVIOUS
  <2>0. PICK y : y = sync[s]
    OBVIOUS
  <2>1. y \in SyncRecord /\ SyncSound(y) /\ y = sync'[s]
    BY <1>5, <2>0 DEF SourcesInv, SourcesTyped
  <2>2. 1..n \subseteq 1..(n + 1) /\ (y.since \in 1..n => y.since..n \subseteq 1..n /\ y.since..n \subseteq y.since..(n + 1))
    BY <1>0
  <2>3. y.phase \notin {"idle", "failed"} => y.files \in [y.wanted -> Nat] /\ y.since \in 1..Len(upstream')
    BY <2>1, <2>2, <1>3 DEF SyncSound
  <2>4. y.phase = "read" => \A q \in y.wanted \ y.left : y.files[q] <= upstream'[n + 1][q]
    <3> SUFFICES ASSUME y.phase = "read", NEW q \in y.wanted \ y.left PROVE y.files[q] <= new[q]
      BY <1>3
    <3>1. q \in Paths /\ y.files[q] \in Nat /\ y.files[q] <= upstream[n][q]
      BY <2>1 DEF SyncSound, SyncRecord, Sources!Latest
    <3>2. new[q] \in Nat
      BY <1>2, <3>1 DEF Pages
    <3> QED BY <1>2, <3>1, <3>2
  <2>5. y.phase = "verify" => \E i \in y.since..Len(upstream') : \A q \in y.wanted :
          y.files[q] <= upstream'[i][q] /\ (q \notin y.left => y.files[q] = upstream'[i][q])
    <3> SUFFICES ASSUME y.phase = "verify"
                 PROVE  \E i \in y.since..(n + 1) : \A q \in y.wanted :
                          y.files[q] <= upstream'[i][q] /\ (q \notin y.left => y.files[q] = upstream'[i][q])
      BY <1>3
    <3>1. PICK i \in y.since..n : \A q \in y.wanted :
            y.files[q] <= upstream[i][q] /\ (q \notin y.left => y.files[q] = upstream[i][q])
      BY <2>1 DEF SyncSound
    <3>2. i \in y.since..(n + 1) /\ upstream'[i] = upstream[i]
      BY <1>3, <2>1, <2>2 DEF SyncSound
    <3> QED BY <3>1, <3>2
  <2>6. kind = "confluence" /\ y.phase \in Loaded \union {"load"} =>
          \E i \in y.since..Len(upstream') : \A q \in y.wanted : y.files[q] = upstream'[i][q]
    <3> SUFFICES ASSUME kind = "confluence", y.phase \in Loaded \union {"load"}
                 PROVE  \E i \in y.since..(n + 1) : \A q \in y.wanted : y.files[q] = upstream'[i][q]
      BY <1>3
    <3>1. PICK i \in y.since..n : \A q \in y.wanted : y.files[q] = upstream[i][q]
      BY <2>1 DEF SyncSound
    <3>2. y.since \in 1..n
      BY <2>1 DEF SyncSound, Loaded
    <3>3. i \in y.since..(n + 1) /\ upstream'[i] = upstream[i]
      BY <1>3, <2>2, <3>2
    <3> QED BY <3>1, <3>3
  <2>7. Sources!Latest' = upstream'[n + 1]
    BY <1>3 DEF Sources!Latest
  <2> QED BY <1>5, <2>1, <2>3, <2>4, <2>5, <2>6, <2>7 DEF SyncSound, Sources!Present, Sources!Reconcile
<1>7. DraftsSound' /\ VersionsSound'
  BY <1>5 DEF SourcesInv, DraftsSound, VersionsSound, HeldStates, Follows, Sources!Present
<1>8. SourcesTyped'
  BY <1>0, <1>3, <1>5 DEF SourcesInv, SourcesTyped
<1> QED BY <1>4, <1>6, <1>7, <1>8 DEF SourcesInv

\* What an operation the store accepts makes of its state: a new version, or
\* the same state; a reconciliation touches no page.
LEMMA ResultSound ==
  ASSUME SourcesInv, NEW op \in Operation, Sources!Accepts(op)
  PROVE  /\ Sources!Result(op) \in State /\ Follows(op, source, Sources!Result(op))
         /\ Sources!Result(op) = source \/ Sources!Result(op).version = source.version + 1
<1>0. /\ source \in State /\ source.version \in Nat /\ Len(drafts) + 1 \in Nat
      /\ source.entries \in [Paths -> [status : {"absent", "present", "removed"}, page : Nat, draft : Nat]]
  BY DEF SourcesInv, SourcesTyped, State
<1>1. CASE op.do = "import"
  <2>1. op.path \in Paths /\ op.page \in Nat
    BY <1>1 DEF Operation
  <2>2. Sources!Result(op) = Sources!Imported(op)
    BY <1>1 DEF Sources!Result
  <2>3. CASE Sources!Imported(op) = source
    BY <2>2, <2>3, <1>0, <1>1 DEF Follows
  <2>4. CASE Sources!Imported(op) # source
    <3> PICK entry : entry = [status |-> "present", page |-> op.page,
                              draft |-> IF Sources!Unchanged(op) THEN source.entries[op.path].draft
                                                                 ELSE Len(drafts) + 1]
      OBVIOUS
    <3>1. Sources!Imported(op) = [version |-> source.version + 1,
                                  entries |-> [source.entries EXCEPT ![op.path] = entry]]
      BY <2>4 DEF Sources!Imported
    <3>2. entry \in [status : {"absent", "present", "removed"}, page : Nat, draft : Nat]
      BY <1>0, <2>1
    <3>3. [source.entries EXCEPT ![op.path] = entry]
            \in [Paths -> [status : {"absent", "present", "removed"}, page : Nat, draft : Nat]]
      BY <1>0, <3>2
    <3>4. Sources!Imported(op) \in State
      BY <1>0, <3>1, <3>3 DEF State
    <3> QED BY <1>0, <1>1, <2>2, <3>1, <3>4 DEF Follows
  <2> QED BY <2>3, <2>4
<1>2. CASE op.do = "reconcile"
  <2> PICK gone : gone = Sources!Present(source) \ op.present
    OBVIOUS
  <2> PICK to : to = Sources!Reconciled(op)
    OBVIOUS
  <2>1. /\ to.version = (IF gone # {} \/ source.version = 0 THEN source.version + 1 ELSE source.version)
        /\ to.entries = [p \in Paths |-> IF p \in gone THEN [source.entries[p] EXCEPT !.status = "removed"]
                                                       ELSE source.entries[p]]
        /\ to = [version |-> to.version, entries |-> to.entries]
    BY DEF Sources!Reconciled
  <2>2. op.present \subseteq Sources!Present(source)
    BY <1>2 DEF Sources!Accepts
  <2>3. \A p \in Paths : to.entries[p] \in [status : {"absent", "present", "removed"}, page : Nat, draft : Nat]
    BY <1>0, <2>1, ZenonT(40)
  <2>4. to.entries \in [Paths -> [status : {"absent", "present", "removed"}, page : Nat, draft : Nat]]
    BY <2>1, <2>3
  <2>5. to \in State
    <3>1. to.version \in Nat
      BY <1>0, <2>1
    <3>2. to = [version |-> to.version, entries |-> to.entries]
      BY <2>1
    <3> QED BY <2>4, <3>1, <3>2 DEF State
  <2>6. \A p \in Paths : to.entries[p].page = source.entries[p].page
    BY <1>0, <2>1
  <2>7. \A p \in Paths : to.entries[p].status = "present" <=> p \in op.present
    <3> SUFFICES ASSUME NEW p \in Paths PROVE to.entries[p].status = "present" <=> p \in op.present
      OBVIOUS
    <3>1. CASE p \in gone
      BY <3>1, <1>0, <2>1
    <3>2. CASE p \notin gone
      BY <3>2, <2>1, <2>2 DEF Sources!Present
    <3> QED BY <3>1, <3>2
  <2>8. Sources!Present(to) = op.present
    BY <2>2, <2>7 DEF Sources!Present
  <2>9. to = source \/ to.version = source.version + 1
    <3> SUFFICES ASSUME gone = {}, source.version # 0 PROVE to = source
      BY <2>1
    <3>1. to.entries = source.entries /\ to.version = source.version
      BY <1>0, <2>1
    <3> QED BY <3>1, <2>5, <1>0 DEF State
  <2>10. Follows(op, source, to)
    BY <1>0, <2>1, <2>6, <2>8 DEF Follows
  <2> QED BY <1>2, <2>5, <2>9, <2>10 DEF Sources!Result
<1> QED BY <1>1, <1>2 DEF Operation

\* What the store holds after it performed an operation, or refused it.
LEMMA PerformTyped ==
  ASSUME SourcesInv, NEW op \in Operation, Sources!Perform(op)
  PROVE  /\ source' \in State /\ drafts' \in Seq(Operation)
         /\ DOMAIN receipts' \subseteq Operation /\ receipts' \in [DOMAIN receipts' -> State]
<1>0. /\ source \in State /\ drafts \in Seq(Operation)
      /\ DOMAIN receipts \subseteq Operation /\ receipts \in [DOMAIN receipts -> State]
  BY DEF SourcesInv, SourcesTyped
<1>1. Sources!Commits(op) => Sources!Result(op) \in State
  BY ResultSound DEF Sources!Commits
<1>2. Append(drafts, op) \in Seq(Operation)
  BY <1>0
<1>3. source' \in State
  BY <1>0, <1>1 DEF Sources!Perform
<1>4. drafts' \in Seq(Operation)
  BY <1>0, <1>2 DEF Sources!Perform, Sources!NewDrafts
<1>5. CASE Sources!Commits(op)
  <2>1. receipts' = [o \in DOMAIN receipts \union {op} |-> IF o = op THEN Sources!Result(op) ELSE receipts[o]]
    BY <1>5 DEF Sources!Perform
  <2> QED BY <1>0, <1>1, <1>3, <1>4, <1>5, <2>1
<1>6. CASE ~Sources!Commits(op)
  BY <1>0, <1>3, <1>4, <1>6 DEF Sources!Perform
<1> QED BY <1>5, <1>6

\* An operation is performed once, so it writes its one draft when it commits.
LEMMA PerformDrafts == ASSUME SourcesInv, NEW op \in Operation, Sources!Perform(op) PROVE DraftsSound'
<1> PICK n : n = Len(drafts)
  OBVIOUS
<1>0. n \in Nat /\ drafts \in Seq(Operation) /\ source \in State /\ DraftsSound
  BY DEF SourcesInv, SourcesTyped
<1>1. CASE ~Sources!Commits(op)
  BY <1>0, <1>1 DEF Sources!Perform, Sources!Keeps, DraftsSound
<1>2. CASE Sources!Commits(op)
  <2>1. /\ op \notin DOMAIN receipts /\ DOMAIN receipts' = DOMAIN receipts \union {op}
        /\ source' = Sources!Result(op) /\ drafts' = Sources!NewDrafts(op)
    BY <1>2 DEF Sources!Perform, Sources!Commits, Sources!Done, Sources!Keeps
  <2>2. \A i \in 1..n : drafts[i] \in DOMAIN receipts /\ drafts[i] # op
    BY <1>0, <2>1 DEF DraftsSound
  <2>3. CASE drafts' = Append(drafts, op) /\ op.do = "import" /\ ~Sources!Unchanged(op)
    <3>1. Len(drafts') = n + 1 /\ drafts'[n + 1] = op /\ \A i \in 1..n : drafts'[i] = drafts[i]
      BY <1>0, <2>3
    <3>2. \A i \in 1..(n + 1) : drafts'[i] \in DOMAIN receipts'
      BY <1>0, <2>1, <2>2, <3>1
    <3>3. \A i, j \in 1..(n + 1) : drafts'[i] = drafts'[j] => i = j
      BY <1>0, <2>2, <3>1 DEF DraftsSound
    <3>4. op.path \in Paths /\ op.page \in Nat
      BY <2>3 DEF Operation
    <3> PICK entry : entry = [status |-> "present", page |-> op.page, draft |-> n + 1]
      OBVIOUS
    <3>5. source'.entries = [source.entries EXCEPT ![op.path] = entry]
      BY <2>1, <2>3 DEF Sources!Result, Sources!Imported
    <3>6. source.entries \in [Paths -> [status : {"absent", "present", "removed"}, page : Nat, draft : Nat]]
      BY <1>0 DEF State
    <3>7. \A p \in Paths : source'.entries[p].status # "absent" =>
            /\ source'.entries[p].draft \in 1..(n + 1)
            /\ drafts'[source'.entries[p].draft].path = p /\ drafts'[source'.entries[p].draft].page = source'.entries[p].page
      <4> SUFFICES ASSUME NEW p \in Paths, source'.entries[p].status # "absent"
                   PROVE  /\ source'.entries[p].draft \in 1..(n + 1)
                          /\ drafts'[source'.entries[p].draft].path = p
                          /\ drafts'[source'.entries[p].draft].page = source'.entries[p].page
        OBVIOUS
      <4>1. CASE p = op.path
        BY <4>1, <1>0, <3>1, <3>4, <3>5, <3>6
      <4>2. CASE p # op.path
        <5>1. source'.entries[p] = source.entries[p]
          BY <4>2, <3>5, <3>6
        <5>2. /\ source.entries[p].draft \in 1..n /\ drafts[source.entries[p].draft].path = p
              /\ drafts[source.entries[p].draft].page = source.entries[p].page
          BY <5>1, <1>0 DEF DraftsSound
        <5> QED BY <5>1, <5>2, <1>0, <3>1
      <4> QED BY <4>1, <4>2
    <3> QED BY <3>1, <3>2, <3>3, <3>7 DEF DraftsSound
  <2>4. CASE drafts' = drafts /\ (op.do = "import" => Sources!Unchanged(op))
    <3>1. \A p \in Paths : source'.entries[p].status # "absent" =>
            /\ source.entries[p].status # "absent" /\ source'.entries[p].draft = source.entries[p].draft
            /\ source'.entries[p].page = source.entries[p].page
      <4>1. CASE op.do = "import"
        <5>1. source.entries[op.path].status # "absent" /\ source.entries[op.path].page = op.page
          BY <2>4, <4>1 DEF Sources!Unchanged
        <5>2. CASE source' = source
          BY <5>2
        <5>3. CASE source' # source
          <6> PICK entry : entry = [status |-> "present", page |-> op.page, draft |-> source.entries[op.path].draft]
            OBVIOUS
          <6>1. source'.entries = [source.entries EXCEPT ![op.path] = entry]
            BY <2>1, <2>4, <4>1, <5>3 DEF Sources!Result, Sources!Imported
          <6>2. \A p \in Paths : source'.entries[p] = IF p = op.path THEN entry ELSE source.entries[p]
            BY <6>1, <1>0 DEF State
          <6> QED BY <5>1, <6>2
        <5> QED BY <5>2, <5>3
      <4>2. CASE op.do # "import"
        <5> PICK gone : gone = Sources!Present(source) \ op.present
          OBVIOUS
        <5>1. source'.entries = [p \in Paths |-> IF p \in gone THEN [source.entries[p] EXCEPT !.status = "removed"]
                                                               ELSE source.entries[p]]
          BY <2>1, <4>2 DEF Sources!Result, Sources!Reconciled
        <5>2. \A p \in gone : source.entries[p].status = "present"
          BY DEF Sources!Present
        <5>3. source.entries \in [Paths -> [status : {"absent", "present", "removed"}, page : Nat, draft : Nat]]
          BY <1>0 DEF State
        <5> QED BY <5>1, <5>2, <5>3
      <4> QED BY <4>1, <4>2
    <3> QED BY <1>0, <2>1, <2>4, <3>1 DEF DraftsSound
  <2> QED BY <2>1, <2>3, <2>4 DEF Sources!NewDrafts
<1> QED BY <1>1, <1>2

\* Whatever somebody holds is a state.
LEMMA HeldTyped == SourcesInv => HeldStates \subseteq State
<1> SUFFICES ASSUME SourcesInv PROVE HeldStates \subseteq State
  OBVIOUS
<1>1. source \in State /\ \A op \in DOMAIN receipts : receipts[op] \in State
  BY DEF SourcesInv, SourcesTyped
<1>2. \A s \in Syncs : sync[s].phase \in Loaded => sync[s].state \in State
  BY DEF SourcesInv, SyncSound
<1> QED BY <1>1, <1>2 DEF HeldStates

\* A commit makes a version nobody has seen, or leaves the state it found.
LEMMA PerformVersions ==
  ASSUME SourcesInv, NEW op \in Operation, Sources!Perform(op), HeldStates' \subseteq HeldStates \union {source'}
  PROVE  VersionsSound'
<1>0. source \in State /\ source.version \in Nat /\ VersionsSound /\ DOMAIN receipts \subseteq Operation
  BY DEF SourcesInv, SourcesTyped, State
<1>1. source \in HeldStates
  BY DEF HeldStates
<1>2. CASE ~Sources!Commits(op)
  <2>1. source' = source /\ receipts' = receipts /\ HeldStates' \subseteq HeldStates
    BY <1>1, <1>2 DEF Sources!Perform
  <2> QED BY <1>0, <2>1 DEF VersionsSound, Follows, Sources!Present
<1>3. CASE Sources!Commits(op)
  <2> PICK to : to = Sources!Result(op)
    OBVIOUS
  <2>1. /\ source' = to /\ DOMAIN receipts' = DOMAIN receipts \union {op} /\ receipts'[op] = to
        /\ \A o \in DOMAIN receipts \ {op} : receipts'[o] = receipts[o]
        /\ op \notin DOMAIN receipts /\ op.expect = source.version
    BY <1>3 DEF Sources!Perform, Sources!Commits, Sources!Accepts, Sources!Done, Sources!IsCurrent
  <2>2. to \in State /\ Follows(op, source, to) /\ (to = source \/ to.version = source.version + 1)
    BY <1>3, ResultSound DEF Sources!Commits
  <2>3. \A st \in HeldStates : /\ st.version \in Nat /\ st.version <= source.version
                               /\ st.version = source.version => st = source
    BY <1>0, HeldTyped DEF VersionsSound, State
  <2>4. \A st \in HeldStates' : st.version <= source'.version /\ (st.version = source'.version => st = source')
    <3> SUFFICES ASSUME NEW st \in HeldStates, st # to
                 PROVE  st.version <= to.version /\ (st.version = to.version => st = to)
      BY <1>0, <2>1, <2>2 DEF State
    <3> QED BY <1>0, <2>2, <2>3
  <2>5. \A o \in DOMAIN receipts' :
          /\ o.expect <= source'.version
          /\ \A st \in HeldStates' : st.version = o.expect => Follows(o, st, receipts'[o])
    <3> SUFFICES ASSUME NEW o \in DOMAIN receipts'
                 PROVE  /\ o.expect <= to.version
                        /\ \A st \in HeldStates' : st.version = o.expect => Follows(o, st, receipts'[o])
      BY <2>1
    <3>1. \A st \in HeldStates' : st \in HeldStates \/ (st = to /\ to.version = source.version + 1)
      BY <1>1, <2>1, <2>2
    <3>2. CASE o = op
      BY <3>1, <3>2, <1>0, <2>1, <2>2, <2>3
    <3>3. CASE o # op
      <4>1. o \in DOMAIN receipts /\ receipts'[o] = receipts[o] /\ o.expect <= source.version /\ o.expect \in Nat
        BY <3>3, <1>0, <2>1 DEF VersionsSound, Operation
      <4> QED BY <3>1, <4>1, <1>0, <2>2 DEF VersionsSound
    <3> QED BY <3>2, <3>3
  <2> QED BY <2>4, <2>5 DEF VersionsSound, Follows, Sources!Present
<1> QED BY <1>2, <1>3

\* The answer, though it be to a repetition, is what came of the state the
\* synchronisation knew.
LEMMA OutcomeSound ==
  ASSUME SourcesInv, NEW st \in HeldStates, NEW op \in Operation, op.expect = st.version,
         Sources!Perform(op), Sources!Outcome(op) # None
  PROVE  /\ Sources!Outcome(op) \in State /\ Sources!Outcome(op) \in HeldStates \union {source'}
         /\ Follows(op, st, Sources!Outcome(op))
<1>1. CASE Sources!Done(op)
  <2>1. op \in DOMAIN receipts /\ Sources!Outcome(op) = receipts[op]
    BY <1>1 DEF Sources!Done, Sources!Outcome
  <2>2. Sources!Outcome(op) \in HeldStates
    BY <2>1 DEF HeldStates
  <2>3. Follows(op, st, receipts[op])
    BY <2>1 DEF SourcesInv, VersionsSound
  <2> QED BY <2>1, <2>2, <2>3, HeldTyped
<1>2. CASE ~Sources!Done(op)
  <2>1. Sources!Accepts(op) /\ Sources!Outcome(op) = Sources!Result(op)
    BY <1>2 DEF Sources!Outcome
  <2>2. source' = Sources!Result(op)
    BY <1>2, <2>1 DEF Sources!Perform, Sources!Commits
  <2>3. st = source
    BY <2>1 DEF Sources!Accepts, Sources!IsCurrent, SourcesInv, VersionsSound
  <2> QED BY <2>1, <2>2, <2>3, ResultSound
<1> QED BY <1>1, <1>2

\* A step of one synchronisation with which the store performed an operation.
LEMMA AnswerMoves ==
  ASSUME SourcesInv, NEW s \in Syncs, NEW next \in SyncRecord, Sources!Goes(s, next),
         NEW op \in Operation, Sources!Perform(op), UNCHANGED <<kind, upstream>>,
         SyncSound(next), next.phase \in Loaded => next.state \in HeldStates \union {source'}
  PROVE  SourcesInv'
<1>1. sync' = [sync EXCEPT ![s] = next] /\ sync \in [Syncs -> SyncRecord]
  BY DEF Sources!Goes, SourcesInv, SourcesTyped
<1>2. sync' \in [Syncs -> SyncRecord] /\ sync'[s] = next /\ \A t \in Syncs \ {s} : sync'[t] = sync[t]
  BY <1>1
<1>3. \A o \in DOMAIN receipts' : receipts'[o] = source' \/ (o \in DOMAIN receipts /\ receipts'[o] = receipts[o])
  BY DEF Sources!Perform
<1>4. \A t \in Syncs : sync'[t].phase \in Loaded => sync'[t].state \in HeldStates \union {source'}
  BY <1>2 DEF HeldStates
<1>5. HeldStates' \subseteq HeldStates \union {source'}
  <2> SUFFICES ASSUME NEW st \in HeldStates' PROVE st \in HeldStates \union {source'}
    OBVIOUS
  <2>1. CASE \E o \in DOMAIN receipts' : st = receipts'[o]
    BY <2>1, <1>3 DEF HeldStates
  <2>2. CASE \E t \in Syncs : sync'[t].phase \in Loaded /\ st = sync'[t].state
    BY <2>2, <1>4
  <2>3. CASE st = source'
    BY <2>3
  <2> QED BY <2>1, <2>2, <2>3 DEF HeldStates, Loaded
<1>6. VersionsSound' /\ DraftsSound'
  BY <1>5, PerformVersions, PerformDrafts
<1>7. \A y : SyncSound(y) => SyncSound(y)'
  BY DEF SyncSound, Sources!Latest, Sources!Present, Sources!Reconcile
<1>8. \A t \in Syncs : SyncSound(sync[t])'
  <2> SUFFICES ASSUME NEW t \in Syncs PROVE SyncSound(sync[t])'
    OBVIOUS
  <2>1. PICK y : y = sync'[t]
    OBVIOUS
  <2>2. SyncSound(y)
    BY <2>1, <1>2 DEF SourcesInv
  <2>3. SyncSound(y)'
    BY <2>2, <1>7
  <2> QED BY <2>1, <2>3 DEF SyncSound
<1>9. SourcesTyped' /\ HistoryGrows'
  BY <1>2, PerformTyped DEF SourcesInv, SourcesTyped, HistoryGrows
<1> QED BY <1>6, <1>8, <1>9 DEF SourcesInv

\* (Answered)
LEMMA AnsweredSound == ASSUME SourcesInv, NEW s \in Syncs, Sources!Answered(s) PROVE SourcesInv'
<1> PICK y : y = sync[s]
  OBVIOUS
<1> PICK op : op = y.asked
  OBVIOUS
<1>0. /\ y \in SyncRecord /\ SyncSound(y) /\ y.phase \in {"asked", "last"} /\ y.state \in HeldStates
      /\ Sources!Perform(op) /\ UNCHANGED <<kind, upstream>>
  BY DEF SourcesInv, SourcesTyped, Sources!Answered, Sources!At, HeldStates, Loaded
<1>1. op \in Operation /\ op.expect = y.state.version
  BY <1>0 DEF SyncSound
<1>2. CASE Sources!Goes(s, Sources!Failed)
  <2>1. PICK z : z = Sources!Failed
    OBVIOUS
  <2> QED BY <1>0, <1>1, <1>2, <2>1, Blank, AnswerMoves
<1>3. CASE Sources!Goes(s, Sources!Repeats(s))
  <2>1. PICK z : z = Sources!Repeats(s)
    OBVIOUS
  <2>2. z \in SyncRecord /\ SyncSound(z) /\ (z.phase \in Loaded => z.state \in HeldStates)
    BY <1>0, <2>1, RepeatsSound
  <2> QED BY <1>0, <1>1, <1>3, <2>1, <2>2, AnswerMoves
<1>4. CASE /\ Sources!Outcome(op) # None
           /\ Sources!Goes(s, [y EXCEPT !.phase = IF Sources!At(s, "last") THEN "done" ELSE "import",
                                        !.state = Sources!Outcome(op), !.asked = None])
  <2>1. PICK st : st = Sources!Outcome(op)
    OBVIOUS
  <2>2. st \in State /\ st \in HeldStates \union {source'} /\ Follows(op, y.state, st)
    BY <1>0, <1>1, <1>4, <2>1, OutcomeSound
  <2>3. PICK z : z = [y EXCEPT !.phase = IF y.phase = "last" THEN "done" ELSE "import", !.state = st, !.asked = None]
    OBVIOUS
  <2>4. Sources!Goes(s, z)
    BY <1>4, <2>1, <2>3 DEF Sources!At
  <2>5. /\ z.phase = (IF y.phase = "last" THEN "done" ELSE "import")
        /\ z.wanted = y.wanted /\ z.files = y.files /\ z.since = y.since
        /\ z.state = st /\ z.seen = y.seen
    BY <1>0, <2>3 DEF SyncRecord
  <2>6. z \in SyncRecord
    BY <1>0, <2>2, <2>3 DEF SyncRecord, Phases
  <2>7. /\ y.files \in [y.wanted -> Nat] /\ y.since \in 1..Len(upstream)
        /\ y.state \in State /\ y.state.version >= y.seen /\ y.seen \in Nat
        /\ kind = "confluence" => \E i \in y.since..Len(upstream) : \A p \in y.wanted : y.files[p] = upstream[i][p]
    BY <1>0 DEF SyncSound, Loaded, SyncRecord
  <2>8. st.version >= y.seen
    BY <2>2, <2>7 DEF Follows, State
  <2>9. y.phase = "last" => /\ Sources!Present(st) = y.wanted
                            /\ \A p \in y.wanted : st.entries[p].page = y.files[p]
    <3> SUFFICES ASSUME y.phase = "last"
                 PROVE  Sources!Present(st) = y.wanted /\ \A p \in y.wanted : st.entries[p].page = y.files[p]
      OBVIOUS
    <3>1. op = Sources!Reconcile(y.wanted, y.state.version) /\ \A p \in y.wanted : y.state.entries[p].page = y.files[p]
      BY <1>0 DEF SyncSound
    <3>2. op.do = "reconcile" /\ op.present = y.wanted /\ y.wanted \subseteq Paths
      BY <1>0, <3>1 DEF Sources!Reconcile, SyncRecord
    <3> QED BY <2>2, <3>1, <3>2 DEF Follows
  <2>10. SyncSound(z)
    BY <2>2, <2>5, <2>7, <2>8, <2>9 DEF SyncSound, Loaded
  <2> QED BY <1>0, <1>1, <2>2, <2>4, <2>5, <2>6, <2>10, AnswerMoves
<1> QED BY <1>2, <1>3, <1>4 DEF Sources!Answered

\* A page is replaced only by an import, and Confluence never by an older one.
LEMMA PagesStay ==
  ASSUME SourcesInv, Sources!Next, kind = "confluence", NEW p \in Paths
  PROVE  source'.entries[p].page >= source.entries[p].page
<1>0. /\ source \in State
      /\ source.entries \in [Paths -> [status : {"absent", "present", "removed"}, page : Nat, draft : Nat]]
      /\ source.entries[p].page \in Nat
  BY DEF SourcesInv, SourcesTyped, State
<1>1. CASE source' = source
  BY <1>0, <1>1
<1>2. CASE \E s \in Syncs : Sources!Answered(s)
  <2>1. PICK s \in Syncs : Sources!Answered(s)
    BY <1>2
  <2> PICK op : op = sync[s].asked
    OBVIOUS
  <2>2. Sources!Perform(op) /\ op \in Operation
    BY <2>1 DEF Sources!Answered, Sources!At, SourcesInv, SyncSound
  <2>3. CASE ~Sources!Commits(op)
    BY <1>0, <2>2, <2>3 DEF Sources!Perform
  <2>4. CASE Sources!Commits(op) /\ op.do = "reconcile"
    <3>1. Follows(op, source, source')
      BY <2>2, <2>4, ResultSound DEF Sources!Perform, Sources!Commits
    <3> QED BY <1>0, <2>4, <3>1 DEF Follows
  <2>5. CASE Sources!Commits(op) /\ op.do = "import"
    <3>1. op.path \in Paths /\ op.page \in Nat
      BY <2>2, <2>5 DEF Operation
    <3>2. source.entries[op.path].page <= op.page
      BY <1>0, <2>5, <3>1 DEF Sources!Commits, Sources!Accepts, Sources!Older
    <3>3. source' = Sources!Imported(op)
      BY <2>2, <2>5 DEF Sources!Perform, Sources!Result
    <3> PICK entry : entry = [status |-> "present", page |-> op.page,
                              draft |-> IF Sources!Unchanged(op) THEN source.entries[op.path].draft
                                                                 ELSE Len(drafts) + 1]
      OBVIOUS
    <3>4. source' = source \/ source'.entries = [source.entries EXCEPT ![op.path] = entry]
      BY <3>3 DEF Sources!Imported
    <3>5. source'.entries[p] \in {source.entries[p], IF p = op.path THEN entry ELSE source.entries[p]}
      BY <1>0, <3>1, <3>4
    <3>6. entry.page = op.page
      OBVIOUS
    <3> QED BY <1>0, <3>1, <3>2, <3>5, <3>6
  <2> QED BY <2>2, <2>3, <2>4, <2>5 DEF Operation
<1> QED BY <1>1, <1>2 DEF Sources!Next, Sources!Begin, Sources!Read, Sources!ReadFails, Sources!Verify,
        Sources!Load, Sources!Ask, Sources!NotAnswered, Sources!Again, Sources!Edit

\* No step of anything else touches a source.
LEMMA SourcesInductive == SourcesInv /\ [Next]_vars => SourcesInv'
<1> SUFFICES ASSUME SourcesInv, [Next]_vars PROVE SourcesInv'
  OBVIOUS
<1>1. CASE Sources!Next
  BY <1>1, BeginsSound, ReadsSound, ReadFailsSound, VerifiesSound, LoadsSound, AsksSound, AnsweredSound,
     NotAnsweredSound, AgainSound, EditSound DEF Sources!Next
<1>2. CASE UNCHANGED sources
  BY <1>2 DEF sources, SourcesInv, SourcesTyped, HistoryGrows, DraftsSound, VersionsSound, HeldStates, Follows,
     SyncSound, Sources!Latest, Sources!Present, Sources!Reconcile
<1> QED BY <1>1, <1>2 DEF Next, vars

\* However synchronisations overlap, and requests and answers are lost and
\* repeated, a source holds what they read, each content in one draft, and its
\* Confluence pages never go back (importMarkdown, reconcile,
\* syncConfluenceSource).
THEOREM SourcesKept == Spec => SourceFaithful
<1>1. SourcesInv => Sources!OneDraftPerOperation /\ Sources!SuccessIsTheSnapshot
  <2> SUFFICES ASSUME SourcesInv PROVE Sources!OneDraftPerOperation /\ Sources!SuccessIsTheSnapshot
    OBVIOUS
  <2>1. DOMAIN drafts = 1..Len(drafts)
    BY DEF SourcesInv, SourcesTyped
  <2>2. Sources!OneDraftPerOperation
    BY <2>1 DEF SourcesInv, DraftsSound, Sources!OneDraftPerOperation
  <2>3. Sources!SuccessIsTheSnapshot
    BY DEF SourcesInv, SyncSound, Loaded, Sources!SuccessIsTheSnapshot, Sources!At
  <2> QED BY <2>2, <2>3
<1>2. SourcesInv /\ [Next]_vars =>
        [kind = "confluence" => \A p \in Paths : source'.entries[p].page >= source.entries[p].page]_(Sources!vars)
  <2> SUFFICES ASSUME SourcesInv, [Next]_vars, ~UNCHANGED Sources!vars
               PROVE  kind = "confluence" => \A p \in Paths : source'.entries[p].page >= source.entries[p].page
    OBVIOUS
  <2>1. Sources!Next
    BY DEF Next, vars, sources, Sources!vars
  <2> QED BY <2>1, PagesStay
<1> QED BY <1>1, <1>2, SourcesInit, SourcesInductive, PTL
        DEF Spec, SourceFaithful, Sources!SourceFaithful, Sources!PagesNeverRegress
===============================================================================
