----------------------------- MODULE Service_proofs -----------------------------
(***************************************************************************)
(* What holds of the parts of the service for every number of calls,       *)
(* readers, connections, events and runs.                                  *)
(***************************************************************************)
EXTENDS Service, TLAPS, FiniteSetTheorems, SequenceTheorems, WellFoundedInduction

------------------------------------------------------------------------------
(* The inductive invariant of the use of knowledge. *)

Event == [active : Nat, epoch : Nat, egress : {"allow", "deny", "unavailable"}]
Run == [agreement : Nat, boot : Nat, sealed : BOOLEAN, issued : Nat]
Phases == {"idle", "resolve", "authorize", "before", "generate", "permit", "after", "provided",
           "withheld"}
GivenManifest == [run : Nat, agreement : Nat, at : Nat]
Client == [phase : Phases, run : Nat, manifest : GivenManifest \union {None}, asked : Nat]
Answering == [step : {"record", "fence", "refresh", "approvals", "egress"}, at : Nat,
              record : Run \union {None}, run : Nat]

KnowledgeShapes ==
    /\ world \in Seq(Event) /\ world # <<>>
    /\ seen \in Nat /\ boot \in Nat
    /\ runs \in Seq(Run)
    /\ client \in Client
    /\ client.asked <= Len(world)
    /\ client.phase \notin {"idle", "resolve", "provided", "withheld"} => client.run \in DOMAIN runs

\* An undamaged record says what its run was issued for.
SealedSound == \A id \in DOMAIN runs : runs[id].sealed => runs[id].agreement = runs[id].issued

\* A call answers the client that waits for it; a revalidation has read the
\* sealed record of its run, and from its fence on it speaks of a checkpoint
\* after the moment it was asked for.
CallSound ==
    call # None =>
        /\ call \in Answering
        /\ client.phase \in {"resolve", "before", "after"}
        /\ client.phase = "resolve" <=> call.run = 0
        /\ call.step = "record" => call.run # 0
        /\ call.run # 0 => call.run \in DOMAIN runs
        /\ call.run # 0 /\ call.step # "record" =>
             /\ call.record \in Run
             /\ call.record.sealed /\ call.record.agreement = call.record.issued
             /\ call.record.boot = boot
             /\ runs[call.run].issued = call.record.issued
             /\ runs[call.run].boot = call.record.boot
        /\ call.step \in {"refresh", "approvals", "egress"} => call.at \in client.asked + 1 .. Len(world)
        /\ call.run # 0 /\ call.step = "egress" => call.record.agreement = world[call.at].active

KnowledgeInv == KnowledgeShapes /\ SealedSound /\ CallSound

------------------------------------------------------------------------------
(* Use of knowledge. *)

\* A step that gives a model nothing and releases nothing.
NothingUsed == client'.phase \in {"generate", "provided"} => client'.phase = client.phase

\* Use is of an agreement in force, and allowed, since the last check was asked for.
GatedStep ==
    client'.phase \in {"generate", "provided"} /\ client'.phase # client.phase =>
        /\ Knowledge!InForceSince(client'.manifest.agreement, client.asked)
        /\ Knowledge!AllowedSince(client.asked)

\* A step after which no knowledge came into use needs no gate.
LEMMA NothingUsedIsGated ==
    ASSUME NothingUsed
    PROVE  GatedStep
  BY DEF NothingUsed, GatedStep

\* The timeline only grows.
LEMMA Grows ==
    ASSUME NEW s \in Seq(Event), NEW e \in Event
    PROVE  /\ Append(s, e) \in Seq(Event) /\ Append(s, e) # <<>>
           /\ Len(s) \in Nat /\ Len(Append(s, e)) = Len(s) + 1
           /\ \A i \in 1..Len(s) : Append(s, e)[i] = s[i]
           /\ Append(s, e)[Len(s) + 1] = e
  BY DEF Event

\* What the present is.
LEMMA Present ==
    ASSUME KnowledgeInv
    PROVE  /\ world \in Seq(Event) /\ Len(world) \in Nat /\ Len(world) >= 1
           /\ \A i \in 1..Len(world) : world[i] \in Event
           /\ client.asked \in Nat /\ client.asked <= Len(world)
  BY DEF KnowledgeInv, KnowledgeShapes, Client

\* Others act: the timeline may grow, and nothing of the call or the client changes.
LEMMA OthersKeep ==
    ASSUME KnowledgeInv, seen' \in Nat, world' = world \/ \E e \in Event : world' = Append(world, e),
           UNCHANGED <<boot, runs, call, client>>
    PROVE  KnowledgeInv' /\ GatedStep
  <1>1. /\ world' \in Seq(Event) /\ world' # <<>> /\ Len(world') \in Nat
        /\ Len(world) \in Nat /\ Len(world) <= Len(world')
        /\ \A i \in 1..Len(world) : world'[i] = world[i]
    BY Grows, Present DEF KnowledgeInv, KnowledgeShapes
  <1>2. KnowledgeShapes'
    BY <1>1, Present DEF KnowledgeInv, KnowledgeShapes
  <1>3. SealedSound'
    BY DEF KnowledgeInv, SealedSound
  <1>4. CallSound'
    <2>1. call # None /\ call.step \in {"refresh", "approvals", "egress"} =>
             /\ call.at \in client.asked + 1 .. Len(world')
             /\ call.at \in 1..Len(world)
      BY <1>1, Present DEF KnowledgeInv, CallSound
    <2> QED BY <1>1, <2>1 DEF KnowledgeInv, CallSound
  <1>5. GatedStep
    BY NothingUsedIsGated DEF NothingUsed
  <1> QED BY <1>2, <1>3, <1>4, <1>5 DEF KnowledgeInv

\* The slot, the policy and the projection change (the ledger, the egress hook,
\* another request).
LEMMA WorldKeeps ==
    ASSUME KnowledgeInv,
           Knowledge!ChangeSlot \/ Knowledge!ChangePolicy \/ Knowledge!Advance
    PROVE  KnowledgeInv' /\ GatedStep
  <1>1. UNCHANGED <<boot, runs, call, client>>
    BY DEF Knowledge!ChangeSlot, Knowledge!ChangePolicy, Knowledge!Advance
  <1>2. CASE Knowledge!ChangeSlot
    <2>1. PICK a \in {0, Len(world) + 1} :
             Knowledge!Happens([world[Len(world)] EXCEPT !.active = a, !.epoch = @ + 1])
      BY <1>2 DEF Knowledge!ChangeSlot, Knowledge!Now
    <2>2. PICK e : e = [world[Len(world)] EXCEPT !.active = a, !.epoch = @ + 1]
      OBVIOUS
    <2>3. world[Len(world)] \in Event /\ a \in Nat
      BY Present
    <2>4. e \in Event
      <3>1. PICK n \in Nat : n = world[Len(world)].epoch + 1
        BY <2>3 DEF Event
      <3>2. e = [world[Len(world)] EXCEPT !.active = a, !.epoch = n]
        BY <2>2, <3>1
      <3> QED BY <2>3, <3>2 DEF Event
    <2>5. world' = Append(world, e) /\ seen' = seen
      BY <1>2, <2>1, <2>2 DEF Knowledge!ChangeSlot, Knowledge!Happens
    <2> QED BY <1>1, <2>4, <2>5, OthersKeep DEF KnowledgeInv, KnowledgeShapes
  <1>3. CASE Knowledge!ChangePolicy
    <2>1. PICK g \in {"allow", "deny", "unavailable"} :
             Knowledge!Happens([world[Len(world)] EXCEPT !.egress = g])
      BY <1>3 DEF Knowledge!ChangePolicy, Knowledge!Now
    <2>2. PICK e : e = [world[Len(world)] EXCEPT !.egress = g]
      OBVIOUS
    <2>3. world[Len(world)] \in Event
      BY Present
    <2>4. e \in Event
      BY <2>2, <2>3 DEF Event
    <2>5. world' = Append(world, e) /\ seen' = seen
      BY <1>3, <2>1, <2>2 DEF Knowledge!ChangePolicy, Knowledge!Happens
    <2> QED BY <1>1, <2>4, <2>5, OthersKeep DEF KnowledgeInv, KnowledgeShapes
  <1>4. CASE Knowledge!Advance
    <2>1. world' = world /\ seen' \in Nat
      BY <1>4, Present DEF Knowledge!Advance, Knowledge!Now, KnowledgeInv, KnowledgeShapes
    <2> QED BY <1>1, <2>1, OthersKeep
  <1> QED BY <1>2, <1>3, <1>4

\* The call ends without an answer, and the client with it.
LEMMA WithheldKeeps ==
    ASSUME KnowledgeInv, call' = None, client' \in {client, Knowledge!Withheld},
           boot' \in Nat, seen' \in Nat,
           UNCHANGED <<world, runs>>
    PROVE  KnowledgeInv' /\ GatedStep
  <1>1. /\ Knowledge!Withheld \in Client /\ Knowledge!Withheld.phase = "withheld"
        /\ Knowledge!Withheld.asked = 0
    BY DEF Knowledge!Withheld, Knowledge!Idle, Client, Phases
  <1>2. KnowledgeShapes'
    BY <1>1, Present DEF KnowledgeInv, KnowledgeShapes
  <1>3. SealedSound' /\ CallSound'
    BY DEF KnowledgeInv, SealedSound, CallSound
  <1>4. GatedStep
    BY <1>1, NothingUsedIsGated DEF NothingUsed
  <1> QED BY <1>2, <1>3, <1>4 DEF KnowledgeInv

\* The service restarts, or the call fails.
LEMMA FailureKeeps ==
    ASSUME KnowledgeInv, Knowledge!Restart \/ Knowledge!CallFails
    PROVE  KnowledgeInv' /\ GatedStep
  <1>1. /\ call' = None /\ client' \in {client, Knowledge!Withheld} /\ UNCHANGED <<world, runs, seen>>
        /\ boot' \in Nat
    BY DEF Knowledge!Restart, Knowledge!CallFails, Knowledge!Withhold, KnowledgeInv, KnowledgeShapes
  <1> QED BY <1>1, WithheldKeeps DEF KnowledgeInv, KnowledgeShapes

\* A stored record is altered, which cannot be sealed anew.
LEMMA DamageKeeps ==
    ASSUME KnowledgeInv, Knowledge!Damage
    PROVE  KnowledgeInv' /\ GatedStep
  <1>1. PICK id \in DOMAIN runs, k \in 1..Len(world) :
          runs' = [runs EXCEPT ![id].agreement = world[k].active, ![id].sealed = FALSE]
    BY DEF Knowledge!Damage, Knowledge!Now
  <1>2. UNCHANGED <<world, seen, boot, call, client>>
    BY DEF Knowledge!Damage
  <1>3. /\ runs \in Seq(Run) /\ runs[id] \in Run /\ world[k].active \in Nat
        /\ \A i \in DOMAIN runs : runs[i] \in Run
    BY Present, <1>1 DEF KnowledgeInv, KnowledgeShapes, Event
  <1>4. PICK row : row = [runs[id] EXCEPT !.agreement = world[k].active, !.sealed = FALSE]
    OBVIOUS
  <1>5. /\ row \in Run /\ row.boot = runs[id].boot /\ row.issued = runs[id].issued
        /\ ~row.sealed
    BY <1>3, <1>4 DEF Run
  <1>6. runs' = [runs EXCEPT ![id] = row]
    BY <1>1, <1>3, <1>4
  <1>7. /\ runs' \in Seq(Run) /\ DOMAIN runs' = DOMAIN runs /\ runs'[id] = row
        /\ \A i \in DOMAIN runs : i # id => runs'[i] = runs[i]
    <2>1. DOMAIN runs = 1..Len(runs) /\ Len(runs) \in Nat /\ id \in 1..Len(runs)
      BY <1>1, <1>3
    <2>2. /\ runs' \in Seq(Run) /\ Len(runs') = Len(runs)
          /\ \A i \in 1..Len(runs) : runs'[i] = IF i = id THEN row ELSE runs[i]
      BY <1>3, <1>5, <1>6, <2>1, ExceptSeq
    <2>3. DOMAIN runs' = 1..Len(runs')
      BY <2>2
    <2> QED BY <2>1, <2>2, <2>3
  <1>8. KnowledgeShapes'
    BY <1>2, <1>7 DEF KnowledgeInv, KnowledgeShapes
  <1>9. SealedSound'
    BY <1>5, <1>7 DEF KnowledgeInv, SealedSound
  <1>10. CallSound'
    BY <1>2, <1>5, <1>7 DEF KnowledgeInv, CallSound
  <1>11. GatedStep
    BY <1>2, NothingUsedIsGated DEF NothingUsed
  <1> QED BY <1>8, <1>9, <1>10, <1>11 DEF KnowledgeInv

\* The call goes to another of its steps, for the same client.
LEMMA CallMoves ==
    ASSUME KnowledgeInv, CallSound', seen' \in Nat,
           UNCHANGED <<boot, runs, client>>,
           world' = world \/ \E e \in Event : world' = Append(world, e)
    PROVE  KnowledgeInv' /\ GatedStep
  <1>1. /\ world' \in Seq(Event) /\ world' # <<>>
        /\ Len(world) \in Nat /\ Len(world') \in Nat /\ Len(world) <= Len(world')
    BY Grows, Present, SMTT(40) DEF KnowledgeInv, KnowledgeShapes
  <1>2. KnowledgeShapes'
    BY <1>1, Present DEF KnowledgeInv, KnowledgeShapes
  <1>3. SealedSound' /\ GatedStep
    BY NothingUsedIsGated DEF KnowledgeInv, SealedSound, NothingUsed
  <1> QED BY <1>2, <1>3 DEF KnowledgeInv

\* storedRunBlockReason: only a record of this boot that is as it was issued.
LEMMA CheckRecordKeeps ==
    ASSUME KnowledgeInv, Knowledge!CheckRecord
    PROVE  KnowledgeInv' /\ GatedStep
  <1>1. /\ call # None /\ call.step = "record" /\ UNCHANGED <<world, seen, boot, runs>>
    BY DEF Knowledge!CheckRecord
  <1>2. CASE Knowledge!RecordStands(runs[call.run])
    <2>1. call' = [call EXCEPT !.step = "fence", !.record = runs[call.run]] /\ client' = client
      BY <1>2 DEF Knowledge!CheckRecord
    <2>2. call \in Answering /\ (call.run # 0 => call.run \in DOMAIN runs)
      BY <1>1 DEF KnowledgeInv, CallSound
    <2>3. CASE call.run # 0
      <3>1. runs[call.run] \in Run
        BY <2>2, <2>3 DEF KnowledgeInv, KnowledgeShapes
      <3>2. call' \in Answering /\ call'.step = "fence" /\ call'.record = runs[call.run]
            /\ call'.run = call.run
        BY <2>1, <2>2, <3>1 DEF Answering
      <3>3. runs[call.run].sealed /\ runs[call.run].boot = boot
            /\ runs[call.run].agreement = runs[call.run].issued
        BY <1>2, <2>2, <2>3 DEF Knowledge!RecordStands, KnowledgeInv, SealedSound
      <3>4. CallSound'
        BY <1>1, <2>1, <2>3, <3>1, <3>2, <3>3 DEF KnowledgeInv, CallSound
      <3> QED BY <1>1, <2>1, <3>4, CallMoves DEF KnowledgeInv, KnowledgeShapes
    <2>4. CASE call.run = 0
      BY <1>1, <2>4 DEF KnowledgeInv, CallSound
    <2> QED BY <2>3, <2>4
  <1>3. CASE ~Knowledge!RecordStands(runs[call.run])
    <2>1. call' = None /\ client' = Knowledge!Withheld
      BY <1>3 DEF Knowledge!CheckRecord, Knowledge!Withhold
    <2> QED BY <1>1, <2>1, WithheldKeeps DEF KnowledgeInv, KnowledgeShapes
  <1> QED BY <1>2, <1>3


\* A fence is committed now: everything is resolved at its checkpoint.
LEMMA FenceKeeps ==
    ASSUME KnowledgeInv, Knowledge!Fence
    PROVE  KnowledgeInv' /\ GatedStep
  <1>1. PICK n \in 1..MaxWorld : Knowledge!Fenced(n) /\ call' = [call EXCEPT !.step = "refresh", !.at = n]
    BY DEF Knowledge!Fence
  <1>2. /\ call # None /\ call.step = "fence" /\ UNCHANGED <<boot, runs, client>>
        /\ world' = Append(world, world[Len(world)]) /\ n = Len(world) + 1 /\ seen' = n
    BY <1>1 DEF Knowledge!Fence, Knowledge!Fenced, Knowledge!Happens, Knowledge!Now
  <1>3. world[Len(world)] \in Event /\ n \in Nat
    BY <1>2, Present
  <1>4. call \in Answering
    BY <1>2 DEF KnowledgeInv, CallSound
  <1>5. /\ call' \in Answering /\ call'.step = "refresh" /\ call'.at = n
        /\ call'.run = call.run /\ call'.record = call.record
    BY <1>1, <1>3, <1>4 DEF Answering
  <1>6. n \in client.asked + 1 .. Len(world')
    BY <1>2, <1>3, Grows, Present
  <1>7. CallSound'
    BY <1>2, <1>5, <1>6 DEF KnowledgeInv, CallSound
  <1> QED BY <1>2, <1>3, <1>7, CallMoves

\* The refreshed projection, and the epoch again.
LEMMA RefreshKeeps ==
    ASSUME KnowledgeInv, Knowledge!Refresh
    PROVE  KnowledgeInv' /\ GatedStep
  <1>1. /\ call # None /\ call.step = "refresh" /\ UNCHANGED <<world, boot, runs>>
        /\ seen' \in Nat
    BY Present DEF Knowledge!Refresh, Knowledge!Now, KnowledgeInv, KnowledgeShapes
  <1>2. CASE call' = [call EXCEPT !.step = "approvals"] /\ client' = client
    <2>1. call \in Answering
      BY <1>1 DEF KnowledgeInv, CallSound
    <2>2. /\ call' \in Answering /\ call'.step = "approvals" /\ call'.at = call.at
          /\ call'.run = call.run /\ call'.record = call.record
      BY <1>2, <2>1 DEF Answering
    <2>3. CallSound'
      BY <1>1, <1>2, <2>2 DEF KnowledgeInv, CallSound
    <2> QED BY <1>1, <1>2, <2>3, CallMoves
  <1>3. CASE Knowledge!Withhold
    BY <1>1, <1>3, WithheldKeeps DEF Knowledge!Withhold, KnowledgeInv, KnowledgeShapes
  <1> QED BY <1>2, <1>3 DEF Knowledge!Refresh

\* The approvals of the agreement, and for a revalidation the manifest it stored.
LEMMA AssembleKeeps ==
    ASSUME KnowledgeInv, Knowledge!Assemble
    PROVE  KnowledgeInv' /\ GatedStep
  <1>1. /\ call # None /\ call.step = "approvals" /\ UNCHANGED <<world, seen, boot, runs>>
    BY DEF Knowledge!Assemble
  <1>2. CASE /\ call' = [call EXCEPT !.step = "egress"] /\ client' = client
             /\ call.run = 0 \/ call.record.agreement = world[call.at].active
    <2>1. call \in Answering
      BY <1>1 DEF KnowledgeInv, CallSound
    <2>2. /\ call' \in Answering /\ call'.step = "egress" /\ call'.at = call.at
          /\ call'.run = call.run /\ call'.record = call.record
      BY <1>2, <2>1 DEF Answering
    <2>3. CallSound'
      BY <1>1, <1>2, <2>2 DEF KnowledgeInv, CallSound
    <2> QED BY <1>1, <1>2, <2>3, CallMoves DEF KnowledgeInv, KnowledgeShapes
  <1>3. CASE Knowledge!Withhold
    BY <1>1, <1>3, WithheldKeeps DEF Knowledge!Withhold, KnowledgeInv, KnowledgeShapes
  <1> QED BY <1>1, <1>2, <1>3 DEF Knowledge!Assemble

\* The client asks: a resolve, or a revalidation of the run it has.
LEMMA AskKeeps ==
    ASSUME KnowledgeInv, Knowledge!Calls
    PROVE  KnowledgeInv' /\ GatedStep
  <1>1. PICK phase \in {"resolve", "before", "after"} : Knowledge!Ask(phase)
    BY DEF Knowledge!Calls
  <1>2. /\ client.phase = phase /\ client' = [client EXCEPT !.asked = Len(world)]
        /\ UNCHANGED <<world, seen, boot, runs>>
        /\ call' = [step |-> IF phase = "resolve" THEN "fence" ELSE "record", at |-> 0,
                    record |-> None, run |-> IF phase = "resolve" THEN 0 ELSE client.run]
    BY <1>1 DEF Knowledge!Ask, Knowledge!Calls, Knowledge!Now
  <1>3. client \in Client /\ Len(world) \in Nat /\ runs \in Seq(Run)
        /\ (phase # "resolve" => client.run \in DOMAIN runs /\ client.run # 0)
    BY <1>2, Present DEF KnowledgeInv, KnowledgeShapes
  <1>4. /\ client' \in Client /\ client'.phase = phase /\ client'.asked = Len(world)
        /\ client'.run = client.run
    BY <1>2, <1>3 DEF Client
  <1>5. KnowledgeShapes'
    BY <1>2, <1>3, <1>4 DEF KnowledgeInv, KnowledgeShapes
  <1>6. PICK id \in Nat : id = IF phase = "resolve" THEN 0 ELSE client.run
    BY <1>3 DEF Client
  <1>7. PICK step \in {"fence", "record"} : step = IF phase = "resolve" THEN "fence" ELSE "record"
    OBVIOUS
  <1>8. call' = [step |-> step, at |-> 0, record |-> None, run |-> id]
    BY <1>2, <1>6, <1>7
  <1>9. call' \in Answering /\ call'.step = step /\ call'.run = id
    BY <1>8 DEF Answering
  <1>10. CallSound'
    BY <1>2, <1>3, <1>4, <1>6, <1>7, <1>9 DEF CallSound
  <1>11. SealedSound' /\ GatedStep
    BY <1>2, <1>4, NothingUsedIsGated DEF KnowledgeInv, SealedSound, NothingUsed
  <1> QED BY <1>5, <1>10, <1>11 DEF KnowledgeInv

\* The caller's callbacks, and the next generation.
LEMMA CallerKeeps ==
    ASSUME KnowledgeInv, Knowledge!Callback \/ Knowledge!Again
    PROVE  KnowledgeInv' /\ GatedStep
  <1>1. UNCHANGED <<world, seen, boot, runs, call>> /\ client \in Client
    BY DEF Knowledge!Callback, Knowledge!Again, KnowledgeInv, KnowledgeShapes
  <1>2. CASE Knowledge!Callback
    <2>1. call = None
      BY <1>2 DEF Knowledge!Callback
    <2>2. PICK step \in {<<"idle", "resolve">>, <<"authorize", "before">>, <<"generate", "permit">>,
                         <<"permit", "after">>} :
             /\ client.phase = step[1]
             /\ client' \in {[client EXCEPT !.phase = step[2]], Knowledge!Withheld}
      BY <1>2 DEF Knowledge!Callback
    <2>3. CASE client' = [client EXCEPT !.phase = step[2]]
      <3>1. /\ client' \in Client /\ client'.phase \in {"resolve", "before", "permit", "after"}
            /\ client'.asked = client.asked /\ client'.run = client.run
            /\ client'.phase # "resolve" => client.phase \in {"authorize", "generate", "permit"}
        BY <1>1, <2>2, <2>3 DEF Client, Phases
      <3>2. KnowledgeShapes'
        BY <1>1, <3>1 DEF KnowledgeInv, KnowledgeShapes
      <3>3. SealedSound' /\ CallSound' /\ GatedStep
        BY <1>1, <2>1, <3>1, NothingUsedIsGated DEF KnowledgeInv, SealedSound, CallSound, NothingUsed
      <3> QED BY <3>2, <3>3 DEF KnowledgeInv
    <2>4. CASE client' = Knowledge!Withheld
      BY <1>1, <2>1, <2>4, WithheldKeeps DEF KnowledgeInv, KnowledgeShapes
    <2> QED BY <2>2, <2>3, <2>4
  <1>3. CASE Knowledge!Again
    <2>1. /\ client' = Knowledge!Idle /\ client.phase \in {"provided", "withheld"}
      BY <1>3 DEF Knowledge!Again
    <2>2. /\ client' \in Client /\ client'.phase = "idle" /\ client'.asked = 0
      BY <2>1 DEF Knowledge!Idle, Client, Phases
    <2>3. call = None
      BY <2>1 DEF KnowledgeInv, CallSound
    <2>4. KnowledgeShapes'
      BY <1>1, <2>2, Present DEF KnowledgeInv, KnowledgeShapes
    <2>5. SealedSound' /\ CallSound' /\ GatedStep
      BY <1>1, <2>2, <2>3, NothingUsedIsGated DEF KnowledgeInv, SealedSound, CallSound, NothingUsed
    <2> QED BY <2>4, <2>5 DEF KnowledgeInv
  <1> QED BY <1>2, <1>3


\* What the answer gives the model or releases is in force at the checkpoint of
\* the call's own fence, and the verdict is the policy's present one.
LEMMA AnswerIsGated ==
    ASSUME KnowledgeInv, call # None, call.step = "egress", Knowledge!Allowed,
           client'.asked = client.asked, UNCHANGED world,
           client'.manifest.agreement = world[call.at].active
    PROVE  GatedStep
  <1>1. call.at \in client.asked + 1 .. Len(world)
    BY DEF KnowledgeInv, CallSound
  <1>2. Knowledge!InForceSince(client'.manifest.agreement, client.asked)
    BY <1>1 DEF Knowledge!InForceSince, Knowledge!Now
  <1>3. Len(world) \in client.asked .. Len(world) /\ world[Len(world)].egress = "allow"
    BY Present DEF Knowledge!Allowed, Knowledge!Now
  <1>4. Knowledge!AllowedSince(client.asked)
    BY <1>3 DEF Knowledge!AllowedSince, Knowledge!Now
  <1> QED BY <1>2, <1>4 DEF GatedStep

\* The manifest a call answers with.
LEMMA ManifestTyped ==
    ASSUME KnowledgeInv, call # None, call.step = "egress", NEW id \in Nat
    PROVE  /\ call.at \in 1..Len(world) /\ world[call.at].active \in Nat
           /\ Knowledge!Manifest(id) \in GivenManifest
           /\ Knowledge!Manifest(id).agreement = world[call.at].active
  <1>1. call.at \in client.asked + 1 .. Len(world)
    BY DEF KnowledgeInv, CallSound
  <1>2. call.at \in 1..Len(world)
    BY <1>1, Present
  <1>3. world[call.at] \in Event
    BY <1>2, Present
  <1>4. world[call.at].active \in Nat
    BY <1>3 DEF Event
  <1>5. PICK a \in Nat : a = world[call.at].active
    BY <1>4
  <1>6. call.at \in Nat
    BY <1>2, Present
  <1> QED BY <1>2, <1>4, <1>5, <1>6 DEF Knowledge!Manifest, GivenManifest

\* A client that accepts a manifest goes on with it.
LEMMA Accepted ==
    ASSUME client \in Client, NEW m \in GivenManifest, NEW id \in Nat,
           client.phase \in {"resolve", "before", "after"},
           client' = Knowledge!Accept(m, id)
    PROVE  /\ client' \in Client
           /\ client'.phase \in {"authorize", "generate", "provided"}
           /\ client'.asked = client.asked /\ client'.run = id /\ client'.manifest = m
  <1>1. PICK next \in {"authorize", "generate", "provided"} :
           next = CASE client.phase = "resolve" -> "authorize"
                    [] client.phase = "before" -> "generate" [] OTHER -> "provided"
    OBVIOUS
  <1>2. client' = [client EXCEPT !.manifest = m, !.run = id, !.phase = next]
    BY <1>1 DEF Knowledge!Accept
  <1> QED BY <1>1, <1>2 DEF Client, Phases

\* A sequence with one more element, and one with an element replaced.
LEMMA OneMore ==
    ASSUME NEW S, NEW s \in Seq(S), NEW e \in S, NEW t, t = Append(s, e)
    PROVE  /\ t \in Seq(S) /\ DOMAIN t = 1..(Len(s) + 1) /\ Len(t) = Len(s) + 1
           /\ \A i \in 1..(Len(s) + 1) : t[i] = IF i = Len(s) + 1 THEN e ELSE s[i]
  OBVIOUS

\* A sequence with one entry changed: the others stay.
LEMMA OneChanged ==
    ASSUME NEW S, NEW s \in Seq(S), NEW e \in S, NEW j \in DOMAIN s, NEW t, t = [s EXCEPT ![j] = e]
    PROVE  /\ t \in Seq(S) /\ DOMAIN t = DOMAIN s /\ Len(t) = Len(s)
           /\ \A i \in 1..Len(s) : t[i] = IF i = j THEN e ELSE s[i]
  BY ExceptSeq

\* The stored runs after an answer: one more, as it is issued.
LEMMA Issued ==
    ASSUME KnowledgeInv, NEW r \in Run, r.agreement = r.issued, runs' = Append(runs, r)
    PROVE  runs' \in Seq(Run) /\ DOMAIN runs' = 1..(Len(runs) + 1) /\ SealedSound'
  <1>1. runs \in Seq(Run) /\ Len(runs) \in Nat /\ DOMAIN runs = 1..Len(runs)
    BY DEF KnowledgeInv, KnowledgeShapes
  <1>2. /\ runs' \in Seq(Run) /\ DOMAIN runs' = 1..(Len(runs) + 1)
        /\ \A i \in 1..(Len(runs) + 1) : runs'[i] = IF i = Len(runs) + 1 THEN r ELSE runs[i]
    BY <1>1, OneMore
  <1>3. SealedSound'
    BY <1>1, <1>2 DEF KnowledgeInv, SealedSound
  <1> QED BY <1>2, <1>3

\* Or one written back whole, as it was issued.
LEMMA WrittenBack ==
    ASSUME KnowledgeInv, NEW r \in Run, r.agreement = r.issued,
           NEW id \in DOMAIN runs, runs' = [runs EXCEPT ![id] = r]
    PROVE  runs' \in Seq(Run) /\ DOMAIN runs' = DOMAIN runs /\ SealedSound'
  <1>1. runs \in Seq(Run) /\ Len(runs) \in Nat /\ DOMAIN runs = 1..Len(runs)
    BY DEF KnowledgeInv, KnowledgeShapes
  <1>2. /\ runs' \in Seq(Run) /\ DOMAIN runs' = DOMAIN runs
        /\ \A i \in 1..Len(runs) : runs'[i] = IF i = id THEN r ELSE runs[i]
    BY <1>1, OneChanged
  <1>3. SealedSound'
    BY <1>1, <1>2 DEF KnowledgeInv, SealedSound
  <1> QED BY <1>2, <1>3

\* The verdict, the record and the answer.
LEMMA AnswerKeeps ==
    ASSUME KnowledgeInv, Knowledge!Answer
    PROVE  KnowledgeInv' /\ GatedStep
  <1>1. /\ call # None /\ call.step = "egress" /\ call' = None
        /\ UNCHANGED <<world, seen, boot>>
    BY DEF Knowledge!Answer
  <1>2. /\ client \in Client /\ client.phase \in {"resolve", "before", "after"}
        /\ client.phase = "resolve" <=> call.run = 0
        /\ call.run # 0 => call.run \in DOMAIN runs
    BY <1>1 DEF KnowledgeInv, KnowledgeShapes, CallSound
  <1>3. runs \in Seq(Run) /\ Len(runs) \in Nat /\ DOMAIN runs = 1..Len(runs)
    BY DEF KnowledgeInv, KnowledgeShapes
  <1>4. PICK id \in Nat : id = IF call.run = 0 THEN Len(runs) + 1 ELSE call.run
    BY <1>2, <1>3
  <1>5. CASE client' = Knowledge!Withheld /\ UNCHANGED runs
    BY <1>1, <1>5, WithheldKeeps DEF KnowledgeInv, KnowledgeShapes
  <1>6. CASE Knowledge!Allowed
    <2>1. /\ runs' = IF call.run # 0 THEN [runs EXCEPT ![id] = call.record]
                     ELSE Append(runs, [agreement |-> Knowledge!Manifest(id).agreement, boot |-> boot,
                                        sealed |-> TRUE, issued |-> Knowledge!Manifest(id).agreement])
          /\ client' = IF call.run = 0 \/ Knowledge!Refreshes(Knowledge!Manifest(id))
                       THEN Knowledge!Accept(Knowledge!Manifest(id), id) ELSE Knowledge!Withheld
      BY <1>4, <1>6 DEF Knowledge!Answer
    <2>2. PICK m \in GivenManifest : m = Knowledge!Manifest(id) /\ m.agreement = world[call.at].active
      BY <1>1, ManifestTyped
    <2>3. m.agreement \in Nat
      BY <1>1, <2>2, ManifestTyped
    <2>4. /\ runs' \in Seq(Run) /\ SealedSound' /\ id \in DOMAIN runs'
      <3>1. CASE call.run = 0
        <4>1. PICK r : r = [agreement |-> m.agreement, boot |-> boot, sealed |-> TRUE, issued |-> m.agreement]
          OBVIOUS
        <4>2. r \in Run
          BY <2>3, <4>1 DEF KnowledgeInv, KnowledgeShapes, Run
        <4>3. r.agreement = r.issued
          BY <4>1
        <4>4. runs' = Append(runs, r)
          BY <2>1, <2>2, <3>1, <4>1
        <4> QED BY <1>3, <1>4, <3>1, <4>2, <4>3, <4>4, Issued
      <3>2. CASE call.run # 0
        <4>1. /\ call.run \in DOMAIN runs /\ call.record \in Run
              /\ call.record.agreement = call.record.issued
          BY <1>1, <3>2 DEF KnowledgeInv, CallSound
        <4>2. PICK r \in Run : r = call.record
          BY <4>1
        <4>3. runs' = [runs EXCEPT ![id] = r] /\ id \in DOMAIN runs
          BY <1>4, <2>1, <3>2, <4>1, <4>2
        <4> QED BY <4>1, <4>2, <4>3, WrittenBack
      <3> QED BY <3>1, <3>2
    <2>5. CASE client' = Knowledge!Accept(m, id)
      <3>1. /\ client' \in Client /\ client'.phase \in {"authorize", "generate", "provided"}
            /\ client'.asked = client.asked /\ client'.run = id /\ client'.manifest = m
        BY <1>2, <2>5, Accepted
      <3>2. KnowledgeShapes'
        BY <1>1, <2>4, <3>1 DEF KnowledgeInv, KnowledgeShapes
      <3>3. GatedStep
        BY <1>1, <1>6, <2>2, <3>1, AnswerIsGated
      <3> QED BY <1>1, <2>4, <3>2, <3>3 DEF KnowledgeInv, CallSound
    <2>6. CASE client' = Knowledge!Withheld
      <3>1. /\ client' \in Client /\ client'.phase = "withheld" /\ client'.asked = 0
        BY <2>6 DEF Knowledge!Withheld, Knowledge!Idle, Client, Phases
      <3>2. KnowledgeShapes'
        BY <1>1, <2>4, <3>1 DEF KnowledgeInv, KnowledgeShapes
      <3>3. GatedStep
        BY <3>1, NothingUsedIsGated DEF NothingUsed
      <3> QED BY <1>1, <2>4, <3>2, <3>3 DEF KnowledgeInv, CallSound
    <2> QED BY <2>1, <2>2, <2>5, <2>6
  <1> QED BY <1>4, <1>5, <1>6 DEF Knowledge!Answer

------------------------------------------------------------------------------
\* An answer that says "valid" speaks of the agreement its run was issued for.
ValidStep ==
    Knowledge!Answer /\ call.run # 0 /\ Knowledge!Allowed =>
        /\ runs[call.run].issued = world[call.at].active
        /\ runs[call.run].boot = boot

\* What an answered run was issued under is what was active when the call asked (verifyRun).
LEMMA ValidHolds ==
    ASSUME KnowledgeInv
    PROVE  ValidStep
  BY DEF ValidStep, KnowledgeInv, CallSound, Knowledge!Answer

\* A client that never asked holds no run.
LEMMA KnowledgeInit ==
    ASSUME Knowledge!Init
    PROVE  KnowledgeInv
  <1>1. PICK e : e = [active |-> 1, epoch |-> 1, egress |-> "allow"]
    OBVIOUS
  <1>2. e \in Event
    BY <1>1 DEF Event
  <1>3. world = <<e>> /\ seen = 1 /\ boot = 1 /\ runs = <<>> /\ call = None
        /\ client = [phase |-> "idle", run |-> 0, manifest |-> None, asked |-> 0]
    BY <1>1 DEF Knowledge!Init, Knowledge!Idle
  <1>4. client \in Client /\ client.phase = "idle" /\ client.asked = 0
    BY <1>3 DEF Client, Phases
  <1>5. world \in Seq(Event) /\ world # <<>> /\ Len(world) = 1
    BY <1>2, <1>3
  <1>6. runs \in Seq(Run) /\ DOMAIN runs = {}
    BY <1>3
  <1> QED BY <1>3, <1>4, <1>5, <1>6 DEF KnowledgeInv, KnowledgeShapes, SealedSound, CallSound

\* Every step of the server and of the client keeps what the stored runs
\* say, and no knowledge comes into use but through the gate.
LEMMA KnowledgeNext ==
    ASSUME KnowledgeInv, Knowledge!Next
    PROVE  KnowledgeInv' /\ GatedStep
  BY WorldKeeps, DamageKeeps, FailureKeeps, CheckRecordKeeps, FenceKeeps, RefreshKeeps,
             AssembleKeeps, AnswerKeeps, AskKeeps, CallerKeeps
  DEF Knowledge!Next

\* A step of another part, or none, leaves the use of knowledge alone.
LEMMA KnowledgeStep ==
    ASSUME KnowledgeInv, [Next]_vars
    PROVE  KnowledgeInv' /\ (UNCHANGED knowledge \/ GatedStep)
  <1>1. CASE UNCHANGED knowledge
    BY <1>1 DEF knowledge, KnowledgeInv, KnowledgeShapes, SealedSound, CallSound
  <1>2. CASE Knowledge!Next
    BY <1>2, KnowledgeNext
  <1> QED BY <1>1, <1>2 DEF Next, vars

\* Knowledge is given to a model, and what it made is released, only if the
\* agreement was in force and the policy allowed it after that last check was
\* asked for; and "valid" is said only of the very agreement a run was issued for,
\* by the boot that issued it (guardedGeneration, revalidate).
THEOREM UsedWhileCurrent == Spec => UseIsCurrent
  <1>1. Init => KnowledgeInv
    BY KnowledgeInit DEF Init
  <1>2. KnowledgeInv /\ [Next]_vars => KnowledgeInv'
    BY KnowledgeStep
  <1>3. KnowledgeInv /\ [Next]_vars =>
          [ client'.phase \in {"generate", "provided"} /\ client'.phase # client.phase =>
              /\ Knowledge!InForceSince(client'.manifest.agreement, client.asked)
              /\ Knowledge!AllowedSince(client.asked) ]_(Knowledge!vars)
    BY KnowledgeStep DEF GatedStep, knowledge, Knowledge!vars
  <1>4. KnowledgeInv =>
          [ (Knowledge!Answer /\ call.run # 0 /\ Knowledge!Allowed) =>
              /\ runs[call.run].issued = world[call.at].active
              /\ runs[call.run].boot = boot ]_(Knowledge!vars)
    BY ValidHolds DEF ValidStep
  <1> QED BY <1>1, <1>2, <1>3, <1>4, PTL
          DEF Spec, UseIsCurrent, Knowledge!UseIsCurrent, Knowledge!GatedUse, Knowledge!ValidMeansIssued

------------------------------------------------------------------------------
(* The connection of the external index. *)

Working == {"connecting", "begun", "limited", "read", "rollback", "closing"}
InTransaction == {"begun", "limited", "read", "rollback"}

IndexShapes ==
    /\ at \in [Index!Calls -> {"new", "queued", "done", "failed"} \union Working]
    /\ queue \in Seq(Index!Calls)
    /\ using \in [Index!Calls -> Index!Connections \union {None}]
    /\ opening \in Index!Connections \union {None}
    /\ conns \in [Index!Connections -> {"none", "connecting", "open", "ended"}]
    /\ noisy \subseteq Index!Connections
    /\ limits \in [Index!Connections -> Searches \union {None}]
    /\ inTx \in [Index!Connections -> BOOLEAN]
    /\ found \in [Searches -> Searches \union {None}]

\* exclusive: one call at a time.
OneAtATime == \A a, b \in Index!Calls : at[a] \in Working /\ at[b] \in Working => a = b

\* A transaction, and the limit set in it, is that of the search at work on an
\* open connection.
TransactionsSound ==
    \A n \in Index!Connections :
        /\ limits[n] # None =>
             /\ conns[n] = "open" /\ at[limits[n]] \in {"limited", "read", "rollback"}
             /\ using[limits[n]] = n
        /\ inTx[n] =>
             /\ conns[n] = "open"
             /\ \E c \in Searches : at[c] \in InTransaction /\ using[c] = n

\* A live connection is the shared one or is being closed, connections that may
\* still complain have ended, and connections are opened in order.
WiresSound ==
    /\ \A n \in Index!Connections : conns[n] \in {"connecting", "open"} =>
         opening = n \/ \E c \in Index!Calls : at[c] = "closing" /\ using[c] = n
    /\ opening # None => conns[opening] \in {"connecting", "open"}
    /\ (\E c \in Index!Calls : at[c] = "closing") => opening = None
    /\ \A n \in noisy : conns[n] = "ended"
    /\ \E k \in 0..MaxOpened : Index!Opened = 1..k

AnswersSound ==
    /\ \A c \in Searches : found[c] \in {None, c}
    /\ \A c \in Writes : at[c] # "closing" /\ (at[c] = "done" => c \in saved)

IndexInv == IndexShapes /\ OneAtATime /\ TransactionsSound /\ WiresSound /\ AnswersSound

\* The invariant is what is promised: a call that is closing is a call at work.
LEMMA IndexInvIsSound ==
    ASSUME IndexInv
    PROVE  Index!IndexSound
  <1>1. Index!CallsStayApart
    BY DEF IndexInv, AnswersSound, Index!CallsStayApart
  <1>2. \A c \in Index!Calls : at[c] = "closing" => c \in Index!Started
    BY DEF Index!Started
  <1>3. Index!NoConnectionForgotten
    BY <1>2 DEF IndexInv, WiresSound, Index!NoConnectionForgotten
  <1> QED BY <1>1, <1>3 DEF Index!IndexSound

\* The index starts with no connection and no call.
LEMMA IndexInit ==
    ASSUME Index!Init
    PROVE  IndexInv
  <1>1. IndexShapes
    BY DEF Index!Init, IndexShapes
  <1>2. Index!Opened = 1..0
    BY DEF Index!Init, Index!Opened
  <1>3. WiresSound
    BY <1>2, IndexAssumption DEF Index!Init, WiresSound
  <1>4. OneAtATime /\ TransactionsSound /\ AnswersSound
    BY DEF Index!Init, Index!Calls, OneAtATime, TransactionsSound, AnswersSound, Working
  <1> QED BY <1>1, <1>3, <1>4 DEF IndexInv

\* The call at work takes its next step, or its last one.
LEMMA AtWorkMoves ==
    ASSUME IndexInv, NEW c \in Index!Calls, at[c] \in Working,
           NEW s \in Working \union {"done", "failed"}, at' = [at EXCEPT ![c] = s]
    PROVE  /\ at' \in [Index!Calls -> {"new", "queued", "done", "failed"} \union Working]
           /\ at'[c] = s /\ \A d \in Index!Calls : d # c => at'[d] = at[d] /\ at[d] \notin Working
           /\ OneAtATime'
  BY DEF IndexInv, IndexShapes, OneAtATime

\* Nothing is changed of the connections themselves.
LEMMA WiresStay ==
    ASSUME IndexInv, NEW c \in Index!Calls, at[c] \in Working \ {"closing"},
           NEW s \in (Working \ {"closing"}) \union {"done", "failed"}, at' = [at EXCEPT ![c] = s],
           UNCHANGED <<using, opening, conns, noisy>>
    PROVE  WiresSound'
  <1>1. \A d \in Index!Calls : at[d] # "closing" /\ at'[d] # "closing"
    BY DEF IndexInv, IndexShapes, OneAtATime, Working
  <1> QED BY <1>1 DEF IndexInv, WiresSound, Index!Opened


\* A call joins the queue.
LEMMA CallKeeps ==
    ASSUME IndexInv, NEW c \in Index!Calls, Index!Call(c)
    PROVE  IndexInv'
  <1>1. /\ at[c] = "new" /\ at' = [at EXCEPT ![c] = "queued"] /\ queue' = Append(queue, c)
        /\ UNCHANGED <<using, opening, conns, noisy, limits, inTx, saved, found>>
    BY DEF Index!Call, Index!server
  <1>2. queue' \in Seq(Index!Calls)
    BY <1>1, AppendProperties DEF IndexInv, IndexShapes
  <1>3. \A d \in Index!Calls : (at'[d] \in Working \/ at[d] \in Working) => at'[d] = at[d]
    BY <1>1 DEF IndexInv, IndexShapes, Working
  <1>4. IndexShapes'
    BY <1>1, <1>2 DEF IndexInv, IndexShapes
  <1>5. OneAtATime'
    BY <1>3 DEF IndexInv, OneAtATime
  <1>6. TransactionsSound'
    <2>1. Searches \subseteq Index!Calls
      BY DEF Index!Calls
    <2> QED BY <1>1, <1>3, <2>1 DEF IndexInv, IndexShapes, TransactionsSound, Working, InTransaction
  <1>7. WiresSound'
    BY <1>1, <1>3 DEF IndexInv, WiresSound, Working, Index!Opened
  <1>8. AnswersSound'
    BY <1>1 DEF IndexInv, IndexShapes, AnswersSound, Index!Calls
  <1> QED BY <1>4, <1>5, <1>6, <1>7, <1>8 DEF IndexInv

\* The state of a statement: the call at work, its connection, the others idle.
LEMMA AtWork ==
    ASSUME IndexInv, NEW c \in Index!Calls, at[c] \in Working
    PROVE  /\ \A d \in Index!Calls : at[d] \in Working => d = c
           /\ \A n \in Index!Connections : limits[n] # None => limits[n] = c
           /\ \A n \in Index!Connections : inTx[n] => c \in Searches /\ using[c] = n
           /\ c \in Writes => \A n \in Index!Connections : ~inTx[n]
  <1>1. Searches \subseteq Index!Calls
    BY DEF Index!Calls
  <1>2. \A d \in Index!Calls : at[d] \in Working => d = c
    BY DEF IndexInv, OneAtATime
  <1>3. \A n \in Index!Connections : limits[n] # None => limits[n] = c
    BY <1>1, <1>2 DEF IndexInv, IndexShapes, TransactionsSound, Working
  <1>4. \A n \in Index!Connections : inTx[n] => c \in Searches /\ using[c] = n
    BY <1>1, <1>2 DEF IndexInv, TransactionsSound, InTransaction, Working
  <1> QED BY <1>2, <1>3, <1>4, IndexAssumption

\* BEGIN and the limit of a search.
LEMMA BeginKeeps ==
    ASSUME IndexInv, NEW c \in Searches, Index!Begin(c) \/ Index!SetLimit(c)
    PROVE  IndexInv'
  <1>1. PICK s \in {"begun", "limited"} :
           /\ at' = [at EXCEPT ![c] = s]
           /\ s = "begun" => at[c] = "connecting" /\ inTx' = [inTx EXCEPT ![using[c]] = TRUE]
                             /\ limits' = limits
           /\ s = "limited" => at[c] = "begun" /\ limits' = [limits EXCEPT ![using[c]] = c]
                               /\ inTx' = inTx
    BY DEF Index!Begin, Index!SetLimit, Index!Goes
  <1>2. /\ using[c] \in Index!Connections /\ conns[using[c]] = "open"
        /\ UNCHANGED <<queue, using, opening, conns, noisy, saved, found>>
        /\ c \in Index!Calls /\ at[c] \in Working \ {"closing"} /\ s \in InTransaction
        /\ s \in Working \ {"closing"}
    BY <1>1 DEF Index!Begin, Index!SetLimit, Index!Goes, Index!Alive, Index!Still, IndexInv, IndexShapes,
                Index!Calls, Working, InTransaction
  <1>3. /\ at' \in [Index!Calls -> {"new", "queued", "done", "failed"} \union Working]
        /\ at'[c] = s /\ \A d \in Index!Calls : d # c => at'[d] = at[d] /\ at[d] \notin Working
        /\ OneAtATime'
    BY <1>1, <1>2, AtWorkMoves
  <1>4. IndexShapes'
    <2>1. limits' \in [Index!Connections -> Searches \union {None}]
      BY <1>1, <1>2 DEF IndexInv, IndexShapes
    <2>2. inTx' \in [Index!Connections -> BOOLEAN]
      BY <1>1, <1>2 DEF IndexInv, IndexShapes
    <2> QED BY <1>2, <1>3, <2>1, <2>2 DEF IndexInv, IndexShapes
  <1>5. WiresSound'
    BY <1>1, <1>2, WiresStay
  <1>6. TransactionsSound'
    <2>1. \A n \in Index!Connections :
             /\ limits[n] # None => limits[n] = c
             /\ inTx[n] => using[c] = n
      BY <1>2, AtWork
    <2>2. ASSUME NEW n \in Index!Connections, limits'[n] # None
          PROVE  conns[n] = "open" /\ limits'[n] = c /\ using[c] = n /\ s = "limited"
      <3>1. limits[n] = None
        BY <1>1, <2>1 DEF IndexInv, TransactionsSound
      <3> QED BY <1>1, <1>2, <2>2, <3>1 DEF IndexInv, IndexShapes
    <2>3. ASSUME NEW n \in Index!Connections, inTx'[n]
          PROVE  conns[n] = "open" /\ using[c] = n
      BY <1>1, <1>2, <2>1, <2>3 DEF IndexInv, IndexShapes
    <2> QED BY <1>2, <1>3, <2>2, <2>3 DEF TransactionsSound
  <1>7. AnswersSound'
    BY <1>2, <1>3, IndexAssumption DEF IndexInv, AnswersSound, Index!Calls
  <1> QED BY <1>3, <1>4, <1>5, <1>6, <1>7 DEF IndexInv

\* The rows are read, or a statement fails and the transaction is to be rolled back.
LEMMA SelectKeeps ==
    ASSUME IndexInv, NEW c \in Searches, Index!Select(c) \/ Index!StatementFails(c)
    PROVE  IndexInv'
  <1>1. PICK s \in {"read", "rollback"} :
           /\ at[c] \in InTransaction \ {"rollback"} /\ at' = [at EXCEPT ![c] = s]
           /\ at[c] = "begun" => s = "rollback"
           /\ \/ found' = found
              \/ found' = [found EXCEPT ![c] = limits[using[c]]] /\ using[c] # None
    BY DEF Index!Select, Index!StatementFails, Index!Goes, Index!Alive, Index!server, InTransaction
  <1>2. /\ UNCHANGED <<queue, using, opening, conns, noisy, limits, inTx, saved>>
        /\ c \in Index!Calls /\ at[c] \in Working \ {"closing"} /\ s \in Working \ {"closing"}
        /\ Searches \subseteq Index!Calls
    BY <1>1 DEF Index!Select, Index!StatementFails, Index!Goes, Index!Still, Index!server,
                Index!Calls, Working, InTransaction
  <1>3. /\ at' \in [Index!Calls -> {"new", "queued", "done", "failed"} \union Working]
        /\ at'[c] = s /\ \A d \in Index!Calls : d # c => at'[d] = at[d] /\ at[d] \notin Working
        /\ OneAtATime'
    BY <1>1, <1>2, AtWorkMoves
  <1>4. (\A n \in Index!Connections : limits[n] \in {None, c})
        /\ (using[c] # None => using[c] \in Index!Connections)
    BY <1>2, AtWork DEF IndexInv, IndexShapes
  <1>5. found' \in [Searches -> Searches \union {None}] /\ \A d \in Searches : found'[d] \in {None, d}
    BY <1>1, <1>4 DEF IndexInv, IndexShapes, AnswersSound
  <1>6. IndexShapes'
    BY <1>2, <1>3, <1>5 DEF IndexInv, IndexShapes
  <1>7. WiresSound'
    BY <1>1, <1>2, WiresStay
  <1>8. TransactionsSound'
    BY <1>1, <1>2, <1>3, <1>4 DEF IndexInv, IndexShapes, TransactionsSound, InTransaction, Working
  <1>9. AnswersSound'
    BY <1>2, <1>3, <1>5, IndexAssumption DEF IndexInv, AnswersSound, Index!Calls
  <1> QED BY <1>3, <1>6, <1>7, <1>8, <1>9 DEF IndexInv


\* A transaction ends with the connection it was on, or has ended with it before.
LEMMA EndKeeps ==
    ASSUME IndexInv, NEW c \in Searches, Index!Commit(c) \/ Index!RollBack(c)
    PROVE  IndexInv'
  <1>1. PICK s \in {"done", "failed"} :
           /\ at[c] \in {"read", "rollback"} /\ at' = [at EXCEPT ![c] = s]
           /\ UNCHANGED <<queue, using, opening, conns, noisy, found>>
           /\ \/ /\ using[c] # None
                 /\ inTx' = [inTx EXCEPT ![using[c]] = FALSE]
                 /\ limits' = [limits EXCEPT ![using[c]] = None]
                 /\ saved \subseteq saved'
              \/ /\ ~Index!Alive(c) /\ UNCHANGED <<limits, inTx, saved>>
    BY DEF Index!Commit, Index!RollBack, Index!Goes, Index!Still, Index!EndsTx, Index!Alive, Index!server
  <1>2. /\ c \in Index!Calls /\ at[c] \in Working \ {"closing"} /\ Searches \subseteq Index!Calls
        /\ using[c] # None => using[c] \in Index!Connections
    BY <1>1 DEF IndexInv, IndexShapes, Index!Calls, Working
  <1>3. /\ at' \in [Index!Calls -> {"new", "queued", "done", "failed"} \union Working]
        /\ at'[c] = s /\ \A d \in Index!Calls : d # c => at'[d] = at[d] /\ at[d] \notin Working
        /\ OneAtATime'
    BY <1>1, <1>2, AtWorkMoves
  <1>4. \A n \in Index!Connections : limits'[n] = None /\ ~inTx'[n]
    <2>1. \A n \in Index!Connections :
             /\ limits[n] # None => limits[n] = c /\ using[c] = n /\ conns[n] = "open"
             /\ inTx[n] => using[c] = n /\ conns[n] = "open"
      BY <1>2, AtWork DEF IndexInv, TransactionsSound
    <2>2. CASE inTx' = [inTx EXCEPT ![using[c]] = FALSE] /\ limits' = [limits EXCEPT ![using[c]] = None]
      BY <2>1, <2>2 DEF IndexInv, IndexShapes
    <2>3. CASE ~Index!Alive(c) /\ UNCHANGED <<limits, inTx>>
      <3>1. \A n \in Index!Connections : using[c] = n => conns[n] # "open"
        BY <2>3, IndexAssumption DEF Index!Alive, Index!Connections
      <3> QED BY <2>1, <2>3, <3>1
    <2> QED BY <1>1, <2>2, <2>3
  <1>5. IndexShapes'
    <2>1. limits' \in [Index!Connections -> Searches \union {None}]
      BY <1>1, <1>2 DEF IndexInv, IndexShapes
    <2>2. inTx' \in [Index!Connections -> BOOLEAN]
      BY <1>1, <1>2 DEF IndexInv, IndexShapes
    <2> QED BY <1>1, <1>3, <2>1, <2>2 DEF IndexInv, IndexShapes
  <1>6. WiresSound'
    BY <1>1, <1>2, WiresStay
  <1>7. TransactionsSound'
    BY <1>4 DEF TransactionsSound
  <1>8. AnswersSound'
    BY <1>1, <1>2, <1>3, IndexAssumption DEF IndexInv, AnswersSound, Index!Calls
  <1> QED BY <1>3, <1>5, <1>6, <1>7, <1>8 DEF IndexInv

\* A write is acknowledged when it is committed: no transaction is open on the
\* connection it goes through.
LEMMA WriteKeeps ==
    ASSUME IndexInv, NEW c \in Index!Calls, Index!Write(c) \/ Index!Refused(c)
    PROVE  IndexInv'
  <1>1. at[c] = "connecting" /\ UNCHANGED <<queue, using, opening, conns, noisy, found, limits, inTx>>
    BY DEF Index!Write, Index!Refused, Index!Goes, Index!Still
  <1>2. /\ c \in Index!Calls /\ at[c] \in Working \ {"closing"} /\ Searches \subseteq Index!Calls
        /\ using[c] # None => using[c] \in Index!Connections
    BY <1>1 DEF IndexInv, IndexShapes, Index!Calls, Working
  <1>3. PICK s \in {"done", "failed"} :
           /\ at' = [at EXCEPT ![c] = s] /\ saved \subseteq saved'
           /\ s = "done" => c \in Writes /\ c \in saved'
    <2>1. CASE Index!Write(c)
      <3>1. ~inTx[using[c]]
        BY <1>2, <2>1, AtWork DEF Index!Write, Index!Alive
      <3> QED BY <2>1, <3>1 DEF Index!Write, Index!Goes
    <2>2. CASE Index!Refused(c)
      BY <2>2 DEF Index!Refused, Index!Goes
    <2> QED BY <2>1, <2>2
  <1>4. /\ at' \in [Index!Calls -> {"new", "queued", "done", "failed"} \union Working]
        /\ at'[c] = s /\ \A d \in Index!Calls : d # c => at'[d] = at[d] /\ at[d] \notin Working
        /\ OneAtATime'
    BY <1>2, <1>3, AtWorkMoves
  <1>5. IndexShapes'
    BY <1>1, <1>4 DEF IndexInv, IndexShapes
  <1>6. WiresSound'
    BY <1>1, <1>2, <1>3, WiresStay
  <1>7. \A n \in Index!Connections : limits[n] = None /\ ~inTx[n]
    <2>1. \A n \in Index!Connections : /\ limits[n] # None => limits[n] = c
                                       /\ inTx[n] => c \in Searches
      BY <1>2, AtWork
    <2>2. \A d \in Searches : at[d] \in InTransaction => d = c
      BY <1>2, AtWork DEF InTransaction, Working
    <2> QED BY <1>1, <2>1, <2>2 DEF IndexInv, TransactionsSound, InTransaction
  <1>8. TransactionsSound'
    BY <1>1, <1>7 DEF TransactionsSound
  <1>9. AnswersSound'
    BY <1>1, <1>3, <1>4 DEF IndexInv, AnswersSound, Index!Calls
  <1> QED BY <1>4, <1>5, <1>6, <1>8, <1>9 DEF IndexInv

\* A connection is lost, and what was open on it.
LEMMA LostKeeps ==
    ASSUME IndexInv, NEW n \in Index!Connections, Index!Lost(n)
    PROVE  /\ conns' = [conns EXCEPT ![n] = "ended"] /\ UNCHANGED <<saved, found>>
           /\ limits' \in [Index!Connections -> Searches \union {None}]
           /\ inTx' \in [Index!Connections -> BOOLEAN]
           /\ \A k \in Index!Connections :
                /\ limits'[k] # None => k # n /\ limits'[k] = limits[k]
                /\ inTx'[k] => k # n /\ inTx[k]
  BY DEF Index!Lost, IndexInv, IndexShapes


\* A connection comes up, fails, drops, or complains late.
LEMMA WireKeeps ==
    ASSUME IndexInv, NEW n \in Index!Connections,
           \/ Index!Connected(n) \/ Index!ConnectFails(n) \/ Index!Drops(n) \/ Index!LateError(n)
    PROVE  IndexInv'
  <1>1. UNCHANGED <<at, queue, using, saved, found>>
    BY DEF Index!Connected, Index!ConnectFails, Index!Drops, Index!LateError, Index!Lost, Index!calls,
           Index!server
  <1>2. n # None
    BY IndexAssumption DEF Index!Connections
  <1>3. CASE Index!Connected(n)
    <2>1. /\ conns[n] = "connecting" /\ conns' = [conns EXCEPT ![n] = "open"]
          /\ UNCHANGED <<opening, noisy, limits, inTx>>
      BY <1>3 DEF Index!Connected, Index!server
    <2>2. IndexShapes'
      BY <1>1, <2>1 DEF IndexInv, IndexShapes
    <2>3. TransactionsSound'
      BY <1>1, <2>1 DEF IndexInv, IndexShapes, TransactionsSound
    <2>4. Index!Opened' = Index!Opened
      BY <2>1 DEF Index!Opened, IndexInv, IndexShapes
    <2>5. WiresSound'
      BY <1>1, <2>1, <2>4 DEF IndexInv, IndexShapes, WiresSound
    <2> QED BY <1>1, <2>2, <2>3, <2>5 DEF IndexInv, OneAtATime, AnswersSound
  <1>4. CASE Index!ConnectFails(n) \/ Index!Drops(n)
    <2>1. /\ conns[n] \in {"connecting", "open"} /\ Index!Lost(n)
          /\ opening' = (IF opening = n THEN None ELSE opening) /\ noisy' = noisy \union {n}
      BY <1>4 DEF Index!ConnectFails, Index!Drops, Index!Forget
    <2>2. /\ conns' = [conns EXCEPT ![n] = "ended"]
          /\ limits' \in [Index!Connections -> Searches \union {None}]
          /\ inTx' \in [Index!Connections -> BOOLEAN]
          /\ \A k \in Index!Connections :
                /\ limits'[k] # None => k # n /\ limits'[k] = limits[k]
                /\ inTx'[k] => k # n /\ inTx[k]
      BY <2>1, LostKeeps
    <2>3. IndexShapes'
      BY <1>1, <2>1, <2>2 DEF IndexInv, IndexShapes
    <2>4. TransactionsSound'
      BY <1>1, <2>2 DEF IndexInv, IndexShapes, TransactionsSound
    <2>5. Index!Opened' = Index!Opened
      BY <2>1, <2>2 DEF Index!Opened, IndexInv, IndexShapes
    <2>6. WiresSound'
      BY <1>1, <2>1, <2>2, <2>5 DEF IndexInv, IndexShapes, WiresSound
    <2> QED BY <1>1, <2>3, <2>4, <2>6 DEF IndexInv, OneAtATime, AnswersSound
  <1>5. CASE Index!LateError(n)
    <2>1. /\ n \in noisy /\ noisy' = noisy \ {n} /\ opening' = (IF opening = n THEN None ELSE opening)
          /\ UNCHANGED <<conns, limits, inTx>>
      BY <1>5 DEF Index!LateError, Index!Forget, Index!server
    <2>2. opening # n
      BY <1>2, <2>1 DEF IndexInv, WiresSound
    <2>3. IndexShapes' /\ TransactionsSound'
      BY <1>1, <2>1, <2>2 DEF IndexInv, IndexShapes, TransactionsSound
    <2>4. WiresSound'
      BY <1>1, <2>1, <2>2 DEF IndexInv, WiresSound, Index!Opened
    <2> QED BY <1>1, <2>3, <2>4 DEF IndexInv, OneAtATime, AnswersSound
  <1> QED BY <1>3, <1>4, <1>5

\* Nobody is at work: no transaction is open, and nothing is being closed.
LEMMA Quiet ==
    ASSUME IndexInv, Index!Turn
    PROVE  /\ \A d \in Index!Calls : at[d] \notin Working
           /\ \A n \in Index!Connections : limits[n] = None /\ ~inTx[n]
           /\ \A n \in Index!Connections : conns[n] \in {"connecting", "open"} => opening = n
  <1>1. \A d \in Index!Calls : at[d] \notin Working
    BY DEF Index!Turn, Index!Started, Working
  <1>2. Searches \subseteq Index!Calls
    BY DEF Index!Calls
  <1>3. ASSUME NEW n \in Index!Connections
        PROVE  limits[n] = None /\ ~inTx[n]
    BY <1>1, <1>2 DEF IndexInv, IndexShapes, TransactionsSound, InTransaction, Working
  <1> QED BY <1>1, <1>3 DEF IndexInv, WiresSound, Working

\* The first call of the queue.
LEMMA HeadIsCall ==
    ASSUME IndexInv, NEW c \in Index!Calls, c = Index!First, queue' = Tail(queue)
    PROVE  queue' \in Seq(Index!Calls)
  <1>1. queue # <<>>
    BY IndexAssumption DEF Index!First, Index!Calls
  <1> QED BY <1>1 DEF IndexInv, IndexShapes

\* A call starts its work.
LEMMA Starts ==
    ASSUME IndexInv, Index!Turn, NEW c \in Index!Calls, NEW s \in {"connecting", "closing"},
           at' = [at EXCEPT ![c] = s]
    PROVE  /\ at' \in [Index!Calls -> {"new", "queued", "done", "failed"} \union Working]
           /\ at'[c] = s /\ \A d \in Index!Calls : d # c => at'[d] = at[d]
           /\ OneAtATime'
  <1>1. \A d \in Index!Calls : at[d] \notin Working
    BY Quiet
  <1> QED BY <1>1 DEF IndexInv, IndexShapes, OneAtATime, Working

\* What is known of the connections when one more is opened.
LEMMA OpensNext ==
    ASSUME IndexInv, NEW n \in Index!Connections, Index!Opened = 1..n - 1,
           conns' = [conns EXCEPT ![n] = "connecting"]
    PROVE  /\ conns[n] = "none"
           /\ \E k \in 0..MaxOpened : Index!Opened' = 1..k
  <1>1. n \in Nat /\ MaxOpened \in Nat /\ n \in 1..MaxOpened
    BY IndexAssumption DEF Index!Connections
  <1>2. n \notin Index!Opened
    BY <1>1
  <1>3. Index!Opened' = Index!Opened \union {n}
    BY <1>2 DEF Index!Opened, IndexInv, IndexShapes
  <1>4. Index!Opened' = 1..n
    BY <1>1, <1>3
  <1> QED BY <1>1, <1>2, <1>4 DEF Index!Opened

\* connect: the first call opens a connection, the next ones share it.
LEMMA StartKeeps ==
    ASSUME IndexInv, NEW c \in Index!Calls, Index!Start(c)
    PROVE  IndexInv'
  <1>1. /\ Index!Turn /\ c = Index!First /\ queue' = Tail(queue)
        /\ at' = [at EXCEPT ![c] = "connecting"]
        /\ UNCHANGED <<noisy, limits, inTx, saved, found>>
    BY DEF Index!Start, Index!server
  <1>2. /\ queue' \in Seq(Index!Calls)
        /\ at' \in [Index!Calls -> {"new", "queued", "done", "failed"} \union Working]
        /\ at'[c] = "connecting" /\ \A d \in Index!Calls : d # c => at'[d] = at[d]
        /\ OneAtATime'
    BY <1>1, HeadIsCall, Starts
  <1>3. /\ \A d \in Index!Calls : at[d] \notin Working
        /\ \A n \in Index!Connections : limits[n] = None /\ ~inTx[n]
        /\ \A n \in Index!Connections : conns[n] \in {"connecting", "open"} => opening = n
    BY <1>1, Quiet
  <1>4. TransactionsSound'
    BY <1>1, <1>3 DEF TransactionsSound
  <1>5. AnswersSound'
    BY <1>1, <1>2 DEF IndexInv, AnswersSound, Index!Calls
  <1>6. CASE opening # None
    <2>1. using' = [using EXCEPT ![c] = opening] /\ UNCHANGED <<opening, conns>>
      BY <1>6 DEF Index!Start
    <2>2. IndexShapes'
      BY <1>1, <1>2, <2>1 DEF IndexInv, IndexShapes
    <2>3. WiresSound'
      BY <1>1, <1>3, <2>1 DEF IndexInv, WiresSound, Index!Opened
    <2> QED BY <1>2, <1>4, <1>5, <2>2, <2>3 DEF IndexInv
  <1>7. CASE opening = None
    <2>1. PICK n \in Index!Connections :
             /\ Index!Opened = 1..n - 1 /\ opening' = n
             /\ conns' = [conns EXCEPT ![n] = "connecting"]
             /\ using' = [using EXCEPT ![c] = n]
      BY <1>7 DEF Index!Start
    <2>2. opening' = n
      BY <2>1
    <2>3. /\ conns[n] = "none"
          /\ \E k \in 0..MaxOpened : Index!Opened' = 1..k
      BY <2>1, OpensNext
    <2>4. IndexShapes'
      BY <1>1, <1>2, <2>1, <2>2, <2>3 DEF IndexInv, IndexShapes
    <2>5. \A k \in Index!Connections : conns'[k] = IF k = n THEN "connecting" ELSE conns[k]
      BY <2>1, <2>2 DEF IndexInv, IndexShapes
    <2>6. WiresSound'
      <3>1. \A k \in Index!Connections : conns'[k] \in {"connecting", "open"} => opening' = k
        BY <1>3, <1>7, <2>2, <2>5, IndexAssumption DEF Index!Connections
      <3>2. \A k \in noisy' : conns'[k] = "ended"
        BY <1>1, <2>3, <2>5 DEF IndexInv, IndexShapes, WiresSound
      <3>3. \A d \in Index!Calls : at'[d] # "closing"
        BY <1>2, <1>3 DEF Working
      <3> QED BY <2>2, <2>3, <2>5, <3>1, <3>2, <3>3 DEF WiresSound
    <2> QED BY <1>2, <1>4, <1>5, <2>4, <2>6 DEF IndexInv
  <1> QED BY <1>6, <1>7

\* close forgets the shared connection, and ends it once it is known to be open.
LEMMA CloseKeeps ==
    ASSUME IndexInv, NEW c \in Index!Calls, Index!BeginClose(c) \/ Index!EndClose(c)
    PROVE  IndexInv'
  <1>1. CASE Index!BeginClose(c)
    <2>1. /\ c \in Closings /\ Index!Turn /\ c = Index!First /\ queue' = Tail(queue) /\ opening' = None
          /\ at' = [at EXCEPT ![c] = "closing"] /\ using' = [using EXCEPT ![c] = opening]
          /\ UNCHANGED <<conns, noisy, limits, inTx, saved, found>>
      BY <1>1 DEF Index!BeginClose, Index!server
    <2>2. /\ queue' \in Seq(Index!Calls)
          /\ at' \in [Index!Calls -> {"new", "queued", "done", "failed"} \union Working]
          /\ at'[c] = "closing" /\ \A d \in Index!Calls : d # c => at'[d] = at[d]
          /\ OneAtATime'
      BY <2>1, HeadIsCall, Starts
    <2>3. /\ \A n \in Index!Connections : limits[n] = None /\ ~inTx[n]
          /\ \A n \in Index!Connections : conns[n] \in {"connecting", "open"} => opening = n
      BY <2>1, Quiet
    <2>4. TransactionsSound'
      BY <2>1, <2>3 DEF TransactionsSound
    <2>5. AnswersSound'
      BY <2>1, <2>2, IndexAssumption DEF IndexInv, AnswersSound, Index!Calls
    <2>6. IndexShapes'
      BY <2>1, <2>2 DEF IndexInv, IndexShapes
    <2>7. using'[c] = opening
      BY <2>1 DEF IndexInv, IndexShapes
    <2>8. WiresSound'
      BY <2>1, <2>2, <2>3, <2>7 DEF IndexInv, WiresSound, Index!Opened
    <2> QED BY <2>2, <2>4, <2>5, <2>6, <2>8 DEF IndexInv
  <1>2. CASE Index!EndClose(c)
    <2>1. /\ at[c] = "closing" /\ at' = [at EXCEPT ![c] = "done"]
          /\ UNCHANGED <<queue, using, opening, noisy>>
          /\ using[c] # None => conns[using[c]] # "connecting"
      BY <1>2 DEF Index!EndClose, Index!Goes
    <2>2. /\ at' \in [Index!Calls -> {"new", "queued", "done", "failed"} \union Working]
          /\ at'[c] = "done" /\ \A d \in Index!Calls : d # c => at'[d] = at[d] /\ at[d] \notin Working
          /\ OneAtATime'
      BY <2>1, AtWorkMoves DEF Working
    <2>3. \A n \in Index!Connections : limits[n] = None /\ ~inTx[n]
      <3>1. \A n \in Index!Connections : /\ limits[n] # None => limits[n] = c
                                         /\ inTx[n] => c \in Searches
        BY <2>1, AtWork DEF Working
      <3>2. \A d \in Searches : at[d] \in InTransaction => d = c
        BY <2>1, AtWork DEF InTransaction, Working, Index!Calls
      <3> QED BY <2>1, <3>1, <3>2 DEF IndexInv, TransactionsSound, InTransaction
    <2>4. CASE UNCHANGED <<conns, limits, inTx, saved, found>> /\ ~Index!Alive(c)
      <3>1. IndexShapes' /\ TransactionsSound'
        BY <2>1, <2>2, <2>3, <2>4 DEF IndexInv, IndexShapes, TransactionsSound
      <3>2. \A n \in Index!Connections : conns[n] \in {"connecting", "open"} => using[c] # n
        BY <2>1, <2>4, IndexAssumption DEF Index!Alive, Index!Connections
      <3>3. WiresSound'
        BY <2>1, <2>2, <2>4, <3>2 DEF IndexInv, WiresSound, Index!Opened, Working
      <3>4. AnswersSound'
        BY <2>1, <2>2, <2>4 DEF IndexInv, AnswersSound, Index!Calls
      <3> QED BY <2>2, <3>1, <3>3, <3>4 DEF IndexInv
    <2>5. CASE Index!Lost(using[c]) /\ Index!Alive(c)
      <3>1. PICK n \in Index!Connections : n = using[c]
        BY <2>5 DEF IndexInv, IndexShapes, Index!Alive
      <3>2. /\ conns' = [conns EXCEPT ![n] = "ended"] /\ UNCHANGED <<saved, found>>
            /\ limits' \in [Index!Connections -> Searches \union {None}]
            /\ inTx' \in [Index!Connections -> BOOLEAN]
            /\ \A k \in Index!Connections :
                 /\ limits'[k] # None => k # n /\ limits'[k] = limits[k]
                 /\ inTx'[k] => k # n /\ inTx[k]
        BY <2>5, <3>1, LostKeeps
      <3>3. opening # n
        BY <2>1, IndexAssumption DEF IndexInv, WiresSound, Index!Connections
      <3>4. IndexShapes' /\ TransactionsSound'
        BY <2>1, <2>2, <2>3, <3>2 DEF IndexInv, IndexShapes, TransactionsSound
      <3>5. Index!Opened' = Index!Opened
        BY <2>5, <3>1, <3>2 DEF Index!Opened, Index!Alive, IndexInv, IndexShapes
      <3>6. WiresSound'
        BY <2>1, <2>2, <3>1, <3>2, <3>3, <3>5 DEF IndexInv, IndexShapes, WiresSound, Working
      <3>7. AnswersSound'
        BY <2>1, <2>2, <3>2 DEF IndexInv, AnswersSound, Index!Calls
      <3> QED BY <2>2, <3>4, <3>6, <3>7 DEF IndexInv
    <2> QED BY <1>2, <2>4, <2>5 DEF Index!EndClose, Index!server
  <1> QED BY <1>1, <1>2


\* Every step of the index keeps the order of its calls, of its transactions
\* and of its connections (embedding-index.ts).
LEMMA IndexNext ==
    ASSUME IndexInv, [Next]_vars
    PROVE  IndexInv'
  <1>1. CASE UNCHANGED index
    BY <1>1 DEF index, IndexInv, IndexShapes, OneAtATime, TransactionsSound, WiresSound, AnswersSound,
                Index!Opened
  <1>2. CASE Index!Next
    <2>1. CASE \E c \in Index!Calls :
                 \/ Index!Call(c) \/ Index!Start(c) \/ Index!Refused(c) \/ Index!Write(c)
                 \/ Index!BeginClose(c) \/ Index!EndClose(c)
      BY <2>1, CallKeeps, StartKeeps, WriteKeeps, CloseKeeps
    <2>2. CASE \E c \in Searches :
                 \/ Index!Begin(c) \/ Index!SetLimit(c) \/ Index!Select(c) \/ Index!Commit(c)
                 \/ Index!StatementFails(c) \/ Index!RollBack(c)
      BY <2>2, BeginKeeps, SelectKeeps, EndKeeps
    <2>3. CASE \E n \in Index!Connections :
                 Index!Connected(n) \/ Index!ConnectFails(n) \/ Index!Drops(n) \/ Index!LateError(n)
      BY <2>3, WireKeeps
    <2> QED BY <1>2, <2>1, <2>2, <2>3 DEF Index!Next
  <1> QED BY <1>1, <1>2 DEF Next, vars

\* The shared connection of the external index keeps its calls apart: rows are
\* read under the search's own limit, an acknowledged write is not undone by the
\* rollback of another call, and through failures, drops and close no connection
\* is lost and none that failed is shared (exclusive, connect, candidates, close).
THEOREM CallsKeptApart == Spec => []Index!IndexSound
  <1>1. Init => IndexInv
    BY IndexInit DEF Init
  <1>2. IndexInv /\ [Next]_vars => IndexInv'
    BY IndexNext
  <1>3. IndexInv => Index!IndexSound
    BY IndexInvIsSound
  <1> QED BY <1>1, <1>2, <1>3, PTL DEF Spec

------------------------------------------------------------------------------
(* Sequences by the place of their members, as the browse index keeps them. *)

\* The operators of the instance that come from the library.
LEMMA LibraryOfBrowse ==
    /\ \A S : Browse!Cardinality(S) = Cardinality(S)
    /\ \A s : Browse!ToSet(s) = {s[i] : i \in DOMAIN s}
    /\ \A s : Browse!Last(s) = s[Len(s)]
  <1>1. \A S : Browse!Cardinality(S) = Cardinality(S)
    BY DEF Browse!Cardinality, Cardinality
  <1> QED BY <1>1 DEF Browse!ToSet, Browse!Last

\* R puts any two members of S in one order.
Orders(R, S) ==
    /\ \A x \in S : <<x, x>> \notin R
    /\ \A x, y, z \in S : <<x, y>> \in R /\ <<y, z>> \in R => <<x, z>> \in R
    /\ \A x, y \in S : x = y \/ <<x, y>> \in R \/ <<y, x>> \in R

Ahead(R, S, x) == {y \in S : <<y, x>> \in R}

\* l holds the members of S, in the order R.
Ascends(l, R, S) ==
    /\ l \in Seq(S)
    /\ \A x \in S : \E i \in 1..Len(l) : l[i] = x
    /\ \A i, j \in 1..Len(l) : i < j => <<l[i], l[j]>> \in R

\* The definition, in the terms used here.
LEMMA ListedIs ==
    ASSUME NEW S, NEW R
    PROVE  Browse!Listed(S, R)
             = [i \in 1..Cardinality(S) |-> CHOOSE x \in S : Cardinality(Ahead(R, S, x)) = i - 1]
  <1>1. Browse!Listed(S, R)
          = [i \in 1..Browse!Cardinality(S) |-> CHOOSE x \in S : Browse!Cardinality(Ahead(R, S, x)) = i - 1]
    BY Zenon DEF Browse!Listed, Ahead
  <1>2. Browse!Cardinality(S) = Cardinality(S)
    BY LibraryOfBrowse
  <1>3. \A x \in S : Browse!Cardinality(Ahead(R, S, x)) = Cardinality(Ahead(R, S, x))
    BY LibraryOfBrowse
  <1> QED BY <1>1, <1>2, <1>3

\* The number of others ahead tells the members of a finite set apart.
LEMMA AheadCounts ==
    ASSUME NEW S, IsFiniteSet(S), NEW R, Orders(R, S)
    PROVE  /\ Cardinality(S) \in Nat
           /\ \A x \in S : Cardinality(Ahead(R, S, x)) \in 0..(Cardinality(S) - 1)
           /\ \A x, y \in S : <<x, y>> \in R => Cardinality(Ahead(R, S, x)) < Cardinality(Ahead(R, S, y))
           /\ \A i \in 1..Cardinality(S) : \E x \in S : Cardinality(Ahead(R, S, x)) = i - 1
  <1>1. PICK c \in Nat : c = Cardinality(S)
    BY FS_CardinalityType
  <1>2. ASSUME NEW x \in S
        PROVE  /\ IsFiniteSet(Ahead(R, S, x))
               /\ Cardinality(Ahead(R, S, x)) \in Nat /\ Cardinality(Ahead(R, S, x)) < c
    <2>1. Ahead(R, S, x) \in SUBSET S /\ x \notin Ahead(R, S, x)
      BY DEF Ahead, Orders
    <2>2. IsFiniteSet(Ahead(R, S, x)) /\ Cardinality(Ahead(R, S, x)) <= c /\ Cardinality(Ahead(R, S, x)) # c
      BY <1>1, <2>1, FS_Subset
    <2>3. Cardinality(Ahead(R, S, x)) \in Nat
      BY <2>2, FS_CardinalityType
    <2> QED BY <1>1, <2>2, <2>3
  <1>3. ASSUME NEW x \in S, NEW y \in S, <<x, y>> \in R
        PROVE  Cardinality(Ahead(R, S, x)) < Cardinality(Ahead(R, S, y))
    <2>1. Ahead(R, S, x) \in SUBSET Ahead(R, S, y) /\ x \in Ahead(R, S, y) /\ x \notin Ahead(R, S, x)
      BY <1>3 DEF Ahead, Orders
    <2>2. /\ Cardinality(Ahead(R, S, x)) <= Cardinality(Ahead(R, S, y))
          /\ Cardinality(Ahead(R, S, x)) # Cardinality(Ahead(R, S, y))
      BY <1>2, <2>1, FS_Subset
    <2> QED BY <1>2, <2>2
  <1>4. PICK rank : rank = [x \in S |-> Cardinality(Ahead(R, S, x)) + 1]
    OBVIOUS
  <1>5. rank \in [S -> 1..c]
    BY <1>1, <1>2, <1>4
  <1>6. \A x, y \in S : rank[x] = rank[y] => x = y
    <2> SUFFICES ASSUME NEW x \in S, NEW y \in S, rank[x] = rank[y], x # y
                 PROVE  FALSE
      OBVIOUS
    <2>1. Cardinality(Ahead(R, S, x)) = Cardinality(Ahead(R, S, y))
      BY <1>2, <1>4
    <2>2. <<x, y>> \in R \/ <<y, x>> \in R
      BY DEF Orders
    <2> QED BY <1>2, <1>3, <2>1, <2>2
  <1>7. rank \in Injection(S, 1..c)
    BY <1>5, <1>6 DEF Injection, IsInjective
  <1>8. IsFiniteSet(1..c) /\ Cardinality(1..c) = c
    BY FS_Interval
  <1>9. rank \in Surjection(S, 1..c)
    BY <1>1, <1>7, <1>8, FS_Injection
  <1>10. ASSUME NEW i \in 1..c
         PROVE  \E x \in S : Cardinality(Ahead(R, S, x)) = i - 1
    <2>1. PICK x \in S : rank[x] = i
      BY <1>9 DEF Surjection
    <2>2. Cardinality(Ahead(R, S, x)) + 1 = i /\ Cardinality(Ahead(R, S, x)) \in Nat
      BY <1>2, <1>4, <2>1
    <2> QED BY <2>2
  <1>11. \A x \in S : Cardinality(Ahead(R, S, x)) \in 0..(c - 1)
    BY <1>1, <1>2
  <1> QED BY <1>1, <1>3, <1>10, <1>11

\* What is listed by place is in order.
LEMMA ListedAscends ==
    ASSUME NEW S, IsFiniteSet(S), NEW R, Orders(R, S)
    PROVE  /\ Ascends(Browse!Listed(S, R), R, S)
           /\ Len(Browse!Listed(S, R)) = Cardinality(S)
  <1>1. PICK c \in Nat : c = Cardinality(S)
    BY AheadCounts
  <1>2. PICK l : l = Browse!Listed(S, R)
    OBVIOUS
  <1>3. l = [i \in 1..c |-> CHOOSE x \in S : Cardinality(Ahead(R, S, x)) = i - 1]
    BY <1>1, <1>2, ListedIs
  <1>4. ASSUME NEW i \in 1..c
        PROVE  l[i] \in S /\ Cardinality(Ahead(R, S, l[i])) = i - 1
    <2>1. \E x \in S : Cardinality(Ahead(R, S, x)) = i - 1
      BY <1>1, AheadCounts
    <2>2. l[i] = CHOOSE x \in S : Cardinality(Ahead(R, S, x)) = i - 1
      BY <1>3
    <2> QED BY <2>1, <2>2
  <1>5. l \in Seq(S) /\ Len(l) = c
    <2>1. DOMAIN l = 1..c /\ l = [i \in 1..c |-> l[i]]
      BY <1>3
    <2>2. l \in [1..c -> S]
      BY <1>4, <2>1
    <2> QED BY <2>2
  <1>6. ASSUME NEW i \in 1..c, NEW j \in 1..c, i < j
        PROVE  <<l[i], l[j]>> \in R
    <2>1. l[i] # l[j]
      BY <1>4, <1>6
    <2>2. <<l[j], l[i]>> \in R => j - 1 < i - 1
      <3>1. <<l[j], l[i]>> \in R => Cardinality(Ahead(R, S, l[j])) < Cardinality(Ahead(R, S, l[i]))
        BY <1>4, AheadCounts
      <3> QED BY <1>4, <3>1
    <2>3. <<l[j], l[i]>> \notin R
      BY <1>6, <2>2
    <2> QED BY <1>4, <2>1, <2>3 DEF Orders
  <1>7. ASSUME NEW x \in S
        PROVE  \E i \in 1..c : l[i] = x
    <2>1. PICK i \in 1..c : i = Cardinality(Ahead(R, S, x)) + 1
      BY <1>1, AheadCounts
    <2>2. Cardinality(Ahead(R, S, x)) = Cardinality(Ahead(R, S, l[i])) /\ l[i] \in S
      <3>1. Cardinality(Ahead(R, S, x)) \in Nat
        BY <1>1, AheadCounts
      <3> QED BY <1>4, <2>1, <3>1
    <2>3. ~(<<x, l[i]>> \in R) /\ ~(<<l[i], x>> \in R)
      <3>1. \A y, z \in S : <<y, z>> \in R => Cardinality(Ahead(R, S, y)) < Cardinality(Ahead(R, S, z))
        BY AheadCounts
      <3>2. Cardinality(Ahead(R, S, x)) \in Nat
        BY <1>1, AheadCounts
      <3> QED BY <2>2, <3>1, <3>2
    <2>4. l[i] = x
      BY <2>2, <2>3 DEF Orders
    <2> QED BY <2>4
  <1> QED BY <1>1, <1>2, <1>5, <1>6, <1>7 DEF Ascends

\* And whatever is in order is what is listed.
LEMMA AscendsListed ==
    ASSUME NEW S, IsFiniteSet(S), NEW R, Orders(R, S), NEW l, Ascends(l, R, S)
    PROVE  l = Browse!Listed(S, R)
  <1>1. l \in Seq(S) /\ Len(l) \in Nat /\ \A i \in 1..Len(l) : l[i] \in S
    BY DEF Ascends
  <1>2. ASSUME NEW n \in 0..Len(l), NEW T, T = {l[j] : j \in 1..n}
        PROVE  Cardinality(T) = n
    <2>1. PICK f : f = [j \in 1..n |-> l[j]]
      OBVIOUS
    <2>2. f \in [1..n -> T]
      BY <1>2, <2>1
    <2>3. \A i, j \in 1..n : f[i] = f[j] => i = j
      <3> SUFFICES ASSUME NEW i \in 1..n, NEW j \in 1..n, f[i] = f[j], i < j
                   PROVE  FALSE
        <4>1. \A i, j \in 1..n : i = j \/ i < j \/ j < i
          OBVIOUS
        <4> QED BY <4>1
      <3>1. i \in 1..Len(l) /\ j \in 1..Len(l) /\ l[i] = l[j]
        BY <1>1, <2>1
      <3> QED BY <1>1, <3>1 DEF Ascends, Orders
    <2>4. \A t \in T : \E j \in 1..n : f[j] = t
      BY <1>2, <2>1
    <2>5. f \in Bijection(1..n, T)
      BY <2>2, <2>3, <2>4 DEF Bijection, Injection, Surjection, IsInjective
    <2> QED BY <2>5, FS_CountingElements DEF ExistsBijection
  <1>3. Len(l) = Cardinality(S)
    <2>1. S = {l[j] : j \in 1..Len(l)}
      BY <1>1 DEF Ascends
    <2>2. Len(l) \in 0..Len(l)
      BY <1>1
    <2>3. Cardinality({l[j] : j \in 1..Len(l)}) = Len(l)
      BY <1>2, <2>2
    <2> QED BY <2>1, <2>3
  <1>4. ASSUME NEW i \in 1..Len(l)
        PROVE  /\ l[i] \in S /\ Cardinality(Ahead(R, S, l[i])) = i - 1
               /\ \A x \in S : Cardinality(Ahead(R, S, x)) = i - 1 => x = l[i]
    <2>1. Ahead(R, S, l[i]) = {l[j] : j \in 1..(i - 1)}
      <3>1. ASSUME NEW y \in Ahead(R, S, l[i])
            PROVE  y \in {l[j] : j \in 1..(i - 1)}
        <4>1. PICK j \in 1..Len(l) : l[j] = y
          BY DEF Ahead, Ascends
        <4>2. j # i /\ ~(i < j)
          <5>1. <<l[j], l[i]>> \in R
            BY <4>1 DEF Ahead
          <5>2. l[i] \in S /\ l[j] \in S
            BY <1>1
          <5>3. i < j => <<l[i], l[j]>> \in R
            BY DEF Ascends
          <5> QED BY <5>1, <5>2, <5>3 DEF Orders
        <4>3. j \in 1..(i - 1)
          BY <1>1, <4>2
        <4> QED BY <4>1, <4>3
      <3>2. ASSUME NEW j \in 1..(i - 1)
            PROVE  l[j] \in Ahead(R, S, l[i])
        <4>1. j \in 1..Len(l) /\ j < i
          BY <1>1
        <4> QED BY <1>1, <4>1 DEF Ahead, Ascends
      <3> QED BY <3>1, <3>2
    <2>2. i - 1 \in 0..Len(l)
      BY <1>1
    <2>3. Cardinality(Ahead(R, S, l[i])) = i - 1
      BY <1>2, <2>1, <2>2
    <2>4. ASSUME NEW x \in S, Cardinality(Ahead(R, S, x)) = i - 1, x # l[i]
          PROVE  FALSE
      <3>1. <<x, l[i]>> \in R \/ <<l[i], x>> \in R
        BY <1>1, <2>4 DEF Orders
      <3>2. \A y, z \in S : <<y, z>> \in R => Cardinality(Ahead(R, S, y)) < Cardinality(Ahead(R, S, z))
        BY AheadCounts
      <3> QED BY <1>1, <2>2, <2>3, <2>4, <3>1, <3>2
    <2> QED BY <1>1, <2>3, <2>4
  <1>5. PICK c \in Nat : c = Len(l)
    BY <1>1
  <1>6. Browse!Listed(S, R) = [i \in 1..c |-> CHOOSE x \in S : Cardinality(Ahead(R, S, x)) = i - 1]
    BY <1>3, <1>5, ListedIs
  <1>7. l = [i \in 1..c |-> l[i]]
    BY <1>1, <1>5
  <1>8. \A i \in 1..c : l[i] = CHOOSE x \in S : Cardinality(Ahead(R, S, x)) = i - 1
    <2> SUFFICES ASSUME NEW i \in 1..c
                 PROVE  l[i] = CHOOSE x \in S : Cardinality(Ahead(R, S, x)) = i - 1
      OBVIOUS
    <2>1. /\ l[i] \in S /\ Cardinality(Ahead(R, S, l[i])) = i - 1
          /\ \A x \in S : Cardinality(Ahead(R, S, x)) = i - 1 => x = l[i]
      BY <1>4, <1>5
    <2> QED BY <2>1
  <1> QED BY <1>6, <1>7, <1>8

\* m has of the sequence s what stands at the places o, those of its members in T.
Picks(m, o, s, X, T) ==
    /\ o \in Seq(1..Len(s)) /\ m \in Seq(X \cap T) /\ Len(m) = Len(o)
    /\ \A n \in 1..Len(o) : s[o[n]] \in T /\ m[n] = s[o[n]]
    /\ \A i \in 1..Len(s) : s[i] \in T => \E n \in 1..Len(o) : o[n] = i
    /\ \A n, k \in 1..Len(o) : n < k => o[n] < o[k]

\* That is what Only keeps of a sequence.
LEMMA OnlyPlaces ==
    ASSUME NEW X, NEW s \in Seq(X), NEW T
    PROVE  \E o : Picks(Browse!Only(s, T), o, s, X, T)
  <1>1. PICK P : P = {i \in DOMAIN s : s[i] \in T}
    OBVIOUS
  <1>2. PICK R : R = {p \in P \X P : p[1] < p[2]}
    OBVIOUS
  <1>3. Len(s) \in Nat /\ DOMAIN s = 1..Len(s) /\ P \subseteq 1..Len(s) /\ \A i \in P : s[i] \in X \cap T
    BY <1>1
  <1>4. IsFiniteSet(P)
    <2>1. IsFiniteSet(1..Len(s))
      BY <1>3, FS_Interval
    <2> QED BY <1>3, <2>1, FS_Subset
  <1>5. \A i, j \in P : <<i, j>> \in R <=> i < j
    BY <1>2
  <1>6. Orders(R, P)
    <2>1. \A i \in P : i \in Int
      BY <1>3
    <2> QED BY <1>5, <2>1 DEF Orders
  <1>7. PICK o : o = Browse!Listed(P, R)
    OBVIOUS
  <1>8. Ascends(o, R, P) /\ Len(o) = Cardinality(P)
    BY <1>4, <1>6, <1>7, ListedAscends
  <1>9. Browse!Only(s, T) = [n \in 1..Cardinality(P) |-> s[o[n]]]
    <2>1. Browse!Only(s, T) = [n \in 1..Browse!Cardinality(P) |-> s[o[n]]]
      BY <1>1, <1>2, <1>7, Zenon DEF Browse!Only
    <2> QED BY <2>1, LibraryOfBrowse
  <1>10. PICK m : m = Browse!Only(s, T)
    OBVIOUS
  <1>11. /\ o \in Seq(P) /\ Len(o) \in Nat /\ \A n \in 1..Len(o) : o[n] \in P
         /\ m = [n \in 1..Len(o) |-> s[o[n]]]
    BY <1>8, <1>9, <1>10 DEF Ascends
  <1>12. m \in [1..Len(o) -> X \cap T] /\ \A n \in 1..Len(o) : m[n] = s[o[n]]
    BY <1>3, <1>11
  <1>13. m \in Seq(X \cap T) /\ Len(m) = Len(o)
    BY <1>11, <1>12
  <1>14. o \in Seq(1..Len(s))
    <2>1. DOMAIN o = 1..Len(o) /\ o = [n \in 1..Len(o) |-> o[n]]
      BY <1>11
    <2>2. o \in [1..Len(o) -> 1..Len(s)]
      BY <1>3, <1>11, <2>1
    <2>3. PICK n \in Nat : n = Len(o)
      BY <1>11
    <2>4. PICK I : I = 1..Len(s)
      OBVIOUS
    <2>5. o \in [1..n -> I]
      BY <2>2, <2>3, <2>4
    <2>6. o \in Seq(I)
      BY <2>3, <2>5
    <2> QED BY <2>4, <2>6
  <1>15. \A i \in 1..Len(s) : s[i] \in T => \E n \in 1..Len(o) : o[n] = i
    BY <1>1, <1>3, <1>8 DEF Ascends
  <1>16. \A n, k \in 1..Len(o) : n < k => o[n] < o[k]
    BY <1>5, <1>8, <1>11 DEF Ascends
  <1> QED BY <1>3, <1>10, <1>11, <1>12, <1>13, <1>14, <1>15, <1>16 DEF Picks

\* No member stands in a sequence twice.
Once(s) == \A i, j \in 1..Len(s) : s[i] = s[j] => i = j

\* Its members are those of the sequence that T has, each as often.
LEMMA OnlyHas ==
    ASSUME NEW X, NEW s \in Seq(X), NEW T
    PROVE  /\ Browse!Only(s, T) \in Seq(X)
           /\ Browse!ToSet(Browse!Only(s, T)) = Browse!ToSet(s) \cap T
           /\ Once(s) => Once(Browse!Only(s, T))
  <1>1. PICK m : m = Browse!Only(s, T)
    OBVIOUS
  <1>p. PICK o : Picks(m, o, s, X, T)
    BY <1>1, OnlyPlaces
  <1>2. /\ o \in Seq(1..Len(s)) /\ m \in Seq(X \cap T) /\ Len(m) = Len(o)
        /\ \A n \in 1..Len(o) : s[o[n]] \in T /\ m[n] = s[o[n]]
        /\ \A i \in 1..Len(s) : s[i] \in T => \E n \in 1..Len(o) : o[n] = i
        /\ \A n, k \in 1..Len(o) : n < k => o[n] < o[k]
    BY <1>p DEF Picks
  <1>3. /\ Len(o) \in Nat /\ Len(s) \in Nat /\ DOMAIN m = 1..Len(o) /\ DOMAIN s = 1..Len(s)
        /\ \A n \in 1..Len(o) : o[n] \in 1..Len(s)
    BY <1>2
  <1>4. m \in Seq(X)
    BY <1>2
  <1>5. {m[n] : n \in DOMAIN m} = {s[i] : i \in DOMAIN s} \cap T
    <2>1. ASSUME NEW x \in {m[n] : n \in DOMAIN m}
          PROVE  x \in {s[i] : i \in DOMAIN s} \cap T
      BY <1>2, <1>3
    <2>2. ASSUME NEW x \in {s[i] : i \in DOMAIN s} \cap T
          PROVE  x \in {m[n] : n \in DOMAIN m}
      <3>1. PICK i \in 1..Len(s) : x = s[i] /\ s[i] \in T
        BY <1>3
      <3>2. PICK n \in 1..Len(o) : o[n] = i
        BY <1>2, <3>1
      <3> QED BY <1>2, <1>3, <3>1, <3>2
    <2> QED BY <2>1, <2>2
  <1>6. ASSUME Once(s)
        PROVE  Once(m)
    <2> SUFFICES ASSUME NEW n \in 1..Len(m), NEW k \in 1..Len(m), m[n] = m[k], n < k
                 PROVE  FALSE
      <3>1. \A n, k \in 1..Len(m) : n = k \/ n < k \/ k < n
        BY <1>2, <1>3
      <3> QED BY <3>1 DEF Once
    <2>1. o[n] = o[k] /\ o[n] < o[k] /\ o[n] \in Int
      BY <1>2, <1>3, <1>6 DEF Once
    <2> QED BY <2>1
  <1> QED BY <1>1, <1>4, <1>5, <1>6, LibraryOfBrowse

\* l is the members of S, newest checkpoint first.
Sorted(l, pub, S) ==
    /\ l \in Seq(S)
    /\ \A k \in S : \E i \in 1..Len(l) : l[i] = k
    /\ \A i, j \in 1..Len(l) : i < j => Browse!Before(pub, l[i], l[j])

Publications == [Keys -> Nat]

\* Keys compare by checkpoint and digest, in one order (compareRevisions).
LEMMA BeforeOrders ==
    ASSUME NEW pub \in Publications, NEW S \in SUBSET Keys
    PROVE  /\ \A k \in S : ~Browse!Before(pub, k, k)
           /\ \A k, m, n \in S : Browse!Before(pub, k, m) /\ Browse!Before(pub, m, n) => Browse!Before(pub, k, n)
           /\ \A k, m \in S : k = m \/ Browse!Before(pub, k, m) \/ Browse!Before(pub, m, k)
  <1>1. \A k \in S : k \in Int /\ pub[k] \in Nat
    BY BrowseAssumption DEF Publications
  <1> QED BY <1>1 DEF Browse!Before

\* What Sort gives is the sorted list, and there is no other.
LEMMA SortIs ==
    ASSUME NEW pub \in Publications, NEW S \in SUBSET Keys, IsFiniteSet(S), NEW l
    PROVE  Sorted(l, pub, S) <=> l = Browse!Sort(pub, S)
  <1>1. PICK R : R = {p \in S \X S : Browse!Before(pub, p[1], p[2])}
    OBVIOUS
  <1>2. \A k, m \in S : <<k, m>> \in R <=> Browse!Before(pub, k, m)
    BY <1>1
  <1>3. Orders(R, S)
    BY <1>2, BeforeOrders DEF Orders
  <1>4. ASSUME NEW m
        PROVE  Sorted(m, pub, S) <=> Ascends(m, R, S)
    <2>1. m \in Seq(S) => \A i \in 1..Len(m) : m[i] \in S
      OBVIOUS
    <2> QED BY <1>2, <2>1 DEF Sorted, Ascends
  <1>5. Browse!Sort(pub, S) = Browse!Listed(S, R)
    BY <1>1 DEF Browse!Sort
  <1> QED BY <1>3, <1>4, <1>5, ListedAscends, AscendsListed

\* A sorted list has its members, each once.
LEMMA SortedHas ==
    ASSUME NEW pub \in Publications, NEW S \in SUBSET Keys, NEW l, Sorted(l, pub, S)
    PROVE  /\ l \in Seq(Keys) /\ Once(l) /\ Browse!ToSet(l) = S
           /\ l = <<>> <=> S = {}
  <1>1. l \in Seq(S) /\ Len(l) \in Nat /\ DOMAIN l = 1..Len(l) /\ \A i \in 1..Len(l) : l[i] \in S
    BY DEF Sorted
  <1>2. l \in Seq(Keys)
    BY <1>1
  <1>3. Once(l)
    <2> SUFFICES ASSUME NEW i \in 1..Len(l), NEW j \in 1..Len(l), l[i] = l[j], i < j
                 PROVE  FALSE
      <3>1. \A i, j \in 1..Len(l) : i = j \/ i < j \/ j < i
        BY <1>1
      <3> QED BY <3>1 DEF Once
    <2>1. Browse!Before(pub, l[i], l[j])
      BY DEF Sorted
    <2> QED BY <1>1, <2>1, BeforeOrders
  <1>4. {l[i] : i \in DOMAIN l} = S
    BY <1>1 DEF Sorted
  <1>5. l = <<>> <=> S = {}
    <2>1. l = <<>> <=> Len(l) = 0
      BY <1>1
    <2>2. Len(l) = 0 => S = {}
      BY DEF Sorted
    <2>3. Len(l) # 0 => l[1] \in S
      BY <1>1
    <2> QED BY <2>1, <2>2, <2>3
  <1> QED BY <1>2, <1>3, <1>4, <1>5, LibraryOfBrowse

\* What is kept of a sorted list is sorted.
LEMMA SortedOnly ==
    ASSUME NEW pub \in Publications, NEW S \in SUBSET Keys, NEW l, Sorted(l, pub, S), NEW T
    PROVE  Sorted(Browse!Only(l, T), pub, S \cap T)
  <1>1. PICK m : m = Browse!Only(l, T)
    OBVIOUS
  <1>2. l \in Seq(S)
    BY DEF Sorted
  <1>3. PICK o : Picks(m, o, l, S, T)
    BY <1>1, <1>2, OnlyPlaces
  <1>4. /\ \A n \in 1..Len(o) : o[n] \in 1..Len(l)
        /\ m \in Seq(S \cap T) /\ Len(m) = Len(o)
    BY <1>3 DEF Picks
  <1>5. ASSUME NEW k \in S \cap T
        PROVE  \E n \in 1..Len(m) : m[n] = k
    <2>1. PICK i \in 1..Len(l) : l[i] = k
      BY DEF Sorted
    <2>2. PICK n \in 1..Len(o) : o[n] = i
      BY <1>3, <2>1 DEF Picks
    <2> QED BY <1>3, <1>4, <2>1, <2>2 DEF Picks
  <1>6. ASSUME NEW i \in 1..Len(m), NEW j \in 1..Len(m), i < j
        PROVE  Browse!Before(pub, m[i], m[j])
    <2>1. o[i] \in 1..Len(l) /\ o[j] \in 1..Len(l) /\ o[i] < o[j] /\ m[i] = l[o[i]] /\ m[j] = l[o[j]]
      BY <1>3, <1>4, <1>6 DEF Picks
    <2> QED BY <2>1 DEF Sorted
  <1> QED BY <1>1, <1>4, <1>5, <1>6 DEF Sorted

\* The order depends on the checkpoints of the members alone.
LEMMA SortedAlike ==
    ASSUME NEW pub, NEW new, NEW S, NEW l, Sorted(l, pub, S), \A k \in S : new[k] = pub[k]
    PROVE  Sorted(l, new, S)
  <1>1. \A i \in 1..Len(l) : l[i] \in S
    BY DEF Sorted
  <1>2. ASSUME NEW i \in 1..Len(l), NEW j \in 1..Len(l), i < j
        PROVE  Browse!Before(new, l[i], l[j])
    <2>1. Browse!Before(pub, l[i], l[j])
      BY <1>2 DEF Sorted
    <2>2. new[l[i]] = pub[l[i]] /\ new[l[j]] = pub[l[j]]
      BY <1>1
    <2> QED BY <2>1, <2>2 DEF Browse!Before
  <1> QED BY <1>2 DEF Sorted

\* Two sorted lists, the last of one before the first of the other, make one.
LEMMA SortedTogether ==
    ASSUME NEW pub \in Publications, NEW A \in SUBSET Keys, NEW B \in SUBSET Keys,
           NEW a, Sorted(a, pub, A), NEW b, Sorted(b, pub, B), a # <<>>, b # <<>>,
           Browse!Before(pub, a[Len(a)], b[1])
    PROVE  Sorted(a \o b, pub, A \union B)
  <1>1. /\ a \in Seq(A) /\ Len(a) \in Nat /\ Len(a) # 0 /\ \A i \in 1..Len(a) : a[i] \in A
        /\ b \in Seq(B) /\ Len(b) \in Nat /\ Len(b) # 0 /\ \A i \in 1..Len(b) : b[i] \in B
    <2>1. a \in Seq(A) /\ b \in Seq(B)
      BY DEF Sorted
    <2>2. Len(a) # 0 /\ Len(b) # 0
      BY <2>1
    <2> QED BY <2>1, <2>2
  <1>2. PICK l : l = a \o b
    OBVIOUS
  <1>3. /\ l \in Seq(A \union B) /\ Len(l) = Len(a) + Len(b)
        /\ \A i \in 1..Len(a) : l[i] = a[i]
        /\ \A i \in 1..Len(b) : l[Len(a) + i] = b[i]
    <2>1. a \in Seq(A \union B) /\ b \in Seq(A \union B)
      BY <1>1
    <2> QED BY <1>1, <1>2, <2>1
  <1>4. ASSUME NEW k \in A \union B
        PROVE  \E i \in 1..Len(l) : l[i] = k
    <2>1. CASE k \in A
      <3>1. PICK i \in 1..Len(a) : a[i] = k
        BY <2>1 DEF Sorted
      <3> QED BY <1>1, <1>3, <3>1
    <2>2. CASE k \in B
      <3>1. PICK i \in 1..Len(b) : b[i] = k
        BY <2>2 DEF Sorted
      <3>2. Len(a) + i \in 1..Len(l)
        BY <1>1, <1>3
      <3> QED BY <1>3, <3>1, <3>2
    <2> QED BY <2>1, <2>2
  <1>5. ASSUME NEW i \in 1..Len(l), NEW j \in 1..Len(l), i < j
        PROVE  Browse!Before(pub, l[i], l[j])
    <2>1. CASE j \in 1..Len(a)
      <3>1. i \in 1..Len(a)
        BY <1>1, <1>3, <1>5, <2>1
      <3> QED BY <1>3, <1>5, <2>1, <3>1 DEF Sorted
    <2>2. CASE i \notin 1..Len(a)
      <3>1. /\ i - Len(a) \in 1..Len(b) /\ j - Len(a) \in 1..Len(b) /\ i - Len(a) < j - Len(a)
            /\ Len(a) + (i - Len(a)) = i /\ Len(a) + (j - Len(a)) = j
        BY <1>1, <1>3, <1>5, <2>2
      <3>2. l[i] = b[i - Len(a)] /\ l[j] = b[j - Len(a)]
        BY <1>3, <3>1
      <3> QED BY <3>1, <3>2 DEF Sorted
    <2>3. CASE i \in 1..Len(a) /\ j \notin 1..Len(a)
      <3>1. /\ j - Len(a) \in 1..Len(b) /\ Len(a) + (j - Len(a)) = j
            /\ Len(a) \in 1..Len(a) /\ 1 \in 1..Len(b)
        BY <1>1, <1>3, <2>3
      <3>2. l[i] = a[i] /\ l[j] = b[j - Len(a)]
        BY <1>3, <2>3, <3>1
      <3>3. a[i] = a[Len(a)] \/ Browse!Before(pub, a[i], a[Len(a)])
        <4>1. i < Len(a) => Browse!Before(pub, a[i], a[Len(a)])
          BY <2>3, <3>1 DEF Sorted
        <4>2. i < Len(a) \/ i = Len(a)
          BY <1>1, <2>3
        <4> QED BY <4>1, <4>2
      <3>4. b[1] = b[j - Len(a)] \/ Browse!Before(pub, b[1], b[j - Len(a)])
        <4>1. 1 < j - Len(a) => Browse!Before(pub, b[1], b[j - Len(a)])
          BY <3>1 DEF Sorted
        <4>2. 1 < j - Len(a) \/ 1 = j - Len(a)
          BY <1>1, <3>1
        <4> QED BY <4>1, <4>2
      <3>5. /\ a[i] \in A \union B /\ a[Len(a)] \in A \union B
            /\ b[1] \in A \union B /\ b[j - Len(a)] \in A \union B
        BY <1>1, <2>3, <3>1
      <3>6. A \union B \in SUBSET Keys
        OBVIOUS
      <3> QED BY <3>2, <3>3, <3>4, <3>5, <3>6, BeforeOrders
    <2> QED BY <2>1, <2>2, <2>3
  <1> QED BY <1>2, <1>3, <1>4, <1>5 DEF Sorted

\* prependLatest sorts in what is new, in front or between.
LEMMA PrependSorts ==
    ASSUME NEW pub \in Publications, NEW A \in SUBSET Keys, NEW B \in SUBSET Keys,
           IsFiniteSet(A), IsFiniteSet(B), NEW a, Sorted(a, pub, A), NEW b, Sorted(b, pub, B)
    PROVE  Sorted(Browse!PrependLatest(pub, a, b), pub, A \union B)
  <1>1. /\ Browse!ToSet(a) = A /\ Browse!ToSet(b) = B
        /\ a = <<>> <=> A = {}
        /\ b = <<>> <=> B = {}
    BY SortedHas
  <1>2. CASE a = <<>>
    BY <1>1, <1>2 DEF Browse!PrependLatest
  <1>3. CASE a # <<>> /\ b = <<>>
    <2>1. Browse!PrependLatest(pub, a, b) = a \o b
      BY <1>3 DEF Browse!PrependLatest
    <2>2. a \o b = a
      BY <1>3 DEF Sorted
    <2> QED BY <1>1, <1>3, <2>1, <2>2
  <1>4. CASE a # <<>> /\ b # <<>>
    <2>1. CASE Browse!Before(pub, Browse!Last(a), Head(b))
      <3>1. Browse!PrependLatest(pub, a, b) = a \o b
        BY <1>4, <2>1 DEF Browse!PrependLatest
      <3>2. Browse!Before(pub, a[Len(a)], b[1])
        BY <2>1, LibraryOfBrowse
      <3> QED BY <1>4, <3>1, <3>2, SortedTogether
    <2>2. CASE ~Browse!Before(pub, Browse!Last(a), Head(b))
      <3>1. Browse!PrependLatest(pub, a, b) = Browse!Sort(pub, A \union B)
        BY <1>1, <1>4, <2>2 DEF Browse!PrependLatest
      <3>2. IsFiniteSet(A \union B) /\ A \union B \in SUBSET Keys
        BY FS_Union
      <3> QED BY <3>1, <3>2, SortIs
    <2> QED BY <2>1, <2>2
  <1> QED BY <1>2, <1>3, <1>4

\* The keys a query asks for, by what they are published under.
Indexed(pub) == {k \in Keys : pub[k] # 0}
InMode(mode) == IF mode \in SlotKeys THEN {k \in Keys : SlotOfKey[k] = mode} ELSE Keys
Visible(pub, q) == {k \in Indexed(pub) \cap InMode(q.mode) : pub[k] <= q.at}
Newest(pub, S) ==
    {k \in S : \A m \in S : Browse!Before(pub, m, k) => SlotOfKey[m] # SlotOfKey[k]}
Chosen(pub, q) ==
    IF q.mode = "latest-per-slot" THEN Newest(pub, Visible(pub, q)) ELSE Visible(pub, q)

\* Of each slot, those that stand first in a sorted list are the newest.
LEMMA FirstsAreNewest ==
    ASSUME NEW pub \in Publications, NEW S \in SUBSET Keys, NEW l, Sorted(l, pub, S)
    PROVE  {l[i] : i \in {i \in DOMAIN l : \A j \in 1..(i - 1) : SlotOfKey[l[j]] # SlotOfKey[l[i]]}}
             = Newest(pub, S)
  <1>1. l \in Seq(S) /\ Len(l) \in Nat /\ DOMAIN l = 1..Len(l) /\ \A i \in 1..Len(l) : l[i] \in S
    BY DEF Sorted
  <1>2. \A i, j \in 1..Len(l) : Browse!Before(pub, l[j], l[i]) <=> j < i
    <2> SUFFICES ASSUME NEW i \in 1..Len(l), NEW j \in 1..Len(l)
                 PROVE  Browse!Before(pub, l[j], l[i]) <=> j < i
      OBVIOUS
    <2>1. j < i => Browse!Before(pub, l[j], l[i])
      BY DEF Sorted
    <2>2. i < j => Browse!Before(pub, l[i], l[j])
      BY DEF Sorted
    <2>3. i < j \/ i = j \/ j < i
      BY <1>1
    <2>4. ~Browse!Before(pub, l[i], l[i])
      BY <1>1, BeforeOrders
    <2>5. ~(Browse!Before(pub, l[i], l[j]) /\ Browse!Before(pub, l[j], l[i]))
      BY <1>1, <2>4, BeforeOrders
    <2> QED BY <1>1, <2>1, <2>2, <2>3, <2>4, <2>5
  <1>3. ASSUME NEW i \in DOMAIN l, \A j \in 1..(i - 1) : SlotOfKey[l[j]] # SlotOfKey[l[i]]
        PROVE  l[i] \in Newest(pub, S)
    <2> SUFFICES ASSUME NEW m \in S, Browse!Before(pub, m, l[i])
                 PROVE  SlotOfKey[m] # SlotOfKey[l[i]]
      BY <1>1 DEF Newest
    <2>1. PICK j \in 1..Len(l) : l[j] = m
      BY DEF Sorted
    <2>2. j \in 1..(i - 1)
      BY <1>1, <1>2, <2>1
    <2> QED BY <1>3, <2>1, <2>2
  <1>4. ASSUME NEW k \in Newest(pub, S)
        PROVE  \E i \in DOMAIN l : l[i] = k /\ \A j \in 1..(i - 1) : SlotOfKey[l[j]] # SlotOfKey[l[i]]
    <2>1. PICK i \in 1..Len(l) : l[i] = k
      BY DEF Sorted, Newest
    <2>2. ASSUME NEW j \in 1..(i - 1)
          PROVE  SlotOfKey[l[j]] # SlotOfKey[l[i]]
      <3>1. j \in 1..Len(l) /\ j < i
        BY <1>1
      <3>2. Browse!Before(pub, l[j], l[i]) /\ l[j] \in S
        BY <1>1, <1>2, <3>1
      <3> QED BY <2>1, <3>2 DEF Newest
    <2> QED BY <1>1, <2>1, <2>2
  <1> QED BY <1>3, <1>4

\* What the index answers is the sorted list of what was asked for.
LEMMA SelectIs ==
    ASSUME published \in Publications, Sorted(list, published, Indexed(published)), NEW q
    PROVE  Sorted(Browse!Select(q), published, Chosen(published, q))
  <1>1. Indexed(published) \in SUBSET Keys
    BY DEF Indexed
  <1>2. PICK l : l = Browse!InSlot(q.mode)
    OBVIOUS
  <1>3. Sorted(l, published, Indexed(published) \cap InMode(q.mode))
    <2>1. CASE q.mode \in SlotKeys
      <3>1. l = Browse!Only(list, InMode(q.mode))
        BY <1>2, <2>1 DEF Browse!InSlot, InMode
      <3> QED BY <1>1, <3>1, SortedOnly
    <2>2. CASE q.mode \notin SlotKeys
      <3>1. l = list /\ Indexed(published) \cap InMode(q.mode) = Indexed(published)
        BY <1>1, <1>2, <2>2 DEF Browse!InSlot, InMode
      <3> QED BY <3>1
    <2> QED BY <2>1, <2>2
  <1>4. PICK v : v = Browse!Only(l, {k \in Keys : published[k] <= q.at})
    OBVIOUS
  <1>5. Sorted(v, published, Visible(published, q)) /\ Visible(published, q) \in SUBSET Keys
    <2>1. Sorted(v, published, (Indexed(published) \cap InMode(q.mode)) \cap {k \in Keys : published[k] <= q.at})
      BY <1>1, <1>3, <1>4, SortedOnly
    <2>2. (Indexed(published) \cap InMode(q.mode)) \cap {k \in Keys : published[k] <= q.at}
            = Visible(published, q)
      BY <1>1 DEF Visible
    <2> QED BY <1>1, <2>1, <2>2 DEF Visible
  <1>6. PICK firsts : firsts =
          {v[i] : i \in {i \in DOMAIN v : \A j \in 1..(i - 1) : SlotOfKey[v[j]] # SlotOfKey[v[i]]}}
    OBVIOUS
  <1>7. Browse!Select(q) = IF q.mode = "latest-per-slot" THEN Browse!Only(v, firsts) ELSE v
    BY <1>2, <1>4, <1>6, Zenon DEF Browse!Select
  <1>8. CASE q.mode = "latest-per-slot"
    <2>1. firsts = Newest(published, Visible(published, q))
      BY <1>5, <1>6, FirstsAreNewest
    <2>2. Sorted(Browse!Only(v, firsts), published, Visible(published, q) \cap firsts)
      BY <1>5, SortedOnly
    <2>3. Visible(published, q) \cap firsts = Chosen(published, q)
      BY <1>8, <2>1 DEF Newest, Chosen
    <2> QED BY <1>7, <1>8, <2>2, <2>3
  <1>9. CASE q.mode # "latest-per-slot"
    BY <1>5, <1>7, <1>9 DEF Chosen
  <1> QED BY <1>8, <1>9

------------------------------------------------------------------------------
(* What the browse index knows of its keys. *)

\* Every key a prepared batch names is one it will try to move, or one that stands
\* at least as early already, and stays there: checkpoints only go down.
PreparedSound(p) ==
    /\ p.batch \in Batches /\ p.fresh \union p.demote \subseteq p.batch.keys
    /\ \A k \in p.demote : published[k] # 0
    /\ \A k \in p.batch.keys \ (p.fresh \union p.demote) : published[k] # 0 /\ published[k] <= p.batch.at

BrowseInv ==
    /\ published \in [Keys -> Nat] /\ committed \subseteq Batches
    /\ \A p \in prepared : PreparedSound(p)
    /\ \A k \in Keys : published[k] # 0 => \E b \in committed : k \in b.keys /\ b.at = published[k]
    /\ \A b \in committed : \A k \in b.keys : published[k] # 0 /\ published[k] <= b.at

\* A batch has a checkpoint and keys.
LEMMA BatchShape ==
    ASSUME NEW b \in Batches
    PROVE  b.at \in Nat /\ b.at # 0 /\ b.keys \subseteq Keys
  BY BrowseAssumption

\* What a commit does to the keys: the touched ones go to its checkpoint, which is
\* earlier than where they stood, and afterwards no key of the batch stands later.
LEMMA CommitMoves ==
    ASSUME BrowseInv, NEW p \in prepared, Browse!Commit(p), NEW T, T = Browse!Touched(p)
    PROVE  /\ T \subseteq p.batch.keys
           /\ published' = [k \in Keys |-> IF k \in T THEN p.batch.at ELSE published[k]]
           /\ \A k \in T : published[k] = 0 \/ p.batch.at < published[k]
           /\ \A k \in p.batch.keys \ T : published[k] # 0 /\ published[k] <= p.batch.at
  <1>1. p.batch \in Batches /\ PreparedSound(p) /\ published \in [Keys -> Nat]
    BY DEF BrowseInv, PreparedSound
  <1>2. p.batch.at \in Nat /\ p.batch.keys \subseteq Keys
    BY <1>1, BatchShape
  <1>3. published' = [k \in Keys |-> IF k \in T THEN p.batch.at ELSE published[k]]
    BY DEF Browse!Commit
  <1>4. T \subseteq p.batch.keys /\ \A k \in T : published[k] = 0 \/ p.batch.at < published[k]
    BY <1>1 DEF Browse!Touched, PreparedSound
  <1>5. \A k \in p.batch.keys \ T : published[k] # 0 /\ published[k] <= p.batch.at
    <2> SUFFICES ASSUME NEW k \in p.batch.keys, k \notin T
                 PROVE  published[k] # 0 /\ published[k] <= p.batch.at
      OBVIOUS
    <2>1. published[k] \in Nat
      BY <1>1, <1>2
    <2>2. CASE k \in p.fresh \union p.demote
      BY <1>1, <1>2, <2>1, <2>2 DEF Browse!Touched, PreparedSound
    <2>3. CASE k \notin p.fresh \union p.demote
      BY <1>1, <2>3 DEF PreparedSound
    <2> QED BY <2>2, <2>3
  <1> QED BY <1>3, <1>4, <1>5

\* A commit keeps what is known of the keys, whatever was committed meanwhile.
LEMMA CommitKeeps ==
    ASSUME BrowseInv, NEW p \in prepared, Browse!Commit(p)
    PROVE  BrowseInv'
  <1>0. PICK T : T = Browse!Touched(p)
    OBVIOUS
  <1>1. /\ T \in SUBSET p.batch.keys
        /\ published' = [k \in Keys |-> IF k \in T THEN p.batch.at ELSE published[k]]
        /\ \A k \in T : published[k] = 0 \/ p.batch.at < published[k]
        /\ \A k \in p.batch.keys \ T : published[k] # 0 /\ published[k] <= p.batch.at
    BY <1>0, CommitMoves
  <1>2. committed' = committed \union {p.batch} /\ prepared' = prepared \ {p}
    BY DEF Browse!Commit
  <1>3. p.batch \in Batches /\ published \in [Keys -> Nat] /\ committed \subseteq Batches
    BY DEF BrowseInv, PreparedSound
  <1>4. p.batch.at \in Nat /\ p.batch.at # 0 /\ p.batch.keys \subseteq Keys
    BY <1>3, BatchShape
  <1>5. published' \in [Keys -> Nat]
    BY <1>1, <1>3, <1>4
  <1>6. \A k \in Keys : /\ k \in T => published'[k] = p.batch.at
                        /\ k \notin T => published'[k] = published[k]
    BY <1>1
  <1>7. \A k \in Keys : published[k] # 0 => published'[k] # 0 /\ published'[k] <= published[k]
    BY <1>1, <1>3, <1>4, <1>5, <1>6
  <1>8. ASSUME NEW q \in prepared'
        PROVE  PreparedSound(q)'
    <2>1. PreparedSound(q)
      BY <1>2 DEF BrowseInv
    <2>2. q.batch.at \in Nat /\ q.batch.keys \subseteq Keys
      BY <2>1, BatchShape DEF PreparedSound
    <2>3. ASSUME NEW k \in q.demote
          PROVE  published'[k] # 0
      BY <1>7, <2>1, <2>2 DEF PreparedSound
    <2>4. ASSUME NEW k \in q.batch.keys, k \notin q.fresh \union q.demote
          PROVE  published'[k] # 0 /\ published'[k] <= q.batch.at
      <3>1. published[k] # 0 /\ published[k] <= q.batch.at /\ k \in Keys
        BY <2>1, <2>2, <2>4 DEF PreparedSound
      <3>2. published[k] \in Nat /\ published'[k] \in Nat
        BY <1>3, <1>5, <3>1
      <3> QED BY <1>7, <2>2, <3>1, <3>2
    <2> QED BY <2>1, <2>3, <2>4 DEF PreparedSound
  <1>9. ASSUME NEW k \in Keys, published'[k] # 0
        PROVE  \E b \in committed' : k \in b.keys /\ b.at = published'[k]
    <2>1. CASE k \in T
      BY <1>1, <1>2, <1>6, <2>1
    <2>2. CASE k \notin T
      BY <1>2, <1>6, <1>9, <2>2 DEF BrowseInv
    <2> QED BY <2>1, <2>2
  <1>10. ASSUME NEW b \in committed', NEW k \in b.keys
         PROVE  published'[k] # 0 /\ published'[k] <= b.at
    <2>1. b \in Batches
      BY <1>2, <1>3
    <2>2. b.at \in Nat /\ k \in Keys
      BY <2>1, BatchShape
    <2>3. published[k] \in Nat /\ published'[k] \in Nat
      BY <1>3, <1>5, <2>2
    <2>4. CASE b \in committed
      <3>1. published[k] # 0 /\ published[k] <= b.at
        BY <2>4 DEF BrowseInv
      <3> QED BY <1>7, <2>2, <2>3, <3>1
    <2>5. CASE b = p.batch
      BY <1>1, <1>4, <1>6, <2>2, <2>5
    <2> QED BY <1>2, <2>4, <2>5
  <1>11. committed' \subseteq Batches
    BY <1>2, <1>3
  <1> QED BY <1>5, <1>8, <1>9, <1>10, <1>11 DEF BrowseInv

\* A batch that is prepared is sound from the start.
LEMMA PrepareKeeps ==
    ASSUME BrowseInv, NEW b \in Batches, Browse!Prepare(b)
    PROVE  BrowseInv'
  <1> DEFINE p == [batch |-> b, fresh |-> {k \in b.keys : published[k] = 0},
                   demote |-> {k \in b.keys : published[k] # 0 /\ b.at < published[k]}]
  <1>1. prepared' = prepared \union {p} /\ UNCHANGED <<published, committed>>
    BY DEF Browse!Prepare
  <1>2. published \in [Keys -> Nat] /\ b.at \in Nat /\ b.keys \subseteq Keys
    BY BatchShape DEF BrowseInv
  <1>3. PreparedSound(p)
    <2>1. \A k \in b.keys : published[k] \in Nat
      BY <1>2
    <2> QED BY <1>2, <2>1 DEF PreparedSound
  <1> HIDE DEF p
  <1>4. \A q \in prepared' : PreparedSound(q)
    BY <1>1, <1>3 DEF BrowseInv
  <1>5. \A q \in prepared' : PreparedSound(q)'
    BY <1>1, <1>4 DEF PreparedSound
  <1> QED BY <1>1, <1>5 DEF BrowseInv

\* Every step keeps what is known of the keys: queries touch the cache alone.
LEMMA BrowseNext == BrowseInv /\ [Next]_vars => BrowseInv'
  <1> SUFFICES ASSUME BrowseInv, [Next]_vars
               PROVE  BrowseInv'
    OBVIOUS
  <1>1. CASE UNCHANGED <<published, prepared, committed>>
    BY <1>1 DEF BrowseInv, PreparedSound
  <1>2. CASE Browse!Next
    <2>1. ASSUME NEW b \in Batches, Browse!Prepare(b)
          PROVE  BrowseInv'
      BY <2>1, PrepareKeeps
    <2>2. ASSUME NEW p \in prepared, Browse!Commit(p)
          PROVE  BrowseInv'
      BY <2>2, CommitKeeps
    <2>3. ASSUME NEW q \in Browse!Queries, Browse!Query(q)
          PROVE  BrowseInv'
      BY <1>1, <2>3 DEF Browse!Query
    <2> QED BY <1>2, <2>1, <2>2, <2>3 DEF Browse!Next
  <1> QED BY <1>1, <1>2 DEF Next, vars, browse

\* The checkpoint a key stands under is the least of those that wrote it.
LEMMA LeastStands ==
    ASSUME BrowseInv
    PROVE  Browse!StandsEarliest
  <1> SUFFICES ASSUME NEW k \in Keys
               PROVE  published[k] = IF {b.at : b \in {b \in committed : k \in b.keys}} = {} THEN 0
                                     ELSE CHOOSE n \in {b.at : b \in {b \in committed : k \in b.keys}} :
                                            \A m \in {b.at : b \in {b \in committed : k \in b.keys}} : n <= m
    BY DEF Browse!StandsEarliest
  <1> DEFINE W == {b.at : b \in {b \in committed : k \in b.keys}}
  <1>1. W \subseteq Nat /\ published[k] \in Nat
    BY BatchShape DEF BrowseInv
  <1>2. \A m \in W : published[k] # 0 /\ published[k] <= m
    BY DEF BrowseInv
  <1>3. published[k] # 0 => published[k] \in W
    BY DEF BrowseInv
  <1> HIDE DEF W
  <1>4. CASE W = {}
    BY <1>3, <1>4 DEF W
  <1>5. CASE W # {}
    <2>1. published[k] \in W /\ \A m \in W : published[k] <= m
      BY <1>2, <1>3, <1>5
    <2>2. ASSUME NEW n \in W, \A m \in W : n <= m
          PROVE  n = published[k]
      BY <1>1, <2>1, <2>2
    <2>3. published[k] = CHOOSE n \in W : \A m \in W : n <= m
      BY <2>1, <2>2
    <2> QED BY <1>5, <2>3 DEF W
  <1> QED BY <1>4, <1>5

------------------------------------------------------------------------------
(* The list of the browse index and the selections kept of it. *)

\* A batch that comes after the checkpoint a query asks for changes nothing it asks for.
LEMMA ChosenStays ==
    ASSUME NEW pub \in Publications, NEW T \in SUBSET Keys, NEW now \in Nat, NEW new,
           new = [k \in Keys |-> IF k \in T THEN now ELSE pub[k]],
           \A k \in T : pub[k] = 0 \/ now < pub[k],
           NEW q, q.at \in Nat, q.at < now
    PROVE  Chosen(new, q) = Chosen(pub, q) /\ \A k \in Chosen(pub, q) : new[k] = pub[k]
  <1>1. \A k \in Keys : pub[k] \in Nat
    BY DEF Publications
  <1>2. /\ \A k \in T : new[k] = now
        /\ \A k \in Keys \ T : new[k] = pub[k]
    OBVIOUS
  <1>3. Visible(new, q) = Visible(pub, q)
    BY <1>1, <1>2 DEF Visible, Indexed
  <1>4. \A k \in Visible(pub, q) : new[k] = pub[k]
    BY <1>1, <1>2 DEF Visible, Indexed
  <1>5. Newest(new, Visible(pub, q)) = Newest(pub, Visible(pub, q))
    BY <1>4 DEF Newest, Browse!Before
  <1> QED BY <1>3, <1>4, <1>5 DEF Chosen, Newest

Selections == [query : Browse!Queries, refs : Seq(Keys)]

\* The pools and their budgets.
Pooled(S, large) == {e \in S : Browse!IsLarge(e) = large}
Room(large) == IF large THEN MaxLarge ELSE MaxRefs
Within(S, large) ==
    /\ IsFiniteSet(Pooled(S, large)) /\ Cardinality(Pooled(S, large)) <= MaxEntries
    /\ IsFiniteSet(Browse!Refs(Pooled(S, large)))
    /\ Cardinality(Browse!Refs(Pooled(S, large))) <= Room(large)

ListSound ==
    /\ IsFiniteSet(Indexed(published))
    /\ Sorted(list, published, Indexed(published))

CacheSound ==
    /\ cache \in Seq(Selections) /\ Once(cache)
    /\ \A e \in Browse!ToSet(cache) : Sorted(e.refs, published, Chosen(published, e.query))
    /\ \A large \in BOOLEAN : Within(Browse!ToSet(cache), large)

PagesShown == BrowseInv /\ ListSound /\ CacheSound

\* A commit takes the keys it moves out of the list and sorts them in again.
LEMMA CommitSorts ==
    ASSUME BrowseInv, ListSound, NEW p \in prepared, Browse!Commit(p)
    PROVE  ListSound'
  <1>1. PICK T : T = Browse!Touched(p)
    OBVIOUS
  <1>2. PICK new : new = published'
    OBVIOUS
  <1>3. /\ p.batch \in Batches /\ published \in Publications
        /\ p.batch.at \in Nat /\ p.batch.at # 0 /\ p.batch.keys \subseteq Keys
    <2>1. p.batch \in Batches /\ published \in Publications
      BY DEF BrowseInv, PreparedSound, Publications
    <2> QED BY <2>1, BatchShape
  <1>4. /\ T \in SUBSET Keys
        /\ new = [k \in Keys |-> IF k \in T THEN p.batch.at ELSE published[k]]
    BY <1>1, <1>2, <1>3, CommitMoves
  <1>5. IsFiniteSet(T)
    <2>1. T \in SUBSET p.batch.keys
      BY <1>1, CommitMoves
    <2> QED BY <1>3, <2>1, BrowseAssumption, FS_Subset
  <1>6. new \in Publications
    BY <1>3, <1>4 DEF Publications
  <1>7. T \union (Indexed(published) \ T) = Indexed(new)
    BY <1>3, <1>4 DEF Indexed
  <1>8. Sorted(Browse!Sort(new, T), new, T)
    BY <1>4, <1>5, <1>6, SortIs
  <1>9. Sorted(Browse!Without(list, T), new, Indexed(published) \ T)
    <2>1. Indexed(published) \in SUBSET Keys
      BY DEF Indexed
    <2>2. Browse!ToSet(list) = Indexed(published)
      BY <1>3, <2>1, SortedHas DEF ListSound
    <2>3. Browse!Without(list, T) = Browse!Only(list, Indexed(published) \ T)
      BY <2>2 DEF Browse!Without
    <2>4. Sorted(Browse!Without(list, T), published, Indexed(published) \cap (Indexed(published) \ T))
      BY <1>3, <2>1, <2>3, SortedOnly DEF ListSound
    <2>5. Indexed(published) \cap (Indexed(published) \ T) = Indexed(published) \ T
      OBVIOUS
    <2>6. \A k \in Indexed(published) \ T : new[k] = published[k]
      BY <1>4, <2>1
    <2> QED BY <2>4, <2>5, <2>6, SortedAlike
  <1>10. list' = Browse!PrependLatest(new, Browse!Sort(new, T), Browse!Without(list, T))
    BY <1>1, <1>2, <1>4 DEF Browse!Commit
  <1>11. IsFiniteSet(Indexed(published) \ T) /\ Indexed(published) \ T \in SUBSET Keys
    <2>1. IsFiniteSet(Indexed(published) \ T)
      BY FS_Difference DEF ListSound
    <2> QED BY <2>1 DEF Indexed
  <1>12. Sorted(list', new, T \union (Indexed(published) \ T))
    BY <1>4, <1>5, <1>6, <1>8, <1>9, <1>10, <1>11, PrependSorts
  <1>13. IsFiniteSet(T \union (Indexed(published) \ T))
    BY <1>5, <1>11, FS_Union
  <1> QED BY <1>2, <1>7, <1>12, <1>13 DEF ListSound, Indexed

\* A nonempty set of natural numbers has a least element.
LEMMA Least ==
    ASSUME NEW T, T \subseteq Nat, T # {}
    PROVE  \E m \in T : \A k \in T : m <= k
  <1>1. IsWellFoundedOn({p \in Nat \X Nat : p[1] < p[2]}, Nat)
    BY NatLessThanWellFounded DEF OpToRel
  <1>2. PICK m \in T : \A k \in T : ~(<<k, m>> \in {p \in Nat \X Nat : p[1] < p[2]})
    BY <1>1, WFMin
  <1>3. ASSUME NEW k \in T, k < m
        PROVE  FALSE
    <2>1. <<k, m>> \in Nat \X Nat /\ <<k, m>>[1] = k /\ <<k, m>>[2] = m
      OBVIOUS
    <2>2. <<k, m>> \in {p \in Nat \X Nat : p[1] < p[2]}
      BY <1>3, <2>1
    <2> QED BY <1>2, <2>2
  <1> QED BY <1>3

\* A sequence without repetitions is as long as it has members.
LEMMA OnceLong ==
    ASSUME NEW X, NEW s \in Seq(X), Once(s)
    PROVE  IsFiniteSet(Browse!ToSet(s)) /\ Len(s) = Cardinality(Browse!ToSet(s))
  <1>1. Len(s) \in Nat /\ DOMAIN s = 1..Len(s)
    OBVIOUS
  <1>2. PICK T : T = {s[i] : i \in 1..Len(s)}
    OBVIOUS
  <1>3. Browse!ToSet(s) = T
    BY <1>1, <1>2, LibraryOfBrowse
  <1>4. s \in [1..Len(s) -> T]
    BY <1>1, <1>2
  <1>5. s \in Bijection(1..Len(s), T)
    BY <1>1, <1>2, <1>4 DEF Once, Bijection, Injection, Surjection, IsInjective
  <1>6. IsFiniteSet(1..Len(s)) /\ Cardinality(1..Len(s)) = Len(s)
    BY <1>1, FS_Interval
  <1> QED BY <1>3, <1>5, <1>6, FS_Bijection DEF ExistsBijection

\* What is left without some members.
LEMMA WithoutHas ==
    ASSUME NEW X, NEW s \in Seq(X), NEW S
    PROVE  /\ Browse!Without(s, S) \in Seq(X)
           /\ Browse!ToSet(Browse!Without(s, S)) = Browse!ToSet(s) \ S
           /\ Once(s) => Once(Browse!Without(s, S))
  <1>1. Browse!Without(s, S) = Browse!Only(s, Browse!ToSet(s) \ S)
    BY DEF Browse!Without
  <1>2. Browse!ToSet(s) \cap (Browse!ToSet(s) \ S) = Browse!ToSet(s) \ S
    OBVIOUS
  <1> QED BY <1>1, <1>2, OnlyHas

\* A new last member.
LEMMA AppendHas ==
    ASSUME NEW X, NEW s \in Seq(X), NEW x \in X, Once(s), x \notin Browse!ToSet(s)
    PROVE  /\ Append(s, x) \in Seq(X) /\ Once(Append(s, x))
           /\ Browse!ToSet(Append(s, x)) = Browse!ToSet(s) \union {x}
  <1>1. Len(s) \in Nat /\ DOMAIN s = 1..Len(s)
    OBVIOUS
  <1>2. PICK t : t = Append(s, x)
    OBVIOUS
  <1>3. /\ t \in Seq(X) /\ Len(t) = Len(s) + 1 /\ DOMAIN t = 1..(Len(s) + 1)
        /\ t[Len(s) + 1] = x /\ \A i \in 1..Len(s) : t[i] = s[i]
    BY <1>2
  <1>4. \A i \in 1..Len(s) : s[i] # x
    BY <1>1, LibraryOfBrowse
  <1>5. \A i \in 1..Len(t) : i \in 1..Len(s) \/ i = Len(s) + 1
    BY <1>1, <1>3
  <1>6. Once(t)
    BY <1>3, <1>4, <1>5 DEF Once
  <1>7. {t[i] : i \in 1..(Len(s) + 1)} = {s[i] : i \in 1..Len(s)} \union {x}
    <2>1. ASSUME NEW i \in 1..(Len(s) + 1)
          PROVE  t[i] \in {s[j] : j \in 1..Len(s)} \union {x}
      BY <1>3, <1>5
    <2>2. ASSUME NEW i \in 1..Len(s)
          PROVE  s[i] \in {t[j] : j \in 1..(Len(s) + 1)}
      BY <1>1, <1>3
    <2>3. x \in {t[j] : j \in 1..(Len(s) + 1)}
      BY <1>1, <1>3
    <2> QED BY <2>1, <2>2, <2>3
  <1>8. Browse!ToSet(t) = {t[i] : i \in 1..(Len(s) + 1)} /\ Browse!ToSet(s) = {s[i] : i \in 1..Len(s)}
    BY <1>1, <1>3, LibraryOfBrowse
  <1> QED BY <1>2, <1>3, <1>6, <1>7, <1>8

\* A pool has the selections of its size.
LEMMA PoolHas ==
    ASSUME NEW s \in Seq(Selections), Once(s), NEW large
    PROVE  /\ Browse!Pool(s, large) \in Seq(Selections) /\ Once(Browse!Pool(s, large))
           /\ Browse!ToSet(Browse!Pool(s, large)) = Pooled(Browse!ToSet(s), large)
  <1>1. PICK P : P = Pooled(Browse!ToSet(s), large)
    OBVIOUS
  <1>2. Browse!Pool(s, large) = Browse!Only(s, P)
    BY <1>1 DEF Browse!Pool, Pooled
  <1>3. Browse!ToSet(s) \cap P = P
    BY <1>1 DEF Pooled
  <1>4. /\ Browse!Only(s, P) \in Seq(Selections) /\ Once(Browse!Only(s, P))
        /\ Browse!ToSet(Browse!Only(s, P)) = Browse!ToSet(s) \cap P
    BY OnlyHas
  <1> QED BY <1>1, <1>2, <1>3, <1>4

\* Fewer selections keep to the budgets.
LEMMA FewerFit ==
    ASSUME NEW S, NEW large, Within(S, large), NEW T, Pooled(T, large) \subseteq S,
           MaxEntries \in Nat, Room(large) \in Nat
    PROVE  Within(T, large)
  <1>1. Pooled(T, large) \in SUBSET Pooled(S, large)
    BY DEF Pooled
  <1>2. Browse!Refs(Pooled(T, large)) \in SUBSET Browse!Refs(Pooled(S, large))
    BY <1>1 DEF Browse!Refs
  <1>3. /\ IsFiniteSet(Pooled(T, large))
        /\ Cardinality(Pooled(T, large)) <= Cardinality(Pooled(S, large))
        /\ Cardinality(Pooled(T, large)) \in Nat /\ Cardinality(Pooled(S, large)) \in Nat
    BY <1>1, FS_Subset, FS_CardinalityType DEF Within
  <1>4. /\ IsFiniteSet(Browse!Refs(Pooled(T, large)))
        /\ Cardinality(Browse!Refs(Pooled(T, large))) <= Cardinality(Browse!Refs(Pooled(S, large)))
        /\ Cardinality(Browse!Refs(Pooled(T, large))) \in Nat
        /\ Cardinality(Browse!Refs(Pooled(S, large))) \in Nat
    BY <1>2, FS_Subset, FS_CardinalityType DEF Within
  <1> QED BY <1>3, <1>4 DEF Within

\* What one selection adds to its pool and to the references the pool holds.
LEMMA OneSelectionMore ==
    ASSUME NEW S, NEW e \in Selections, IsFiniteSet(S), IsFiniteSet(Browse!Refs(S))
    PROVE  /\ IsFiniteSet(S \union {e}) /\ Cardinality(S \union {e}) <= Cardinality(S) + 1
           /\ IsFiniteSet(Browse!Refs(S \union {e}))
           /\ Cardinality(Browse!Refs(S \union {e})) <= Cardinality(Browse!Refs(S)) + Len(e.refs)
  <1>1. PICK D : D = {e} \X DOMAIN e.refs
    OBVIOUS
  <1>2. PICK n \in Nat : n = Len(e.refs) /\ DOMAIN e.refs = 1..n
    BY DEF Selections
  <1>3. IsFiniteSet(D) /\ Cardinality(D) = n
    <2>1. IsFiniteSet({e}) /\ Cardinality({e}) = 1
      BY FS_Singleton
    <2>2. IsFiniteSet(1..n) /\ Cardinality(1..n) = n
      BY FS_Interval
    <2>3. PICK I : I = 1..n
      OBVIOUS
    <2>4. PICK E : E = {e}
      OBVIOUS
    <2>5. IsFiniteSet(E \X I) /\ Cardinality(E \X I) = Cardinality(E) * Cardinality(I)
      BY <2>1, <2>2, <2>3, <2>4, FS_Product
    <2>6. D = E \X I
      BY <1>1, <1>2, <2>3, <2>4
    <2>7. Cardinality(E) = 1 /\ Cardinality(I) = n
      BY <2>1, <2>2, <2>3, <2>4
    <2>8. 1 * n = n
      BY <1>2
    <2> QED BY <2>5, <2>6, <2>7, <2>8
  <1>4. Browse!Refs(S \union {e}) = Browse!Refs(S) \union D
    BY <1>1 DEF Browse!Refs
  <1>5. PICK A : A = Browse!Refs(S)
    OBVIOUS
  <1>6. /\ IsFiniteSet(A \union D)
        /\ Cardinality(A \union D) = Cardinality(A) + Cardinality(D) - Cardinality(A \cap D)
    BY <1>3, <1>5, FS_Union
  <1>7. Cardinality(A) \in Nat /\ Cardinality(A \cap D) \in Nat
    BY <1>5, FS_Intersection, FS_CardinalityType
  <1>8. IsFiniteSet(S \union {e}) /\ Cardinality(S \union {e}) <= Cardinality(S) + 1
    <2>1. /\ IsFiniteSet(S \union {e})
          /\ Cardinality(S \union {e}) = IF e \in S THEN Cardinality(S) ELSE Cardinality(S) + 1
      BY FS_AddElement
    <2>2. Cardinality(S) \in Nat
      BY FS_CardinalityType
    <2> QED BY <2>1, <2>2
  <1>9. Cardinality(A \union D) <= Cardinality(A) + n
    BY <1>3, <1>6, <1>7
  <1> QED BY <1>2, <1>4, <1>5, <1>6, <1>8, <1>9

\* What is left of a sequence without its first n members.
LEMMA TailHas ==
    ASSUME NEW X, NEW s \in Seq(X), Once(s), NEW n \in 0..Len(s)
    PROVE  LET t == SubSeq(s, n + 1, Len(s))
           IN  t \in Seq(X) /\ Once(t) /\ Browse!ToSet(t) = Browse!ToSet(s) \ {s[i] : i \in 1..n}
  <1>t. PICK t : t = SubSeq(s, n + 1, Len(s))
    OBVIOUS
  <1>1. Len(s) \in Nat /\ DOMAIN s = 1..Len(s) /\ \A i \in 1..Len(s) : s[i] \in X
    OBVIOUS
  <1>2. /\ t \in Seq(X) /\ Len(t) = Len(s) - n /\ DOMAIN t = 1..(Len(s) - n)
        /\ \A i \in 1..(Len(s) - n) : t[i] = s[n + i]
    <2>1. n + 1 \in Int /\ Len(s) \in Int /\ \A i \in (n + 1)..Len(s) : s[i] \in X
      BY <1>1
    <2>2. t \in Seq(X) /\ Len(t) = Len(s) - n
      <3>1. /\ t \in Seq(X)
            /\ Len(t) = IF n + 1 <= Len(s) THEN Len(s) - (n + 1) + 1 ELSE 0
        BY <1>t, <2>1, SubSeqProperties
      <3>2. PICK l \in Nat : l = Len(s)
        BY <1>1
      <3>3. (IF n + 1 <= l THEN l - (n + 1) + 1 ELSE 0) = l - n
        BY <3>2
      <3> QED BY <3>1, <3>2, <3>3
    <2>3. DOMAIN t = 1..(Len(s) - n)
      BY <2>2
    <2>4. ASSUME NEW i \in 1..(Len(s) - n)
          PROVE  t[i] = s[n + i]
      <3>1. t[i] = s[(n + 1) + i - 1]
        BY <1>t, <1>1, <2>1
      <3>2. (n + 1) + i - 1 = n + i
        BY <1>1
      <3> QED BY <3>1, <3>2
    <2> QED BY <2>2, <2>3, <2>4
  <1>3. \A i \in 1..(Len(s) - n) : n + i \in 1..Len(s) /\ n + i \notin 1..n
    BY <1>1
  <1>4. Once(t)
    <2> SUFFICES ASSUME NEW i \in 1..(Len(s) - n), NEW j \in 1..(Len(s) - n), t[i] = t[j]
                 PROVE  i = j
      BY <1>1, <1>2 DEF Once
    <2>1. n + i \in 1..Len(s) /\ n + j \in 1..Len(s) /\ s[n + i] = s[n + j]
      BY <1>2, <1>3
    <2>2. n + i = n + j
      BY <2>1 DEF Once
    <2> QED BY <1>1, <2>2
  <1>5. ASSUME NEW i \in 1..(Len(s) - n)
        PROVE  t[i] \in {s[j] : j \in 1..Len(s)} \ {s[j] : j \in 1..n}
    <2>1. n + i \in 1..Len(s) /\ t[i] = s[n + i]
      BY <1>2, <1>3
    <2>2. ASSUME NEW j \in 1..n, s[j] = s[n + i]
          PROVE  FALSE
      <3>1. j \in 1..Len(s)
        BY <1>1
      <3>2. j = n + i
        BY <2>1, <2>2, <3>1 DEF Once
      <3> QED BY <1>3, <3>2
    <2> QED BY <2>1, <2>2
  <1>6. ASSUME NEW j \in 1..Len(s), s[j] \notin {s[i] : i \in 1..n}
        PROVE  \E i \in 1..(Len(s) - n) : t[i] = s[j]
    <2>1. j \notin 1..n
      BY <1>6
    <2>2. j - n \in 1..(Len(s) - n) /\ n + (j - n) = j
      BY <1>1, <2>1
    <2> QED BY <1>2, <2>2
  <1>7. {t[i] : i \in 1..(Len(s) - n)} = {s[j] : j \in 1..Len(s)} \ {s[j] : j \in 1..n}
    <2>1. ASSUME NEW x \in {t[i] : i \in 1..(Len(s) - n)}
          PROVE  x \in {s[j] : j \in 1..Len(s)} \ {s[j] : j \in 1..n}
      BY <1>5
    <2>2. ASSUME NEW x \in {s[j] : j \in 1..Len(s)}, x \notin {s[j] : j \in 1..n}
          PROVE  x \in {t[i] : i \in 1..(Len(s) - n)}
      BY <1>6, <2>2
    <2> QED BY <2>1, <2>2
  <1>8. Browse!ToSet(t) = Browse!ToSet(s) \ {s[i] : i \in 1..n}
    BY <1>1, <1>2, <1>7, LibraryOfBrowse
  <1> QED BY <1>t, <1>2, <1>4, <1>8

\* A selection that may be kept fits into an empty pool.
LEMMA FitsAlone ==
    ASSUME NEW e \in Selections, Browse!Keeps(e)
    PROVE  Browse!Fits(<<>>, e)
  <1>1. Len(e.refs) \in Nat
    BY DEF Selections
  <1>2. Len(e.refs) <= IF Browse!IsLarge(e) THEN MaxLarge ELSE MaxRefs
    BY <1>1, BrowseAssumption DEF Browse!Keeps, Browse!IsLarge
  <1>3. Browse!Weight(<<>>) = 0
    <2>1. Browse!ToSet(<<>>) = {}
      BY LibraryOfBrowse
    <2>2. Browse!Refs({}) = {}
      BY DEF Browse!Refs
    <2>3. Cardinality({}) = 0
      BY FS_EmptySet
    <2> QED BY <2>1, <2>2, <2>3, LibraryOfBrowse DEF Browse!Weight
  <1>4. Len(<<>>) < MaxEntries
    BY BrowseAssumption
  <1> QED BY <1>1, <1>2, <1>3, <1>4 DEF Browse!Fits

\* What a selection is kept beside: those of the other size, and as many of its own,
\* the latest used, as leave room for it.
LEMMA EvictMakesRoom ==
    ASSUME NEW s \in Seq(Selections), Once(s), NEW e \in Selections, Browse!Keeps(e),
           Within(Browse!ToSet(s), Browse!IsLarge(e)), NEW t, t = Browse!Evict(s, e)
    PROVE  /\ t \in Seq(Selections) /\ Once(t) /\ Browse!ToSet(t) \subseteq Browse!ToSet(s)
           /\ \A x \in Browse!ToSet(s) : Browse!IsLarge(x) # Browse!IsLarge(e) => x \in Browse!ToSet(t)
           /\ Within(Browse!ToSet(t) \union {e}, Browse!IsLarge(e))
  <1>1. PICK large : large = Browse!IsLarge(e)
    OBVIOUS
  <1>2. PICK pool : pool = Browse!Pool(s, large)
    OBVIOUS
  <1>3. /\ pool \in Seq(Selections) /\ Once(pool)
        /\ Browse!ToSet(pool) = Pooled(Browse!ToSet(s), large)
    BY <1>2, PoolHas
  <1>4. PICK L \in Nat : L = Len(pool) /\ DOMAIN pool = 1..L
    BY <1>3
  <1>5. PICK N : N = {n \in 0..L : Browse!Fits(SubSeq(pool, n + 1, L), e)}
    OBVIOUS
  <1>6. L \in N
    <2>1. SubSeq(pool, L + 1, L) = <<>>
      BY <1>3, <1>4
    <2>2. Browse!Fits(<<>>, e)
      BY FitsAlone
    <2>3. Browse!Fits(SubSeq(pool, L + 1, L), e)
      BY <2>1, <2>2
    <2>4. L \in 0..L
      BY <1>4
    <2> QED BY <1>5, <2>3, <2>4
  <1>7. PICK m \in N : \A k \in N : m <= k
    <2>1. N \subseteq Nat
      BY <1>5
    <2> QED BY <1>6, <2>1, Least
  <1>8. /\ m \in 0..L /\ Browse!Fits(SubSeq(pool, m + 1, L), e)
        /\ \A k \in 0..(m - 1) : ~Browse!Fits(SubSeq(pool, k + 1, L), e)
    <2>1. m \in 0..L /\ Browse!Fits(SubSeq(pool, m + 1, L), e)
      BY <1>5, <1>7
    <2>2. ASSUME NEW k \in 0..(m - 1), Browse!Fits(SubSeq(pool, k + 1, L), e)
          PROVE  FALSE
      <3>1. k \in 0..L /\ k < m
        BY <1>4, <2>1
      <3>2. k \in N
        BY <1>5, <2>2, <3>1
      <3> QED BY <1>4, <1>7, <2>1, <3>1, <3>2
    <2> QED BY <2>1, <2>2
  <1>9. PICK n : n = CHOOSE j \in 0..L : /\ Browse!Fits(SubSeq(pool, j + 1, L), e)
                                         /\ \A k \in 0..(j - 1) : ~Browse!Fits(SubSeq(pool, k + 1, L), e)
    OBVIOUS
  <1>10. n \in 0..L /\ Browse!Fits(SubSeq(pool, n + 1, L), e)
    BY <1>8, <1>9
  <1>11. PICK gone : gone = {pool[i] : i \in 1..n}
    OBVIOUS
  <1>12. t = Browse!Without(s, gone)
    <2>1. t = Browse!Without(s, {pool[i] : i \in 1..n})
      BY <1>1, <1>2, <1>4, <1>9, Zenon DEF Browse!Evict
    <2> QED BY <1>11, <2>1
  <1>13. /\ t \in Seq(Selections) /\ Once(t)
         /\ Browse!ToSet(t) = Browse!ToSet(s) \ gone
    BY <1>12, WithoutHas
  <1>14. PICK tail : tail = SubSeq(pool, n + 1, L)
    OBVIOUS
  <1>15. /\ tail \in Seq(Selections) /\ Once(tail) /\ Len(tail) \in Nat
         /\ Browse!ToSet(tail) = Pooled(Browse!ToSet(s), large) \ gone
    <2>1. n \in 0..Len(pool) /\ tail = SubSeq(pool, n + 1, Len(pool))
      BY <1>4, <1>10, <1>14
    <2>2. /\ tail \in Seq(Selections) /\ Once(tail)
          /\ Browse!ToSet(tail) = Browse!ToSet(pool) \ {pool[i] : i \in 1..n}
      BY <1>3, <2>1, TailHas
    <2>3. Len(tail) \in Nat
      BY <2>2
    <2> QED BY <1>3, <1>11, <2>2, <2>3
  <1>16. gone \subseteq Pooled(Browse!ToSet(s), large)
    <2>1. \A i \in 1..n : i \in 1..L
      BY <1>4, <1>10
    <2>2. \A i \in 1..L : pool[i] \in Browse!ToSet(pool)
      BY <1>4, LibraryOfBrowse
    <2> QED BY <1>3, <1>11, <2>1, <2>2
  <1>17. Pooled(Browse!ToSet(t) \union {e}, large) = Browse!ToSet(tail) \union {e}
    BY <1>1, <1>13, <1>15 DEF Pooled
  <1>18. IsFiniteSet(Browse!ToSet(tail)) /\ Cardinality(Browse!ToSet(tail)) = Len(tail)
    BY <1>15, OnceLong
  <1>19. IsFiniteSet(Browse!Refs(Browse!ToSet(tail)))
    <2>1. Browse!Refs(Browse!ToSet(tail)) \in SUBSET Browse!Refs(Pooled(Browse!ToSet(s), large))
      BY <1>15 DEF Browse!Refs
    <2> QED BY <1>1, <2>1, FS_Subset DEF Within
  <1>20. /\ Len(tail) < MaxEntries
         /\ Cardinality(Browse!Refs(Browse!ToSet(tail))) + Len(e.refs) <= Room(large)
    BY <1>1, <1>10, <1>14, LibraryOfBrowse DEF Browse!Fits, Browse!Weight, Room
  <1>21. PICK A : A = Browse!ToSet(tail)
    OBVIOUS
  <1>22. /\ IsFiniteSet(A \union {e}) /\ Cardinality(A \union {e}) <= Cardinality(A) + 1
         /\ IsFiniteSet(Browse!Refs(A \union {e}))
         /\ Cardinality(Browse!Refs(A \union {e})) <= Cardinality(Browse!Refs(A)) + Len(e.refs)
    BY <1>18, <1>19, <1>21, OneSelectionMore
  <1>23. /\ Cardinality(A \union {e}) \in Nat /\ Cardinality(Browse!Refs(A \union {e})) \in Nat
         /\ Cardinality(Browse!Refs(A)) \in Nat /\ Len(e.refs) \in Nat
    BY <1>19, <1>21, <1>22, FS_CardinalityType DEF Selections
  <1>24. Room(large) \in Nat /\ MaxEntries \in Nat
    BY BrowseAssumption DEF Room
  <1>25. /\ Cardinality(A \union {e}) <= MaxEntries
         /\ Cardinality(Browse!Refs(A \union {e})) <= Room(large)
    BY <1>15, <1>18, <1>20, <1>21, <1>22, <1>23, <1>24
  <1>26. Within(Browse!ToSet(t) \union {e}, large)
    BY <1>17, <1>21, <1>22, <1>25 DEF Within
  <1>27. \A x \in Browse!ToSet(s) : Browse!IsLarge(x) # large => x \in Browse!ToSet(t)
    BY <1>13, <1>16 DEF Pooled
  <1> QED BY <1>1, <1>13, <1>26, <1>27

\* What one step may cost the readers of a pool.
PoolsStep ==
    \A large \in BOOLEAN :
       LET gone == Browse!ToSet(Browse!Pool(cache, large)) \ Browse!ToSet(cache')
       IN  (published' = published /\ gone # {}) =>
              \E e \in Browse!ToSet(cache') \ Browse!ToSet(cache) : Browse!IsLarge(e) = large

\* A query that is cached is answered from the cache and is the last used.
LEMMA HitKeeps ==
    ASSUME PagesShown, NEW q \in Browse!Queries, Browse!Query(q), Browse!Cached(q) # {}
    PROVE  /\ cache' \in Seq(Selections) /\ Once(cache')
           /\ Browse!ToSet(cache') = Browse!ToSet(cache)
  <1>1. PICK e : e = cache[CHOOSE i \in Browse!Cached(q) : TRUE]
    OBVIOUS
  <1>2. cache' = Append(Browse!Without(cache, {e}), e)
    BY <1>1, Zenon DEF Browse!Query
  <1>3. cache \in Seq(Selections) /\ Once(cache)
    BY DEF PagesShown, CacheSound
  <1>4. e \in Selections /\ e \in Browse!ToSet(cache)
    <2>1. PICK i : i = CHOOSE j \in Browse!Cached(q) : TRUE
      OBVIOUS
    <2>2. i \in DOMAIN cache /\ e = cache[i]
      BY <1>1, <2>1 DEF Browse!Cached
    <2> QED BY <1>3, <2>2, LibraryOfBrowse
  <1>5. PICK t : t = Browse!Without(cache, {e})
    OBVIOUS
  <1>6. t \in Seq(Selections) /\ Once(t) /\ Browse!ToSet(t) = Browse!ToSet(cache) \ {e}
    BY <1>3, <1>5, WithoutHas
  <1>7. /\ Append(t, e) \in Seq(Selections) /\ Once(Append(t, e))
        /\ Browse!ToSet(Append(t, e)) = Browse!ToSet(t) \union {e}
    <2>1. e \notin Browse!ToSet(t)
      BY <1>6
    <2> QED BY <1>4, <1>6, <2>1, AppendHas
  <1>8. (Browse!ToSet(cache) \ {e}) \union {e} = Browse!ToSet(cache)
    BY <1>4
  <1> QED BY <1>2, <1>5, <1>6, <1>7, <1>8

\* What a query that is not cached selects, it selects rightly.
LEMMA MissSelects ==
    ASSUME PagesShown, NEW q \in Browse!Queries, NEW e, e = [query |-> q, refs |-> Browse!Select(q)]
    PROVE  e \in Selections /\ Sorted(e.refs, published, Chosen(published, e.query))
  <1>1. published \in Publications /\ Sorted(list, published, Indexed(published))
    BY DEF PagesShown, BrowseInv, ListSound, Publications
  <1>2. Sorted(Browse!Select(q), published, Chosen(published, q))
    BY <1>1, SelectIs
  <1>3. Chosen(published, q) \in SUBSET Keys
    BY DEF Chosen, Newest, Visible, Indexed
  <1>4. Browse!Select(q) \in Seq(Keys)
    BY <1>1, <1>2, <1>3, SortedHas
  <1> QED BY <1>2, <1>4 DEF Selections

\* A query that is not cached costs at most selections of its own size.
LEMMA MissKeeps ==
    ASSUME PagesShown, NEW q \in Browse!Queries, Browse!Query(q), Browse!Cached(q) = {},
           NEW e, e = [query |-> q, refs |-> Browse!Select(q)], Browse!Keeps(e)
    PROVE  /\ cache' \in Seq(Selections) /\ Once(cache')
           /\ Browse!ToSet(cache') \subseteq Browse!ToSet(cache) \union {e}
           /\ e \in Browse!ToSet(cache') /\ e \notin Browse!ToSet(cache)
           /\ \A large \in BOOLEAN : Within(Browse!ToSet(cache'), large)
           /\ \A x \in Browse!ToSet(cache) :
                Browse!IsLarge(x) # Browse!IsLarge(e) => x \in Browse!ToSet(cache')
  <1>1. PICK t : t = Browse!Evict(cache, e)
    OBVIOUS
  <1>2. cache' = Append(t, e)
    BY <1>1, Zenon DEF Browse!Query
  <1>3. /\ cache \in Seq(Selections) /\ Once(cache)
        /\ \A large \in BOOLEAN : Within(Browse!ToSet(cache), large)
    BY DEF PagesShown, CacheSound
  <1>4. e \in Selections
    BY MissSelects
  <1>5. PICK own \in BOOLEAN : own = Browse!IsLarge(e)
    <2>1. Browse!IsLarge(e) \in BOOLEAN
      <3>1. Len(e.refs) \in Nat /\ MaxRefs \in Nat
        BY <1>4, BrowseAssumption DEF Selections
      <3> QED BY <3>1 DEF Browse!IsLarge
    <2> QED BY <2>1
  <1>6. /\ t \in Seq(Selections) /\ Once(t) /\ Browse!ToSet(t) \subseteq Browse!ToSet(cache)
        /\ \A x \in Browse!ToSet(cache) : Browse!IsLarge(x) # own => x \in Browse!ToSet(t)
        /\ Within(Browse!ToSet(t) \union {e}, own)
    BY <1>1, <1>3, <1>4, <1>5, EvictMakesRoom
  <1>7. e \notin Browse!ToSet(cache)
    <2>1. \A i \in DOMAIN cache : cache[i].query # q
      BY DEF Browse!Cached
    <2>2. e.query = q
      OBVIOUS
    <2> QED BY <2>1, <2>2, LibraryOfBrowse
  <1>8. /\ cache' \in Seq(Selections) /\ Once(cache')
        /\ Browse!ToSet(cache') = Browse!ToSet(t) \union {e}
    <2>1. e \notin Browse!ToSet(t)
      BY <1>6, <1>7
    <2> QED BY <1>2, <1>4, <1>6, <2>1, AppendHas
  <1>9. ASSUME NEW large \in BOOLEAN
        PROVE  Within(Browse!ToSet(cache'), large)
    <2>1. CASE large = own
      BY <1>6, <1>8, <2>1
    <2>2. CASE large # own
      <3>1. Pooled(Browse!ToSet(cache'), large) \subseteq Browse!ToSet(cache)
        BY <1>5, <1>6, <1>8, <2>2 DEF Pooled
      <3>2. MaxEntries \in Nat /\ Room(large) \in Nat
        BY BrowseAssumption DEF Room
      <3> QED BY <1>3, <3>1, <3>2, FewerFit
    <2> QED BY <2>1, <2>2
  <1> QED BY <1>5, <1>6, <1>7, <1>8, <1>9

\* A query keeps the selections right and within the budgets (cacheRevisions).
LEMMA QueryKeeps ==
    ASSUME PagesShown, NEW q \in Browse!Queries, Browse!Query(q)
    PROVE  CacheSound' /\ PoolsStep
  <1>1. published' = published
    BY DEF Browse!Query
  <1>2. /\ cache \in Seq(Selections) /\ Once(cache)
        /\ \A x \in Browse!ToSet(cache) : Sorted(x.refs, published, Chosen(published, x.query))
        /\ \A large \in BOOLEAN : Within(Browse!ToSet(cache), large)
    BY DEF PagesShown, CacheSound
  <1>3. \A large : Browse!ToSet(Browse!Pool(cache, large)) = Pooled(Browse!ToSet(cache), large)
    BY <1>2, PoolHas
  <1>4. ASSUME cache' \in Seq(Selections), Once(cache'), Browse!ToSet(cache') = Browse!ToSet(cache)
        PROVE  CacheSound' /\ PoolsStep
    <2>1. CacheSound'
      BY <1>1, <1>2, <1>4 DEF CacheSound
    <2>2. PoolsStep
      BY <1>3, <1>4 DEF PoolsStep, Pooled
    <2> QED BY <2>1, <2>2
  <1>5. PICK e : e = [query |-> q, refs |-> Browse!Select(q)]
    OBVIOUS
  <1>6. CASE Browse!Cached(q) # {}
    BY <1>4, <1>6, HitKeeps
  <1>7. CASE Browse!Cached(q) = {} /\ ~Browse!Keeps(e)
    <2>1. cache' = cache
      BY <1>5, <1>7, Zenon DEF Browse!Query
    <2> QED BY <1>2, <1>4, <2>1
  <1>8. CASE Browse!Cached(q) = {} /\ Browse!Keeps(e)
    <2>1. /\ cache' \in Seq(Selections) /\ Once(cache')
          /\ Browse!ToSet(cache') \subseteq Browse!ToSet(cache) \union {e}
          /\ e \in Browse!ToSet(cache') /\ e \notin Browse!ToSet(cache)
          /\ \A large \in BOOLEAN : Within(Browse!ToSet(cache'), large)
          /\ \A x \in Browse!ToSet(cache) :
               Browse!IsLarge(x) # Browse!IsLarge(e) => x \in Browse!ToSet(cache')
      BY <1>5, <1>8, MissKeeps
    <2>2. Sorted(e.refs, published, Chosen(published, e.query))
      BY <1>5, MissSelects
    <2>3. \A x \in Browse!ToSet(cache') : Sorted(x.refs, published, Chosen(published, x.query))
      BY <1>2, <2>1, <2>2
    <2>4. CacheSound'
      BY <1>1, <2>1, <2>3 DEF CacheSound
    <2>5. ASSUME NEW large \in BOOLEAN, NEW x \in Pooled(Browse!ToSet(cache), large),
                 x \notin Browse!ToSet(cache')
          PROVE  Browse!IsLarge(e) = large
      BY <2>1, <2>5 DEF Pooled
    <2>6. PoolsStep
      BY <1>3, <2>1, <2>5 DEF PoolsStep
    <2> QED BY <2>4, <2>6
  <1> QED BY <1>6, <1>7, <1>8

\* A commit drops the selections that it may have changed; the others are of
\* checkpoints before its own and stay what they are (commit).
LEMMA CommitDrops ==
    ASSUME PagesShown, NEW p \in prepared, Browse!Commit(p)
    PROVE  CacheSound' /\ PoolsStep
  <1>1. PICK T : T = Browse!Touched(p)
    OBVIOUS
  <1>2. PICK now : now = p.batch.at
    OBVIOUS
  <1>3. PICK new : new = published'
    OBVIOUS
  <1>4. /\ cache \in Seq(Selections) /\ Once(cache)
        /\ \A x \in Browse!ToSet(cache) : Sorted(x.refs, published, Chosen(published, x.query))
        /\ \A large \in BOOLEAN : Within(Browse!ToSet(cache), large)
    BY DEF PagesShown, CacheSound
  <1>5. published \in Publications /\ p.batch \in Batches
    BY DEF PagesShown, BrowseInv, PreparedSound, Publications
  <1>6. now \in Nat /\ now # 0 /\ p.batch.keys \subseteq Keys
    BY <1>2, <1>5, BatchShape
  <1>7. /\ T \in SUBSET Keys
        /\ new = [k \in Keys |-> IF k \in T THEN now ELSE published[k]]
        /\ \A k \in T : published[k] = 0 \/ now < published[k]
    BY <1>1, <1>2, <1>3, <1>6, CommitMoves DEF PagesShown
  <1>8. PICK S : S = {cache[i] : i \in DOMAIN cache \ Browse!Dropped(T, now)}
    OBVIOUS
  <1>9. cache' = Browse!Only(cache, S)
    BY <1>1, <1>2, <1>8, Zenon DEF Browse!Commit, Browse!Kept
  <1>10. /\ cache' \in Seq(Selections) /\ Once(cache')
         /\ Browse!ToSet(cache') = Browse!ToSet(cache) \cap S
    BY <1>4, <1>9, OnlyHas
  <1>11. ASSUME NEW x \in Browse!ToSet(cache')
         PROVE  Sorted(x.refs, new, Chosen(new, x.query))
    <2>1. Sorted(x.refs, published, Chosen(published, x.query))
      BY <1>4, <1>10
    <2>2. PICK i \in DOMAIN cache : x = cache[i] /\ i \notin Browse!Dropped(T, now)
      BY <1>8, <1>10
    <2>3. CASE T = {}
      <3>1. new = published
        BY <1>5, <1>7, <2>3 DEF Publications
      <3> QED BY <2>1, <3>1
    <2>4. CASE T # {}
      <3>1. ~(now <= x.query.at)
        BY <2>2, <2>4 DEF Browse!Dropped
      <3>2. x \in Selections
        BY <1>4, <2>2
      <3>3. x.query.at \in Nat
        BY <3>2, BrowseAssumption DEF Selections, Browse!Queries, Browse!Checkpoints
      <3>4. x.query.at < now
        BY <1>6, <3>1, <3>3
      <3>5. /\ Chosen(new, x.query) = Chosen(published, x.query)
            /\ \A k \in Chosen(published, x.query) : new[k] = published[k]
        BY <1>5, <1>6, <1>7, <3>3, <3>4, ChosenStays
      <3> QED BY <2>1, <3>5, SortedAlike
    <2> QED BY <2>3, <2>4
  <1>12. ASSUME NEW large \in BOOLEAN
         PROVE  Within(Browse!ToSet(cache'), large)
    <2>1. Pooled(Browse!ToSet(cache'), large) \subseteq Browse!ToSet(cache)
      BY <1>10 DEF Pooled
    <2>2. MaxEntries \in Nat /\ Room(large) \in Nat
      BY BrowseAssumption DEF Room
    <2> QED BY <1>4, <2>1, <2>2, FewerFit
  <1>13. CacheSound'
    BY <1>3, <1>10, <1>11, <1>12 DEF CacheSound
  <1>14. PoolsStep
    <2>1. published' = published => Browse!ToSet(cache') = Browse!ToSet(cache)
      <3> SUFFICES ASSUME published' = published
                   PROVE  Browse!ToSet(cache') = Browse!ToSet(cache)
        OBVIOUS
      <3>1. ASSUME NEW k \in T
            PROVE  FALSE
        <4>1. published[k] = now /\ published[k] \in Nat
          BY <1>3, <1>5, <1>7 DEF Publications
        <4> QED BY <1>6, <1>7, <4>1
      <3>2. Browse!Dropped(T, now) = {}
        BY <3>1 DEF Browse!Dropped
      <3>3. S = Browse!ToSet(cache)
        BY <1>8, <3>2, LibraryOfBrowse
      <3> QED BY <1>10, <3>3
    <2>2. \A large : Browse!ToSet(Browse!Pool(cache, large)) \subseteq Browse!ToSet(cache)
      BY <1>4, PoolHas DEF Pooled
    <2> QED BY <2>1, <2>2 DEF PoolsStep
  <1> QED BY <1>13, <1>14

\* Every step keeps the list in order and the selections right.
LEMMA BrowseShownNext ==
    ASSUME PagesShown, [Next]_vars
    PROVE  PagesShown' /\ [PoolsStep]_(Browse!vars)
  <1>1. BrowseInv'
    BY BrowseNext DEF PagesShown
  <1>2. CASE UNCHANGED browse
    BY <1>1, <1>2 DEF PagesShown, ListSound, CacheSound, browse, Browse!vars
  <1>3. CASE Browse!Next
    <2>1. ASSUME NEW b \in Batches, Browse!Prepare(b)
          PROVE  ListSound' /\ CacheSound' /\ PoolsStep
      <3>1. UNCHANGED <<published, list, cache>>
        BY <2>1 DEF Browse!Prepare
      <3>2. \A large : Browse!ToSet(Browse!Pool(cache, large)) \subseteq Browse!ToSet(cache)
        BY PoolHas DEF PagesShown, CacheSound, Pooled
      <3>3. PoolsStep
        BY <3>1, <3>2 DEF PoolsStep
      <3> QED BY <3>1, <3>3 DEF PagesShown, ListSound, CacheSound
    <2>2. ASSUME NEW p \in prepared, Browse!Commit(p)
          PROVE  ListSound' /\ CacheSound' /\ PoolsStep
      BY <2>2, CommitSorts, CommitDrops DEF PagesShown
    <2>3. ASSUME NEW q \in Browse!Queries, Browse!Query(q)
          PROVE  ListSound' /\ CacheSound' /\ PoolsStep
      <3>1. UNCHANGED <<published, list>>
        BY <2>3 DEF Browse!Query
      <3>2. ListSound'
        BY <3>1 DEF PagesShown, ListSound
      <3> QED BY <2>3, <3>2, QueryKeeps
    <2>4. ListSound' /\ CacheSound' /\ PoolsStep
      BY <1>3, <2>1, <2>2, <2>3 DEF Browse!Next
    <2> QED BY <1>1, <2>4 DEF PagesShown
  <1> QED BY <1>2, <1>3 DEF Next, vars, browse

\* At the start nothing is listed and nothing is kept.
LEMMA BrowseShownStart == Browse!Init => PagesShown
  <1> SUFFICES ASSUME Browse!Init
               PROVE  PagesShown
    OBVIOUS
  <1>1. BrowseInv
    BY DEF Browse!Init, BrowseInv
  <1>2. ListSound
    <2>1. Indexed(published) = {} /\ list = <<>>
      BY DEF Browse!Init, Indexed
    <2>2. IsFiniteSet({})
      BY FS_EmptySet
    <2>3. Sorted(<<>>, published, {})
      BY DEF Sorted
    <2> QED BY <2>1, <2>2, <2>3 DEF ListSound
  <1>3. CacheSound
    <2>1. cache = <<>> /\ cache \in Seq(Selections) /\ Once(cache)
      BY DEF Browse!Init, Once
    <2>2. Browse!ToSet(cache) = {}
      BY <2>1, LibraryOfBrowse
    <2>3. ASSUME NEW large \in BOOLEAN
          PROVE  Within({}, large)
      <3>1. Pooled({}, large) = {} /\ Browse!Refs({}) = {}
        BY DEF Pooled, Browse!Refs
      <3>2. IsFiniteSet({}) /\ Cardinality({}) = 0
        BY FS_EmptySet
      <3>3. 0 <= MaxEntries /\ 0 <= Room(large)
        BY BrowseAssumption DEF Room
      <3> QED BY <3>1, <3>2, <3>3 DEF Within
    <2> QED BY <2>1, <2>2, <2>3 DEF CacheSound
  <1> QED BY <1>1, <1>2, <1>3 DEF PagesShown

\* The list is the one Sort gives, what is cached is what the index would answer,
\* and the pools are within their budgets.
LEMMA BrowseShownAnswers ==
    ASSUME PagesShown
    PROVE  Browse!EarliestWins /\ Browse!CacheAnswersTrue
  <1>1. /\ published \in Publications /\ IsFiniteSet(Indexed(published))
        /\ Sorted(list, published, Indexed(published)) /\ Indexed(published) \in SUBSET Keys
    BY DEF PagesShown, BrowseInv, ListSound, Publications, Indexed
  <1>2. /\ cache \in Seq(Selections) /\ Once(cache)
        /\ \A x \in Browse!ToSet(cache) : Sorted(x.refs, published, Chosen(published, x.query))
        /\ \A large \in BOOLEAN : Within(Browse!ToSet(cache), large)
    BY DEF PagesShown, CacheSound
  <1>3. Browse!EarliestWins
    <2>1. list = Browse!Sort(published, Indexed(published))
      BY <1>1, SortIs
    <2>2. Browse!StandsEarliest
      BY LeastStands DEF PagesShown
    <2> QED BY <2>1, <2>2 DEF Browse!EarliestWins, Indexed
  <1>4. ASSUME NEW i \in DOMAIN cache
        PROVE  cache[i].refs = Browse!Select(cache[i].query)
    <2>1. PICK q : q = cache[i].query
      OBVIOUS
    <2>2. PICK C : C = Chosen(published, q)
      OBVIOUS
    <2>3. C \in SUBSET Keys /\ IsFiniteSet(C)
      <3>1. C \in SUBSET Indexed(published)
        BY <2>2 DEF Chosen, Newest, Visible
      <3> QED BY <1>1, <3>1, FS_Subset
    <2>4. Sorted(cache[i].refs, published, C)
      <3>1. cache[i] \in Browse!ToSet(cache)
        BY LibraryOfBrowse
      <3> QED BY <1>2, <2>1, <2>2, <3>1
    <2>5. Sorted(Browse!Select(q), published, C)
      BY <1>1, <2>2, SelectIs
    <2>6. cache[i].refs = Browse!Sort(published, C) /\ Browse!Select(q) = Browse!Sort(published, C)
      BY <1>1, <2>3, <2>4, <2>5, SortIs
    <2> QED BY <2>1, <2>6
  <1>5. ASSUME NEW large \in BOOLEAN
        PROVE  /\ Len(Browse!Pool(cache, large)) <= MaxEntries
               /\ Browse!Weight(Browse!Pool(cache, large)) <= IF large THEN MaxLarge ELSE MaxRefs
    <2>1. PICK pool : pool = Browse!Pool(cache, large)
      OBVIOUS
    <2>2. /\ pool \in Seq(Selections) /\ Once(pool)
          /\ Browse!ToSet(pool) = Pooled(Browse!ToSet(cache), large)
      BY <1>2, <2>1, PoolHas
    <2>3. Len(pool) = Cardinality(Browse!ToSet(pool))
      BY <2>2, OnceLong
    <2>4. Browse!Weight(pool) = Cardinality(Browse!Refs(Browse!ToSet(pool)))
      BY LibraryOfBrowse DEF Browse!Weight
    <2>5. Within(Browse!ToSet(cache), large)
      BY <1>2
    <2> QED BY <2>1, <2>2, <2>3, <2>4, <2>5 DEF Within, Room
  <1> QED BY <1>3, <1>4, <1>5 DEF Browse!CacheAnswersTrue

\* A page is the page of its checkpoint, from the index or from the cache, for any
\* batches prepared and committed in any order, and the two pools of the cache never
\* cost each other anything (select, commit, cacheRevisions of browse-index.ts).
THEOREM PagesAreTrue == Spec => PagesTrue
  <1>1. Init => PagesShown
    BY BrowseShownStart DEF Init
  <1>2. PagesShown /\ [Next]_vars => PagesShown'
    BY BrowseShownNext
  <1>3. PagesShown /\ [Next]_vars =>
          [\A large \in BOOLEAN :
              LET gone == Browse!ToSet(Browse!Pool(cache, large)) \ Browse!ToSet(cache')
              IN  (published' = published /\ gone # {}) =>
                     \E e \in Browse!ToSet(cache') \ Browse!ToSet(cache) :
                        Browse!IsLarge(e) = large]_(Browse!vars)
    BY BrowseShownNext, Zenon DEF PoolsStep
  <1>4. PagesShown => Browse!EarliestWins /\ Browse!CacheAnswersTrue
    BY BrowseShownAnswers
  <1> QED BY <1>1, <1>2, <1>3, <1>4, PTL DEF Spec, PagesTrue, Browse!PagesTrue, Browse!PoolsIndependent

------------------------------------------------------------------------------
(* What is sent to the provider of embeddings. *)

Asking == {"asked", "admitted", "sent", "embedded"}
Pages(f) == DOMAIN f = Listings /\ \A s \in Listings : "at" \in DOMAIN f[s]

\* After close() no page is under way.
SearchInv ==
    /\ Pages(reader)
    /\ stopped => \A s \in Listings : reader[s].at \notin Asking

\* What one step may send.
SentStep ==
    \A s \in Listings : reader[s].at # "sent" /\ reader'[s].at = "sent" => allowed /\ ~stopped

\* A page is asked for, by a policy that is remembered and at a pinned checkpoint.
LEMMA AskedPage ==
    ASSUME SearchInv, NEW s \in Listings, Search!Ask(s)
    PROVE  SearchInv' /\ SentStep
  <1>1. PICK granted, pin : reader' = [reader EXCEPT ![s].at = "asked", ![s].granted = granted, ![s].pin = pin]
    BY DEF Search!Ask
  <1>2. /\ Pages(reader)' /\ reader'[s].at = "asked"
        /\ \A d \in Listings : d # s => reader'[d] = reader[d]
    BY <1>1 DEF SearchInv, Pages
  <1>3. ~stopped /\ stopped' = stopped
    BY DEF Search!Ask, Search!serving
  <1> QED BY <1>2, <1>3 DEF SearchInv, SentStep

\* Before the call, at the moment of sending and on the result, the policy is asked.
LEMMA SteppedPage ==
    ASSUME SearchInv, NEW s \in Listings, Search!Admit(s) \/ Search!Send(s) \/ Search!Receive(s)
    PROVE  SearchInv' /\ SentStep
  <1>1. PICK to \in {"idle", "admitted", "sent", "embedded"} :
           /\ reader' = [reader EXCEPT ![s].at = to] /\ (to = "idle" \/ allowed)
           /\ reader[s].at \in Asking /\ stopped' = stopped
    BY DEF Search!Admit, Search!Send, Search!Receive, Search!Step, Search!Gate, Search!FailPage,
           Search!serving, Asking
  <1>2. /\ Pages(reader)' /\ reader'[s].at = to
        /\ \A d \in Listings : d # s => reader'[d] = reader[d]
    BY <1>1 DEF SearchInv, Pages
  <1> QED BY <1>1, <1>2 DEF SearchInv, SentStep

\* A page is answered, refused or aborted.
LEMMA EndedPage ==
    ASSUME SearchInv, NEW s \in Listings, Search!Answer(s) \/ Search!AbortPage(s)
    PROVE  SearchInv' /\ SentStep
  <1>1. stopped' = stopped
    BY DEF Search!Answer, Search!AbortPage, Search!serving
  <1>2. /\ Pages(reader)' /\ reader'[s].at \in {"idle", "done", "refused"}
        /\ \A d \in Listings : d # s => reader'[d] = reader[d]
    <2>1. PICK l : l = Search!Ranked(reader[s].pin, Search!Proposed(reader[s].pin))
      OBVIOUS
    <2>2. PICK n : n = Len(reader[s].got)
      OBVIOUS
    <2>3. PICK got : got = IF n < Len(l) THEN Append(reader[s].got, l[n + 1]) ELSE reader[s].got
      OBVIOUS
    <2>4. PICK to \in {"idle", "done"} : to = IF n + 1 < Len(l) THEN "idle" ELSE "done"
      OBVIOUS
    <2>5. \/ reader' = [reader EXCEPT ![s].at = "idle"]
          \/ reader' = [reader EXCEPT ![s].at = "refused"]
          \/ reader' = [reader EXCEPT ![s].list = l, ![s].got = got, ![s].at = to]
      BY <2>1, <2>2, <2>3, <2>4 DEF Search!Answer, Search!AbortPage, Search!FailPage
    <2> QED BY <2>4, <2>5 DEF SearchInv, Pages
  <1> QED BY <1>1, <1>2 DEF SearchInv, SentStep, Asking

\* close() aborts whatever is under way.
LEMMA ClosedPages ==
    ASSUME SearchInv, Search!Close
    PROVE  SearchInv' /\ SentStep
  <1>1. reader' = [s \in Listings |-> IF s \in Search!Active THEN [reader[s] EXCEPT !.at = "idle"] ELSE reader[s]]
    BY DEF Search!Close
  <1>2. \A s \in Listings : reader[s].at \in Asking => s \in Search!Active
    BY DEF Search!Active, Asking
  <1>3. \A s \in Listings : /\ "at" \in DOMAIN reader'[s]
                            /\ reader'[s].at \notin Asking
    BY <1>1, <1>2 DEF SearchInv, Pages, Asking
  <1>4. DOMAIN reader' = Listings
    BY <1>1
  <1> QED BY <1>3, <1>4 DEF SearchInv, Pages, SentStep, Asking

\* Every step of the search keeps the pages and what a service was sent to
\* the policy of the time it was sent (embedding-service.ts).
LEMMA SearchNext ==
    ASSUME SearchInv, [Next]_vars
    PROVE  SearchInv' /\ SentStep
  <1>1. CASE UNCHANGED <<reader, stopped>>
    BY <1>1 DEF SearchInv, Pages, SentStep
  <1>2. CASE Search!Next
    <2>1. CASE \E r \in Rebuilds : \/ Search!Rebuild(r) \/ Search!Scanned(r) \/ Search!Replace(r)
                                   \/ Search!AnswerRebuild(r) \/ Search!AbortRebuild(r)
      BY <1>1, <2>1 DEF Search!Rebuild, Search!Scanned, Search!Replace, Search!AnswerRebuild,
                        Search!AbortRebuild, Search!serving
    <2>2. CASE Search!Publish \/ Search!ChangePolicy
      BY <1>1, <2>2 DEF Search!Publish, Search!ChangePolicy
    <2> QED BY <1>2, <2>1, <2>2, AskedPage, SteppedPage, EndedPage, ClosedPages DEF Search!Next
  <1> QED BY <1>1, <1>2 DEF Next, vars, search

\* Nothing is sent to the provider while the policy says no or after close(),
\* although both may happen between any two awaits (EmbeddingRuntime.run).
THEOREM NothingSentAgainstPolicy == Spec => Search!SentUnderPolicy
  <1>1. Init => SearchInv
    BY DEF Init, Search!Init, SearchInv, Pages, Asking
  <1>2. SearchInv /\ [Next]_vars => SearchInv'
    BY SearchNext
  <1>3. SearchInv /\ [Next]_vars =>
          [\A s \in Listings : reader[s].at # "sent" /\ reader'[s].at = "sent" =>
              allowed /\ ~stopped]_(Search!vars)
    BY SearchNext DEF SentStep
  <1> QED BY <1>1, <1>2, <1>3, PTL DEF Spec, Search!SentUnderPolicy

------------------------------------------------------------------------------
(* The pages of one listing. *)

\* The operators of the instance that come from the library.
LEMMA LibraryOfSearch ==
    /\ \A S : Search!Cardinality(S) = Cardinality(S)
    /\ \A s : Search!ToSet(s) = {s[i] : i \in DOMAIN s}
    /\ \A f : Search!IsInjective(f) = (\A a, b \in DOMAIN f : f[a] = f[b] => a = b)
    /\ \A s, t : Search!IsPrefix(s, t) =
                   (Len(s) <= Len(t) /\ SubSeq(s, 1, Len(s)) = SubSeq(t, 1, Len(s)))
  <1>1. \A S : Search!Cardinality(S) = Cardinality(S)
    BY DEF Search!Cardinality, Cardinality
  <1> QED BY <1>1 DEF Search!ToSet, Search!IsInjective, Search!IsPrefix

\* A sequence that holds every member of S once.
Enumerates(l, S) ==
    /\ l \in Seq(S)
    /\ \A i, j \in 1..Len(l) : l[i] = l[j] => i = j
    /\ \A x \in S : \E i \in 1..Len(l) : l[i] = x

\* Candidates in descending order: each once, since no two have the same number of
\* others above them.
LEMMA DescendingEnumerates ==
    ASSUME NEW n \in Nat, NEW S \in SUBSET (1..n)
    PROVE  Enumerates(Search!Descending(S), S)
  <1>1. IsFiniteSet(S) /\ Cardinality(S) \in Nat
    <2>1. IsFiniteSet(1..n)
      BY FS_Interval
    <2> QED BY <2>1, FS_Subset, FS_CardinalityType
  <1>2. PICK c \in Nat : c = Cardinality(S)
    BY <1>1
  <1>3. PICK rank : rank = [x \in S |-> Cardinality(Search!Above(S, x)) + 1]
    OBVIOUS
  <1>4. ASSUME NEW x \in S
        PROVE  /\ Search!Above(S, x) \in SUBSET S /\ IsFiniteSet(Search!Above(S, x))
               /\ Cardinality(Search!Above(S, x)) \in Nat /\ Cardinality(Search!Above(S, x)) < c
    <2>1. Search!Above(S, x) \in SUBSET S /\ x \notin Search!Above(S, x)
      BY DEF Search!Above
    <2>2. IsFiniteSet(Search!Above(S, x)) /\ Cardinality(Search!Above(S, x)) <= c
          /\ Cardinality(Search!Above(S, x)) # c
      BY <1>1, <1>2, <2>1, FS_Subset
    <2>3. Cardinality(Search!Above(S, x)) \in Nat
      BY <2>2, FS_CardinalityType
    <2> QED BY <2>1, <2>2, <2>3
  <1>5. rank \in [S -> 1..c]
    BY <1>3, <1>4
  <1>6. \A x, y \in S : rank[x] = rank[y] => x = y
    <2>1. ASSUME NEW x \in S, NEW y \in S, x < y
          PROVE  rank[x] # rank[y]
      <3>1. /\ Search!Above(S, y) \in SUBSET Search!Above(S, x)
            /\ y \in Search!Above(S, x) /\ y \notin Search!Above(S, y)
        <4>1. \A m \in S : m \in Int
          OBVIOUS
        <4>2. \A m \in S : m > y => m > x
          BY <2>1, <4>1
        <4>3. y > x /\ ~(y > y)
          BY <2>1, <4>1
        <4> QED BY <4>2, <4>3 DEF Search!Above
      <3>2. Cardinality(Search!Above(S, x)) # Cardinality(Search!Above(S, y))
        BY <1>4, <3>1, FS_Subset
      <3> QED BY <1>3, <1>4, <3>2
    <2>2. \A x, y \in S : x < y \/ y < x \/ x = y
      OBVIOUS
    <2> QED BY <2>1, <2>2
  <1>7. rank \in Injection(S, 1..c)
    BY <1>5, <1>6 DEF Injection, IsInjective
  <1>8. IsFiniteSet(1..c) /\ Cardinality(1..c) = c
    BY FS_Interval
  <1>9. rank \in Surjection(S, 1..c)
    BY <1>2, <1>7, <1>8, FS_Injection
  <1>10. \A i \in 1..c : \E x \in S : rank[x] = i
    BY <1>9 DEF Surjection
  <1>11. PICK l : l = Search!Descending(S)
    OBVIOUS
  <1>12. l = [i \in 1..c |-> CHOOSE x \in S : Cardinality(Search!Above(S, x)) = i - 1]
    BY <1>2, <1>11, LibraryOfSearch DEF Search!Descending
  <1>13. ASSUME NEW i \in 1..c
         PROVE  l[i] \in S /\ rank[l[i]] = i
    <2>1. \E x \in S : Cardinality(Search!Above(S, x)) = i - 1
      <3>1. PICK x \in S : rank[x] = i
        BY <1>10
      <3>2. Cardinality(Search!Above(S, x)) + 1 = i /\ Cardinality(Search!Above(S, x)) \in Nat
        BY <1>3, <1>4, <3>1
      <3> QED BY <3>2
    <2>2. l[i] = CHOOSE x \in S : Cardinality(Search!Above(S, x)) = i - 1
      BY <1>12
    <2>3. l[i] \in S /\ Cardinality(Search!Above(S, l[i])) = i - 1
      BY <2>1, <2>2
    <2> QED BY <1>3, <2>3
  <1>14. l \in Seq(S) /\ Len(l) = c
    <2>1. DOMAIN l = 1..c /\ l = [i \in 1..c |-> l[i]]
      BY <1>12
    <2>2. l \in [1..c -> S]
      BY <1>13, <2>1
    <2> QED BY <2>2
  <1>15. \A x \in S : rank[x] \in 1..c /\ l[rank[x]] = x
    BY <1>5, <1>6, <1>13
  <1> QED BY <1>11, <1>13, <1>14, <1>15 DEF Enumerates

\* One list after another, of different things.
LEMMA JoinedEnumerates ==
    ASSUME NEW S, NEW T, S \intersect T = {}, NEW l, NEW m, Enumerates(l, S), Enumerates(m, T)
    PROVE  Enumerates(l \o m, S \union T)
  <1>1. /\ l \in Seq(S \union T) /\ m \in Seq(S \union T) /\ Len(l) \in Nat /\ Len(m) \in Nat
        /\ \A i \in 1..Len(l) : l[i] \in S
        /\ \A i \in 1..Len(m) : m[i] \in T
    BY DEF Enumerates
  <1>2. PICK k : k = l \o m
    OBVIOUS
  <1>3. /\ k \in Seq(S \union T) /\ Len(k) = Len(l) + Len(m)
        /\ \A i \in 1..Len(l) : k[i] = l[i]
        /\ \A i \in 1..Len(m) : k[Len(l) + i] = m[i]
    BY <1>1, <1>2
  <1>4. \A i \in 1..Len(k) : i \in 1..Len(l) \/ (i - Len(l)) \in 1..Len(m)
    BY <1>1, <1>3
  <1>5. \A i \in 1..Len(k) : (i - Len(l)) \in 1..Len(m) => k[i] = m[i - Len(l)]
    BY <1>1, <1>3
  <1>6. \A i, j \in 1..Len(k) : k[i] = k[j] => i = j
    <2> SUFFICES ASSUME NEW i \in 1..Len(k), NEW j \in 1..Len(k), k[i] = k[j]
                 PROVE  i = j
      OBVIOUS
    <2>1. CASE i \in 1..Len(l) /\ j \in 1..Len(l)
      BY <1>3, <2>1 DEF Enumerates
    <2>2. CASE (i - Len(l)) \in 1..Len(m) /\ (j - Len(l)) \in 1..Len(m)
      <3>1. m[i - Len(l)] = m[j - Len(l)]
        BY <1>5, <2>2
      <3>2. i - Len(l) = j - Len(l)
        BY <2>2, <3>1 DEF Enumerates
      <3> QED BY <1>1, <1>3, <3>2
    <2>3. CASE i \in 1..Len(l) /\ (j - Len(l)) \in 1..Len(m)
      BY <1>1, <1>3, <1>5, <2>3
    <2>4. CASE j \in 1..Len(l) /\ (i - Len(l)) \in 1..Len(m)
      BY <1>1, <1>3, <1>5, <2>4
    <2> QED BY <1>4, <2>1, <2>2, <2>3, <2>4
  <1>7. \A x \in S \union T : \E i \in 1..Len(k) : k[i] = x
    <2>1. ASSUME NEW x \in S
          PROVE  \E i \in 1..Len(k) : k[i] = x
      <3>1. PICK i \in 1..Len(l) : l[i] = x
        BY DEF Enumerates
      <3> QED BY <1>1, <1>3, <3>1
    <2>2. ASSUME NEW x \in T
          PROVE  \E i \in 1..Len(k) : k[i] = x
      <3>1. PICK i \in 1..Len(m) : m[i] = x
        BY DEF Enumerates
      <3>2. Len(l) + i \in 1..Len(k) /\ k[Len(l) + i] = x
        BY <1>1, <1>3, <3>1
      <3> QED BY <3>2
    <2> QED BY <2>1, <2>2
  <1> QED BY <1>2, <1>3, <1>6, <1>7 DEF Enumerates

\* What a page is cut from at checkpoint pin.
ListOf(l, pin) ==
    \E S \in SUBSET (1..pin) :
        /\ Enumerates(l, S)
        /\ Search!Verified(1..Pinned, pin) \subseteq S
        /\ ~external => S = 1..pin

\* Whatever the index proposes, the list is one of the pinned checkpoint.
LEMMA RankedIsAList ==
    ASSUME NEW pin \in Nat
    PROVE  ListOf(Search!Ranked(pin, Search!Proposed(pin)), pin)
  <1>1. PICK R : R = Search!Verified(1..Pinned, pin)
    OBVIOUS
  <1>2. PICK T : T = Search!Verified(Search!Proposed(pin), pin) \ R
    OBVIOUS
  <1>3. R \in SUBSET (1..pin) /\ T \in SUBSET (1..pin) /\ R \intersect T = {}
    BY <1>1, <1>2 DEF Search!Verified
  <1>4. ~external => R \union T = 1..pin
    <2>1. ~external => Search!Proposed(pin) = 1..pin
      BY DEF Search!Proposed
    <2> QED BY <1>1, <1>2, <1>3, <2>1 DEF Search!Verified
  <1>5. PICK l : l = Search!Descending(R)
    OBVIOUS
  <1>6. PICK m : m = Search!Descending(T)
    OBVIOUS
  <1>7. Enumerates(l, R) /\ Enumerates(m, T)
    BY <1>3, <1>5, <1>6, DescendingEnumerates
  <1>8. Enumerates(l \o m, R \union T)
    BY <1>3, <1>7, JoinedEnumerates
  <1>9. Search!Ranked(pin, Search!Proposed(pin)) = l \o m
    BY <1>1, <1>2, <1>5, <1>6 DEF Search!Ranked
  <1>10. R \union T \in SUBSET (1..pin) /\ Search!Verified(1..Pinned, pin) \subseteq R \union T
    BY <1>1, <1>3
  <1> QED BY <1>4, <1>8, <1>9, <1>10 DEF ListOf

\* A page keeps what its listing was given: the first items of one list.
Listing == [at : Asking \union {"idle", "done", "refused"}, granted : BOOLEAN, pin : Nat \union {None},
            list : Seq(Nat) \union {None}, got : Seq(Nat)]

PageSound(r) ==
    /\ r \in Listing
    /\ r.at \in Asking => r.pin # None
    /\ r.got # <<>> =>
         /\ r.pin # None /\ r.list # None
         /\ ListOf(r.list, r.pin)
         /\ Len(r.got) <= Len(r.list)
         /\ \A i \in 1..Len(r.got) : r.got[i] = r.list[i]
         /\ r.at = "done" => Len(r.got) = Len(r.list)

PagesInv ==
    /\ head \in Nat /\ allowed \in BOOLEAN
    /\ DOMAIN reader = Listings
    /\ \A s \in Listings : PageSound(reader[s])

\* A page that is asked for, sent or refused has the items it had.
LEMMA SameItems ==
    ASSUME NEW r, PageSound(r), NEW q, q \in Listing, external' = external,
           q.got = r.got, q.list = r.list,
           r.pin # None => q.pin = r.pin,
           q.at \in Asking => q.pin # None,
           q.at = "done" => r.at = "done"
    PROVE  PageSound(q)'
  <1>1. \A l, pin : ListOf(l, pin)' = ListOf(l, pin)
    BY DEF ListOf, Search!Verified
  <1> QED BY <1>1 DEF PageSound

\* A page changes, and the others with the policy and the head as they may.
LEMMA PageChanges ==
    ASSUME PagesInv, NEW s \in Listings, NEW q,
           reader' = [reader EXCEPT ![s] = q], PageSound(q)', external' = external,
           head' \in Nat, allowed' \in BOOLEAN
    PROVE  PagesInv'
  <1>1. /\ DOMAIN reader' = Listings /\ reader'[s] = q
        /\ \A d \in Listings : d # s => reader'[d] = reader[d]
    BY DEF PagesInv
  <1>2. \A d \in Listings : PageSound(reader[d])
    BY DEF PagesInv
  <1>3. ASSUME NEW d \in Listings, d # s
        PROVE  PageSound(reader[d])'
    <2>1. PICK r : r = reader[d] /\ PageSound(r) /\ r \in Listing
      BY <1>2 DEF PageSound
    <2>2. PageSound(r)'
      BY <2>1, SameItems DEF PageSound
    <2> QED BY <1>1, <1>3, <2>1, <2>2
  <1> QED BY <1>1, <1>3 DEF PagesInv

\* A page answers: the next item of the list its cursor speaks of.
LEMMA PageAnswers ==
    ASSUME NEW r, PageSound(r), r.at = "embedded", NEW l, l = Search!Ranked(r.pin, Search!Proposed(r.pin)),
           r.list \in {None, l}, NEW q, external' = external,
           q = [r EXCEPT !.list = l,
                  !.got = IF Len(r.got) < Len(l) THEN Append(r.got, l[Len(r.got) + 1]) ELSE r.got,
                  !.at = IF Len(r.got) + 1 < Len(l) THEN "idle" ELSE "done"]
    PROVE  PageSound(q)'
  <1>1. r \in Listing /\ r.pin \in Nat /\ r.pin # None /\ r.got \in Seq(Nat)
    BY DEF PageSound, Listing, Asking
  <1>2. ListOf(l, r.pin)
    BY <1>1, RankedIsAList
  <1>3. l \in Seq(Nat) /\ l # None /\ Len(l) \in Nat /\ \A i \in 1..Len(l) : l[i] \in Nat
    <2>1. PICK S \in SUBSET (1..r.pin) : l \in Seq(S)
      BY <1>2 DEF ListOf, Enumerates
    <2>2. S \subseteq Nat
      BY <1>1
    <2>3. l \in Seq(Nat)
      BY <2>1, <2>2
    <2> QED BY <2>3, SearchAssumption
  <1>4. PICK n \in Nat : n = Len(r.got)
    BY <1>1
  <1>5. n <= Len(l) /\ \A i \in 1..n : r.got[i] = l[i]
    <2>1. CASE r.got = <<>>
      BY <1>3, <1>4, <2>1
    <2>2. CASE r.got # <<>>
      BY <1>4, <2>2 DEF PageSound
    <2> QED BY <2>1, <2>2
  <1>6. PICK got : got = IF n < Len(l) THEN Append(r.got, l[n + 1]) ELSE r.got
    OBVIOUS
  <1>7. /\ got \in Seq(Nat) /\ Len(got) <= Len(l) /\ Len(got) \in Nat
        /\ \A i \in 1..Len(got) : got[i] = l[i]
        /\ ~(n + 1 < Len(l)) => Len(got) = Len(l)
    <2>1. CASE n < Len(l)
      <3>1. n + 1 \in 1..Len(l) /\ l[n + 1] \in Nat
        BY <1>3, <2>1
      <3>2. got = Append(r.got, l[n + 1])
        BY <1>6, <2>1
      <3>3. /\ got \in Seq(Nat) /\ Len(got) = n + 1 /\ got[n + 1] = l[n + 1]
            /\ \A i \in 1..n : got[i] = r.got[i]
        BY <1>1, <1>4, <3>1, <3>2
      <3>4. \A i \in 1..(n + 1) : i \in 1..n \/ i = n + 1
        OBVIOUS
      <3>5. ASSUME NEW i \in 1..(n + 1)
            PROVE  got[i] = l[i]
        <4>1. CASE i \in 1..n
          BY <1>5, <3>3, <4>1
        <4>2. CASE i = n + 1
          <5>1. got[n + 1] = l[n + 1]
            BY <3>1, <3>2, <1>1, <1>4
          <5> QED BY <4>2, <5>1
        <4> QED BY <3>4, <4>1, <4>2
      <3>6. n + 1 <= Len(l) /\ (~(n + 1 < Len(l)) => n + 1 = Len(l)) /\ n + 1 \in Nat
        BY <1>3, <2>1
      <3> QED BY <3>3, <3>5, <3>6
    <2>2. CASE ~(n < Len(l))
      <3>1. got = r.got /\ n = Len(l)
        BY <1>3, <1>5, <1>6, <2>2
      <3> QED BY <1>1, <1>3, <1>4, <1>5, <3>1
    <2> QED BY <2>1, <2>2
  <1>8. PICK to \in {"idle", "done"} : to = IF n + 1 < Len(l) THEN "idle" ELSE "done"
    OBVIOUS
  <1>9. q = [r EXCEPT !.list = l, !.got = got, !.at = to]
    BY <1>4, <1>6, <1>8
  <1>10. q \in Listing /\ q.list = l /\ q.got = got /\ q.at = to /\ q.pin = r.pin
    BY <1>1, <1>3, <1>7, <1>9 DEF Listing
  <1>11. ListOf(l, r.pin)'
    BY <1>2 DEF ListOf, Search!Verified
  <1> QED BY <1>1, <1>3, <1>7, <1>8, <1>10, <1>11 DEF PageSound, Asking

\* Every step on one listing.
LEMMA PagesStep ==
    ASSUME PagesInv, NEW s \in Listings,
           \/ Search!Ask(s) \/ Search!Admit(s) \/ Search!Send(s)
           \/ Search!Receive(s) \/ Search!Answer(s) \/ Search!AbortPage(s)
    PROVE  PagesInv'
  <1>1. PageSound(reader[s]) /\ reader[s] \in Listing /\ head \in Nat /\ allowed \in BOOLEAN
    BY DEF PagesInv, PageSound
  <1>2. UNCHANGED <<external, head, allowed>>
    BY DEF Search!Ask, Search!Admit, Search!Send, Search!Receive, Search!Step, Search!Answer,
           Search!AbortPage, Search!serving
  <1>3. CASE Search!Ask(s)
    <2>1. PICK pin : pin = IF reader[s].pin = None THEN head ELSE reader[s].pin
      OBVIOUS
    <2>2. PICK q : q = [reader[s] EXCEPT !.at = "asked", !.granted = allowed, !.pin = pin]
      OBVIOUS
    <2>3. reader' = [reader EXCEPT ![s] = q]
      BY <1>3, <2>1, <2>2 DEF Search!Ask
    <2>4. pin \in Nat /\ pin # None
      BY <1>1, <2>1, LedgerAssumption DEF Listing
    <2>5. /\ q \in Listing /\ q.at = "asked" /\ q.pin = pin /\ q.got = reader[s].got
          /\ q.list = reader[s].list
      BY <1>1, <2>2, <2>4 DEF Listing, Asking
    <2>6. PageSound(q)'
      BY <1>1, <1>2, <2>1, <2>4, <2>5, SameItems
    <2> QED BY <1>1, <1>2, <2>3, <2>6, PageChanges
  <1>4. ASSUME NEW to \in {"idle", "admitted", "sent", "embedded", "refused"},
               to \in Asking => reader[s].at \in Asking,
               reader' = [reader EXCEPT ![s].at = to]
        PROVE  PagesInv'
    <2>1. PICK q : q = [reader[s] EXCEPT !.at = to]
      OBVIOUS
    <2>2. reader' = [reader EXCEPT ![s] = q]
      BY <1>4, <2>1
    <2>3. /\ q \in Listing /\ q.at = to /\ q.pin = reader[s].pin /\ q.got = reader[s].got
          /\ q.list = reader[s].list
      BY <1>1, <2>1 DEF Listing, Asking
    <2>4. PageSound(q)'
      BY <1>1, <1>2, <1>4, <2>3, SameItems DEF PageSound
    <2> QED BY <1>1, <1>2, <2>2, <2>4, PageChanges
  <1>5. CASE Search!Admit(s) \/ Search!Send(s) \/ Search!Receive(s)
    BY <1>4, <1>5 DEF Search!Admit, Search!Send, Search!Receive, Search!Step, Search!FailPage, Asking
  <1>6. CASE Search!AbortPage(s)
    BY <1>4, <1>6 DEF Search!AbortPage, Search!FailPage, Asking
  <1>7. CASE Search!Answer(s)
    <2>1. PICK r : r = reader[s]
      OBVIOUS
    <2>2. PICK l : l = Search!Ranked(r.pin, Search!Proposed(r.pin))
      OBVIOUS
    <2>3. PICK q : q = [r EXCEPT !.list = l,
                  !.got = IF Len(r.got) < Len(l) THEN Append(r.got, l[Len(r.got) + 1]) ELSE r.got,
                  !.at = IF Len(r.got) + 1 < Len(l) THEN "idle" ELSE "done"]
      OBVIOUS
    <2>4. /\ r.at = "embedded"
          /\ \/ reader' = [reader EXCEPT ![s].at = "refused"]
             \/ r.list \in {None, l} /\ reader' = [reader EXCEPT ![s] = q]
      <3> DEFINE got == IF Len(r.got) < Len(l) THEN Append(r.got, l[Len(r.got) + 1]) ELSE r.got
                 to == IF Len(r.got) + 1 < Len(l) THEN "idle" ELSE "done"
      <3>1. CASE ~Search!SameList(s, l)
        BY <1>7, <2>1, <2>2, <3>1 DEF Search!Answer
      <3>2. CASE Search!SameList(s, l)
        <4>1. reader' = [reader EXCEPT ![s].list = l, ![s].got = got, ![s].at = to]
          BY <1>7, <2>1, <2>2, <3>2 DEF Search!Answer
        <4>2. r.at = "embedded" /\ r.list \in {None, l}
          BY <1>7, <2>1, <3>2 DEF Search!Answer, Search!SameList
        <4>3. q = [r EXCEPT !.list = l, !.got = got, !.at = to]
          BY <2>3
        <4> HIDE DEF got, to
        <4>4. reader' = [reader EXCEPT ![s] = q]
          BY <2>1, <4>1, <4>3
        <4> QED BY <4>2, <4>4
      <3> QED BY <3>1, <3>2
    <2>5. CASE reader' = [reader EXCEPT ![s].at = "refused"]
      BY <1>4, <2>5 DEF Asking
    <2>6. CASE r.list \in {None, l} /\ reader' = [reader EXCEPT ![s] = q]
      <3>1. PageSound(q)'
        BY <1>1, <1>2, <2>1, <2>2, <2>3, <2>4, <2>6, PageAnswers
      <3> QED BY <1>1, <1>2, <2>6, <3>1, PageChanges
    <2> QED BY <2>4, <2>5, <2>6
  <1> QED BY <1>3, <1>5, <1>6, <1>7

\* Every step of the search, and of anything else.
LEMMA PagesNext ==
    ASSUME PagesInv, [Next]_vars
    PROVE  PagesInv'
  <1>1. CASE UNCHANGED <<reader, external>> /\ head' \in Nat /\ allowed' \in BOOLEAN
    <2>1. ASSUME NEW s \in Listings
          PROVE  PageSound(reader[s])'
      <3>1. PICK r : r = reader[s] /\ PageSound(r) /\ r \in Listing
        BY DEF PagesInv, PageSound
      <3>2. PageSound(r)'
        BY <1>1, <3>1, SameItems DEF PageSound
      <3> QED BY <1>1, <3>1, <3>2
    <2> QED BY <1>1, <2>1 DEF PagesInv
  <1>2. head \in Nat /\ allowed \in BOOLEAN
    BY DEF PagesInv
  <1>3. CASE Search!Next
    <2>1. CASE \E r \in Rebuilds : \/ Search!Rebuild(r) \/ Search!Scanned(r) \/ Search!Replace(r)
                                   \/ Search!AnswerRebuild(r) \/ Search!AbortRebuild(r)
      BY <1>1, <1>2, <2>1 DEF Search!Rebuild, Search!Scanned, Search!Replace, Search!AnswerRebuild,
                        Search!AbortRebuild, Search!serving
    <2>2. CASE Search!Publish \/ Search!ChangePolicy
      <3>1. UNCHANGED <<reader, external>> /\ head' \in {head, head + 1} /\ allowed' \in {allowed, ~allowed}
        BY <2>2 DEF Search!Publish, Search!ChangePolicy
      <3>2. head' \in Nat
        BY <1>2, <3>1
      <3>3. (~allowed) \in BOOLEAN
        OBVIOUS
      <3>4. allowed' \in BOOLEAN
        BY <1>2, <3>1, <3>3
      <3> QED BY <1>1, <3>1, <3>2, <3>4
    <2>3. CASE Search!Close
      <3>1. /\ reader' = [s \in Listings |-> IF s \in Search!Active THEN [reader[s] EXCEPT !.at = "idle"] ELSE reader[s]]
            /\ UNCHANGED <<head, external, allowed>>
        BY <2>3 DEF Search!Close
      <3>2. ASSUME NEW s \in Listings
            PROVE  PageSound(reader[s])'
        <4>1. PICK r : r = reader[s] /\ PageSound(r) /\ r \in Listing
          BY DEF PagesInv, PageSound
        <4>2. PICK q \in {r, [r EXCEPT !.at = "idle"]} : reader'[s] = q
          BY <3>1, <4>1
        <4>3. /\ q \in Listing /\ q.at \in {r.at, "idle"} /\ q.pin = r.pin /\ q.got = r.got
              /\ q.list = r.list
          BY <4>1, <4>2 DEF Listing, Asking
        <4>4. PageSound(q)'
          BY <3>1, <4>1, <4>3, SameItems DEF PageSound, Asking
        <4> QED BY <4>2, <4>4
      <3> QED BY <1>2, <3>1, <3>2 DEF PagesInv
    <2> QED BY <1>3, <2>1, <2>2, <2>3, PagesStep DEF Search!Next
  <1> QED BY <1>1, <1>2, <1>3 DEF Next, vars, search

\* What the invariant says of pages.
LEMMA PagesSound == PagesInv => Search!PagesOfOneList
  <1> SUFFICES ASSUME PagesInv, NEW s \in Listings, reader[s].got # <<>>
      PROVE  LET r == reader[s] IN
             /\ Search!IsPrefix(r.got, r.list) /\ Search!IsInjective(r.got)
             /\ Search!ToSet(r.list) \subseteq 1..r.pin
             /\ Search!Verified(1..Pinned, r.pin) \subseteq Search!ToSet(r.list)
             /\ r.at = "done" => r.got = r.list
             /\ ~external => Search!ToSet(r.list) = 1..r.pin
    BY DEF Search!PagesOfOneList
  <1>1. PICK r : r = reader[s]
    OBVIOUS
  <1>2. PageSound(r) /\ r.got # <<>> /\ r.got \in Seq(Nat) /\ r.list \in Seq(Nat)
    BY <1>1 DEF PagesInv, PageSound, Listing
  <1>3. PICK S \in SUBSET (1..r.pin) :
          /\ Enumerates(r.list, S)
          /\ Search!Verified(1..Pinned, r.pin) \subseteq S
          /\ ~external => S = 1..r.pin
    BY <1>2 DEF PageSound, ListOf
  <1>4. PICK l \in Seq(Nat) : l = r.list
    BY <1>2
  <1>5. PICK g \in Seq(Nat) : g = r.got
    BY <1>2
  <1>6. Len(g) <= Len(l) /\ (\A i \in 1..Len(g) : g[i] = l[i]) /\ (r.at = "done" => Len(g) = Len(l))
    BY <1>2, <1>4, <1>5 DEF PageSound
  <1>7. Search!IsPrefix(g, l)
    <2>1. Len(g) \in Nat /\ Len(l) \in Nat /\ 1..Len(g) \subseteq 1..Len(l)
      BY <1>6
    <2>2. SubSeq(g, 1, Len(g)) = g
      OBVIOUS
    <2>3. /\ SubSeq(l, 1, Len(g)) \in Seq(Nat) /\ Len(SubSeq(l, 1, Len(g))) = Len(g)
          /\ \A i \in 1..Len(g) : SubSeq(l, 1, Len(g))[i] = l[i]
      BY <1>6, <2>1, SubSeqProperties
    <2>4. SubSeq(l, 1, Len(g)) = g
      BY <1>6, <2>3, SeqEqual
    <2> QED BY <1>6, <2>2, <2>4, LibraryOfSearch
  <1>8. Search!IsInjective(g)
    <2>1. \A i, j \in 1..Len(g) : g[i] = g[j] => i = j
      <3>1. \A i, j \in 1..Len(l) : l[i] = l[j] => i = j
        BY <1>3, <1>4 DEF Enumerates
      <3>2. \A i \in 1..Len(g) : i \in 1..Len(l)
        BY <1>6
      <3> QED BY <1>6, <3>1, <3>2
    <2>2. DOMAIN g = 1..Len(g)
      OBVIOUS
    <2> QED BY <2>1, <2>2, LibraryOfSearch
  <1>9. Search!ToSet(l) = S
    <2>1. DOMAIN l = 1..Len(l)
      OBVIOUS
    <2>2. Search!ToSet(l) = {l[i] : i \in 1..Len(l)}
      BY <2>1, LibraryOfSearch
    <2>3. \A i \in 1..Len(l) : l[i] \in S
      BY <1>3, <1>4 DEF Enumerates
    <2>4. \A x \in S : \E i \in 1..Len(l) : l[i] = x
      BY <1>3, <1>4 DEF Enumerates
    <2> QED BY <2>2, <2>3, <2>4
  <1>10. r.at = "done" => g = l
    BY <1>6
  <1> QED BY <1>1, <1>3, <1>4, <1>5, <1>7, <1>8, <1>9, <1>10

\* The pages of a listing are of one list of its pinned checkpoint, whatever the
\* index held at each of them (vectorSearch, verifyAndRankCandidates); nothing is
\* sent against the policy (EmbeddingRuntime.run), and calls on one connection of
\* the index keep apart (exclusive).
THEOREM SearchIsHonest == Spec => SearchHonest
  <1>1. Init => PagesInv
    <2> SUFFICES ASSUME Init
                 PROVE  PagesInv
      OBVIOUS
    <2>1. PICK q : q = [at |-> "idle", granted |-> FALSE, pin |-> None, list |-> None, got |-> <<>>]
      OBVIOUS
    <2>2. reader = [s \in Listings |-> q] /\ head = 0 /\ allowed = TRUE
      BY <2>1 DEF Init, Search!Init
    <2>3. q \in Listing /\ q.at = "idle" /\ q.got = <<>>
      BY <2>1 DEF Listing
    <2>4. PageSound(q)
      BY <2>3 DEF PageSound, Asking
    <2> QED BY <2>2, <2>4 DEF PagesInv
  <1>2. PagesInv /\ [Next]_vars => PagesInv'
    BY PagesNext
  <1> QED BY <1>1, <1>2, PagesSound, CallsKeptApart, NothingSentAgainstPolicy, PTL
       DEF Spec, SearchHonest, Search!SearchHonest

------------------------------------------------------------------------------
(* The adapter of the ledger. *)

CallStates == {"idle", "queued", "gate", "transport", "refresh", "conclude", "done"}
Outcomes == {"ok", "behind", "invalid"}
Answers == Outcomes \union {"committed", "refused", "closed", "busy", "unavailable", "failed", "observed",
                            "pending", "recovered"}
CallState == [pc : CallStates, refresh : Nat \union {None}, answer : Answers \union {None}]
Shared == [generation : Nat, previous : Nat \union {None},
           promise : Outcomes \union {"open", "abandoned"}, work : Outcomes \union {"previous", "gate"}]
ReaderState == [pc : {"idle", "waiting", "done"}, refresh : Nat \union {None}]
SyncState == [asked : Nat, tip : Nat \union {None}, next : Nat \union {None}, mute : BOOLEAN]
ClosingState == [step : {"open", "queue", "gate", "refresh", "last", "done"}, epoch : Nat,
                 after : Commands \union Nat \union {None}]

LedgerShapes ==
    /\ height \in 1..MaxHeight /\ projected \in 0..height /\ available \in BOOLEAN
    /\ epoch \in Ledger!Epochs
    /\ line \in [Ledger!Epochs -> Seq(Commands)] /\ gate \in [Ledger!Epochs -> Seq(Ledger!Owners)]
    /\ generation \in Nat /\ written \in 0..height
    /\ calls \in [Commands -> CallState] /\ refreshes \in Seq(Shared)
    /\ inFlight \in Nat \union {None}
    /\ readers \in [Readers -> ReaderState]
    /\ sync \in [Ledger!Owners -> SyncState \union {None}]
    /\ closing \in ClosingState
    /\ floor \in [Commands \union Readers -> 0..height]

\* pendingCommands, and what a command has before and while it waits for a refresh.
CommandsSound ==
    /\ pending = Cardinality({c \in Commands : calls[c].pc \notin {"idle", "done"}})
    /\ pending <= MaxPending
    /\ \A c \in Commands :
          /\ calls[c].pc \in {"idle", "queued", "gate", "transport"} => calls[c].refresh = None
          /\ calls[c].pc = "refresh" => calls[c].refresh \in DOMAIN refreshes

ReadersSound ==
    \A d \in Readers :
        /\ readers[d].refresh \in DOMAIN refreshes \union {None}
        /\ readers[d].pc = "idle" => readers[d].refresh = None
        /\ readers[d].pc = "waiting" => readers[d].refresh \in DOMAIN refreshes

\* Each caller starts at most one refresh.
RefreshesSound ==
    /\ \A r \in DOMAIN refreshes :
          /\ refreshes[r].generation <= generation
          /\ refreshes[r].promise = "open" => refreshes[r].work \in {"previous", "gate"}
    /\ inFlight # None => inFlight \in DOMAIN refreshes /\ refreshes[inFlight].promise = "open"
    /\ Len(refreshes) <= Cardinality({c \in Commands : calls[c].refresh # None})
                         + Cardinality({d \in Readers : readers[d].refresh # None})

\* Whoever catches up is at work, and was told of a tip that the peer had.
SyncSound ==
    \A p \in Ledger!Owners : sync[p] # None =>
        /\ Ledger!Synchronizes(p)
        /\ sync[p].asked <= height
        /\ sync[p].tip # None =>
             /\ sync[p].tip \in sync[p].asked..height
             /\ sync[p].next \in Nat /\ sync[p].next < sync[p].tip

Waiting(r) ==
    {c \in Commands : calls[c].pc = "refresh" /\ calls[c].refresh = r}
    \union {d \in Readers : readers[d].pc = "waiting" /\ readers[d].refresh = r}

\* Whoever waits for a refresh joined it before it asked for the tip, or after
\* the last write it must see.
WritesSound ==
    \A r \in DOMAIN refreshes :
        /\ sync[r] # None /\ refreshes[r].generation = generation => written <= sync[r].asked
        /\ \A w \in Waiting(r) :
             /\ sync[r] # None => floor[w] <= sync[r].asked
             /\ refreshes[r].promise = "ok" => floor[w] <= projected

LaterChains == \A e \in Ledger!Epochs : e > epoch => line[e] = <<>> /\ gate[e] = <<>>

(* While no refresh was given up. *)

FirstLine ==
    \A c \in Commands :
        /\ calls[c].pc \notin {"idle", "done"} => \E i \in DOMAIN line[0] : line[0][i] = c
        /\ calls[c].pc \notin {"idle", "queued", "done"} => Ledger!Runs(line[0], c)

UsesGate(p) ==
    \/ p \in Commands /\ calls[p].pc \in {"gate", "conclude"}
    \/ p \in DOMAIN refreshes /\ refreshes[p].work = "gate"

FirstGate ==
    /\ \A i, j \in DOMAIN gate[0] : gate[0][i] = gate[0][j] => i = j
    /\ \A i \in DOMAIN gate[0] : UsesGate(gate[0][i])
    /\ \A p \in Ledger!Owners : sync[p] # None =>
          Ledger!Runs(gate[0], p) /\ (sync[p].tip # None => sync[p].next = projected)

FirstRefreshes ==
    /\ \A r \in DOMAIN refreshes :
          /\ refreshes[r].promise # "invalid"
          /\ refreshes[r].promise = "open" <=> refreshes[r].work \in {"previous", "gate"}
          /\ refreshes[r].work = "previous" => r > 1 /\ refreshes[r].previous = r - 1
          /\ refreshes[r].work # "previous" => \A q \in 1..r - 1 : refreshes[q].promise # "open"
    /\ inFlight = None => \A r \in DOMAIN refreshes : refreshes[r].promise # "open"
    /\ inFlight # None => inFlight = Len(refreshes)
    /\ \A c \in Commands : calls[c].answer # "invalid"

FirstClosing ==
    /\ closing.epoch = 0
    /\ closing.step = "queue" /\ line[0] # <<>> => closing.after = line[0][Len(line[0])]
    /\ closing.step \notin {"open", "queue"} => line[0] = <<>>
    /\ closing.step = "refresh" => closing.after = Len(refreshes) /\ refreshes # <<>>
    /\ closing.step \in {"last", "done"} => inFlight = None

FirstEpoch == epoch = 0 => FirstLine /\ FirstGate /\ FirstRefreshes /\ FirstClosing

LedgerInv ==
    /\ LedgerShapes /\ CommandsSound /\ ReadersSound /\ RefreshesSound /\ SyncSound /\ WritesSound
    /\ LaterChains /\ FirstEpoch


\* The operators of the instance that come from the library.
LEMMA LibraryOfLedger ==
    /\ \A S : Ledger!Cardinality(S) = Cardinality(S)
    /\ \A s : Ledger!Last(s) = s[Len(s)]
    /\ \A f : Ledger!Range(f) = {f[i] : i \in DOMAIN f}
  <1>1. \A S : Ledger!Cardinality(S) = Cardinality(S)
    BY DEF Ledger!Cardinality, Cardinality
  <1> QED BY <1>1 DEF Ledger!Last, Ledger!Range

\* Refreshes are numbered, commands are not.
LEMMA OwnersAre ==
    /\ Cardinality(Commands) \in Nat /\ Cardinality(Readers) \in Nat
    /\ Ledger!RefreshIds = 1..(Cardinality(Commands) + Cardinality(Readers))
    /\ Ledger!Owners = Commands \union Ledger!RefreshIds
    /\ \A c \in Commands : c \notin Nat
    /\ None \notin Nat /\ None \notin Commands /\ None \notin Ledger!Owners
  BY LedgerAssumption, LibraryOfLedger, FS_CardinalityType DEF Ledger!RefreshIds, Ledger!Owners

\* The counter: what enters a finite set, and what leaves it.
LEMMA Counting ==
    ASSUME NEW S, IsFiniteSet(S), NEW P \in SUBSET S, NEW Q \in SUBSET S
    PROVE  /\ Cardinality(P) \in Nat
           /\ P \subseteq Q => Cardinality(P) <= Cardinality(Q)
           /\ \A c : Q = P \union {c} /\ c \notin P => Cardinality(Q) = Cardinality(P) + 1
           /\ \A c : Q = P \ {c} /\ c \in P => Cardinality(Q) = Cardinality(P) - 1
  <1>1. IsFiniteSet(P) /\ IsFiniteSet(Q)
    BY FS_Subset
  <1> QED BY <1>1, FS_CardinalityType, FS_Subset, FS_AddElement, FS_RemoveElement

\* One call changes.
Becomes(c, pc, refresh, answer) ==
    /\ calls' \in [Commands -> CallState]
    /\ calls'[c].pc = pc /\ calls'[c].refresh = refresh /\ calls'[c].answer = answer
    /\ \A d \in Commands : d # c => calls'[d] = calls[d]

\* A call that settles is counted out, leaves the line and moves nobody else
\* (the finally of serial and of submit).
LEMMA SettlesIs ==
    ASSUME calls \in [Commands -> CallState], NEW c \in Commands, NEW answer \in Answers,
           Ledger!Settles(c, answer)
    PROVE  /\ Becomes(c, "done", calls[c].refresh, answer)
           /\ pending' = pending - 1 /\ line' = Ledger!Leaves(line, c)
  <1>1. calls' = [calls EXCEPT ![c].pc = "done", ![c].answer = answer]
    BY DEF Ledger!Settles
  <1> QED BY <1>1, ZenonT(40) DEF Ledger!Settles, Ledger!CountedOut, Becomes, CallState, CallStates

\* A call that goes on within the line is neither counted nor moved in it.
LEMMA GoesToIs ==
    ASSUME calls \in [Commands -> CallState], NEW c \in Commands, NEW pc \in CallStates,
           Ledger!GoesTo(c, pc)
    PROVE  /\ Becomes(c, pc, calls[c].refresh, calls[c].answer)
           /\ UNCHANGED <<pending, line>>
  BY DEF Ledger!GoesTo, Becomes, CallState

\* Whoever is first leaves its chain; whoever joins is the last.
LEMMA LeavesIs ==
    ASSUME NEW S, NEW f \in [Ledger!Epochs -> Seq(S)], NEW p
    PROVE  /\ Ledger!Leaves(f, p) \in [Ledger!Epochs -> Seq(S)]
           /\ \A e \in Ledger!Epochs :
                 /\ ~Ledger!Runs(f[e], p) => Ledger!Leaves(f, p)[e] = f[e]
                 /\ Ledger!Runs(f[e], p) =>
                      /\ Ledger!Leaves(f, p)[e] = Tail(f[e]) /\ f[e] # <<>> /\ f[e][1] = p
                 /\ f[e] = <<>> => Ledger!Leaves(f, p)[e] = <<>>
  BY DEF Ledger!Leaves, Ledger!Runs

\* Leaving the line or the gate takes the first off its chain and nobody else.
LEMMA ChainsLeave ==
    ASSUME LedgerShapes, NEW p
    PROVE  /\ Ledger!Leaves(line, p) \in [Ledger!Epochs -> Seq(Commands)]
           /\ Ledger!Leaves(gate, p) \in [Ledger!Epochs -> Seq(Ledger!Owners)]
           /\ \A e \in Ledger!Epochs :
                 /\ line[e] = <<>> => Ledger!Leaves(line, p)[e] = <<>>
                 /\ gate[e] = <<>> => Ledger!Leaves(gate, p)[e] = <<>>
                 /\ Ledger!Runs(line[e], p) => Ledger!Leaves(line, p)[e] = Tail(line[e])
                 /\ Ledger!Runs(gate[e], p) => Ledger!Leaves(gate, p)[e] = Tail(gate[e])
  <1>1. line \in [Ledger!Epochs -> Seq(Commands)] /\ gate \in [Ledger!Epochs -> Seq(Ledger!Owners)]
    BY DEF LedgerShapes
  <1>2. /\ Ledger!Leaves(line, p) \in [Ledger!Epochs -> Seq(Commands)]
        /\ \A e \in Ledger!Epochs : line[e] = <<>> => Ledger!Leaves(line, p)[e] = <<>>
    BY <1>1, LeavesIs
  <1>3. /\ Ledger!Leaves(gate, p) \in [Ledger!Epochs -> Seq(Ledger!Owners)]
        /\ \A e \in Ledger!Epochs : gate[e] = <<>> => Ledger!Leaves(gate, p)[e] = <<>>
    <2>1. PICK S : S = Ledger!Owners
      OBVIOUS
    <2>2. gate \in [Ledger!Epochs -> Seq(S)]
      BY <1>1, <2>1
    <2> QED BY <2>1, <2>2, LeavesIs
  <1>4. \A e \in Ledger!Epochs :
          /\ Ledger!Runs(line[e], p) => Ledger!Leaves(line, p)[e] = Tail(line[e])
          /\ Ledger!Runs(gate[e], p) => Ledger!Leaves(gate, p)[e] = Tail(gate[e])
    BY DEF Ledger!Leaves
  <1> QED BY <1>2, <1>3, <1>4

\* Whoever comes to the gate is the last of it, in the epoch of the day.
LEMMA AtGateIs ==
    ASSUME LedgerShapes, NEW p \in Ledger!Owners
    PROVE  /\ Ledger!AtGate(p) \in [Ledger!Epochs -> Seq(Ledger!Owners)]
           /\ \A e \in Ledger!Epochs :
                 Ledger!AtGate(p)[e] = IF e = epoch THEN Append(gate[e], p) ELSE gate[e]
  BY DEF LedgerShapes, Ledger!AtGate

\* The first of a chain, and what remains of it.
LEMMA TailIs ==
    ASSUME NEW S, NEW s \in Seq(S), s # <<>>
    PROVE  /\ Tail(s) \in Seq(S) /\ Len(Tail(s)) = Len(s) - 1 /\ Len(s) \in Nat /\ Len(s) >= 1
           /\ DOMAIN Tail(s) = 1..(Len(s) - 1)
           /\ \A i \in 1..(Len(s) - 1) : Tail(s)[i] = s[i + 1]
           /\ Head(s) = s[1]
  OBVIOUS


\* There are no more refreshes than callers.
LEMMA RefreshesAreOwners ==
    ASSUME LedgerInv
    PROVE  /\ Len(refreshes) \in Nat /\ DOMAIN refreshes = 1..Len(refreshes)
           /\ Len(refreshes) <= Cardinality(Commands) + Cardinality(Readers)
           /\ DOMAIN refreshes \subseteq Ledger!RefreshIds /\ DOMAIN refreshes \subseteq Ledger!Owners
  <1>1. Len(refreshes) \in Nat /\ DOMAIN refreshes = 1..Len(refreshes)
    BY DEF LedgerInv, LedgerShapes
  <1>2. PICK P \in SUBSET Commands : P = {c \in Commands : calls[c].refresh # None}
    OBVIOUS
  <1>3. PICK Q \in SUBSET Readers : Q = {d \in Readers : readers[d].refresh # None}
    OBVIOUS
  <1>4. Cardinality(P) <= Cardinality(Commands) /\ Cardinality(Q) <= Cardinality(Readers)
        /\ Cardinality(P) \in Nat /\ Cardinality(Q) \in Nat
    BY Counting, LedgerAssumption
  <1>5. Len(refreshes) <= Cardinality(P) + Cardinality(Q)
    BY <1>2, <1>3 DEF LedgerInv, RefreshesSound
  <1> QED BY <1>1, <1>4, <1>5, OwnersAre

\* The fields of the refreshes.
LEMMA SharedIs ==
    ASSUME LedgerInv
    PROVE  \A r \in DOMAIN refreshes :
              /\ refreshes[r] \in Shared
              /\ refreshes[r].generation \in Nat /\ refreshes[r].generation <= generation
              /\ refreshes[r].promise \in Outcomes \union {"open", "abandoned"}
              /\ refreshes[r].work \in Outcomes \union {"previous", "gate"}
  <1>1. refreshes \in Seq(Shared)
    BY DEF LedgerInv, LedgerShapes
  <1>2. \A r \in DOMAIN refreshes : refreshes[r] \in Shared
    BY <1>1
  <1>3. \A s \in Shared : s.generation \in Nat /\ s.promise \in Outcomes \union {"open", "abandoned"}
                         /\ s.work \in Outcomes \union {"previous", "gate"}
    BY DEF Shared
  <1>4. \A r \in DOMAIN refreshes : refreshes[r].generation <= generation
    BY DEF LedgerInv, RefreshesSound
  <1> QED BY <1>2, <1>3, <1>4

\* Who is at the head of a chain of the first epoch.
LEMMA FirstOfEpoch ==
    ASSUME LedgerInv, epoch = 0
    PROVE  /\ 0 \in Ledger!Epochs /\ line[0] \in Seq(Commands) /\ gate[0] \in Seq(Ledger!Owners)
           /\ FirstLine /\ FirstGate /\ FirstRefreshes /\ FirstClosing
           /\ \A c, e : e \in Ledger!Epochs /\ Ledger!Runs(line[e], c) => e = 0
           /\ \A c, e : e \in Ledger!Epochs /\ Ledger!Runs(gate[e], c) => e = 0
  BY LedgerAssumption DEF LedgerInv, LedgerShapes, FirstEpoch, LaterChains, Ledger!Epochs, Ledger!Runs

\* A step of a command that is under way: it moves on or settles, stands where it
\* stood, joins the gate or leaves it.
Under(c, pc, answer) ==
    /\ calls[c].pc \notin {"idle", "done"}
    /\ Becomes(c, pc, calls[c].refresh, answer)
    /\ answer = "invalid" => epoch > 0
    /\ pc \in {"gate", "transport"} => calls[c].pc \in {"queued", "gate"}
    /\ calls[c].pc = "queued" => pc # "done" /\ \E e \in Ledger!Epochs : Ledger!Runs(line[e], c)
    /\ IF pc = "done" THEN pending' = pending - 1 /\ line' = Ledger!Leaves(line, c)
       ELSE UNCHANGED <<pending, line>>

GateOf(c, pc) ==
    \/ /\ calls[c].pc \notin {"gate", "conclude"} /\ pc \notin {"gate", "conclude"}
       /\ gate' = gate
    \/ /\ calls[c].pc \notin {"gate", "conclude"} /\ pc \in {"gate", "conclude"}
       /\ gate' = Ledger!AtGate(c)
    \/ /\ calls[c].pc \in {"gate", "conclude"} /\ pc \notin {"gate", "conclude"}
       /\ epoch = 0 => Ledger!Inside(c)
       /\ gate' = Ledger!Leaves(gate, c)

SyncEnds(p) == (sync' = sync /\ sync[p] = None) \/ sync' = [sync EXCEPT ![p] = None]

\* What the catching up of p may have done to the projection.
Applied(p) == projected' \in projected..height /\ (projected' # projected => sync[p] # None)

Raised == UNCHANGED <<generation, written>> \/ (generation' = generation + 1 /\ written' = height)

\* A step of a command that holds the line keeps the shapes of the state and
\* the chains of later epochs empty.
LEMMA UnderShapes ==
    ASSUME LedgerInv, NEW c \in Commands, NEW pc \in CallStates, NEW answer,
           Under(c, pc, answer), GateOf(c, pc), SyncEnds(c), Applied(c), Raised, available' \in BOOLEAN,
           UNCHANGED <<height, refreshes, inFlight, readers, epoch, closing, floor>>
    PROVE  LedgerShapes' /\ LaterChains'
  <1>1. c \in Ledger!Owners
    BY OwnersAre
  <1>2. /\ line' \in [Ledger!Epochs -> Seq(Commands)]
        /\ \A e \in Ledger!Epochs : line[e] = <<>> => line'[e] = <<>>
    BY ChainsLeave, SMTT(40) DEF Under, LedgerInv, LedgerShapes
  <1>3. /\ gate' \in [Ledger!Epochs -> Seq(Ledger!Owners)]
        /\ \A e \in Ledger!Epochs : e # epoch /\ gate[e] = <<>> => gate'[e] = <<>>
    <2>1. LedgerShapes
      BY DEF LedgerInv
    <2>2. gate \in [Ledger!Epochs -> Seq(Ledger!Owners)]
      BY <2>1 DEF LedgerShapes
    <2> QED BY <1>1, <2>1, <2>2, ChainsLeave, AtGateIs DEF GateOf
  <1>4. sync' \in [Ledger!Owners -> SyncState \union {None}]
    BY DEF SyncEnds, LedgerInv, LedgerShapes
  <1>5. generation' \in Nat /\ written' \in 0..height' /\ projected' \in 0..height'
    BY DEF Raised, Applied, LedgerInv, LedgerShapes
  <1>6. LedgerShapes'
    BY <1>2, <1>3, <1>4, <1>5 DEF Under, Becomes, LedgerInv, LedgerShapes
  <1>7. LaterChains'
    BY <1>2, <1>3 DEF LedgerInv, LedgerShapes, LaterChains, Ledger!Epochs
  <1> QED BY <1>6, <1>7

\* A step of a command that holds the line keeps the count of the pending
\* calls, and the refreshes as they were.
LEMMA UnderCounts ==
    ASSUME LedgerInv, NEW c \in Commands, NEW pc \in CallStates \ {"idle", "queued", "refresh"}, NEW answer,
           Under(c, pc, answer), UNCHANGED <<refreshes, inFlight, readers>>, generation' \in {generation, generation + 1}
    PROVE  CommandsSound' /\ ReadersSound' /\ RefreshesSound'
  <1>1. PICK W \in SUBSET Commands : W = {d \in Commands : calls[d].pc \notin {"idle", "done"}}
    OBVIOUS
  <1>2. PICK U \in SUBSET Commands : U = {d \in Commands : calls'[d].pc \notin {"idle", "done"}}
    OBVIOUS
  <1>3. c \in W /\ IF pc = "done" THEN U = W \ {c} ELSE U = W
    BY <1>1, <1>2 DEF Under, Becomes
  <1>4. pending' = Cardinality(U) /\ pending' <= MaxPending
    <2>1. pending = Cardinality(W) /\ pending <= MaxPending
      BY <1>1 DEF LedgerInv, CommandsSound
    <2>2. Cardinality(W) \in Nat /\ MaxPending \in Nat
          /\ (U = W \ {c} => Cardinality(U) = Cardinality(W) - 1)
      BY <1>3, Counting, LedgerAssumption
    <2> QED BY <1>3, <2>1, <2>2 DEF Under
  <1>5. \A d \in Commands : calls'[d].refresh = calls[d].refresh
    BY DEF Under, Becomes
  <1>6. CommandsSound'
    <2>1. ASSUME NEW d \in Commands
          PROVE  /\ calls'[d].pc \in {"idle", "queued", "gate", "transport"} => calls'[d].refresh = None
                 /\ calls'[d].pc = "refresh" => calls'[d].refresh \in DOMAIN refreshes
      BY <1>5 DEF Under, Becomes, LedgerInv, CommandsSound
    <2> QED BY <1>2, <1>4, <2>1 DEF CommandsSound
  <1>7. ReadersSound'
    BY DEF LedgerInv, ReadersSound
  <1>8. {d \in Commands : calls'[d].refresh # None} = {d \in Commands : calls[d].refresh # None}
    BY <1>5
  <1>9. RefreshesSound'
    <2>1. generation \in Nat /\ generation' \in Nat /\ generation <= generation'
      BY DEF LedgerInv, LedgerShapes
    <2>2. \A r \in DOMAIN refreshes : refreshes[r].generation <= generation'
      BY <2>1, SharedIs
    <2> QED BY <1>8, <2>2 DEF LedgerInv, RefreshesSound
  <1> QED BY <1>6, <1>7, <1>9

\* A step of a command that holds the line takes no catching up from anybody
\* else, and no tip that a refresh was asked for is forgotten.
LEMMA UnderSync ==
    ASSUME LedgerInv, NEW c \in Commands, NEW pc \in CallStates \ {"idle", "queued", "refresh"}, NEW answer,
           Under(c, pc, answer), SyncEnds(c), Applied(c), Raised,
           UNCHANGED <<height, refreshes, readers, floor>>
    PROVE  SyncSound' /\ WritesSound'
  <1>1. \A p \in Ledger!Owners : sync'[p] # None => p # c /\ sync'[p] = sync[p]
    BY DEF SyncEnds, LedgerInv, LedgerShapes
  <1>2. SyncSound'
    <2>1. \A p \in Ledger!Owners : p # c => Ledger!Synchronizes(p)' = Ledger!Synchronizes(p)
      BY DEF Ledger!Synchronizes, Under, Becomes
    <2> QED BY <1>1, <2>1 DEF LedgerInv, SyncSound
  <1>3. \A r \in DOMAIN refreshes : r \in Ledger!Owners /\ refreshes[r].generation <= generation
                                    /\ refreshes[r].generation \in Nat /\ Waiting(r)' \subseteq Waiting(r)
    <2>1. ASSUME NEW r \in DOMAIN refreshes
          PROVE  Waiting(r)' \subseteq Waiting(r)
      BY DEF Waiting, Under, Becomes
    <2>2. ASSUME NEW r \in DOMAIN refreshes
          PROVE  refreshes[r].generation <= generation /\ refreshes[r].generation \in Nat
      BY SharedIs
    <2>3. DOMAIN refreshes \subseteq Ledger!Owners
      BY RefreshesAreOwners
    <2> QED BY <2>1, <2>2, <2>3
  <1>4. projected' \in Nat /\ projected \in Nat /\ projected' >= projected /\ height \in Nat
    BY DEF Applied, LedgerInv, LedgerShapes
  <1>5. \A r \in DOMAIN refreshes : \A w \in Waiting(r) : floor[w] \in Nat
    BY DEF Waiting, LedgerInv, LedgerShapes
  <1>6. generation \in Nat /\ (UNCHANGED <<generation, written>> \/ generation' = generation + 1)
    BY DEF Raised, LedgerInv, LedgerShapes
  <1>7. ASSUME NEW r \in DOMAIN refreshes
        PROVE  /\ sync'[r] # None /\ refreshes[r].generation = generation' => written' <= sync'[r].asked
               /\ \A w \in Waiting(r)' :
                    /\ sync'[r] # None => floor[w] <= sync'[r].asked
                    /\ refreshes[r].promise = "ok" => floor[w] <= projected'
    BY <1>1, <1>3, <1>4, <1>5, <1>6 DEF LedgerInv, WritesSound
  <1>8. WritesSound'
    BY <1>7 DEF WritesSound
  <1> QED BY <1>2, <1>8

\* What a command does to the chains of the first epoch.
LEMMA UnderLine ==
    ASSUME LedgerInv, epoch = 0, NEW c \in Commands, NEW pc \in CallStates \ {"idle", "queued"}, NEW answer,
           Under(c, pc, answer), UNCHANGED <<closing, inFlight, refreshes>>
    PROVE  FirstLine' /\ FirstClosing'
  <1>1. /\ line[0] \in Seq(Commands) /\ FirstLine /\ FirstClosing /\ 0 \in Ledger!Epochs
        /\ Ledger!Runs(line[0], c)
    BY FirstOfEpoch DEF Under, FirstLine, LedgerInv, LedgerShapes
  <1>2. line[0] # <<>> /\ line[0][1] = c
    BY <1>1 DEF Ledger!Runs
  <1>3. \A d \in Commands : d # c => calls'[d] = calls[d] /\ ~Ledger!Runs(line[0], d)
    BY <1>1, <1>2 DEF Under, Becomes, Ledger!Runs
  <1>4. calls'[c].pc = pc
    BY DEF Under, Becomes
  <1>5. closing.step \in {"open", "queue"}
    BY <1>1, <1>2 DEF FirstClosing, LedgerInv, LedgerShapes, ClosingState
  <1>6. CASE pc # "done"
    <2>1. line' = line
      BY <1>6 DEF Under
    <2>2. c = line[0][1] /\ 1 \in DOMAIN line[0]
      BY <1>1, <1>2
    <2>3. FirstLine'
      <3>1. ASSUME NEW d \in Commands
            PROVE  /\ calls'[d].pc \notin {"idle", "done"} => \E i \in DOMAIN line[0] : line[0][i] = d
                   /\ calls'[d].pc \notin {"idle", "queued", "done"} => Ledger!Runs(line[0], d)
        BY <1>1, <1>3, <2>2 DEF FirstLine
      <3> QED BY <2>1, <3>1 DEF FirstLine, Ledger!Runs
    <2> QED BY <1>1, <2>1, <2>3 DEF FirstClosing
  <1>7. CASE pc = "done"
    <2>1. line' = Ledger!Leaves(line, c)
      BY <1>7 DEF Under
    <2>2. line'[0] = Tail(line[0])
      BY <1>1, <2>1, ChainsLeave DEF LedgerInv
    <2>3. PICK s \in Seq(Commands) : s = line[0]
      BY <1>1
    <2>4. s # <<>> /\ s[1] = c /\ line'[0] = Tail(s)
      BY <1>2, <2>2, <2>3
    <2>5. /\ Len(s) \in Nat /\ Len(s) >= 1 /\ DOMAIN s = 1..Len(s)
          /\ Tail(s) \in Seq(Commands) /\ Len(Tail(s)) = Len(s) - 1
          /\ DOMAIN Tail(s) = 1..(Len(s) - 1) /\ \A i \in 1..(Len(s) - 1) : Tail(s)[i] = s[i + 1]
      BY <2>4, TailIs
    <2>6. \A d \in Commands : (\E i \in DOMAIN s : s[i] = d) /\ d # c =>
                                 \E i \in DOMAIN Tail(s) : Tail(s)[i] = d
      <3>1. ASSUME NEW d \in Commands, NEW i \in DOMAIN s, s[i] = d, d # c
            PROVE  i - 1 \in DOMAIN Tail(s) /\ Tail(s)[i - 1] = d
        BY <2>4, <2>5, <3>1
      <3> QED BY <3>1
    <2>7. FirstLine'
      <3>1. ASSUME NEW d \in Commands
            PROVE  /\ calls'[d].pc \notin {"idle", "done"} => \E i \in DOMAIN Tail(s) : Tail(s)[i] = d
                   /\ calls'[d].pc \in {"idle", "queued", "done"}
        BY <1>1, <1>3, <1>4, <1>7, <2>3, <2>6 DEF FirstLine, LedgerInv, LedgerShapes, CallState, CallStates
      <3> QED BY <2>4, <3>1 DEF FirstLine
    <2>8. closing.step = "queue" /\ Tail(s) # <<>> => closing.after = Tail(s)[Len(Tail(s))]
      <3>1. closing.step = "queue" => closing.after = s[Len(s)]
        BY <1>1, <1>2, <2>3 DEF FirstClosing
      <3>2. Tail(s) # <<>> => Len(s) - 1 \in 1..(Len(s) - 1)
        BY <2>5
      <3> QED BY <2>5, <3>1, <3>2
    <2> QED BY <1>1, <1>5, <2>4, <2>7, <2>8 DEF FirstClosing
  <1> QED BY <1>6, <1>7

\* Whoever is in the gate goes on, leaves it, or joins it.
LEMMA GateStays ==
    ASSUME LedgerInv, epoch = 0, gate' = gate, UNCHANGED <<sync, projected>>,
           \A p : UsesGate(p) => UsesGate(p)'
    PROVE  FirstGate'
  <1>1. FirstGate
    BY FirstOfEpoch
  <1>2. \A i \in DOMAIN gate[0] : UsesGate(gate[0][i])'
    BY <1>1 DEF FirstGate
  <1>3. \A p \in Ledger!Owners : sync'[p] # None =>
          Ledger!Runs(gate'[0], p) /\ (sync'[p].tip # None => sync'[p].next = projected')
    BY <1>1 DEF FirstGate
  <1> QED BY <1>1, <1>2, <1>3 DEF FirstGate

\* While no refresh was abandoned: whoever leaves the gate was the first of it,
\* and the others keep their order.
LEMMA GateLeft ==
    ASSUME LedgerInv, epoch = 0, NEW p \in Ledger!Owners, Ledger!Runs(gate[0], p),
           gate' = Ledger!Leaves(gate, p), sync' = [sync EXCEPT ![p] = None] \/ (sync' = sync /\ sync[p] = None),
           \A q : q # p /\ UsesGate(q) => UsesGate(q)'
    PROVE  FirstGate'
  <1>1. PICK g \in Seq(Ledger!Owners) : g = gate[0]
    BY FirstOfEpoch
  <1>2. FirstGate /\ 0 \in Ledger!Epochs
    BY FirstOfEpoch
  <1>3. gate'[0] = Tail(g) /\ g # <<>> /\ g[1] = p
    <2>1. gate'[0] = Tail(gate[0])
      BY <1>2, ChainsLeave DEF LedgerInv
    <2> QED BY <1>1, <2>1 DEF Ledger!Runs
  <1>4. /\ Len(g) \in Nat /\ Len(g) >= 1 /\ DOMAIN g = 1..Len(g)
        /\ DOMAIN Tail(g) = 1..(Len(g) - 1) /\ \A i \in 1..(Len(g) - 1) : Tail(g)[i] = g[i + 1]
    <2>1. PICK S : S = Ledger!Owners
      OBVIOUS
    <2> QED BY <1>3, <2>1, TailIs
  <1>5. /\ \A i, j \in DOMAIN g : g[i] = g[j] => i = j
        /\ \A i \in DOMAIN g : UsesGate(g[i])
        /\ \A q \in Ledger!Owners : sync[q] # None => g # <<>> /\ g[1] = q
    BY <1>1, <1>2 DEF FirstGate, Ledger!Runs
  <1>6. \A q \in Ledger!Owners : sync'[q] = None
    BY <1>3, <1>5 DEF LedgerInv, LedgerShapes
  <1>7. \A i \in DOMAIN Tail(g) : Tail(g)[i] # p
    <2>1. ASSUME NEW i \in DOMAIN Tail(g)
          PROVE  Tail(g)[i] = g[i + 1] /\ i + 1 \in DOMAIN g /\ 1 \in DOMAIN g /\ i + 1 # 1
      BY <1>4
    <2> QED BY <1>3, <1>5, <2>1
  <1>8. \A i \in DOMAIN Tail(g) : UsesGate(Tail(g)[i])'
    BY <1>4, <1>5, <1>7
  <1>9. \A i, j \in DOMAIN Tail(g) : Tail(g)[i] = Tail(g)[j] => i = j
    BY <1>4, <1>5
  <1> QED BY <1>3, <1>6, <1>8, <1>9 DEF FirstGate

\* While no refresh was abandoned: whoever enters the gate stands there once.
LEMMA GateJoined ==
    ASSUME LedgerInv, epoch = 0, NEW p \in Ledger!Owners, gate' = Ledger!AtGate(p),
           ~UsesGate(p), UsesGate(p)', \A q : UsesGate(q) => UsesGate(q)',
           UNCHANGED <<sync, projected>>
    PROVE  FirstGate'
  <1>1. PICK g \in Seq(Ledger!Owners) : g = gate[0]
    BY FirstOfEpoch
  <1>2. FirstGate /\ 0 \in Ledger!Epochs
    BY FirstOfEpoch
  <1>3. gate'[0] = Append(g, p)
    BY <1>1, <1>2, AtGateIs DEF LedgerInv
  <1>4. /\ Len(g) \in Nat /\ DOMAIN g = 1..Len(g) /\ DOMAIN Append(g, p) = 1..(Len(g) + 1)
        /\ Append(g, p)[Len(g) + 1] = p /\ \A i \in 1..Len(g) : Append(g, p)[i] = g[i]
    OBVIOUS
  <1>5. /\ \A i, j \in DOMAIN g : g[i] = g[j] => i = j
        /\ \A i \in DOMAIN g : UsesGate(g[i])
        /\ \A q \in Ledger!Owners : sync[q] # None =>
              g # <<>> /\ Head(g) = q /\ (sync[q].tip # None => sync[q].next = projected)
    BY <1>1, <1>2 DEF FirstGate, Ledger!Runs
  <1>6. \A i \in DOMAIN g : g[i] # p
    BY <1>5
  <1>7. \A i \in DOMAIN Append(g, p) : UsesGate(Append(g, p)[i])'
    BY <1>4, <1>5
  <1>8. \A i, j \in DOMAIN Append(g, p) : Append(g, p)[i] = Append(g, p)[j] => i = j
    BY <1>4, <1>5, <1>6
  <1>9. g # <<>> => Append(g, p) # <<>> /\ Head(Append(g, p)) = Head(g)
    OBVIOUS
  <1>10. \A q \in Ledger!Owners : sync'[q] # None =>
           /\ Append(g, p) # <<>> /\ Head(Append(g, p)) = q
           /\ sync'[q].tip # None => sync'[q].next = projected'
    BY <1>5, <1>9
  <1> QED BY <1>3, <1>7, <1>8, <1>10 DEF FirstGate, Ledger!Runs

\* While no refresh was abandoned: a command that holds the line enters or
\* leaves the gate, and nobody else does.
LEMMA UnderGate ==
    ASSUME LedgerInv, epoch = 0, NEW c \in Commands, NEW pc \in CallStates \ {"idle", "queued"}, NEW answer,
           Under(c, pc, answer), GateOf(c, pc), SyncEnds(c), Applied(c), UNCHANGED refreshes
    PROVE  FirstGate'
  <1>1. c \in Ledger!Owners /\ c \notin Nat /\ DOMAIN refreshes \subseteq Nat
    BY OwnersAre, RefreshesAreOwners
  <1>2. UsesGate(c) <=> calls[c].pc \in {"gate", "conclude"}
    BY <1>1 DEF UsesGate
  <1>3. UsesGate(c)' <=> pc \in {"gate", "conclude"}
    BY <1>1 DEF UsesGate, Under, Becomes
  <1>4. \A p : p # c => UsesGate(p)' = UsesGate(p)
    BY DEF UsesGate, Under, Becomes
  <1>5. calls[c].pc \notin {"gate", "conclude"} => UNCHANGED <<sync, projected>>
    <2>1. sync[c] # None => Ledger!Synchronizes(c)
      BY <1>1 DEF LedgerInv, SyncSound
    <2>2. calls[c].pc \notin {"gate", "conclude"} => sync[c] = None
      BY <2>1 DEF Ledger!Synchronizes
    <2> QED BY <1>1, <2>2 DEF SyncEnds, Applied, LedgerInv, LedgerShapes
  <1>6. CASE calls[c].pc \notin {"gate", "conclude"} /\ pc \notin {"gate", "conclude"}
    <2>1. \A p : UsesGate(p) => UsesGate(p)'
      BY <1>2, <1>4, <1>6
    <2>2. gate' = gate
      BY <1>6 DEF GateOf
    <2> QED BY <1>5, <1>6, <2>1, <2>2, GateStays
  <1>7. CASE calls[c].pc \notin {"gate", "conclude"} /\ pc \in {"gate", "conclude"}
    <2>1. ~UsesGate(c) /\ UsesGate(c)' /\ \A p : UsesGate(p) => UsesGate(p)'
      BY <1>2, <1>3, <1>4, <1>7
    <2>2. gate' = Ledger!AtGate(c)
      BY <1>7 DEF GateOf
    <2> QED BY <1>1, <1>5, <1>7, <2>1, <2>2, GateJoined
  <1>8. CASE calls[c].pc \in {"gate", "conclude"} /\ pc \notin {"gate", "conclude"}
    <2>1. gate' = Ledger!Leaves(gate, c) /\ Ledger!Runs(gate[0], c)
      BY <1>8, FirstOfEpoch DEF GateOf, Ledger!Inside
    <2>2. sync' = [sync EXCEPT ![c] = None] \/ (sync' = sync /\ sync[c] = None)
      BY DEF SyncEnds
    <2>3. \A q : q # c /\ UsesGate(q) => UsesGate(q)'
      BY <1>4
    <2> QED BY <1>1, <2>1, <2>2, <2>3, GateLeft
  <1> QED BY <1>6, <1>7, <1>8 DEF GateOf

\* The step of a command keeps the invariant.
LEMMA CommandMoved ==
    ASSUME LedgerInv, NEW c \in Commands, NEW pc \in CallStates \ {"idle", "queued", "refresh"}, NEW answer,
           Under(c, pc, answer), GateOf(c, pc), SyncEnds(c), Applied(c), Raised, available' \in BOOLEAN,
           UNCHANGED <<height, refreshes, inFlight, readers, epoch, closing, floor>>
    PROVE  LedgerInv'
  <1>1. generation' \in {generation, generation + 1}
    BY DEF Raised
  <1>2. FirstEpoch'
    <2>1. ASSUME epoch = 0
          PROVE  FirstLine' /\ FirstGate' /\ FirstRefreshes' /\ FirstClosing'
      <3>1. FirstLine' /\ FirstGate' /\ FirstClosing'
        BY <2>1, UnderLine, UnderGate
      <3>2. \A d \in Commands : calls'[d].answer # "invalid"
        BY <2>1, FirstOfEpoch DEF FirstRefreshes, Under, Becomes
      <3> QED BY <2>1, <3>1, <3>2, FirstOfEpoch DEF FirstRefreshes
    <2> QED BY <2>1 DEF FirstEpoch
  <1> QED BY <1>1, <1>2, UnderShapes, UnderCounts, UnderSync DEF LedgerInv

\* A call that moves on, and one that settles.
LEMMA GoesUnder ==
    ASSUME LedgerInv, NEW c \in Commands, NEW pc \in CallStates \ {"idle", "queued", "refresh", "done"},
           Ledger!GoesTo(c, pc), calls[c].pc \notin {"idle", "done"},
           pc \in {"gate", "transport"} => calls[c].pc \in {"queued", "gate"},
           calls[c].pc = "queued" => \E e \in Ledger!Epochs : Ledger!Runs(line[e], c)
    PROVE  Under(c, pc, calls[c].answer)
  <1>1. Becomes(c, pc, calls[c].refresh, calls[c].answer) /\ UNCHANGED <<pending, line>>
    BY GoesToIs DEF LedgerInv, LedgerShapes
  <1>2. calls[c].answer = "invalid" => epoch > 0
    BY LedgerAssumption DEF LedgerInv, LedgerShapes, FirstEpoch, FirstRefreshes, Ledger!Epochs
  <1> QED BY <1>1, <1>2 DEF Under

\* To settle is a step of a command that holds the line.
LEMMA SettlesUnder ==
    ASSUME LedgerInv, NEW c \in Commands, NEW answer \in Answers,
           Ledger!Settles(c, answer), calls[c].pc \notin {"idle", "queued", "done"},
           answer = "invalid" => epoch > 0
    PROVE  Under(c, "done", answer)
  <1>1. /\ Becomes(c, "done", calls[c].refresh, answer)
        /\ pending' = pending - 1 /\ line' = Ledger!Leaves(line, c)
    BY SettlesIs DEF LedgerInv, LedgerShapes
  <1> QED BY <1>1 DEF Under

\* What a command answers that reads the projection is never a false alarm.
LEMMA ReadingIs ==
    ASSUME NEW c, NEW otherwise \in Answers \ {"invalid"}
    PROVE  Ledger!Reading(c, otherwise) \in Answers \ {"invalid"}
  BY DEF Ledger!Reading, Answers

\* The peer was honest, and nobody else applies blocks.
LEMMA CatchesUp ==
    ASSUME LedgerInv, NEW p \in Ledger!Owners, sync[p] # None
    PROVE  /\ sync[p] \in SyncState /\ Ledger!Synchronizes(p) /\ height \in Nat
           /\ sync[p].asked \in 0..height /\ projected \in 0..height
           /\ sync[p].tip # None =>
                /\ sync[p].tip \in 0..height /\ sync[p].next \in Nat /\ sync[p].next < sync[p].tip
                /\ sync[p].asked <= sync[p].tip
                /\ epoch = 0 => sync[p].next = projected
           /\ epoch = 0 => Ledger!Runs(gate[0], p)
  <1>1. sync[p] \in SyncState
    BY DEF LedgerInv, LedgerShapes
  <1>2. sync[p].asked \in Nat /\ height \in Nat
    BY <1>1 DEF SyncState, LedgerInv, LedgerShapes
  <1>3. /\ Ledger!Synchronizes(p) /\ sync[p].asked <= height
        /\ sync[p].tip # None =>
             /\ sync[p].tip \in sync[p].asked..height
             /\ sync[p].next \in Nat /\ sync[p].next < sync[p].tip
    BY DEF LedgerInv, SyncSound
  <1>4. epoch = 0 => Ledger!Runs(gate[0], p) /\ (sync[p].tip # None => sync[p].next = projected)
    BY DEF LedgerInv, FirstEpoch, FirstGate
  <1>5. projected \in 0..height
    BY DEF LedgerInv, LedgerShapes
  <1> QED BY <1>1, <1>2, <1>3, <1>4, <1>5

\* execute after its synchronize.
LEMMA PreflightKeeps ==
    ASSUME LedgerInv, NEW c \in Commands, NEW outcome \in Outcomes, sync[c] # None,
           Ledger!Synchronized(c, outcome), outcome = "invalid" => epoch > 0,
           Applied(c), UNCHANGED <<height, epoch, generation, written, floor, readers, closing>>
    PROVE  LedgerInv'
  <1>1. c \in Ledger!Owners
    BY OwnersAre
  <1>2. calls[c].pc = "gate" /\ (epoch = 0 => Ledger!Inside(c))
    BY <1>1, CatchesUp, FirstOfEpoch DEF Ledger!Synchronizes, Ledger!Inside
  <1>3. /\ available' \in BOOLEAN /\ sync' = [sync EXCEPT ![c] = None]
        /\ gate' = Ledger!Leaves(gate, c) /\ UNCHANGED <<refreshes, inFlight>>
        /\ \/ Ledger!GoesTo(c, "transport")
           \/ \E answer \in {"committed", "refused", outcome} : Ledger!Settles(c, answer)
    BY DEF Ledger!Synchronized, Ledger!Preflight, Ledger!Passes, Outcomes
  <1>4. SyncEnds(c) /\ Raised
    BY <1>3 DEF SyncEnds, Raised
  <1>5. CASE Ledger!GoesTo(c, "transport")
    <2>1. Under(c, "transport", calls[c].answer)
      BY <1>2, <1>5, GoesUnder DEF CallStates
    <2>2. GateOf(c, "transport")
      BY <1>2, <1>3 DEF GateOf
    <2> QED BY <1>3, <1>4, <2>1, <2>2, CommandMoved DEF CallStates
  <1>6. ASSUME NEW answer \in {"committed", "refused", outcome}, Ledger!Settles(c, answer)
        PROVE  LedgerInv'
    <2>1. answer \in Answers /\ (answer = "invalid" => epoch > 0)
      BY DEF Answers
    <2>2. Under(c, "done", answer)
      BY <1>2, <1>6, <2>1, SettlesUnder
    <2>3. GateOf(c, "done")
      BY <1>2, <1>3 DEF GateOf
    <2> QED BY <1>3, <1>4, <2>2, <2>3, CommandMoved DEF CallStates
  <1> QED BY <1>3, <1>5, <1>6

\* The steps of a command that do not start a refresh.
LEMMA CommandKeeps ==
    ASSUME LedgerInv, NEW c \in Commands,
           \/ Ledger!Begin(c) \/ Ledger!Look(c) \/ Ledger!NotSent(c) \/ Ledger!Unasked(c)
           \/ Ledger!Resume(c) \/ Ledger!Conclude(c)
    PROVE  LedgerInv'
  <1>owner. c \in Ledger!Owners
    BY OwnersAre
  <1>quiet. calls[c].pc # "gate" => sync[c] = None
    BY <1>owner, CatchesUp DEF Ledger!Synchronizes
  <1>1. CASE Ledger!Begin(c)
    <2>1. /\ calls[c].pc = "queued" /\ \E e \in Ledger!Epochs : Ledger!Runs(line[e], c)
          /\ UNCHANGED <<height, projected, available, epoch, generation, written, refreshes, inFlight,
                         floor, readers, sync, closing>>
      BY <1>1 DEF Ledger!Begin, Ledger!channel, Ledger!refreshing
    <2>2. available' \in BOOLEAN /\ SyncEnds(c) /\ Applied(c) /\ Raised
      BY <1>quiet, <2>1 DEF LedgerInv, LedgerShapes, SyncEnds, Applied, Raised
    <2>3. PICK pc \in {"transport", "gate"} : Ledger!GoesTo(c, pc) /\ GateOf(c, pc)
      BY <1>1, <2>1 DEF Ledger!Begin, GateOf
    <2>4. Under(c, pc, calls[c].answer)
      BY <2>1, <2>3, GoesUnder DEF CallStates
    <2> QED BY <2>1, <2>2, <2>3, <2>4, CommandMoved DEF CallStates
  <1>2. CASE Ledger!Look(c)
    <2>1. /\ Kind[c] = "observe" /\ calls[c].pc = "gate" /\ Ledger!Inside(c) /\ gate' = Ledger!Leaves(gate, c)
          /\ UNCHANGED <<height, projected, available, epoch, generation, written, refreshes, inFlight,
                         floor, readers, sync, closing>>
          /\ \/ Ledger!GoesTo(c, "transport")
             \/ \E answer \in {"unavailable", "committed"} : Ledger!Settles(c, answer)
      BY <1>2 DEF Ledger!Look, Ledger!channel, Ledger!refreshing, Ledger!Passes
    <2>2. sync[c] = None
      BY <1>owner, <2>1, CatchesUp DEF Ledger!Synchronizes
    <2>3. available' \in BOOLEAN /\ SyncEnds(c) /\ Applied(c) /\ Raised
      BY <2>1, <2>2 DEF LedgerInv, LedgerShapes, SyncEnds, Applied, Raised
    <2>4. GateOf(c, "transport") /\ GateOf(c, "done")
      BY <2>1 DEF GateOf
    <2>5. CASE Ledger!GoesTo(c, "transport")
      <3>1. Under(c, "transport", calls[c].answer)
        BY <2>1, <2>5, GoesUnder DEF CallStates
      <3> QED BY <2>1, <2>3, <2>4, <3>1, CommandMoved DEF CallStates
    <2>6. ASSUME NEW answer \in {"unavailable", "committed"}, Ledger!Settles(c, answer)
          PROVE  LedgerInv'
      <3>1. Under(c, "done", answer)
        BY <2>1, <2>6, SettlesUnder DEF Answers
      <3> QED BY <2>1, <2>3, <2>4, <3>1, CommandMoved DEF CallStates
    <2> QED BY <2>1, <2>5, <2>6
  <1>3. CASE Ledger!NotSent(c)
    <2>1. /\ calls[c].pc = "transport" /\ Ledger!Settles(c, "failed") /\ gate' = gate
          /\ UNCHANGED <<height, projected, available, epoch, refreshes, inFlight, floor, readers, sync, closing>>
      BY <1>3 DEF Ledger!NotSent, Ledger!channel
    <2>2. Raised
      BY <1>3 DEF Ledger!NotSent, Ledger!Raised, Raised
    <2>3. available' \in BOOLEAN /\ SyncEnds(c) /\ Applied(c) /\ GateOf(c, "done")
      BY <1>quiet, <2>1 DEF LedgerInv, LedgerShapes, SyncEnds, Applied, GateOf
    <2>4. Under(c, "done", "failed")
      BY <2>1, SettlesUnder DEF Answers
    <2> QED BY <2>1, <2>2, <2>3, <2>4, CommandMoved DEF CallStates
  <1>4. CASE Ledger!Unasked(c)
    <2>1. /\ calls[c].pc = "transport" /\ Ledger!GoesTo(c, "conclude") /\ gate' = Ledger!AtGate(c)
          /\ UNCHANGED <<height, projected, available, epoch, generation, written, refreshes, inFlight,
                         floor, readers, sync, closing>>
      BY <1>4 DEF Ledger!Unasked, Ledger!channel, Ledger!refreshing
    <2>2. available' \in BOOLEAN /\ SyncEnds(c) /\ Applied(c) /\ Raised /\ GateOf(c, "conclude")
      BY <1>quiet, <2>1 DEF LedgerInv, LedgerShapes, SyncEnds, Applied, Raised, GateOf
    <2>3. Under(c, "conclude", calls[c].answer)
      BY <2>1, GoesUnder DEF CallStates
    <2> QED BY <2>1, <2>2, <2>3, CommandMoved DEF CallStates
  <1>5. CASE Ledger!Resume(c)
    <2>1. /\ calls[c].pc = "refresh"
          /\ UNCHANGED <<height, projected, available, epoch, generation, written, refreshes, inFlight,
                         floor, readers, sync, closing>>
      BY <1>5 DEF Ledger!Resume, Ledger!channel, Ledger!refreshing
    <2>2. available' \in BOOLEAN /\ SyncEnds(c) /\ Applied(c) /\ Raised
      BY <1>quiet, <2>1 DEF LedgerInv, LedgerShapes, SyncEnds, Applied, Raised
    <2>3. refreshes[calls[c].refresh].promise = "invalid" => epoch > 0
      <3>1. calls[c].refresh \in DOMAIN refreshes
        BY <2>1 DEF LedgerInv, CommandsSound
      <3>2. epoch = 0 => refreshes[calls[c].refresh].promise # "invalid"
        BY <3>1 DEF LedgerInv, FirstEpoch, FirstRefreshes
      <3> QED BY <3>2, LedgerAssumption DEF LedgerInv, LedgerShapes, Ledger!Epochs
    <2>4. \/ Ledger!GoesTo(c, "conclude") /\ gate' = Ledger!AtGate(c)
          \/ /\ gate' = gate
             /\ \E answer \in Answers : /\ Ledger!Settles(c, answer)
                                        /\ answer = "invalid" => epoch > 0
      <3>1. Ledger!Reading(c, "pending") \in Answers \ {"invalid"}
        BY ReadingIs DEF Answers
      <3>2. \A a : a \in {"invalid", "recovered", "pending", "behind"} => a \in Answers
        BY DEF Answers, Outcomes
      <3> QED BY <1>5, <2>3, <3>1, <3>2 DEF Ledger!Resume
    <2>5. CASE Ledger!GoesTo(c, "conclude") /\ gate' = Ledger!AtGate(c)
      <3>1. Under(c, "conclude", calls[c].answer) /\ GateOf(c, "conclude")
        BY <2>1, <2>5, GoesUnder DEF CallStates, GateOf
      <3> QED BY <2>1, <2>2, <3>1, CommandMoved DEF CallStates
    <2>6. ASSUME gate' = gate, NEW answer \in Answers, Ledger!Settles(c, answer), answer = "invalid" => epoch > 0
          PROVE  LedgerInv'
      <3>1. Under(c, "done", answer) /\ GateOf(c, "done")
        BY <2>1, <2>6, SettlesUnder DEF GateOf
      <3> QED BY <2>1, <2>2, <3>1, CommandMoved DEF CallStates
    <2> QED BY <2>4, <2>5, <2>6
  <1>6. CASE Ledger!Conclude(c)
    <2>1. /\ calls[c].pc = "conclude" /\ Ledger!Inside(c) /\ gate' = Ledger!Leaves(gate, c)
          /\ Ledger!Settles(c, Ledger!Reading(c, "observed"))
          /\ UNCHANGED <<height, projected, available, epoch, generation, written, refreshes, inFlight,
                         floor, readers, sync, closing>>
      BY <1>6 DEF Ledger!Conclude, Ledger!channel, Ledger!refreshing, Ledger!Passes
    <2>2. available' \in BOOLEAN /\ SyncEnds(c) /\ Applied(c) /\ Raised /\ GateOf(c, "done")
      BY <1>quiet, <2>1 DEF LedgerInv, LedgerShapes, SyncEnds, Applied, Raised, GateOf
    <2>3. Ledger!Reading(c, "observed") \in Answers \ {"invalid"}
      BY ReadingIs DEF Answers
    <2>4. Under(c, "done", Ledger!Reading(c, "observed"))
      BY <2>1, <2>3, SettlesUnder
    <2> QED BY <2>1, <2>2, <2>4, CommandMoved DEF CallStates
  <1> QED BY <1>1, <1>2, <1>3, <1>4, <1>5, <1>6

\* What a refresh becomes when its work is done.
LEMMA RefreshedIs ==
    ASSUME LedgerInv, NEW r \in DOMAIN refreshes, NEW outcome \in Outcomes, Ledger!Refreshed(r, outcome)
    PROVE  /\ refreshes' \in Seq(Shared) /\ DOMAIN refreshes' = DOMAIN refreshes /\ Len(refreshes') = Len(refreshes)
           /\ \A q \in DOMAIN refreshes :
                 /\ q # r => refreshes'[q] = refreshes[q]
                 /\ refreshes'[q].generation = refreshes[q].generation
                 /\ refreshes'[q].previous = refreshes[q].previous
           /\ refreshes'[r].work = outcome
           /\ refreshes'[r].promise = IF refreshes[r].promise # "open" THEN refreshes[r].promise ELSE outcome
           /\ inFlight' = IF inFlight = r THEN None ELSE inFlight
           /\ UNCHANGED <<calls, pending, line>>
  <1>1. PICK rs \in Seq(Shared) : rs = refreshes
    BY DEF LedgerInv, LedgerShapes
  <1>2. rs[r] \in Shared /\ r \in DOMAIN rs /\ DOMAIN rs = 1..Len(rs)
    BY <1>1
  <1>3. PICK pr \in Outcomes \union {"open", "abandoned"} :
           pr = IF rs[r].promise # "open" THEN rs[r].promise ELSE outcome
    BY <1>2 DEF Shared
  <1>4. PICK s \in Shared : s = [rs[r] EXCEPT !.work = outcome, !.promise = pr]
    BY <1>2 DEF Shared
  <1>5. refreshes' = [rs EXCEPT ![r] = s]
    BY <1>1, <1>2, <1>3, <1>4 DEF Ledger!Refreshed, Ledger!Settled, Shared
  <1>6. s.work = outcome /\ s.promise = pr /\ s.generation = rs[r].generation /\ s.previous = rs[r].previous
    BY <1>2, <1>4 DEF Shared
  <1>7. /\ inFlight' = IF inFlight = r THEN None ELSE inFlight
        /\ UNCHANGED <<calls, pending, line>>
    BY DEF Ledger!Refreshed
  <1>8. PICK rn : rn = [rs EXCEPT ![r] = s]
    OBVIOUS
  <1>9. /\ rn \in Seq(Shared) /\ DOMAIN rn = DOMAIN rs /\ Len(rn) = Len(rs) /\ rn[r] = s
        /\ \A q \in DOMAIN rs : q # r => rn[q] = rs[q]
    BY <1>2, <1>8, OneChanged
  <1>10. refreshes' = rn
    BY <1>5, <1>8
  <1> QED BY <1>1, <1>2, <1>3, <1>6, <1>7, <1>9, <1>10

\* Refreshes are not commands.
LEMMA RefreshIsNoCommand ==
    ASSUME LedgerInv, NEW r \in Ledger!RefreshIds
    PROVE  /\ r \in Nat /\ r \in Ledger!Owners /\ r \notin Commands
           /\ Ledger!Synchronizes(r) <=> r \in DOMAIN refreshes /\ refreshes[r].work = "gate"
           /\ UsesGate(r) <=> r \in DOMAIN refreshes /\ refreshes[r].work = "gate"
  <1>1. r \in Nat /\ r \in Ledger!Owners /\ r \notin Commands
    BY OwnersAre
  <1> QED BY <1>1 DEF Ledger!Synchronizes, UsesGate

\* A refresh that caught up has seen the tip it asked for, whoever joined it
\* asked no later one (refreshProjection).
LEMMA FinishedWrites ==
    ASSUME LedgerInv, NEW r \in DOMAIN refreshes, NEW outcome \in Outcomes, Ledger!Refreshed(r, outcome),
           sync[r] # None, sync' = [sync EXCEPT ![r] = None], projected' \in projected..height,
           outcome = "ok" => sync[r].asked <= projected',
           UNCHANGED <<height, generation, written, floor, readers>>
    PROVE  SyncSound' /\ WritesSound'
  <1>1. r \in Ledger!Owners /\ r \in Ledger!RefreshIds /\ DOMAIN refreshes \subseteq Ledger!Owners
    BY RefreshesAreOwners
  <1>2. \A p \in Ledger!Owners : sync'[p] # None => p # r /\ sync'[p] = sync[p]
    BY DEF LedgerInv, LedgerShapes
  <1>3. \A p : p # r /\ Ledger!Synchronizes(p) => Ledger!Synchronizes(p)'
    BY RefreshedIs DEF Ledger!Synchronizes
  <1>4. SyncSound'
    BY <1>2, <1>3 DEF LedgerInv, SyncSound
  <1>5. \A q : Waiting(q)' = Waiting(q)
    BY RefreshedIs DEF Waiting
  <1>6. sync[r].asked \in Nat /\ projected' \in Nat /\ projected \in Nat /\ projected <= projected'
    BY <1>1, CatchesUp DEF LedgerInv, LedgerShapes
  <1>7. \A q : \A w \in Waiting(q) : floor[w] \in Nat
    BY DEF Waiting, LedgerInv, LedgerShapes
  <1>8. \A q \in DOMAIN refreshes : refreshes'[q].promise = "ok" =>
           refreshes[q].promise = "ok" \/ (q = r /\ outcome = "ok")
    BY RefreshedIs
  <1>9. ASSUME NEW q \in DOMAIN refreshes
        PROVE  /\ sync'[q] # None /\ refreshes'[q].generation = generation' => written' <= sync'[q].asked
               /\ \A w \in Waiting(q) :
                    /\ sync'[q] # None => floor[w] <= sync'[q].asked
                    /\ refreshes'[q].promise = "ok" => floor[w] <= projected'
    <2>1. sync'[q] # None => sync'[q] = sync[q] /\ sync[q] # None
      BY <1>1, <1>2
    <2>2. refreshes'[q].generation = refreshes[q].generation
      BY RefreshedIs
    <2>3. /\ sync[q] # None /\ refreshes[q].generation = generation => written <= sync[q].asked
          /\ \A w \in Waiting(q) :
                 /\ sync[q] # None => floor[w] <= sync[q].asked
                 /\ refreshes[q].promise = "ok" => floor[w] <= projected
      BY DEF LedgerInv, WritesSound
    <2>4. ASSUME NEW w \in Waiting(q), refreshes'[q].promise = "ok"
          PROVE  floor[w] <= projected'
      BY <1>6, <1>7, <1>8, <2>3, <2>4
    <2> QED BY <2>1, <2>2, <2>3, <2>4
  <1>10. DOMAIN refreshes' = DOMAIN refreshes
    BY RefreshedIs
  <1> QED BY <1>4, <1>5, <1>9, <1>10 DEF WritesSound

\* While no refresh was abandoned: a refresh that ends leaves the gate and the
\* chain of refreshes in the order they were started.
LEMMA FinishedFirst ==
    ASSUME LedgerInv, epoch = 0, NEW r \in DOMAIN refreshes, NEW outcome \in Outcomes \ {"invalid"},
           Ledger!Refreshed(r, outcome), sync[r] # None, sync' = [sync EXCEPT ![r] = None],
           gate' = Ledger!Leaves(gate, r), UNCHANGED closing
    PROVE  FirstLine' /\ FirstGate' /\ FirstRefreshes' /\ FirstClosing'
  <1>1. r \in Ledger!Owners /\ r \in Ledger!RefreshIds /\ r \in Nat /\ r \in 1..Len(refreshes)
        /\ DOMAIN refreshes = 1..Len(refreshes) /\ Len(refreshes) \in Nat
    BY RefreshesAreOwners
  <1>2. Ledger!Runs(gate[0], r) /\ refreshes[r].work = "gate"
    BY <1>1, CatchesUp, RefreshIsNoCommand
  <1>3. FirstLine /\ FirstRefreshes /\ FirstClosing
    BY FirstOfEpoch
  <1>4. FirstLine'
    BY <1>3, RefreshedIs DEF FirstLine
  <1>5. FirstGate'
    <2>1. \A q : q # r /\ UsesGate(q) => UsesGate(q)'
      BY RefreshedIs DEF UsesGate
    <2> QED BY <1>1, <1>2, <2>1, GateLeft
  <1>6. refreshes[r].promise = "open" /\ \A q \in 1..r - 1 : refreshes[q].promise # "open"
    BY <1>2, <1>3 DEF FirstRefreshes
  <1>7. refreshes'[r].promise = outcome /\ refreshes'[r].work = outcome
        /\ outcome \notin {"invalid", "open", "previous", "gate"}
    BY <1>6, RefreshedIs DEF Outcomes
  <1>8. FirstRefreshes'
    <2>1. ASSUME NEW q \in DOMAIN refreshes
          PROVE  /\ refreshes'[q].promise # "invalid"
                 /\ refreshes'[q].promise = "open" <=> refreshes'[q].work \in {"previous", "gate"}
                 /\ refreshes'[q].work = "previous" => q > 1 /\ refreshes'[q].previous = q - 1
                 /\ refreshes'[q].work # "previous" => \A o \in 1..q - 1 : refreshes'[o].promise # "open"
      <3>1. q # r => refreshes'[q] = refreshes[q]
        BY RefreshedIs
      <3>2. \A o \in DOMAIN refreshes : refreshes'[o].promise = "open" => refreshes[o].promise = "open"
        BY <1>7, RefreshedIs
      <3>3. \A o \in 1..q - 1 : o \in DOMAIN refreshes
        BY <1>1
      <3>4. refreshes'[q].work # "previous" => refreshes[q].work # "previous"
        BY <1>2, <3>1
      <3> QED BY <1>3, <1>7, <3>1, <3>2, <3>3, <3>4 DEF FirstRefreshes
    <2>2. inFlight' = None => \A q \in DOMAIN refreshes : refreshes'[q].promise # "open"
      <3>1. inFlight # None => inFlight = Len(refreshes)
        BY <1>3 DEF FirstRefreshes
      <3>2. inFlight = None => refreshes[r].promise # "open"
        BY <1>3 DEF FirstRefreshes
      <3>3. inFlight' = None => r = Len(refreshes)
        BY <1>6, <3>1, <3>2, RefreshedIs
      <3>4. ASSUME r = Len(refreshes), NEW q \in DOMAIN refreshes
            PROVE  refreshes'[q].promise # "open"
        <4>1. q = r \/ q \in 1..r - 1
          BY <1>1, <3>4
        <4> QED BY <1>6, <1>7, <4>1, RefreshedIs
      <3> QED BY <3>3, <3>4
    <2>3. inFlight' # None => inFlight' = Len(refreshes')
      BY <1>3, RefreshedIs DEF FirstRefreshes
    <2>4. \A c \in Commands : calls'[c].answer # "invalid"
      BY <1>3, RefreshedIs DEF FirstRefreshes
    <2>5. DOMAIN refreshes' = DOMAIN refreshes
      BY RefreshedIs
    <2> QED BY <2>1, <2>2, <2>3, <2>4, <2>5 DEF FirstRefreshes
  <1>9. FirstClosing'
    <2>1. Len(refreshes') = Len(refreshes) /\ refreshes' # <<>> /\ line' = line
      BY <1>1, RefreshedIs
    <2>2. inFlight = None => inFlight' = None
      BY RefreshedIs, OwnersAre, <1>1
    <2> QED BY <1>3, <2>1, <2>2 DEF FirstClosing
  <1> QED BY <1>4, <1>5, <1>8, <1>9

\* The work of a refresh is done.
LEMMA RefreshFinishes ==
    ASSUME LedgerInv, NEW r \in Ledger!RefreshIds, NEW outcome \in Outcomes, sync[r] # None,
           Ledger!Synchronized(r, outcome), outcome = "invalid" => epoch > 0,
           outcome = "ok" => sync[r].asked <= projected', projected' \in projected..height,
           UNCHANGED <<height, epoch, generation, written, floor, readers, closing>>
    PROVE  LedgerInv'
  <1>1. r \in DOMAIN refreshes /\ r \in Ledger!Owners /\ r \notin Commands
    BY CatchesUp, RefreshIsNoCommand
  <1>2. /\ available' \in BOOLEAN /\ sync' = [sync EXCEPT ![r] = None] /\ gate' = Ledger!Leaves(gate, r)
        /\ Ledger!Refreshed(r, outcome)
    BY <1>1 DEF Ledger!Synchronized, Ledger!Passes
  <1>3. /\ gate' \in [Ledger!Epochs -> Seq(Ledger!Owners)]
        /\ \A e \in Ledger!Epochs : gate[e] = <<>> => gate'[e] = <<>>
    BY <1>2, ChainsLeave DEF LedgerInv
  <1>4. refreshes' \in Seq(Shared) /\ DOMAIN refreshes' = DOMAIN refreshes /\ Len(refreshes') = Len(refreshes)
        /\ UNCHANGED <<calls, pending, line>>
    BY <1>1, <1>2, RefreshedIs
  <1>5. LedgerShapes'
    <2>1. inFlight' \in Nat \union {None}
      BY <1>2 DEF Ledger!Refreshed, LedgerInv, LedgerShapes
    <2>2. sync' \in [Ledger!Owners -> SyncState \union {None}]
      BY <1>2 DEF LedgerInv, LedgerShapes
    <2>3. projected' \in 0..height'
      BY DEF LedgerInv, LedgerShapes
    <2> QED BY <1>2, <1>3, <1>4, <2>1, <2>2, <2>3 DEF LedgerInv, LedgerShapes
  <1>6. CommandsSound' /\ ReadersSound'
    BY <1>4 DEF LedgerInv, CommandsSound, ReadersSound
  <1>7. RefreshesSound'
    <2>1. ASSUME NEW q \in DOMAIN refreshes
          PROVE  /\ refreshes'[q].generation <= generation
                 /\ refreshes'[q].promise = "open" => refreshes'[q].work \in {"previous", "gate"}
      BY <1>1, <1>2, RefreshedIs DEF LedgerInv, RefreshesSound, Outcomes
    <2>2. inFlight' # None => inFlight' \in DOMAIN refreshes /\ refreshes'[inFlight'].promise = "open"
      BY <1>1, <1>2, RefreshedIs DEF LedgerInv, RefreshesSound
    <2> QED BY <1>4, <2>1, <2>2 DEF LedgerInv, RefreshesSound
  <1>8. SyncSound' /\ WritesSound'
    BY <1>1, <1>2, FinishedWrites
  <1>9. LaterChains'
    BY <1>3, <1>4 DEF LedgerInv, LaterChains
  <1>10. FirstEpoch'
    <2>1. ASSUME epoch = 0
          PROVE  FirstLine' /\ FirstGate' /\ FirstRefreshes' /\ FirstClosing'
      <3>1. outcome \in Outcomes \ {"invalid"}
        BY <2>1
      <3> QED BY <1>1, <1>2, <2>1, <3>1, FinishedFirst
    <2> QED BY <2>1 DEF FirstEpoch
  <1> QED BY <1>5, <1>6, <1>7, <1>8, <1>9, <1>10 DEF LedgerInv

\* Whoever catches up goes on: it asks for the tip, hears of it, or has applied a block.
LEMMA SyncMoves ==
    ASSUME LedgerInv, NEW p \in Ledger!Owners, Ledger!Synchronizes(p), NEW s \in SyncState,
           sync' = [sync EXCEPT ![p] = s],
           s.asked = IF sync[p] = None THEN height ELSE sync[p].asked,
           s.tip # None => s.tip \in s.asked..height /\ s.next \in Nat /\ s.next < s.tip,
           epoch = 0 => Ledger!Runs(gate[0], p) /\ (s.tip # None => s.next = projected'),
           projected' \in projected..height,
           UNCHANGED <<height, available, epoch, line, gate, pending, generation, refreshes, inFlight,
                       written, floor, calls, readers, closing>>
    PROVE  LedgerInv'
  <1>1. /\ sync' \in [Ledger!Owners -> SyncState \union {None}] /\ sync'[p] = s
        /\ \A q \in Ledger!Owners : q # p => sync'[q] = sync[q]
    BY DEF LedgerInv, LedgerShapes
  <1>2. LedgerShapes'
    <2>1. projected' \in 0..height'
      BY DEF LedgerInv, LedgerShapes
    <2> QED BY <1>1, <2>1 DEF LedgerInv, LedgerShapes
  <1>3. CommandsSound' /\ ReadersSound' /\ RefreshesSound' /\ LaterChains'
    BY DEF LedgerInv, CommandsSound, ReadersSound, RefreshesSound, LaterChains
  <1>4. s.asked \in Nat /\ s.asked <= height /\ height \in Nat /\ projected \in Nat /\ projected' \in Nat
        /\ written \in Nat /\ written <= height
    BY CatchesUp DEF LedgerInv, LedgerShapes, SyncState
  <1>5. SyncSound'
    <2>1. \A q : Ledger!Synchronizes(q)' = Ledger!Synchronizes(q)
      BY DEF Ledger!Synchronizes
    <2>2. \A q \in Ledger!Owners : q # p /\ sync'[q] # None =>
             /\ Ledger!Synchronizes(q) /\ sync'[q].asked <= height
             /\ sync'[q].tip # None =>
                  sync'[q].tip \in sync'[q].asked..height /\ sync'[q].next \in Nat /\ sync'[q].next < sync'[q].tip
      BY <1>1 DEF LedgerInv, SyncSound
    <2> QED BY <1>1, <1>4, <2>1, <2>2 DEF SyncSound
  <1>6. WritesSound'
    <2>1. ASSUME NEW r \in DOMAIN refreshes
          PROVE  /\ sync'[r] # None /\ refreshes[r].generation = generation => written <= sync'[r].asked
                 /\ \A w \in Waiting(r) :
                      /\ sync'[r] # None => floor[w] <= sync'[r].asked
                      /\ refreshes[r].promise = "ok" => floor[w] <= projected'
      <3>1. r \in Ledger!Owners
        BY RefreshesAreOwners
      <3>2. /\ sync[r] # None /\ refreshes[r].generation = generation => written <= sync[r].asked
            /\ \A w \in Waiting(r) :
                 /\ sync[r] # None => floor[w] <= sync[r].asked
                 /\ refreshes[r].promise = "ok" => floor[w] <= projected
        BY DEF LedgerInv, WritesSound
      <3>3. \A w \in Waiting(r) : floor[w] \in Nat /\ floor[w] <= height
        BY DEF Waiting, LedgerInv, LedgerShapes
      <3>4. sync'[r] # None => sync'[r].asked = height \/ (sync[r] # None /\ sync'[r].asked = sync[r].asked)
        BY <1>1, <3>1
      <3>5. \A w \in Waiting(r) : refreshes[r].promise = "ok" => floor[w] <= projected'
        BY <1>4, <3>2, <3>3
      <3> QED BY <1>4, <3>2, <3>3, <3>4, <3>5
    <2>2. \A r : Waiting(r)' = Waiting(r)
      BY DEF Waiting
    <2> QED BY <2>1, <2>2 DEF WritesSound
  <1>7. FirstEpoch'
    <2>1. ASSUME epoch = 0
          PROVE  FirstLine' /\ FirstGate' /\ FirstRefreshes' /\ FirstClosing'
      <3>1. FirstLine /\ FirstGate /\ FirstRefreshes /\ FirstClosing
        BY <2>1, FirstOfEpoch
      <3>2. \A q : UsesGate(q)' = UsesGate(q)
        BY DEF UsesGate
      <3>3. \A q \in Ledger!Owners : q # p => sync[q] = None
        BY <2>1, <3>1 DEF FirstGate, Ledger!Runs
      <3>4. \A q \in Ledger!Owners : sync'[q] # None =>
               Ledger!Runs(gate'[0], q) /\ (sync'[q].tip # None => sync'[q].next = projected')
        BY <1>1, <2>1, <3>3
      <3>5. FirstGate'
        BY <3>1, <3>2, <3>4 DEF FirstGate
      <3> QED BY <3>1, <3>5 DEF FirstLine, FirstRefreshes, FirstClosing
    <2> QED BY <2>1 DEF FirstEpoch
  <1> QED BY <1>2, <1>3, <1>5, <1>6, <1>7 DEF LedgerInv

\* synchronize settles, for a command or for a refresh.
LEMMA SynchronizedKeeps ==
    ASSUME LedgerInv, NEW p \in Ledger!Owners, NEW outcome \in Outcomes, sync[p] # None,
           Ledger!Synchronized(p, outcome), outcome = "invalid" => epoch > 0,
           outcome = "ok" => sync[p].asked <= projected', projected' \in projected..height,
           UNCHANGED <<height, epoch, generation, written, floor, readers, closing>>
    PROVE  LedgerInv'
  <1>1. CASE p \in Commands
    <2>1. Applied(p)
      BY DEF Applied
    <2> QED BY <1>1, <2>1, PreflightKeeps
  <1>2. CASE p \in Ledger!RefreshIds
    BY <1>2, RefreshFinishes
  <1> QED BY <1>1, <1>2, OwnersAre

\* Every step of a catching up keeps the invariant: the tip, one block after
\* the other, the end, and a peer that stops answering.
LEMMA SyncKeeps ==
    ASSUME LedgerInv, NEW p \in Ledger!Owners, Ledger!SyncStep(p) \/ Ledger!PeerSilent(p)
    PROVE  LedgerInv'
  <1>bounds. projected \in 0..height /\ height \in Nat /\ epoch \in Nat /\ projected \in Nat
    BY DEF LedgerInv, LedgerShapes, Ledger!Epochs
  <1>stays. projected' = projected => projected' \in projected..height
    BY <1>bounds
  <1>1. CASE Ledger!AskTip(p)
    <2>1. PICK s : s = [asked |-> height, tip |-> None, next |-> None, mute |-> FALSE]
      OBVIOUS
    <2>2. s \in SyncState /\ s.asked = height /\ s.tip = None
      BY <1>bounds, <2>1 DEF SyncState
    <2>3. /\ Ledger!Synchronizes(p) /\ Ledger!Inside(p) /\ sync[p] = None /\ sync' = [sync EXCEPT ![p] = s]
          /\ UNCHANGED <<height, projected, available, epoch, line, gate, pending, generation, refreshes, inFlight,
                       written, floor, calls, readers, closing>>
      BY <1>1, <2>1 DEF Ledger!AskTip, Ledger!channel, Ledger!chains, Ledger!refreshing
    <2>4. epoch = 0 => Ledger!Runs(gate[0], p)
      BY <2>3, FirstOfEpoch DEF Ledger!Inside
    <2>5. s.asked = (IF sync[p] = None THEN height ELSE sync[p].asked) /\ projected' \in projected..height
          /\ (s.tip # None => s.tip \in s.asked..height /\ s.next \in Nat /\ s.next < s.tip)
          /\ (epoch = 0 => Ledger!Runs(gate[0], p) /\ (s.tip # None => s.next = projected'))
      BY <1>stays, <2>2, <2>3, <2>4
    <2> QED BY <2>2, <2>3, <2>5, SyncMoves
  <1>2. CASE Ledger!PeerSilent(p)
    <2>1. /\ sync[p] # None /\ sync' = [sync EXCEPT ![p].mute = TRUE]
          /\ UNCHANGED <<height, projected, available, epoch, line, gate, pending, generation, refreshes, inFlight,
                       written, floor, calls, readers, closing>>
      BY <1>2 DEF Ledger!PeerSilent, Ledger!channel, Ledger!chains, Ledger!refreshing
    <2>2. sync[p] \in SyncState
      BY <2>1, CatchesUp
    <2>3. PICK s \in SyncState : s = [sync[p] EXCEPT !.mute = TRUE]
      BY <2>2 DEF SyncState
    <2>4. sync' = [sync EXCEPT ![p] = s] /\ s.asked = sync[p].asked /\ s.tip = sync[p].tip /\ s.next = sync[p].next
      BY <2>1, <2>2, <2>3 DEF SyncState
    <2>5. /\ Ledger!Synchronizes(p)
          /\ s.tip # None => s.tip \in s.asked..height /\ s.next \in Nat /\ s.next < s.tip
          /\ epoch = 0 => Ledger!Runs(gate[0], p) /\ (s.tip # None => s.next = projected')
      BY <2>1, <2>4, CatchesUp
    <2>6. s.asked = (IF sync[p] = None THEN height ELSE sync[p].asked) /\ projected' \in projected..height
      BY <1>stays, <2>1, <2>4
    <2> QED BY <2>1, <2>4, <2>5, <2>6, SyncMoves
  <1>3. CASE Ledger!TipArrives(p)
    <2>1. PICK tip \in sync[p].asked..height :
             CASE tip < projected -> Ledger!Synchronized(p, "behind")
               [] tip = projected -> Ledger!Synchronized(p, "ok")
               [] OTHER -> Ledger!Continues(p, [sync[p] EXCEPT !.tip = tip, !.next = projected])
      BY <1>3 DEF Ledger!TipArrives
    <2>2. sync[p] # None /\ sync[p].tip = None
          /\ UNCHANGED <<height, projected, epoch, generation, written, floor, readers, closing>>
      BY <1>3 DEF Ledger!TipArrives, Ledger!channel
    <2>3. sync[p] \in SyncState /\ sync[p].asked \in Nat /\ Ledger!Synchronizes(p)
          /\ (epoch = 0 => Ledger!Runs(gate[0], p)) /\ tip \in Nat /\ tip <= height /\ sync[p].asked <= tip
      BY <1>bounds, <2>2, CatchesUp
    <2>4. CASE tip < projected
      BY <1>bounds, <2>1, <2>2, <2>4, SynchronizedKeeps DEF Outcomes
    <2>5. CASE tip = projected
      BY <1>bounds, <2>1, <2>2, <2>3, <2>5, SynchronizedKeeps DEF Outcomes
    <2>6. CASE tip > projected
      <3>prev. PICK t \in SyncState : t = [sync[p] EXCEPT !.tip = tip]
        BY <2>3 DEF SyncState
      <3>1. PICK s \in SyncState : s = [t EXCEPT !.next = projected]
        BY <1>bounds DEF SyncState
      <3>2. s.asked = sync[p].asked /\ s.tip = tip /\ s.next = projected
        BY <2>3, <3>prev, <3>1 DEF SyncState
      <3>3. Ledger!Continues(p, s)
        BY <1>bounds, <2>1, <2>3, <2>6, <3>prev, <3>1
      <3>4. sync' = [sync EXCEPT ![p] = s] /\ UNCHANGED <<available, gate, refreshes, inFlight, calls, pending, line>>
        BY <3>3 DEF Ledger!Continues
      <3>5. s.tip # None => s.tip \in s.asked..height /\ s.next \in Nat /\ s.next < s.tip
        BY <1>bounds, <2>3, <2>6, <3>2
      <3>6. s.asked = (IF sync[p] = None THEN height ELSE sync[p].asked) /\ projected' \in projected..height
            /\ (epoch = 0 => Ledger!Runs(gate[0], p) /\ (s.tip # None => s.next = projected'))
        BY <1>stays, <2>2, <2>3, <3>2
      <3> QED BY <2>2, <2>3, <3>4, <3>5, <3>6, SyncMoves
    <2> QED BY <1>bounds, <2>3, <2>4, <2>5, <2>6
  <1>4. CASE Ledger!BlockArrives(p)
    <2>1. PICK n : n = sync[p].next + 1
      OBVIOUS
    <2>2. /\ sync[p] # None /\ sync[p].tip # None
          /\ projected' = IF n > projected THEN n ELSE projected
          /\ IF n < sync[p].tip THEN Ledger!Continues(p, [sync[p] EXCEPT !.next = n])
             ELSE Ledger!Synchronized(p, IF projected' = sync[p].tip THEN "ok" ELSE "invalid")
          /\ UNCHANGED <<height, epoch, generation, written, floor, readers, closing>>
      BY <1>4, <2>1 DEF Ledger!BlockArrives, Ledger!channel
    <2>3. sync[p] \in SyncState /\ sync[p].asked \in Nat /\ Ledger!Synchronizes(p)
          /\ (epoch = 0 => Ledger!Runs(gate[0], p)) /\ n \in Nat /\ n <= sync[p].tip /\ sync[p].tip \in 0..height
          /\ sync[p].asked <= sync[p].tip /\ (epoch = 0 => n = projected + 1)
      BY <1>bounds, <2>1, <2>2, CatchesUp
    <2>4. projected' \in projected..height
      BY <1>bounds, <2>2, <2>3
    <2>5. CASE n < sync[p].tip
      <3>1. PICK s \in SyncState : s = [sync[p] EXCEPT !.next = n]
        BY <2>3 DEF SyncState
      <3>2. s.asked = sync[p].asked /\ s.tip = sync[p].tip /\ s.next = n
        BY <2>3, <3>1 DEF SyncState
      <3>3. Ledger!Continues(p, s)
        BY <2>2, <2>5, <3>1
      <3>4. sync' = [sync EXCEPT ![p] = s] /\ UNCHANGED <<available, gate, refreshes, inFlight, calls, pending, line>>
        BY <3>3 DEF Ledger!Continues
      <3>5. s.tip # None => s.tip \in s.asked..height /\ s.next \in Nat /\ s.next < s.tip
        BY <1>bounds, <2>3, <2>5, <3>2
      <3>6. epoch = 0 => s.next = projected'
        BY <1>bounds, <2>2, <2>3, <3>2
      <3> QED BY <2>2, <2>3, <2>4, <3>2, <3>4, <3>5, <3>6, SyncMoves
    <2>6. CASE ~(n < sync[p].tip)
      <3>1. PICK outcome \in Outcomes : outcome = IF projected' = sync[p].tip THEN "ok" ELSE "invalid"
        BY DEF Outcomes
      <3>2. Ledger!Synchronized(p, outcome)
        BY <2>2, <2>6, <3>1
      <3>3. outcome = "ok" => sync[p].asked <= projected'
        BY <2>3, <3>1
      <3>4. outcome = "invalid" => epoch > 0
        BY <1>bounds, <2>2, <2>3, <2>6, <3>1
      <3> QED BY <2>2, <2>4, <3>2, <3>3, <3>4, SynchronizedKeeps
    <2> QED BY <2>5, <2>6
  <1>5. CASE Ledger!PeerFails(p)
    <2>1. sync[p] # None /\ Ledger!Synchronized(p, "behind")
          /\ UNCHANGED <<height, projected, epoch, generation, written, floor, readers, closing>>
      BY <1>5 DEF Ledger!PeerFails, Ledger!channel
    <2> QED BY <1>bounds, <2>1, SynchronizedKeeps DEF Outcomes
  <1> QED BY <1>1, <1>2, <1>3, <1>4, <1>5 DEF Ledger!SyncStep

\* A refresh starts: it follows the one in flight, or enters the gate at once.
\* Whoever asked for it waits for it and for nothing else.
Asked(w) ==
    \/ /\ w \in Commands /\ calls[w].pc = "transport"
       /\ Becomes(w, "refresh", Len(refreshes) + 1, calls[w].answer)
       /\ readers' = readers /\ pending' = pending
       /\ floor' = [floor EXCEPT ![w] = height]
       /\ generation' = generation + 1 /\ written' = height
    \/ /\ w \in Readers /\ readers[w].pc = "idle" /\ closing.step = "open"
       /\ readers' = [readers EXCEPT ![w] = [pc |-> "waiting", refresh |-> Len(refreshes) + 1]]
       /\ floor' = [floor EXCEPT ![w] = written]
       /\ UNCHANGED <<generation, written, calls, pending>>

Started(s) ==
    /\ s \in Shared /\ s.generation = generation' /\ s.previous = inFlight /\ s.promise = "open"
    /\ refreshes' = Append(refreshes, s) /\ inFlight' = Len(refreshes) + 1
    /\ \/ inFlight = None /\ s.work = "gate" /\ gate' = Ledger!AtGate(Len(refreshes) + 1)
       \/ inFlight # None /\ s.work = "previous" /\ gate' = gate
    /\ UNCHANGED <<height, projected, available, epoch, line, sync, closing>>

\* The list of refreshes grows by one; its number is one of theirs.
LEMMA StartedIs ==
    ASSUME LedgerInv, NEW s, Started(s)
    PROVE  /\ refreshes' \in Seq(Shared) /\ DOMAIN refreshes' = 1..(Len(refreshes) + 1)
           /\ Len(refreshes') = Len(refreshes) + 1 /\ Len(refreshes) \in Nat
           /\ DOMAIN refreshes = 1..Len(refreshes)
           /\ \A r \in DOMAIN refreshes : refreshes'[r] = refreshes[r]
           /\ refreshes'[Len(refreshes) + 1] = s
  <1>1. PICK rs \in Seq(Shared) : rs = refreshes
    BY DEF LedgerInv, LedgerShapes
  <1>2. s \in Shared /\ refreshes' = Append(rs, s)
    BY <1>1 DEF Started
  <1>3. /\ refreshes' \in Seq(Shared) /\ DOMAIN refreshes' = 1..(Len(rs) + 1) /\ Len(refreshes') = Len(rs) + 1
        /\ \A i \in 1..(Len(rs) + 1) : refreshes'[i] = IF i = Len(rs) + 1 THEN s ELSE rs[i]
    BY <1>2, OneMore
  <1>4. Len(rs) \in Nat /\ DOMAIN rs = 1..Len(rs)
    OBVIOUS
  <1> QED BY <1>1, <1>3, <1>4

\* A refresh that starts is the one in flight, and counts nobody out.
LEMMA StartedCounts ==
    ASSUME LedgerInv, NEW s, Started(s), NEW w, Asked(w)
    PROVE  /\ CommandsSound' /\ ReadersSound' /\ RefreshesSound'
           /\ Len(refreshes) + 1 \in Ledger!RefreshIds
  <1>1. PICK n \in Nat : n = Len(refreshes)
    BY StartedIs
  <1>2. DOMAIN refreshes = 1..n /\ DOMAIN refreshes' = 1..(n + 1) /\ Len(refreshes') = n + 1 /\ inFlight' = n + 1
        /\ n + 1 # None /\ refreshes'[n + 1] = s /\ \A r \in 1..n : refreshes'[r] = refreshes[r]
    BY <1>1, StartedIs, OwnersAre DEF Started
  <1>3. PICK P \in SUBSET Commands : P = {c \in Commands : calls[c].refresh # None}
    OBVIOUS
  <1>4. PICK Q \in SUBSET Readers : Q = {d \in Readers : readers[d].refresh # None}
    OBVIOUS
  <1>5. PICK U \in SUBSET Commands : U = {c \in Commands : calls'[c].refresh # None}
    OBVIOUS
  <1>6. PICK V \in SUBSET Readers : V = {d \in Readers : readers'[d].refresh # None}
    OBVIOUS
  <1>7. n <= Cardinality(P) + Cardinality(Q)
    BY <1>1, <1>3, <1>4 DEF LedgerInv, RefreshesSound
  <1>8. \/ w \notin P /\ U = P \union {w} /\ V = Q
        \/ w \notin Q /\ V = Q \union {w} /\ U = P
    <2>1. CASE w \in Commands /\ calls[w].pc = "transport" /\ readers' = readers
               /\ Becomes(w, "refresh", n + 1, calls[w].answer)
      <3>1. calls[w].refresh = None /\ calls'[w].refresh = n + 1
            /\ \A c \in Commands : c # w => calls'[c] = calls[c]
        BY <2>1 DEF LedgerInv, CommandsSound, Becomes
      <3> QED BY <1>2, <1>3, <1>4, <1>5, <1>6, <2>1, <3>1
    <2>2. CASE w \in Readers /\ readers[w].pc = "idle" /\ calls' = calls
               /\ readers' = [readers EXCEPT ![w] = [pc |-> "waiting", refresh |-> n + 1]]
      <3>1. readers[w].refresh = None
        BY <2>2 DEF LedgerInv, ReadersSound
      <3>2. readers'[w].refresh = n + 1 /\ \A d \in Readers : d # w => readers'[d] = readers[d]
        BY <2>2 DEF LedgerInv, LedgerShapes
      <3> QED BY <1>2, <1>3, <1>4, <1>5, <1>6, <2>2, <3>1, <3>2
    <2> QED BY <1>1, <2>1, <2>2 DEF Asked
  <1>9. n + 1 <= Cardinality(U) + Cardinality(V)
    <2>1. /\ Cardinality(P) \in Nat /\ Cardinality(Q) \in Nat
          /\ U = P \union {w} /\ w \notin P => Cardinality(U) = Cardinality(P) + 1
          /\ V = Q \union {w} /\ w \notin Q => Cardinality(V) = Cardinality(Q) + 1
      BY Counting, LedgerAssumption
    <2> QED BY <1>7, <1>8, <2>1
  <1>10. Len(refreshes) + 1 \in Ledger!RefreshIds
    <2>1. Cardinality(U) <= Cardinality(Commands) /\ Cardinality(V) <= Cardinality(Readers)
          /\ Cardinality(U) \in Nat /\ Cardinality(V) \in Nat
      BY Counting, LedgerAssumption
    <2> QED BY <1>1, <1>9, <2>1, OwnersAre
  <1>11. CommandsSound'
    <2>1. \A c \in Commands : /\ calls'[c].pc \notin {"idle", "done"} <=> calls[c].pc \notin {"idle", "done"}
                              /\ calls'[c].pc \in {"idle", "queued", "gate", "transport"} => calls'[c] = calls[c]
                              /\ calls'[c].pc = "refresh" => calls'[c] = calls[c] \/ calls'[c].refresh = n + 1
      BY <1>1 DEF Asked, Becomes
    <2>2. pending' = pending
      BY DEF Asked
    <2>3. {c \in Commands : calls'[c].pc \notin {"idle", "done"}}
          = {c \in Commands : calls[c].pc \notin {"idle", "done"}}
      BY <2>1
    <2>4. ASSUME NEW c \in Commands
          PROVE  /\ calls'[c].pc \in {"idle", "queued", "gate", "transport"} => calls'[c].refresh = None
                 /\ calls'[c].pc = "refresh" => calls'[c].refresh \in DOMAIN refreshes'
      BY <1>2, <2>1 DEF LedgerInv, CommandsSound
    <2> QED BY <2>2, <2>3, <2>4 DEF LedgerInv, CommandsSound
  <1>12. ReadersSound'
    <2>1. ASSUME NEW d \in Readers
          PROVE  \/ readers'[d] = readers[d]
                 \/ readers'[d].pc = "waiting" /\ readers'[d].refresh = n + 1
      BY <1>1 DEF Asked, LedgerInv, LedgerShapes
    <2>2. ASSUME NEW d \in Readers
          PROVE  /\ readers'[d].refresh \in DOMAIN refreshes' \union {None}
                 /\ readers'[d].pc = "idle" => readers'[d].refresh = None
                 /\ readers'[d].pc = "waiting" => readers'[d].refresh \in DOMAIN refreshes'
      BY <1>2, <2>1 DEF LedgerInv, ReadersSound
    <2> QED BY <2>2 DEF ReadersSound
  <1>13. RefreshesSound'
    <2>1. generation \in Nat /\ generation' \in Nat /\ generation <= generation'
      BY DEF Asked, LedgerInv, LedgerShapes
    <2>2. s.generation = generation' /\ s.promise = "open" /\ s.work \in {"previous", "gate"}
      BY DEF Started
    <2>3. \A r \in 1..n : refreshes[r].generation \in Nat /\ refreshes[r].generation <= generation
            /\ (refreshes[r].promise = "open" => refreshes[r].work \in {"previous", "gate"})
      BY <1>2, SharedIs DEF LedgerInv, RefreshesSound
    <2>4. ASSUME NEW r \in 1..(n + 1)
          PROVE  /\ refreshes'[r].generation <= generation'
                 /\ refreshes'[r].promise = "open" => refreshes'[r].work \in {"previous", "gate"}
      <3>1. r = n + 1 \/ r \in 1..n
        OBVIOUS
      <3> QED BY <1>2, <2>1, <2>2, <2>3, <3>1
    <2>5. inFlight' \in DOMAIN refreshes' /\ refreshes'[inFlight'].promise = "open"
      BY <1>2, <2>2
    <2> QED BY <1>2, <1>5, <1>6, <1>9, <2>4, <2>5 DEF RefreshesSound
  <1> QED BY <1>10, <1>11, <1>12, <1>13

\* A refresh that starts asks for the tip after the write it was started for.
LEMMA StartedWrites ==
    ASSUME LedgerInv, NEW s, Started(s), NEW w, Asked(w)
    PROVE  SyncSound' /\ WritesSound'
  <1>1. PICK n \in Nat : n = Len(refreshes)
    BY StartedIs
  <1>2. DOMAIN refreshes = 1..n /\ DOMAIN refreshes' = 1..(n + 1)
        /\ refreshes'[n + 1] = s /\ \A r \in 1..n : refreshes'[r] = refreshes[r]
    BY <1>1, StartedIs
  <1>3. UNCHANGED <<height, projected, sync>> /\ s.promise = "open" /\ n + 1 \notin DOMAIN refreshes
        /\ n + 1 \in Ledger!RefreshIds
    BY <1>1, <1>2, StartedCounts DEF Started
  <1>4. SyncSound'
    <2>1. \A p : Ledger!Synchronizes(p) => Ledger!Synchronizes(p)'
      BY <1>2 DEF Ledger!Synchronizes, Asked, Becomes
    <2> QED BY <1>3, <2>1 DEF LedgerInv, SyncSound
  <1>5. sync[n + 1] = None
    BY <1>3, RefreshIsNoCommand, CatchesUp
  <1>6. \A r \in 1..n : /\ \A v \in Waiting(r)' : v \in Waiting(r) /\ floor'[v] = floor[v]
                        /\ refreshes[r].generation \in Nat /\ refreshes[r].generation <= generation
    <2>1. ASSUME NEW r \in 1..n, NEW v \in Waiting(r)'
          PROVE  v \in Waiting(r) /\ v # w
      <3>1. CASE w \in Commands /\ calls[w].pc = "transport" /\ readers' = readers
                 /\ Becomes(w, "refresh", n + 1, calls[w].answer)
        <4>1. calls'[w].refresh = n + 1 /\ \A c \in Commands : c # w => calls'[c] = calls[c]
          BY <3>1 DEF Becomes
        <4> QED BY <2>1, <3>1, <4>1, LedgerAssumption DEF Waiting
      <3>2. CASE w \in Readers /\ readers[w].pc = "idle" /\ calls' = calls
                 /\ readers' = [readers EXCEPT ![w] = [pc |-> "waiting", refresh |-> n + 1]]
        <4>1. readers'[w].refresh = n + 1 /\ \A d \in Readers : d # w => readers'[d] = readers[d]
          BY <3>2 DEF LedgerInv, LedgerShapes
        <4> QED BY <2>1, <3>2, <4>1, LedgerAssumption DEF Waiting
      <3> QED BY <1>1, <3>1, <3>2 DEF Asked
    <2>2. \A v : v # w /\ v \in Commands \union Readers => floor'[v] = floor[v]
      BY DEF Asked, LedgerInv, LedgerShapes
    <2>3. \A r \in 1..n : \A v \in Waiting(r) : v \in Commands \union Readers
      BY DEF Waiting
    <2>4. \A r \in 1..n : refreshes[r].generation \in Nat /\ refreshes[r].generation <= generation
      BY <1>2, SharedIs
    <2> QED BY <2>1, <2>2, <2>3, <2>4
  <1>7. ASSUME NEW r \in 1..n
        PROVE  sync[r] # None /\ refreshes[r].generation = generation' => written' <= sync[r].asked
    <2>1. CASE generation' = generation + 1
      BY <1>6, <2>1 DEF LedgerInv, LedgerShapes
    <2>2. CASE UNCHANGED <<generation, written>>
      BY <1>2, <2>2 DEF LedgerInv, WritesSound
    <2> QED BY <2>1, <2>2 DEF Asked
  <1>8. ASSUME NEW r \in 1..n, NEW v \in Waiting(r)'
        PROVE  /\ sync[r] # None => floor'[v] <= sync[r].asked
               /\ refreshes[r].promise = "ok" => floor'[v] <= projected
    BY <1>2, <1>6 DEF LedgerInv, WritesSound
  <1>9. ASSUME NEW r \in 1..(n + 1)
        PROVE  /\ sync[r] # None /\ refreshes'[r].generation = generation' => written' <= sync[r].asked
               /\ \A v \in Waiting(r)' :
                    /\ sync[r] # None => floor'[v] <= sync[r].asked
                    /\ refreshes'[r].promise = "ok" => floor'[v] <= projected
    <2>1. r = n + 1 \/ r \in 1..n
      OBVIOUS
    <2> QED BY <1>2, <1>3, <1>5, <1>7, <1>8, <2>1
  <1>10. WritesSound'
    BY <1>2, <1>3, <1>9 DEF WritesSound
  <1> QED BY <1>4, <1>10

\* While no refresh was abandoned: a refresh that starts is the last of its
\* chain, behind the one before.
LEMMA StartedFirst ==
    ASSUME LedgerInv, epoch = 0, NEW s, Started(s), NEW w, Asked(w)
    PROVE  FirstLine' /\ FirstGate' /\ FirstRefreshes' /\ FirstClosing'
  <1>1. PICK n \in Nat : n = Len(refreshes)
    BY StartedIs
  <1>2. DOMAIN refreshes = 1..n /\ DOMAIN refreshes' = 1..(n + 1) /\ Len(refreshes') = n + 1
        /\ refreshes'[n + 1] = s /\ \A r \in 1..n : refreshes'[r] = refreshes[r]
    BY <1>1, StartedIs
  <1>3. FirstLine /\ FirstGate /\ FirstRefreshes /\ FirstClosing
    BY FirstOfEpoch
  <1>4. n + 1 \in Ledger!RefreshIds /\ n + 1 \in Ledger!Owners /\ n + 1 \notin Commands /\ n + 1 # None
    BY <1>1, StartedCounts, RefreshIsNoCommand, OwnersAre
  <1>5. \A c \in Commands : \/ calls'[c] = calls[c]
                            \/ calls[c].pc = "transport" /\ calls'[c].pc = "refresh" /\ calls'[c].answer = calls[c].answer
    BY DEF Asked, Becomes
  <1>6. UNCHANGED <<epoch, line, closing, sync, projected>>
    BY DEF Started
  <1>7. FirstLine'
    <2>1. \A c \in Commands : /\ calls'[c].pc \notin {"idle", "done"} => calls[c].pc \notin {"idle", "done"}
                              /\ calls'[c].pc \notin {"idle", "queued", "done"} => calls[c].pc \notin {"idle", "queued", "done"}
      BY <1>5
    <2> QED BY <1>3, <1>6, <2>1 DEF FirstLine, Ledger!Runs
  <1>8. FirstGate'
    <2>1. \A p : UsesGate(p) => UsesGate(p)'
      BY <1>2, <1>5 DEF UsesGate
    <2>2. CASE inFlight = None /\ s.work = "gate" /\ gate' = Ledger!AtGate(n + 1)
      <3>1. ~UsesGate(n + 1) /\ UsesGate(n + 1)'
        BY <1>2, <1>4, <2>2 DEF UsesGate
      <3> QED BY <1>4, <1>6, <2>1, <2>2, <3>1, GateJoined
    <2>3. CASE gate' = gate
      BY <1>6, <2>1, <2>3, GateStays
    <2> QED BY <1>1, <2>2, <2>3 DEF Started
  <1>9. /\ s.promise = "open" /\ s.work \in {"previous", "gate"} /\ s.previous = inFlight /\ inFlight' = n + 1
        /\ s.work = "previous" <=> inFlight # None
    BY <1>1 DEF Started
  <1>10. FirstRefreshes'
    <2>1. inFlight # None => inFlight = n /\ n >= 1
      BY <1>1, <1>2, <1>3 DEF FirstRefreshes, LedgerInv, RefreshesSound
    <2>2. ASSUME NEW r \in 1..n
          PROVE  /\ refreshes'[r].promise # "invalid"
                 /\ refreshes'[r].promise = "open" <=> refreshes'[r].work \in {"previous", "gate"}
                 /\ refreshes'[r].work = "previous" => r > 1 /\ refreshes'[r].previous = r - 1
                 /\ refreshes'[r].work # "previous" => \A q \in 1..r - 1 : refreshes'[q].promise # "open"
      <3>1. \A q \in 1..r - 1 : q \in 1..n
        OBVIOUS
      <3> QED BY <1>2, <1>3, <3>1 DEF FirstRefreshes
    <2>3. /\ s.promise # "invalid" /\ (s.promise = "open" <=> s.work \in {"previous", "gate"})
          /\ s.work = "previous" => n + 1 > 1 /\ s.previous = n + 1 - 1
          /\ s.work # "previous" => \A q \in 1..n : refreshes'[q].promise # "open"
      BY <1>2, <1>3, <1>9, <2>1 DEF FirstRefreshes
    <2>4. ASSUME NEW r \in 1..(n + 1)
          PROVE  /\ refreshes'[r].promise # "invalid"
                 /\ refreshes'[r].promise = "open" <=> refreshes'[r].work \in {"previous", "gate"}
                 /\ refreshes'[r].work = "previous" => r > 1 /\ refreshes'[r].previous = r - 1
                 /\ refreshes'[r].work # "previous" => \A q \in 1..r - 1 : refreshes'[q].promise # "open"
      <3>1. r = n + 1 \/ r \in 1..n
        OBVIOUS
      <3>2. n + 1 - 1 = n
        OBVIOUS
      <3> QED BY <1>2, <2>2, <2>3, <3>1, <3>2
    <2>5. \A c \in Commands : calls'[c].answer # "invalid"
      BY <1>3, <1>5 DEF FirstRefreshes
    <2> QED BY <1>2, <1>4, <1>9, <2>4, <2>5 DEF FirstRefreshes
  <1>11. FirstClosing'
    <2>1. closing.step \in {"open", "queue"}
      <3>1. CASE w \in Commands /\ calls[w].pc = "transport"
        <4>1. \E i \in DOMAIN line[0] : line[0][i] = w
          BY <1>3, <3>1 DEF FirstLine
        <4> QED BY <1>3, <4>1 DEF FirstClosing
      <3> QED BY <3>1 DEF Asked
    <2> QED BY <1>3, <1>6, <2>1 DEF FirstClosing
  <1> QED BY <1>7, <1>8, <1>10, <1>11

\* A refresh that starts keeps the invariant.
LEMMA StartedKeeps ==
    ASSUME LedgerInv, NEW s, Started(s), NEW w, Asked(w)
    PROVE  LedgerInv'
  <1>1. PICK n \in Nat : n = Len(refreshes)
    BY StartedIs
  <1>2. n + 1 \in Ledger!Owners
    BY <1>1, StartedCounts, RefreshIsNoCommand
  <1>3. /\ gate' \in [Ledger!Epochs -> Seq(Ledger!Owners)]
        /\ \A e \in Ledger!Epochs : e # epoch => gate'[e] = gate[e]
    <2>1. gate' = gate \/ gate' = Ledger!AtGate(n + 1)
      BY <1>1 DEF Started
    <2>2. gate \in [Ledger!Epochs -> Seq(Ledger!Owners)] /\ LedgerShapes
      BY DEF LedgerInv, LedgerShapes
    <2> QED BY <1>2, <2>1, <2>2, AtGateIs
  <1>4. LedgerShapes'
    <2>1. generation' \in Nat /\ written' \in 0..height
      BY DEF Asked, LedgerInv, LedgerShapes
    <2>2. calls' \in [Commands -> CallState]
      BY DEF Asked, Becomes, LedgerInv, LedgerShapes
    <2>3. readers' \in [Readers -> ReaderState]
      <3>1. PICK m \in Nat : m = n + 1
        OBVIOUS
      <3>2. PICK rs \in ReaderState : rs = [pc |-> "waiting", refresh |-> m]
        BY DEF ReaderState
      <3>3. readers' = readers \/ readers' = [readers EXCEPT ![w] = rs]
        BY <1>1, <3>1, <3>2 DEF Asked
      <3> QED BY <3>2, <3>3 DEF LedgerInv, LedgerShapes
    <2>4. floor' \in [Commands \union Readers -> 0..height]
      <3>1. floor \in [Commands \union Readers -> 0..height] /\ height \in 0..height /\ written \in 0..height
        BY DEF LedgerInv, LedgerShapes
      <3>2. floor' = [floor EXCEPT ![w] = height] \/ floor' = [floor EXCEPT ![w] = written]
        BY DEF Asked
      <3> QED BY <3>1, <3>2
    <2>5. inFlight' \in Nat \union {None} /\ refreshes' \in Seq(Shared)
      BY <1>1, StartedIs DEF Started
    <2> QED BY <1>3, <2>1, <2>2, <2>3, <2>4, <2>5 DEF Started, LedgerInv, LedgerShapes
  <1>5. LaterChains'
    <2>1. epoch \in Nat /\ epoch' = epoch /\ line' = line
      BY DEF Started, LedgerInv, LedgerShapes, Ledger!Epochs
    <2>2. \A e \in Ledger!Epochs : e > epoch => e # epoch
      BY <2>1 DEF Ledger!Epochs
    <2> QED BY <1>3, <2>1, <2>2 DEF LedgerInv, LaterChains
  <1>6. FirstEpoch'
    <2>1. epoch' = epoch
      BY DEF Started
    <2>2. ASSUME epoch = 0
          PROVE  FirstLine' /\ FirstGate' /\ FirstRefreshes' /\ FirstClosing'
      BY <2>2, StartedFirst
    <2> QED BY <2>1, <2>2 DEF FirstEpoch
  <1> QED BY <1>4, <1>5, <1>6, StartedCounts, StartedWrites DEF LedgerInv

\* refreshAt, when it does not share the refresh in flight.
LEMMA RefreshStarts ==
    ASSUME LedgerInv, NEW g \in Nat, g = generation', ~Ledger!Joins(g), Ledger!RefreshAt(g),
           UNCHANGED <<height, projected, available, epoch, line, sync, closing>>
    PROVE  \E s : Started(s)
  <1>1. PICK n \in Nat : n = Len(refreshes)
    BY DEF LedgerInv, LedgerShapes
  <1>2. PICK s : s = [generation |-> g, previous |-> inFlight, promise |-> "open",
                      work |-> IF inFlight = None THEN "gate" ELSE "previous"]
    OBVIOUS
  <1>3. /\ refreshes' = Append(refreshes, s) /\ inFlight' = n + 1
        /\ gate' = IF inFlight = None THEN Ledger!AtGate(n + 1) ELSE gate
    BY <1>1, <1>2 DEF Ledger!RefreshAt
  <1>4. s \in Shared
    BY <1>2 DEF Shared, LedgerInv, LedgerShapes
  <1>5. Started(s)
    BY <1>1, <1>2, <1>3, <1>4 DEF Started
  <1> QED BY <1>5

\* A write that was sent raises the generation and starts a refresh of its own
\* (submit after transport.submit): the invariant stands.
LEMMA SentKeeps ==
    ASSUME LedgerInv, NEW c \in Commands, Ledger!Sent(c)
    PROVE  LedgerInv'
  <1>1. /\ calls[c].pc = "transport" /\ generation' = generation + 1 /\ written' = height
        /\ Ledger!RefreshAt(generation + 1)
        /\ calls' = [calls EXCEPT ![c].pc = "refresh", ![c].refresh = inFlight']
        /\ floor' = [floor EXCEPT ![c] = height]
        /\ UNCHANGED <<height, projected, available, epoch, line, pending, readers, sync, closing>>
    BY DEF Ledger!Sent, Ledger!Raised, Ledger!channel
  <1>2. PICK g \in Nat : g = generation + 1
    BY DEF LedgerInv, LedgerShapes
  <1>3. ~Ledger!Joins(g)
    <2>1. inFlight # None => inFlight \in DOMAIN refreshes
      BY DEF LedgerInv, RefreshesSound
    <2>2. inFlight # None => refreshes[inFlight].generation \in Nat /\ refreshes[inFlight].generation <= generation
      BY <2>1, SharedIs
    <2> QED BY <1>2, <2>2 DEF Ledger!Joins, LedgerInv, LedgerShapes
  <1>4. PICK s : Started(s)
    BY <1>1, <1>2, <1>3, RefreshStarts
  <1>5. inFlight' = Len(refreshes) + 1 /\ Len(refreshes) + 1 \in Nat
    BY <1>4, StartedIs DEF Started
  <1>6. Becomes(c, "refresh", Len(refreshes) + 1, calls[c].answer)
    <2>1. PICK n \in Nat : n = Len(refreshes) + 1
      BY <1>5
    <2>2. calls' = [calls EXCEPT ![c].pc = "refresh", ![c].refresh = n]
      BY <1>1, <1>5, <2>1
    <2>3. calls \in [Commands -> CallState]
      BY DEF LedgerInv, LedgerShapes
    <2> QED BY <2>1, <2>2, <2>3 DEF Becomes, CallState, CallStates
  <1>7. Asked(c)
    BY <1>1, <1>6 DEF Asked
  <1> QED BY <1>4, <1>7, StartedKeeps

\* refresh: shared with the callers of its generation, or started.
LEMMA JoinedKeeps ==
    ASSUME LedgerInv, NEW d \in Readers, readers[d].pc = "idle", Ledger!Joins(generation),
           readers' = [readers EXCEPT ![d] = [pc |-> "waiting", refresh |-> inFlight]],
           floor' = [floor EXCEPT ![d] = written],
           UNCHANGED <<height, projected, available, epoch, line, gate, pending, generation, refreshes,
                       inFlight, written, calls, sync, closing>>
    PROVE  LedgerInv'
  <1>1. /\ inFlight \in DOMAIN refreshes /\ refreshes[inFlight].promise = "open" /\ inFlight \in Nat /\ inFlight # None
        /\ refreshes[inFlight].generation = generation
    <2>1. inFlight \in DOMAIN refreshes /\ refreshes[inFlight].promise = "open" /\ inFlight \in Nat /\ inFlight # None
      BY DEF Ledger!Joins, LedgerInv, LedgerShapes, RefreshesSound
    <2>2. refreshes[inFlight].generation \in Nat /\ refreshes[inFlight].generation <= generation
      BY <2>1, SharedIs
    <2> QED BY <2>1, <2>2 DEF Ledger!Joins, LedgerInv, LedgerShapes
  <1>2. /\ readers' \in [Readers -> ReaderState] /\ readers'[d].pc = "waiting" /\ readers'[d].refresh = inFlight
        /\ \A e \in Readers : e # d => readers'[e] = readers[e]
    <2>1. PICK rs \in ReaderState : rs = [pc |-> "waiting", refresh |-> inFlight]
      BY <1>1 DEF ReaderState
    <2>2. readers' = [readers EXCEPT ![d] = rs] /\ rs.pc = "waiting" /\ rs.refresh = inFlight
      BY <2>1
    <2> QED BY <2>1, <2>2 DEF LedgerInv, LedgerShapes
  <1>3. /\ floor' \in [Commands \union Readers -> 0..height] /\ floor'[d] = written
        /\ \A e \in Commands \union Readers : e # d => floor'[e] = floor[e]
    BY DEF LedgerInv, LedgerShapes
  <1>4. LedgerShapes'
    BY <1>2, <1>3 DEF LedgerInv, LedgerShapes
  <1>5. CommandsSound' /\ LaterChains' /\ SyncSound'
    BY DEF LedgerInv, CommandsSound, LaterChains, SyncSound, Ledger!Synchronizes
  <1>6. ReadersSound'
    BY <1>1, <1>2 DEF LedgerInv, ReadersSound
  <1>7. RefreshesSound'
    <2>1. PICK Q \in SUBSET Readers : Q = {e \in Readers : readers[e].refresh # None}
      OBVIOUS
    <2>2. PICK V \in SUBSET Readers : V = {e \in Readers : readers'[e].refresh # None}
      OBVIOUS
    <2>3. PICK P \in SUBSET Commands : P = {c \in Commands : calls[c].refresh # None}
      OBVIOUS
    <2>4. Q \subseteq V
      BY <1>1, <1>2, <2>1, <2>2
    <2>5. Cardinality(Q) <= Cardinality(V) /\ Cardinality(Q) \in Nat /\ Cardinality(V) \in Nat /\ Cardinality(P) \in Nat
      BY <2>4, Counting, LedgerAssumption
    <2>6. Len(refreshes) <= Cardinality(P) + Cardinality(Q) /\ Len(refreshes) \in Nat
      BY <2>1, <2>3, RefreshesAreOwners DEF LedgerInv, RefreshesSound
    <2>7. Len(refreshes) <= Cardinality(P) + Cardinality(V)
      BY <2>5, <2>6
    <2> QED BY <2>2, <2>3, <2>7 DEF LedgerInv, RefreshesSound
  <1>8. WritesSound'
    <2>1. ASSUME NEW r \in DOMAIN refreshes, NEW v \in Waiting(r)'
          PROVE  \/ v \in Waiting(r) /\ floor'[v] = floor[v]
                 \/ r = inFlight /\ floor'[v] = written
      BY <1>2, <1>3, LedgerAssumption DEF Waiting
    <2>2. ASSUME NEW r \in DOMAIN refreshes, NEW v \in Waiting(r)'
          PROVE  /\ sync[r] # None => floor'[v] <= sync[r].asked
                 /\ refreshes[r].promise = "ok" => floor'[v] <= projected
      BY <1>1, <2>1 DEF LedgerInv, WritesSound
    <2> QED BY <2>2 DEF LedgerInv, WritesSound
  <1>9. FirstEpoch'
    BY DEF LedgerInv, FirstEpoch, FirstLine, FirstGate, FirstRefreshes, FirstClosing, UsesGate
  <1> QED BY <1>4, <1>5, <1>6, <1>7, <1>8, <1>9 DEF LedgerInv

\* A reader that asks for a refresh joins the one in flight or starts one, and
\* the invariant stands.
LEMMA CallRefreshKeeps ==
    ASSUME LedgerInv, NEW d \in Readers, Ledger!CallRefresh(d)
    PROVE  LedgerInv'
  <1>1. /\ readers[d].pc = "idle" /\ closing.step = "open" /\ Ledger!RefreshAt(generation)
        /\ readers' = [readers EXCEPT ![d] = [pc |-> "waiting", refresh |-> inFlight']]
        /\ floor' = [floor EXCEPT ![d] = written]
        /\ UNCHANGED <<height, projected, available, epoch, line, pending, generation, written,
                       calls, sync, closing>>
    BY DEF Ledger!CallRefresh, Ledger!Closed, Ledger!channel
  <1>2. CASE Ledger!Joins(generation)
    <2>1. UNCHANGED <<refreshes, inFlight, gate>>
      BY <1>1, <1>2 DEF Ledger!RefreshAt
    <2> QED BY <1>1, <1>2, <2>1, JoinedKeeps
  <1>3. CASE ~Ledger!Joins(generation)
    <2>1. PICK g \in Nat : g = generation
      BY DEF LedgerInv, LedgerShapes
    <2>2. PICK s : Started(s)
      BY <1>1, <1>3, <2>1, RefreshStarts
    <2>3. inFlight' = Len(refreshes) + 1
      BY <2>2 DEF Started
    <2>4. Asked(d)
      BY <1>1, <2>3 DEF Asked
    <2> QED BY <2>2, <2>4, StartedKeeps
  <1> QED BY <1>2, <1>3

\* serial: a call is refused, or takes the end of the line.
LEMMA CallMade ==
    ASSUME LedgerInv, NEW c \in Commands, Ledger!Call(c)
    PROVE  LedgerInv'
  <1>1. /\ calls[c].pc = "idle"
        /\ UNCHANGED <<height, projected, available, epoch, gate, generation, refreshes, inFlight, written,
                       floor, readers, sync, closing>>
    BY DEF Ledger!Call, Ledger!channel, Ledger!refreshing
  <1>2. calls \in [Commands -> CallState] /\ line \in [Ledger!Epochs -> Seq(Commands)] /\ epoch \in Ledger!Epochs
        /\ epoch \in Nat
    BY DEF LedgerInv, LedgerShapes, Ledger!Epochs
  <1>3. PICK pc \in {"done", "queued"}, answer \in Answers \union {None} :
          /\ Becomes(c, pc, calls[c].refresh, answer)
          /\ answer \in {"closed", "busy", calls[c].answer}
          /\ pc = "done" => UNCHANGED <<pending, line>>
          /\ pc = "queued" => /\ closing.step = "open" /\ pending < MaxPending
                              /\ pending' = pending + 1 /\ line' = [line EXCEPT ![epoch] = Append(line[epoch], c)]
    <2>1. CASE Ledger!Closed \/ Ledger!Full
      <3>1. PICK answer \in {"closed", "busy"} : answer = IF Ledger!Closed THEN "closed" ELSE "busy"
        OBVIOUS
      <3>2. /\ calls' = [calls EXCEPT ![c].pc = "done", ![c].answer = answer]
            /\ UNCHANGED <<pending, line>>
        BY <2>1, <3>1 DEF Ledger!Call
      <3>3. answer \in Answers
        BY DEF Answers
      <3>4. Becomes(c, "done", calls[c].refresh, answer)
        BY <1>2, <3>2, <3>3 DEF Becomes, CallState, CallStates
      <3> QED BY <3>2, <3>3, <3>4
    <2>2. CASE ~(Ledger!Closed \/ Ledger!Full)
      <3>1. /\ calls' = [calls EXCEPT ![c].pc = "queued"] /\ pending' = pending + 1
            /\ line' = [line EXCEPT ![epoch] = Append(line[epoch], c)]
        BY <2>2 DEF Ledger!Call
      <3>2. closing.step = "open" /\ pending < MaxPending
        <4>1. pending \in Nat /\ MaxPending \in Nat
          <5>1. PICK W \in SUBSET Commands : W = {d \in Commands : calls[d].pc \notin {"idle", "done"}}
            OBVIOUS
          <5> QED BY <5>1, Counting, LedgerAssumption DEF LedgerInv, CommandsSound
        <4> QED BY <2>2, <4>1 DEF Ledger!Closed, Ledger!Full
      <3>3. calls[c].answer \in Answers \union {None}
        BY <1>2 DEF CallState
      <3>4. Becomes(c, "queued", calls[c].refresh, calls[c].answer)
        BY <1>2, <3>1 DEF Becomes, CallState, CallStates
      <3> QED BY <3>1, <3>2, <3>3, <3>4
    <2> QED BY <2>1, <2>2
  <1>4. /\ line' \in [Ledger!Epochs -> Seq(Commands)]
        /\ \A e \in Ledger!Epochs : e # epoch => line'[e] = line[e]
        /\ line'[epoch] = line[epoch] \/ line'[epoch] = Append(line[epoch], c)
    <2>1. PICK s \in Seq(Commands) : s = Append(line[epoch], c)
      <3>1. PICK t \in Seq(Commands) : t = line[epoch]
        BY <1>2
      <3>2. Append(t, c) \in Seq(Commands)
        OBVIOUS
      <3> QED BY <3>1, <3>2
    <2>2. line' = line \/ line' = [line EXCEPT ![epoch] = s]
      BY <1>3, <2>1
    <2> QED BY <1>2, <2>1, <2>2
  <1>5. LedgerShapes' /\ LaterChains'
    <2>1. calls' \in [Commands -> CallState]
      BY <1>3 DEF Becomes
    <2>2. \A e \in Ledger!Epochs : e > epoch => e # epoch
      BY <1>2 DEF Ledger!Epochs
    <2> QED BY <1>1, <1>4, <2>1, <2>2 DEF LedgerInv, LedgerShapes, LaterChains
  <1>6. \A d \in Commands : calls'[d].refresh = calls[d].refresh /\ (d # c => calls'[d] = calls[d])
    BY <1>3 DEF Becomes
  <1>7. calls'[c].pc = pc
    BY <1>3 DEF Becomes
  <1>8. CommandsSound'
    <2>1. PICK W \in SUBSET Commands : W = {d \in Commands : calls[d].pc \notin {"idle", "done"}}
      OBVIOUS
    <2>2. PICK U \in SUBSET Commands : U = {d \in Commands : calls'[d].pc \notin {"idle", "done"}}
      OBVIOUS
    <2>3. c \notin W /\ IF pc = "done" THEN U = W ELSE U = W \union {c}
      BY <1>1, <1>6, <1>7, <2>1, <2>2
    <2>4. pending = Cardinality(W) /\ pending <= MaxPending
      BY <2>1 DEF LedgerInv, CommandsSound
    <2>5. Cardinality(W) \in Nat /\ MaxPending \in Nat /\ (U = W \union {c} => Cardinality(U) = Cardinality(W) + 1)
      BY <2>3, Counting, LedgerAssumption
    <2>6. pending' = Cardinality(U) /\ pending' <= MaxPending
      BY <1>3, <2>3, <2>4, <2>5
    <2>7. ASSUME NEW d \in Commands
          PROVE  /\ calls'[d].pc \in {"idle", "queued", "gate", "transport"} => calls'[d].refresh = None
                 /\ calls'[d].pc = "refresh" => calls'[d].refresh \in DOMAIN refreshes
      BY <1>1, <1>6, <1>7 DEF LedgerInv, CommandsSound
    <2> QED BY <1>1, <2>2, <2>6, <2>7 DEF CommandsSound
  <1>9. ReadersSound' /\ RefreshesSound'
    <2>1. {d \in Commands : calls'[d].refresh # None} = {d \in Commands : calls[d].refresh # None}
      BY <1>6
    <2> QED BY <1>1, <2>1 DEF LedgerInv, ReadersSound, RefreshesSound
  <1>10. SyncSound' /\ WritesSound'
    <2>1. \A p : Ledger!Synchronizes(p) => Ledger!Synchronizes(p)'
      BY <1>1, <1>6 DEF Ledger!Synchronizes
    <2>2. \A r : Waiting(r)' = Waiting(r)
      BY <1>1, <1>3, <1>6, <1>7 DEF Waiting
    <2> QED BY <1>1, <2>1, <2>2 DEF LedgerInv, SyncSound, WritesSound
  <1>11. FirstEpoch'
    <2>1. ASSUME epoch = 0
          PROVE  FirstLine' /\ FirstGate' /\ FirstRefreshes' /\ FirstClosing'
      <3>1. FirstLine /\ FirstGate /\ FirstRefreshes /\ FirstClosing /\ line[0] \in Seq(Commands) /\ 0 \in Ledger!Epochs
        BY <2>1, FirstOfEpoch
      <3>2. FirstGate'
        <4>1. \A p : UsesGate(p) => UsesGate(p)'
          BY <1>1, <1>6 DEF UsesGate
        <4> QED BY <1>1, <2>1, <4>1, GateStays
      <3>3. FirstRefreshes'
        <4>1. calls'[c].answer # "invalid"
          BY <1>3, <3>1 DEF Becomes, FirstRefreshes
        <4>2. \A d \in Commands : calls'[d].answer # "invalid"
          BY <1>6, <3>1, <4>1 DEF FirstRefreshes
        <4> QED BY <1>1, <3>1, <4>2 DEF FirstRefreshes
      <3>4. CASE pc = "done"
        <4>1. line' = line /\ calls'[c].pc = "done"
          BY <1>3, <1>7, <3>4
        <4>2. FirstLine'
          BY <1>6, <3>1, <4>1 DEF FirstLine
        <4> QED BY <1>1, <3>1, <3>2, <3>3, <4>1, <4>2 DEF FirstClosing
      <3>5. CASE pc = "queued"
        <4>1. PICK s \in Seq(Commands) : s = line[0]
          BY <3>1
        <4>2. line'[0] = Append(s, c) /\ closing.step = "open" /\ calls'[c].pc = "queued"
          BY <1>2, <1>3, <1>7, <2>1, <3>1, <3>5, <4>1
        <4>3. /\ Len(s) \in Nat /\ DOMAIN s = 1..Len(s) /\ DOMAIN Append(s, c) = 1..(Len(s) + 1)
              /\ Append(s, c)[Len(s) + 1] = c /\ \A i \in 1..Len(s) : Append(s, c)[i] = s[i]
              /\ Append(s, c) # <<>> /\ (s # <<>> => Head(Append(s, c)) = Head(s))
          OBVIOUS
        <4>4. ASSUME NEW d \in Commands
              PROVE  /\ calls'[d].pc \notin {"idle", "done"} =>
                          \E i \in DOMAIN Append(s, c) : Append(s, c)[i] = d
                     /\ calls'[d].pc \notin {"idle", "queued", "done"} => Ledger!Runs(Append(s, c), d)
          <5>1. CASE d = c
            BY <4>2, <4>3, <5>1
          <5>2. CASE d # c
            BY <1>6, <3>1, <4>1, <4>3, <5>2 DEF FirstLine, Ledger!Runs
          <5> QED BY <5>1, <5>2
        <4>5. FirstLine'
          BY <4>2, <4>4 DEF FirstLine
        <4> QED BY <1>1, <3>1, <3>2, <3>3, <4>2, <4>5 DEF FirstClosing
      <3> QED BY <3>4, <3>5
    <2> QED BY <1>1, <2>1 DEF FirstEpoch
  <1> QED BY <1>5, <1>8, <1>9, <1>10, <1>11 DEF LedgerInv

\* A refresh changes its promise or its work, and no other does.
Alters(r, s) ==
    /\ refreshes' = [refreshes EXCEPT ![r] = s]
    /\ s.generation = refreshes[r].generation /\ s.previous = refreshes[r].previous

\* What changes of the refreshes when one of them moves on.
LEMMA AltersIs ==
    ASSUME LedgerInv, NEW r \in DOMAIN refreshes, NEW s \in Shared, Alters(r, s)
    PROVE  /\ refreshes' \in Seq(Shared) /\ DOMAIN refreshes' = DOMAIN refreshes /\ Len(refreshes') = Len(refreshes)
           /\ refreshes'[r] = s /\ \A q \in DOMAIN refreshes : q # r => refreshes'[q] = refreshes[q]
  <1>1. PICK rs \in Seq(Shared) : rs = refreshes
    BY DEF LedgerInv, LedgerShapes
  <1>2. refreshes' = [rs EXCEPT ![r] = s] /\ r \in DOMAIN rs /\ DOMAIN rs = 1..Len(rs)
    BY <1>1 DEF Alters
  <1>3. /\ refreshes' \in Seq(Shared) /\ DOMAIN refreshes' = DOMAIN rs /\ Len(refreshes') = Len(rs)
        /\ \A i \in 1..Len(rs) : refreshes'[i] = IF i = r THEN s ELSE rs[i]
    BY <1>2, OneChanged
  <1> QED BY <1>1, <1>2, <1>3

\* The refresh before settled: this one enters the gate.
LEMMA FollowKeeps ==
    ASSUME LedgerInv, NEW r \in Ledger!RefreshIds, Ledger!FollowPrevious(r)
    PROVE  LedgerInv'
  <1>1. /\ r \in DOMAIN refreshes /\ refreshes[r].work = "previous"
        /\ refreshes[refreshes[r].previous].promise # "open"
        /\ refreshes' = [refreshes EXCEPT ![r].work = "gate"] /\ gate' = Ledger!AtGate(r)
        /\ UNCHANGED <<height, projected, available, epoch, line, pending, generation, inFlight,
                       written, floor, calls, readers, sync, closing>>
    BY DEF Ledger!FollowPrevious, Ledger!Settled, Ledger!channel
  <1>2. r \in Ledger!Owners /\ r \in Nat
    BY OwnersAre
  <1>3. PICK s \in Shared : s = [refreshes[r] EXCEPT !.work = "gate"]
    BY <1>1, SharedIs DEF Shared
  <1>4. s.work = "gate" /\ s.promise = refreshes[r].promise /\ Alters(r, s)
    BY <1>1, <1>3, SharedIs DEF Shared, Alters
  <1>5. /\ refreshes' \in Seq(Shared) /\ DOMAIN refreshes' = DOMAIN refreshes /\ Len(refreshes') = Len(refreshes)
        /\ refreshes'[r] = s /\ \A q \in DOMAIN refreshes : q # r => refreshes'[q] = refreshes[q]
    BY <1>1, <1>4, AltersIs
  <1>6. \A q \in DOMAIN refreshes : /\ refreshes'[q].promise = refreshes[q].promise
                                    /\ refreshes'[q].generation = refreshes[q].generation
                                    /\ refreshes'[q].previous = refreshes[q].previous
    BY <1>4, <1>5 DEF Alters
  <1>7. /\ gate' \in [Ledger!Epochs -> Seq(Ledger!Owners)]
        /\ \A e \in Ledger!Epochs : e # epoch => gate'[e] = gate[e]
    BY <1>1, <1>2, AtGateIs DEF LedgerInv, LedgerShapes
  <1>8. LedgerShapes' /\ LaterChains'
    <2>1. \A e \in Ledger!Epochs : e > epoch => e # epoch
      BY DEF LedgerInv, LedgerShapes, Ledger!Epochs
    <2> QED BY <1>1, <1>5, <1>7, <2>1 DEF LedgerInv, LedgerShapes, LaterChains
  <1>9. CommandsSound' /\ ReadersSound'
    BY <1>1, <1>5 DEF LedgerInv, CommandsSound, ReadersSound
  <1>10. RefreshesSound'
    <2>1. ASSUME NEW q \in DOMAIN refreshes
          PROVE  /\ refreshes'[q].generation <= generation
                 /\ refreshes'[q].promise = "open" => refreshes'[q].work \in {"previous", "gate"}
      BY <1>4, <1>5, <1>6 DEF LedgerInv, RefreshesSound
    <2>2. inFlight # None => inFlight \in DOMAIN refreshes /\ refreshes'[inFlight].promise = "open"
      BY <1>6 DEF LedgerInv, RefreshesSound
    <2> QED BY <1>1, <1>5, <2>1, <2>2 DEF LedgerInv, RefreshesSound
  <1>11. SyncSound' /\ WritesSound'
    <2>1. \A p : Ledger!Synchronizes(p) => Ledger!Synchronizes(p)'
      BY <1>1, <1>4, <1>5 DEF Ledger!Synchronizes
    <2>2. \A q : Waiting(q)' = Waiting(q)
      BY <1>1 DEF Waiting
    <2>3. SyncSound'
      BY <1>1, <2>1 DEF LedgerInv, SyncSound
    <2>4. ASSUME NEW q \in DOMAIN refreshes
          PROVE  /\ sync[q] # None /\ refreshes'[q].generation = generation => written <= sync[q].asked
                 /\ \A w \in Waiting(q) :
                      /\ sync[q] # None => floor[w] <= sync[q].asked
                      /\ refreshes'[q].promise = "ok" => floor[w] <= projected
      BY <1>6 DEF LedgerInv, WritesSound
    <2> QED BY <1>1, <1>5, <2>2, <2>3, <2>4 DEF WritesSound
  <1>12. FirstEpoch'
    <2>1. ASSUME epoch = 0
          PROVE  FirstLine' /\ FirstGate' /\ FirstRefreshes' /\ FirstClosing'
      <3>1. FirstLine /\ FirstGate /\ FirstRefreshes /\ FirstClosing
        BY <2>1, FirstOfEpoch
      <3>2. FirstGate'
        <4>1. ~UsesGate(r)
          BY <1>1, RefreshIsNoCommand
        <4>2. UsesGate(r)'
          BY <1>1, <1>4, <1>5 DEF UsesGate
        <4>3. \A p : UsesGate(p) => UsesGate(p)'
          BY <1>1, <1>4, <1>5 DEF UsesGate
        <4> QED BY <1>1, <1>2, <2>1, <4>1, <4>2, <4>3, GateJoined
      <3>3. r > 1 /\ refreshes[r].previous = r - 1 /\ r - 1 \in DOMAIN refreshes /\ DOMAIN refreshes = 1..Len(refreshes)
            /\ Len(refreshes) \in Nat
        BY <1>1, <1>2, <3>1, RefreshesAreOwners DEF FirstRefreshes
      <3>4. \A q \in 1..r - 1 : refreshes[q].promise # "open"
        <4>1. refreshes[r - 1].promise # "open" /\ refreshes[r - 1].work # "previous"
          BY <1>1, <3>1, <3>3 DEF FirstRefreshes
        <4>2. \A q \in 1..(r - 1) - 1 : refreshes[q].promise # "open"
          BY <3>1, <3>3, <4>1 DEF FirstRefreshes
        <4>3. \A q \in 1..r - 1 : q = r - 1 \/ q \in 1..(r - 1) - 1
          BY <1>2
        <4> QED BY <4>1, <4>2, <4>3
      <3>5. FirstRefreshes'
        <4>1. ASSUME NEW q \in DOMAIN refreshes
              PROVE  /\ refreshes'[q].promise # "invalid"
                     /\ refreshes'[q].promise = "open" <=> refreshes'[q].work \in {"previous", "gate"}
                     /\ refreshes'[q].work = "previous" => q > 1 /\ refreshes'[q].previous = q - 1
                     /\ refreshes'[q].work # "previous" => \A o \in 1..q - 1 : refreshes'[o].promise # "open"
          <5>1. \A o \in 1..q - 1 : o \in DOMAIN refreshes
            BY <3>3
          <5>2. CASE q = r
            BY <1>1, <1>4, <1>5, <1>6, <3>1, <3>4, <5>1, <5>2 DEF FirstRefreshes
          <5>3. CASE q # r
            BY <1>5, <1>6, <3>1, <5>1, <5>3 DEF FirstRefreshes
          <5> QED BY <5>2, <5>3
        <4>2. inFlight = None => \A q \in DOMAIN refreshes : refreshes'[q].promise # "open"
          BY <1>6, <3>1 DEF FirstRefreshes
        <4> QED BY <1>1, <1>5, <3>1, <4>1, <4>2 DEF FirstRefreshes
      <3>6. FirstLine' /\ FirstClosing'
        <4>1. refreshes # <<>> /\ refreshes' # <<>>
          BY <1>1, <1>5
        <4> QED BY <1>1, <1>5, <3>1, <4>1 DEF FirstLine, FirstClosing
      <3> QED BY <3>2, <3>5, <3>6
    <2> QED BY <1>1, <2>1 DEF FirstEpoch
  <1> QED BY <1>8, <1>9, <1>10, <1>11, <1>12 DEF LedgerInv

\* The timer: later chains begin empty.
LEMMA AbandonKeeps ==
    ASSUME LedgerInv, NEW r \in Ledger!RefreshIds, Ledger!Abandon(r)
    PROVE  LedgerInv'
  <1>1. /\ r \in DOMAIN refreshes /\ refreshes[r].promise = "open" /\ epoch < MaxResets /\ available' = FALSE
        /\ inFlight' = (IF inFlight = r THEN None ELSE inFlight) /\ epoch' = epoch + 1
        /\ refreshes' = [refreshes EXCEPT ![r].promise = "abandoned"]
        /\ UNCHANGED <<height, projected, line, gate, pending, generation, written, floor, calls,
                       readers, sync, closing>>
    BY DEF Ledger!Abandon, Ledger!Settled, Ledger!channel
  <1>2. PICK s \in Shared : s = [refreshes[r] EXCEPT !.promise = "abandoned"]
    BY <1>1, SharedIs DEF Shared
  <1>3. s.work = refreshes[r].work /\ s.promise = "abandoned" /\ Alters(r, s)
    BY <1>1, <1>2, SharedIs DEF Shared, Alters
  <1>4. /\ refreshes' \in Seq(Shared) /\ DOMAIN refreshes' = DOMAIN refreshes /\ Len(refreshes') = Len(refreshes)
        /\ refreshes'[r] = s /\ \A q \in DOMAIN refreshes : q # r => refreshes'[q] = refreshes[q]
    BY <1>1, <1>3, AltersIs
  <1>5. \A q \in DOMAIN refreshes : /\ refreshes'[q].generation = refreshes[q].generation
                                    /\ refreshes'[q].work = refreshes[q].work
                                    /\ refreshes'[q].promise \in {refreshes[q].promise, "abandoned"}
    BY <1>3, <1>4 DEF Alters
  <1>6. epoch \in Nat /\ epoch' \in Nat /\ epoch' \in Ledger!Epochs /\ epoch' # 0 /\ epoch' = epoch + 1
    BY <1>1, LedgerAssumption DEF LedgerInv, LedgerShapes, Ledger!Epochs
  <1>7. LedgerShapes'
    <2>1. inFlight' \in Nat \union {None} /\ available' \in BOOLEAN
      BY <1>1 DEF LedgerInv, LedgerShapes
    <2> QED BY <1>1, <1>4, <1>6, <2>1 DEF LedgerInv, LedgerShapes
  <1>8. LaterChains'
    <2>1. \A e \in Ledger!Epochs : e > epoch + 1 => e > epoch
      BY <1>6 DEF Ledger!Epochs
    <2> QED BY <1>1, <1>6, <2>1 DEF LedgerInv, LaterChains
  <1>9. CommandsSound' /\ ReadersSound'
    BY <1>1, <1>4 DEF LedgerInv, CommandsSound, ReadersSound
  <1>10. RefreshesSound'
    <2>1. ASSUME NEW q \in DOMAIN refreshes
          PROVE  /\ refreshes'[q].generation <= generation
                 /\ refreshes'[q].promise = "open" => refreshes'[q].work \in {"previous", "gate"}
      BY <1>5 DEF LedgerInv, RefreshesSound
    <2>2. inFlight' # None => inFlight' \in DOMAIN refreshes /\ refreshes'[inFlight'].promise = "open"
      BY <1>1, <1>4 DEF LedgerInv, RefreshesSound
    <2> QED BY <1>1, <1>4, <2>1, <2>2 DEF LedgerInv, RefreshesSound
  <1>11. SyncSound' /\ WritesSound'
    <2>1. \A p : Ledger!Synchronizes(p) => Ledger!Synchronizes(p)'
      BY <1>1, <1>4, <1>5 DEF Ledger!Synchronizes
    <2>2. \A q : Waiting(q)' = Waiting(q)
      BY <1>1 DEF Waiting
    <2>3. SyncSound'
      BY <1>1, <2>1 DEF LedgerInv, SyncSound
    <2>4. ASSUME NEW q \in DOMAIN refreshes
          PROVE  /\ sync[q] # None /\ refreshes'[q].generation = generation => written <= sync[q].asked
                 /\ \A w \in Waiting(q) :
                      /\ sync[q] # None => floor[w] <= sync[q].asked
                      /\ refreshes'[q].promise = "ok" => floor[w] <= projected
      BY <1>5 DEF LedgerInv, WritesSound
    <2> QED BY <1>1, <1>4, <2>2, <2>3, <2>4 DEF WritesSound
  <1>12. FirstEpoch'
    BY <1>6 DEF FirstEpoch
  <1> QED BY <1>7, <1>8, <1>9, <1>10, <1>11, <1>12 DEF LedgerInv

\* A caller of refresh has its answer.
LEMMA ReturnKeeps ==
    ASSUME LedgerInv, NEW d \in Readers, Ledger!RefreshReturns(d)
    PROVE  LedgerInv'
  <1>1. /\ readers[d].pc = "waiting" /\ readers' = [readers EXCEPT ![d].pc = "done"]
        /\ UNCHANGED <<height, projected, available, epoch, line, gate, pending, generation, refreshes, inFlight,
                       written, floor, calls, sync, closing>>
    BY DEF Ledger!RefreshReturns, Ledger!channel, Ledger!chains, Ledger!refreshing
  <1>2. /\ readers' \in [Readers -> ReaderState] /\ readers'[d].pc = "done"
        /\ \A e \in Readers : readers'[e].refresh = readers[e].refresh /\ (e # d => readers'[e] = readers[e])
    BY <1>1 DEF LedgerInv, LedgerShapes, ReaderState
  <1>3. LedgerShapes' /\ CommandsSound' /\ LaterChains' /\ SyncSound'
    BY <1>1, <1>2 DEF LedgerInv, LedgerShapes, CommandsSound, LaterChains, SyncSound, Ledger!Synchronizes
  <1>4. ReadersSound'
    BY <1>1, <1>2 DEF LedgerInv, ReadersSound
  <1>5. RefreshesSound'
    <2>1. {e \in Readers : readers'[e].refresh # None} = {e \in Readers : readers[e].refresh # None}
      BY <1>2
    <2> QED BY <1>1, <2>1 DEF LedgerInv, RefreshesSound
  <1>6. WritesSound'
    <2>1. \A r : Waiting(r)' \subseteq Waiting(r)
      BY <1>1, <1>2 DEF Waiting
    <2>2. ASSUME NEW r \in DOMAIN refreshes, NEW w \in Waiting(r)'
          PROVE  /\ sync[r] # None => floor[w] <= sync[r].asked
                 /\ refreshes[r].promise = "ok" => floor[w] <= projected
      BY <2>1 DEF LedgerInv, WritesSound
    <2> QED BY <1>1, <2>2 DEF LedgerInv, WritesSound
  <1>7. FirstEpoch'
    BY <1>1 DEF LedgerInv, FirstEpoch, FirstLine, FirstGate, FirstRefreshes, FirstClosing, UsesGate
  <1> QED BY <1>3, <1>4, <1>5, <1>6, <1>7 DEF LedgerInv

\* close: what it waits for, and that it waits for all of it.
LEMMA ClosingMoves ==
    ASSUME LedgerInv, closing' \in ClosingState, epoch = 0 => FirstClosing',
           UNCHANGED <<height, projected, available, epoch, line, gate, pending, generation, refreshes, inFlight,
                       written, floor, calls, readers, sync>>
    PROVE  LedgerInv'
  <1>1. LedgerShapes' /\ CommandsSound' /\ ReadersSound' /\ RefreshesSound' /\ SyncSound' /\ LaterChains'
    BY DEF LedgerInv, LedgerShapes, CommandsSound, ReadersSound, RefreshesSound, SyncSound, LaterChains,
           Ledger!Synchronizes
  <1>2. WritesSound'
    BY DEF LedgerInv, WritesSound, Waiting
  <1>3. FirstEpoch'
    BY DEF LedgerInv, FirstEpoch, FirstLine, FirstGate, FirstRefreshes, UsesGate
  <1> QED BY <1>1, <1>2, <1>3 DEF LedgerInv

\* The end of a chain of the current epoch.
LEMMA EndIs ==
    ASSUME LedgerInv
    PROVE  /\ Ledger!End(line[epoch]) \in Commands \union {None}
           /\ Ledger!End(gate[epoch]) \in Commands \union Nat \union {None}
           /\ line[epoch] # <<>> => Ledger!End(line[epoch]) = line[epoch][Len(line[epoch])]
  <1>1. line[epoch] \in Seq(Commands) /\ gate[epoch] \in Seq(Ledger!Owners)
    BY DEF LedgerInv, LedgerShapes
  <1>2. Ledger!Owners \subseteq Commands \union Nat
    BY OwnersAre
  <1>3. line[epoch] # <<>> => Ledger!End(line[epoch]) = line[epoch][Len(line[epoch])]
                              /\ line[epoch][Len(line[epoch])] \in Commands
    BY <1>1, LibraryOfLedger DEF Ledger!End
  <1>4. gate[epoch] # <<>> => Ledger!End(gate[epoch]) \in Ledger!Owners
    <2>1. PICK g \in Seq(Ledger!Owners) : g = gate[epoch]
      BY <1>1
    <2>2. g # <<>> => g[Len(g)] \in Ledger!Owners
      OBVIOUS
    <2> QED BY <2>1, <2>2, LibraryOfLedger DEF Ledger!End
  <1> QED BY <1>2, <1>3, <1>4 DEF Ledger!End

\* Closing starts behind the last of the line: the invariant stands.
LEMMA CloseKeepsLedger ==
    ASSUME LedgerInv, Ledger!Close
    PROVE  LedgerInv'
  <1>1. /\ closing' = [step |-> "queue", epoch |-> epoch, after |-> Ledger!End(line[epoch])]
        /\ UNCHANGED <<height, projected, available, epoch, line, gate, pending, generation, refreshes, inFlight,
                       written, floor, calls, readers, sync>>
    BY DEF Ledger!Close, Ledger!LineEnd, Ledger!channel, Ledger!chains, Ledger!refreshing
  <1>2. closing' \in ClosingState
    BY <1>1, EndIs DEF ClosingState, LedgerInv, LedgerShapes, Ledger!Epochs
  <1>3. epoch = 0 => FirstClosing'
    BY <1>1, EndIs DEF FirstClosing
  <1> QED BY <1>1, <1>2, <1>3, ClosingMoves

\* Closing goes on behind the gate and the refresh in flight: the invariant
\* stands.
LEMMA CloseGoesOnKeeps ==
    ASSUME LedgerInv, Ledger!CloseGoesOn
    PROVE  LedgerInv'
  <1>1. /\ Ledger!Reached
        /\ UNCHANGED <<height, projected, available, epoch, line, gate, pending, generation, refreshes, inFlight,
                       written, floor, calls, readers, sync>>
    BY DEF Ledger!CloseGoesOn, Ledger!channel, Ledger!chains, Ledger!refreshing
  <1>2. closing.step \in {"queue", "gate", "refresh", "last"}
    BY <1>1 DEF Ledger!Reached, LedgerInv, LedgerShapes, ClosingState
  <1>3. PICK step \in {"gate", "refresh", "last", "done"}, after \in Commands \union Nat \union {None} :
          /\ closing' = [step |-> step, epoch |-> epoch, after |-> after]
          /\ \/ closing.step = "queue" /\ step = "gate"
             \/ closing.step = "gate" /\ inFlight # None /\ step = "refresh" /\ after = inFlight
             \/ closing.step = "gate" /\ inFlight = None /\ step = "last"
             \/ closing.step = "refresh" /\ step = "last"
             \/ closing.step = "last" /\ step = "done"
    <2>1. PICK after \in Commands \union Nat \union {None} : after = Ledger!End(gate[epoch])
      BY EndIs
    <2>2. inFlight \in Commands \union Nat \union {None}
      BY DEF LedgerInv, LedgerShapes
    <2>3. CASE closing.step = "queue" \/ closing.step = "refresh" \/ (closing.step = "gate" /\ inFlight = None)
      BY <2>1, <2>3 DEF Ledger!CloseGoesOn, Ledger!AwaitGate
    <2>4. CASE closing.step = "gate" /\ inFlight # None
      BY <2>2, <2>4 DEF Ledger!CloseGoesOn
    <2>5. CASE closing.step = "last"
      BY <2>5 DEF Ledger!CloseGoesOn
    <2> QED BY <1>2, <2>3, <2>4, <2>5
  <1>4. closing' \in ClosingState
    BY <1>3 DEF ClosingState, LedgerInv, LedgerShapes, Ledger!Epochs
  <1>5. ASSUME epoch = 0
        PROVE  FirstClosing'
    <2>1. FirstClosing /\ FirstRefreshes /\ line[0] \in Seq(Commands)
      BY <1>5, FirstOfEpoch
    <2>2. line[0] = <<>>
      <3>1. CASE closing.step = "queue"
        <4>1. closing.after \notin Ledger!Range(line[0])
          BY <1>1, <2>1, <3>1 DEF Ledger!Reached, FirstClosing
        <4>2. line[0] # <<>> => closing.after \in Ledger!Range(line[0])
          <5>1. line[0] # <<>> => closing.after = line[0][Len(line[0])] /\ Len(line[0]) \in DOMAIN line[0]
            BY <2>1, <3>1 DEF FirstClosing
          <5> QED BY <5>1, LibraryOfLedger
        <4> QED BY <4>1, <4>2
      <3> QED BY <1>2, <2>1, <3>1 DEF FirstClosing
    <2>3. inFlight # None => inFlight = Len(refreshes) /\ refreshes # <<>> /\ refreshes[inFlight].promise = "open"
      <3>1. inFlight # None => inFlight \in DOMAIN refreshes /\ refreshes[inFlight].promise = "open"
        BY DEF LedgerInv, RefreshesSound
      <3>2. inFlight # None => refreshes # <<>>
        BY <3>1
      <3> QED BY <2>1, <3>1, <3>2 DEF FirstRefreshes
    <2>4. closing.step = "refresh" => inFlight = None
      BY <1>1, <2>1, <2>3 DEF FirstClosing, Ledger!Reached, Ledger!Settled
    <2>5. step \in {"last", "done"} => inFlight = None
      BY <1>3, <2>1, <2>4 DEF FirstClosing
    <2>6. closing'.step = step /\ closing'.epoch = 0 /\ closing'.after = after
      BY <1>3, <1>5
    <2> QED BY <1>1, <1>3, <2>2, <2>3, <2>5, <2>6 DEF FirstClosing
  <1> QED BY <1>1, <1>4, <1>5, ClosingMoves

\* The channel grows.
LEMMA GrowKeeps ==
    ASSUME LedgerInv, Ledger!Grow
    PROVE  LedgerInv'
  <1>1. /\ height < MaxHeight /\ height' = height + 1
        /\ UNCHANGED <<projected, available, epoch, line, gate, pending, generation, refreshes, inFlight,
                       written, floor, calls, readers, sync, closing>>
    BY DEF Ledger!Grow, Ledger!chains, Ledger!refreshing
  <1>2. LedgerShapes'
    <2>1. height' \in 1..MaxHeight /\ projected' \in 0..height' /\ written' \in 0..height'
      BY <1>1, LedgerAssumption DEF LedgerInv, LedgerShapes
    <2>2. floor' \in [Commands \union Readers -> 0..height']
      BY <1>1 DEF LedgerInv, LedgerShapes
    <2> QED BY <1>1, <2>1, <2>2 DEF LedgerInv, LedgerShapes
  <1>3. SyncSound'
    <2>1. \A p \in Ledger!Owners : sync[p] # None => sync[p] \in SyncState
      BY CatchesUp
    <2>2. ASSUME NEW p \in Ledger!Owners, sync[p] # None
          PROVE  /\ Ledger!Synchronizes(p) /\ sync[p].asked <= height + 1
                 /\ sync[p].tip # None =>
                      /\ sync[p].tip \in sync[p].asked..(height + 1)
                      /\ sync[p].next \in Nat /\ sync[p].next < sync[p].tip
      BY <2>2, CatchesUp
    <2>3. \A p : Ledger!Synchronizes(p)' = Ledger!Synchronizes(p)
      BY <1>1 DEF Ledger!Synchronizes
    <2> QED BY <1>1, <2>2, <2>3 DEF SyncSound
  <1>4. CommandsSound' /\ ReadersSound' /\ RefreshesSound' /\ LaterChains'
    BY <1>1 DEF LedgerInv, CommandsSound, ReadersSound, RefreshesSound, LaterChains
  <1>5. WritesSound'
    BY <1>1 DEF LedgerInv, WritesSound, Waiting
  <1>6. FirstEpoch'
    BY <1>1 DEF LedgerInv, FirstEpoch, FirstLine, FirstGate, FirstRefreshes, FirstClosing, UsesGate
  <1> QED BY <1>2, <1>3, <1>4, <1>5, <1>6 DEF LedgerInv

\* A ledger that was just opened satisfies the invariant.
LEMMA LedgerStart == Ledger!Init => LedgerInv
  <1> SUFFICES ASSUME Ledger!Init PROVE LedgerInv
    OBVIOUS
  <1>1. /\ height = 1 /\ projected = 0 /\ available = FALSE /\ epoch = 0
        /\ line = [e \in Ledger!Epochs |-> <<>>] /\ gate = [e \in Ledger!Epochs |-> <<>>]
        /\ pending = 0 /\ generation = 0 /\ refreshes = <<>> /\ inFlight = None
        /\ sync = [p \in Ledger!Owners |-> None]
        /\ closing = [step |-> "open", epoch |-> 0, after |-> None]
        /\ written = 0 /\ floor = [x \in Commands \union Readers |-> 0]
    BY DEF Ledger!Init, Ledger!Fresh
  <1>2. /\ calls = [c \in Commands |-> [pc |-> "idle", refresh |-> None, answer |-> None]]
        /\ readers = [d \in Readers |-> [pc |-> "idle", refresh |-> None]]
    BY DEF Ledger!Init, Ledger!Fresh
  <1>3. calls \in [Commands -> CallState]
        /\ \A c \in Commands : calls[c].pc = "idle" /\ calls[c].refresh = None /\ calls[c].answer = None
    BY <1>2 DEF CallState, CallStates
  <1>4. readers \in [Readers -> ReaderState] /\ \A d \in Readers : readers[d].pc = "idle" /\ readers[d].refresh = None
    BY <1>2 DEF ReaderState
  <1>5. closing \in ClosingState /\ closing.step = "open" /\ closing.epoch = 0
    BY <1>1 DEF ClosingState
  <1>6. 0 \in Ledger!Epochs /\ <<>> \in Seq(Commands) /\ <<>> \in Seq(Ledger!Owners) /\ <<>> \in Seq(Shared)
        /\ \A e \in Ledger!Epochs : line[e] = <<>> /\ gate[e] = <<>>
    BY <1>1, LedgerAssumption DEF Ledger!Epochs
  <1>7. LedgerShapes
    <2>1. height \in 1..MaxHeight /\ projected \in 0..height /\ written \in 0..height
          /\ floor \in [Commands \union Readers -> 0..height]
      BY <1>1, LedgerAssumption
    <2>2. line \in [Ledger!Epochs -> Seq(Commands)] /\ gate \in [Ledger!Epochs -> Seq(Ledger!Owners)]
      BY <1>1, <1>6
    <2>3. sync \in [Ledger!Owners -> SyncState \union {None}]
      BY <1>1
    <2> QED BY <1>1, <1>3, <1>4, <1>5, <1>6, <2>1, <2>2, <2>3 DEF LedgerShapes
  <1>8. Cardinality({c \in Commands : calls[c].pc \notin {"idle", "done"}}) = 0
        /\ Cardinality({c \in Commands : calls[c].refresh # None}) = 0
        /\ Cardinality({d \in Readers : readers[d].refresh # None}) = 0
    <2>1. {c \in Commands : calls[c].pc \notin {"idle", "done"}} = {} /\ {c \in Commands : calls[c].refresh # None} = {}
          /\ {d \in Readers : readers[d].refresh # None} = {}
      BY <1>3, <1>4
    <2> QED BY <2>1, FS_EmptySet
  <1>9. DOMAIN refreshes = {} /\ Len(refreshes) = 0
    BY <1>1
  <1>10. CommandsSound /\ ReadersSound /\ RefreshesSound
    BY <1>1, <1>3, <1>4, <1>8, <1>9, LedgerAssumption DEF CommandsSound, ReadersSound, RefreshesSound
  <1>11. SyncSound /\ WritesSound /\ LaterChains
    BY <1>1, <1>6, <1>9 DEF SyncSound, WritesSound, LaterChains
  <1>12. FirstEpoch
    <2>1. FirstLine
      BY <1>3 DEF FirstLine
    <2>2. FirstGate
      BY <1>1, <1>6 DEF FirstGate
    <2>3. FirstRefreshes
      BY <1>1, <1>3, <1>9, LedgerAssumption DEF FirstRefreshes
    <2>4. FirstClosing
      BY <1>5, <1>6 DEF FirstClosing
    <2> QED BY <2>1, <2>2, <2>3, <2>4 DEF FirstEpoch
  <1> QED BY <1>7, <1>10, <1>11, <1>12 DEF LedgerInv

\* Every step of the ledger keeps the invariant, action by action.
LEMMA LedgerNext == LedgerInv /\ Ledger!Next => LedgerInv'
  <1> SUFFICES ASSUME LedgerInv, Ledger!Next PROVE LedgerInv'
    OBVIOUS
  <1>1. ASSUME NEW c \in Commands, Ledger!Call(c) \/ Ledger!CommandStep(c)
        PROVE  LedgerInv'
    BY <1>1, CallMade, CommandKeeps, SentKeeps DEF Ledger!CommandStep
  <1>2. ASSUME NEW p \in Ledger!Owners, Ledger!SyncStep(p) \/ Ledger!PeerSilent(p)
        PROVE  LedgerInv'
    BY <1>2, SyncKeeps
  <1>3. ASSUME NEW r \in Ledger!RefreshIds, Ledger!FollowPrevious(r) \/ Ledger!Abandon(r)
        PROVE  LedgerInv'
    BY <1>3, FollowKeeps, AbandonKeeps
  <1>4. ASSUME NEW d \in Readers, Ledger!CallRefresh(d) \/ Ledger!RefreshReturns(d)
        PROVE  LedgerInv'
    BY <1>4, CallRefreshKeeps, ReturnKeeps
  <1>5. ASSUME Ledger!Close \/ Ledger!CloseGoesOn \/ Ledger!Grow
        PROVE  LedgerInv'
    BY <1>5, CloseKeepsLedger, CloseGoesOnKeeps, GrowKeeps
  <1> QED BY <1>1, <1>2, <1>3, <1>4, <1>5 DEF Ledger!Next

\* So does a step of another part, or none.
LEMMA LedgerStep == LedgerInv /\ [Next]_vars => LedgerInv'
  <1> SUFFICES ASSUME LedgerInv, [Next]_vars PROVE LedgerInv'
    OBVIOUS
  <1>1. CASE UNCHANGED ledger
    <2>1. UNCHANGED <<height, projected, available, epoch, line, gate, pending, generation, refreshes, inFlight,
                      written, floor, calls, readers, sync, closing>>
      BY <1>1 DEF ledger
    <2>2. closing' \in ClosingState /\ (epoch = 0 => FirstClosing')
      BY <2>1 DEF LedgerInv, LedgerShapes, FirstEpoch, FirstClosing
    <2> QED BY <2>1, <2>2, ClosingMoves
  <1>2. CASE Ledger!Next
    BY <1>2, LedgerNext
  <1> QED BY <1>1, <1>2 DEF Next, vars

\* A refresh that answers tells the truth.
LEMMA LedgerTells == LedgerInv => RefreshTells
  <1> SUFFICES ASSUME LedgerInv PROVE Ledger!WritesAreSeen /\ Ledger!NoFalseAlarm
    BY DEF RefreshTells, Ledger!RefreshTells
  <1>1. projected \in Nat
    BY DEF LedgerInv, LedgerShapes
  <1>2. ASSUME NEW c \in Commands, calls[c].pc = "refresh", refreshes[calls[c].refresh].promise = "ok"
        PROVE  projected >= floor[c]
    <2>1. calls[c].refresh \in DOMAIN refreshes /\ c \in Waiting(calls[c].refresh)
      BY <1>2 DEF LedgerInv, CommandsSound, Waiting
    <2>2. floor[c] <= projected /\ floor[c] \in Nat
      BY <1>2, <2>1 DEF LedgerInv, LedgerShapes, WritesSound
    <2> QED BY <1>1, <2>2
  <1>3. ASSUME NEW d \in Readers, readers[d].pc = "waiting", refreshes[readers[d].refresh].promise = "ok"
        PROVE  projected >= floor[d]
    <2>1. readers[d].refresh \in DOMAIN refreshes /\ d \in Waiting(readers[d].refresh)
      BY <1>3 DEF LedgerInv, ReadersSound, Waiting
    <2>2. floor[d] <= projected /\ floor[d] \in Nat
      BY <1>3, <2>1 DEF LedgerInv, LedgerShapes, WritesSound
    <2> QED BY <1>1, <2>2
  <1>4. Ledger!WritesAreSeen
    BY <1>2, <1>3 DEF Ledger!WritesAreSeen
  <1>5. Ledger!NoFalseAlarm
    BY DEF LedgerInv, FirstEpoch, FirstRefreshes, Ledger!NoFalseAlarm
  <1> QED BY <1>4, <1>5

\* What was admitted is counted, and close waits for it.
LEMMA LedgerLeaves == LedgerInv => NothingLeftBehind
  <1> SUFFICES ASSUME LedgerInv PROVE Ledger!TypeOK /\ Ledger!PendingExact /\ Ledger!QuietClose
    BY DEF NothingLeftBehind, Ledger!NothingLeftBehind
  <1>1. pending = Cardinality({c \in Commands : calls[c].pc \notin {"idle", "done"}}) /\ pending <= MaxPending
    BY DEF LedgerInv, CommandsSound
  <1>2. Ledger!TypeOK
    <2>1. pending \in 0..MaxPending
      <3>1. PICK W \in SUBSET Commands : W = {c \in Commands : calls[c].pc \notin {"idle", "done"}}
        OBVIOUS
      <3>2. Cardinality(W) \in Nat
        BY Counting, LedgerAssumption
      <3> QED BY <1>1, <3>1, <3>2, LedgerAssumption
    <2>2. Len(refreshes) <= Ledger!Cardinality(Ledger!RefreshIds)
      <3>1. PICK n \in Nat : n = Cardinality(Commands) + Cardinality(Readers)
        BY OwnersAre
      <3>2. Cardinality(1..n) = n
        BY FS_Interval
      <3> QED BY <3>1, <3>2, RefreshesAreOwners, OwnersAre, LibraryOfLedger
    <2>3. inFlight \in DOMAIN refreshes \union {None} /\ \A d \in Readers : readers[d].refresh \in DOMAIN refreshes \union {None}
      BY DEF LedgerInv, RefreshesSound, ReadersSound
    <2>4. /\ projected \in 0..height /\ height \in 1..MaxHeight /\ available \in BOOLEAN /\ epoch \in Ledger!Epochs
          /\ \A e \in Ledger!Epochs : line[e] \in Seq(Commands) /\ gate[e] \in Seq(Ledger!Owners)
      BY DEF LedgerInv, LedgerShapes
    <2>5. \A c \in Commands :
            calls[c].pc \in {"idle", "queued", "gate", "transport", "refresh", "conclude", "done"}
      BY DEF LedgerInv, LedgerShapes, CallState, CallStates
    <2> QED BY <2>1, <2>2, <2>3, <2>4, <2>5 DEF Ledger!TypeOK
  <1>3. Ledger!PendingExact
    BY <1>1, LibraryOfLedger DEF Ledger!PendingExact
  <1>4. ASSUME epoch = 0, closing.step = "done"
        PROVE  /\ \A p \in Ledger!Owners : sync[p] = None
               /\ gate[0] = <<>> /\ line[0] = <<>>
               /\ \A r \in DOMAIN refreshes : refreshes[r].promise # "open"
    <2>1. FirstLine /\ FirstGate /\ FirstRefreshes /\ FirstClosing /\ gate[0] \in Seq(Ledger!Owners)
      BY <1>4, FirstOfEpoch
    <2>2. line[0] = <<>> /\ inFlight = None
      BY <1>4, <2>1 DEF FirstClosing
    <2>3. \A r \in DOMAIN refreshes : refreshes[r].promise # "open" /\ refreshes[r].work \notin {"previous", "gate"}
      BY <2>1, <2>2 DEF FirstRefreshes
    <2>4. \A c \in Commands : calls[c].pc \notin {"gate", "conclude"}
      BY <2>1, <2>2 DEF FirstLine, Ledger!Runs
    <2>5. \A p : ~UsesGate(p)
      BY <2>3, <2>4 DEF UsesGate
    <2>6. gate[0] = <<>>
      <3>1. gate[0] # <<>> => 1 \in DOMAIN gate[0]
        BY <2>1
      <3> QED BY <2>1, <2>5, <3>1 DEF FirstGate
    <2>7. \A p \in Ledger!Owners : sync[p] = None
      BY <2>1, <2>6 DEF FirstGate, Ledger!Runs
    <2> QED BY <2>2, <2>3, <2>6, <2>7
  <1>5. Ledger!QuietClose
    BY <1>4 DEF Ledger!QuietClose, Ledger!Settled
  <1> QED BY <1>2, <1>3, <1>5

\* A refresh that answers "ok" shows its caller every block the peer had when the
\* last write before the call settled, and while none was given up an honest peer
\* never yields PROJECTION_INVALID (refreshAt, catchUp in application-ledger.ts).
THEOREM RefreshTellsTruth == Spec => []RefreshTells
  <1>1. Init => LedgerInv
    BY LedgerStart DEF Init
  <1> QED BY <1>1, LedgerStep, LedgerTells, PTL DEF Spec

\* pendingCommands counts the promises that have not settled and stays within its
\* limit, and while no refresh was given up close has waited for all that uses the
\* projection (serial, close in application-ledger.ts).
THEOREM NothingIsLeftBehind == Spec => []NothingLeftBehind
  <1>1. Init => LedgerInv
    BY LedgerStart DEF Init
  <1> QED BY <1>1, LedgerStep, LedgerLeaves, PTL DEF Spec
================================================================================
