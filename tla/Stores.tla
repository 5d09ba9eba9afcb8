--------------------------------- MODULE Stores ---------------------------------
(***************************************************************************)
(* The two journals and what is derived from them: the local ledger, and   *)
(* the projection of a channel's blocks.  A deployment has one of them, so *)
(* a behaviour plays one and the other stays in its initial state.         *)
(***************************************************************************)
EXTENDS LocalLedger

CONSTANTS
    Keys, Values, Immutable, Needs, Offered, MaxBlocks, MaxHarm, MaxCached   \* Projection

VARIABLES
    part,
    raw, derived, memory, staged, seen, hurt, harms

feed == <<raw, derived, memory, staged, seen, hurt, harms>>

Feed == INSTANCE Projection WITH
    journal <- raw, tables <- derived, damages <- harms, MaxDamage <- MaxHarm

\* What a running projection may keep.
Memories ==
    [projector : [state : [Keys -> Values \union {None}],
                  checkpoint : {Feed!Header(b) : b \in Offered} \union {None}],
     digest : Seq(Offered),
     anchors : [Keys -> [block : Offered, index : Nat] \union {None}],
     snapshots : SUBSET [at : Feed!Checkpoints, before : [Keys -> Values \union {None}], block : Offered],
     results : SUBSET Offered]

\* Blocks are decoded ones, and None is told apart from whatever a variable of
\* the projection holds.
ASSUME FeedAssumption ==
    /\ \A b \in Offered : b.number \in Nat /\ b.txs \in Seq(Feed!Tx) /\ Feed!Header(b) # None
    /\ None \notin Values /\ None \notin Feed!Checkpoints
    /\ None \notin [at : Feed!Checkpoints, value : Values]
    /\ None \notin [block : Offered, index : Nat]
    /\ None \notin [block : Offered, durable : BOOLEAN]
    /\ None \notin Memories
    /\ MaxBlocks \in Nat /\ MaxHarm \in Nat /\ MaxCached \in Nat \ {0}

InitStores == part \in {"channel", "local"} /\ Init /\ Feed!Init

NextStores ==
    \/ part = "channel" /\ Feed!Next /\ UNCHANGED <<part, vars>>
    \/ part = "local" /\ Next /\ UNCHANGED <<part, feed>>

SpecStores == InitStores /\ [][NextStores]_<<part, vars, feed>>

------------------------------------------------------------------------------
(* Properties. *)

\* Whatever happens to the file, an answer of the running projection is the one
\* the journal it verified gives (verifyReplayTip, verifyStoredBlock,
\* verifyStoredTransaction, the journal digest).
AnswersTrue == Feed!AnswersTrue

\* A crash anywhere, a failed statement or a redelivered block neither takes back
\* what readers saw nor leaves a file that will not open (applyBlock, open).
RestartSound == Feed!RestartSound
================================================================================
