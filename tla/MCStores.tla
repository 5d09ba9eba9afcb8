-------------------------------- MODULE MCStores --------------------------------
(* Ten blocks of a channel, and one revision of the local ledger on its way to  *)
(* an agreement and out of it again.                                            *)
EXTENDS Stores

CONSTANTS k, c      \* a mutable key and an IMMUTABLE_KINDS one

--------------------------------------------------------------------------------
(* A channel with one mutable key that needs an immutable one.  The blocks b1    *)
(* and b1All differ only in which transactions are VALID: one header hash covers *)
(* both, and with b2 on top both end in the same state.                          *)

MCKeys == {k, c}
MCImmutable == {c}
MCNeeds == [x \in MCKeys |-> IF x = k THEN {c} ELSE {}]
MCValues == {1, 2}

Endorsed(id, valid, writes) == [id |-> id, kind |-> "endorser", valid |-> valid, writes |-> writes]
Sets(x, v) == [y \in {x} |-> v]

b0 == [number |-> 0, prev |-> None,
       txs |-> <<[id |-> "", kind |-> "config", valid |-> TRUE, writes |-> [y \in {} |-> 1]]>>]

\* Feed!Header, written out: the blocks are a constant of Feed.
HeaderOf(b) ==
    [number |-> b.number, prev |-> b.prev,
     data |-> [i \in DOMAIN b.txs |-> [id |-> b.txs[i].id, kind |-> b.txs[i].kind,
                                       writes |-> b.txs[i].writes]]]

On(parent, txs) == [number |-> parent.number + 1, prev |-> HeaderOf(parent), txs |-> txs]

Bootstrap == Endorsed("t1", TRUE, [y \in {k, c} |-> 1])

b1 == On(b0, <<Bootstrap, Endorsed("t2", FALSE, Sets(k, 2))>>)
b1All == On(b0, <<Bootstrap, Endorsed("t2", TRUE, Sets(k, 2))>>)
b1Empty == On(b0, <<>>)

b2 == On(b1, <<Endorsed("t3", TRUE, Sets(k, 2)), Endorsed("t4", TRUE, Sets(k, 1))>>)
b2Fork == On(b1Empty, <<Bootstrap>>)

\* Refused: they overwrite c, miss c, repeat a VALID id, configure late.
b2Overwrites == On(b1, <<Endorsed("t5", TRUE, Sets(c, 2))>>)
b2Dangling == On(b1Empty, <<Endorsed("t5", TRUE, Sets(k, 1))>>)
b2Twice == On(b1, <<Endorsed("t5", TRUE, Sets(k, 2)), Endorsed("t5", TRUE, Sets(k, 1))>>)
b2Config == On(b1, <<[id |-> "", kind |-> "config", valid |-> TRUE, writes |-> [y \in {} |-> 1]]>>)

MCOffered == {b0, b1, b1All, b1Empty, b2, b2Fork, b2Overwrites, b2Dangling, b2Twice, b2Config}

--------------------------------------------------------------------------------
(* The local ledger.  The rows that may be damaged are the pointer, the latest   *)
(* decision and the agreement.                                                   *)

Request(id, type, input) == [id |-> id, actor |-> "alice", type |-> type, input |-> input]

Vote(id, d, kind) ==
    Request(id, "decide",
        [decision |-> d, proposal |-> "p1", revision |-> "r1", policy |-> "pol",
         role |-> "owner", actor |-> "alice", kind |-> kind, retracts |-> None,
         membership_epoch |-> 1])

MCCommands ==
    {Request("c1", "publish_revision", [revision |-> "r1", membership_epoch |-> 1]),
     Request("c2", "propose", [proposal |-> "p1", revision |-> "r1", policy |-> "pol"]),
     Vote("c3", "d1", "approve"),
     Request("c4", "activate", [proposal |-> "p1", agreement |-> "g1", expected |-> None]),
     Vote("c5", "d2", "object"),
     Request("c6", "withdraw", [agreement |-> "g1"])}

MCIdentity == [a \in {"alice"} |-> [human |-> TRUE, publish |-> {"s1"}, can_propose |-> TRUE]]
MCOrgOf == [a \in {"alice"} |-> "north"]
MCRevisionInfo ==
    [r \in {"r1"} |-> [revision_id |-> "i1", slot |-> "s1", parents |-> {}, dependencies |-> {}]]
MCPolicyInfo ==
    [p \in {"pol"} |-> [slot |-> "s1", representative |-> [role \in {"owner"} |-> "alice"],
                        allowed |-> {"approve", "object", "abstain", "retract"}]]
MCDamageCells == {<<"active_slot", "s1">>, <<"latest_decision", <<"p1", "owner", "alice">>>>,
                  <<"agreement", "g1">>}
================================================================================
