----------------------------- MODULE MCOperations -----------------------------
(* The operations beside the service on small instances, one part at a time.  *)
EXTENDS Operations

\* Three calls and one reconnection, one handler: the second call waits for it.
MCOps == {"p1", "p2", "p3"}

\* Three organisations, two plans, so a plan may be stale when it is applied.
MCOrgs == <<"supplier", "manufacturer", "distributor">>

\* Two backups race for one destination, or a restore races with two starts.
MCRosters == {{"k1", "k2", "s1"}, {"k1", "x1", "s1", "s2"}}
===============================================================================
