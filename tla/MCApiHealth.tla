----------------------------- MODULE MCApiHealth -----------------------------
(***************************************************************************)
(* Two conditions of PostgreSQL for ApiHealth: all standbys, and none of   *)
(* them synchronous, which makes readiness degraded.                       *)
(***************************************************************************)
EXTENDS ApiHealth

Cluster(listed, streams) == [pool |-> "nodes", primary |-> TRUE, listed |-> listed, streams |-> streams]

Standbys(n, sync) == [standbys |-> n, sync |-> sync, delay |-> 0]

MCClusters == {Cluster(Standbys(2, 1), Standbys(2, 1)), Cluster(Standbys(2, 0), Standbys(2, 0))}
=============================================================================
