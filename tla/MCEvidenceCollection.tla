------------------------ MODULE MCEvidenceCollection ------------------------
(***************************************************************************)
(* Conditions PostgreSQL can be in, for EvidenceCollection.                *)
(***************************************************************************)
EXTENDS EvidenceCollection

Standbys(n, sync, delay) == [standbys |-> n, sync |-> sync, delay |-> delay]

Cluster(pool, primary, listed, streams) ==
  [pool |-> pool, primary |-> primary, listed |-> listed, streams |-> streams]

Full == Standbys(2, 1, 0)
Zero == Standbys(0, 0, 0)

Healthy == Cluster("nodes", TRUE, Full, Full)

Behind   == Cluster("nodes", TRUE, Standbys(1, 0, 0), Standbys(1, 0, 1))   \* one standby, late, not sync
Detached == Cluster("nodes", TRUE, Standbys(1, 1, 1), Full)                \* not for Pgpool, but streaming
Lost     == Cluster("nodes", FALSE, Standbys(1, 1, 0), Zero)               \* the primary
Direct   == Cluster("direct", TRUE, Zero, Zero)
Down     == Cluster("down", FALSE, Zero, Zero)

MCClusters == {Healthy, Behind, Detached, Lost, Direct, Down}

Start(dead, c, schema, lag) ==
  [down |-> dead, cluster |-> c, schemaReady |-> schema, lag |-> lag]

\* one of the three sources answers at a time
MCStarts ==
  {Start({"prometheus", "kubernetes"}, Healthy, TRUE, 0),
   Start({"prometheus", "kubernetes"}, Down, FALSE, 0),
   Start({"application", "kubernetes"}, Healthy, TRUE, 0),
   Start({"application", "prometheus"}, Healthy, TRUE, 0)}
=============================================================================
