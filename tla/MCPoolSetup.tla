---------------------------- MODULE MCPoolSetup ----------------------------
(* A database, a Redis client, a cluster and a client of another type.     *)
EXTENDS PoolSetup

CONSTANTS db, client, cluster, foreign, unset, c1, c2, c3

MCPools == {db, unset}
MCClients == {client, cluster, foreign}
MCSupported == {client, cluster}
MCClustered == {cluster}
MCNils == {unset}
MCCallers == {c1, c2, c3}
=============================================================================
