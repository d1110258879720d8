------------------------- MODULE MCReplicaSetClient -------------------------
(* Small instances of ReplicaSetClient for TLC.                            *)
EXTENDS ReplicaSetClient, TLC

\* Hosts and databases are interchangeable, and so are addresses.
ClientSymmetry ==
    Permutations(Hosts) \cup Permutations(Dbs) \cup Permutations(Addrs)
=============================================================================
