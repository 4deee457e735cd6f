--------------------------- MODULE MCReplication ---------------------------
(* Instances of Replication and SteadyReplication for TLC. *)
EXTENDS SteadyReplication

\* Clients use either tracker, but no tracker while the other has numbered
\* operations since it last started.
OneInUse ==
    \E t \in Tracker : node[t].next_seq = 1 /\ \A w \in Worker : worker[t][w] = Idle

=============================================================================
