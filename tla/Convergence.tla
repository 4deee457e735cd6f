---------------------------- MODULE Convergence ----------------------------
(***************************************************************************)
(* Where Replication leaves the trackers when everything has come to rest: *)
(* what its comments promise of conflicts, restarts, order and catch-up.   *)
(***************************************************************************)
EXTENDS SteadyReplication

\* The trackers are linked, and no thread has anything left to send or to read.
AtRest ==
    /\ \A t \in Tracker, w \in Worker : worker[t][w] = Idle
    /\ \E l \in Link :
         /\ link[l].up
         /\ dialer = [pc |-> "read", fd |-> l]
         /\ node[Acceptor].out_fd = l /\ link[l].server = "peer"
    /\ \A l \in Link, t \in Tracker : link[l].chan[t] = <<>> /\ link[l].outbox[t] = <<>>

\* sync.hpp:9-14: the trackers agree whenever they are at rest.
AgreeAtRest == AtRest => Agree(node[Dialer].state, node[Acceptor].state)

\* Clients and threads from two trackers that are linked and empty.
LinkedSpec == LinkedInit /\ [][Threads]_vars

\* Later: the acceptor's clients created an account, and both trackers have it.
SettledInit ==
    LET account == create_user(EmptyState, Smallest(User), CHOOSE p \in Password : TRUE).state
        settled == [FreshNode EXCEPT !.state = account, !.out_fd = 1]
    IN  /\ node = [t \in Tracker |->
                     IF t = Acceptor THEN [settled EXCEPT !.next_seq = 2]
                     ELSE [settled EXCEPT !.applied_peer_seq = 1]]
        /\ worker = [t \in Tracker |-> [w \in Worker |-> Idle]]
        /\ dialer = [pc |-> "read", fd |-> 1]
        /\ link = [l \in Link |->
                     IF l = 1 THEN [UnusedLink EXCEPT !.up = TRUE, !.server = "peer"]
                     ELSE UnusedLink]
        /\ restarts = [t \in Tracker |-> 0]
        /\ seen = [t \in Tracker |-> IF t = Acceptor THEN {<<0, 1>>} ELSE {}]

SettledSpec == SettledInit /\ [][Next]_vars

=============================================================================
