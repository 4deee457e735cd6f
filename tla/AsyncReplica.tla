--------------------------- MODULE AsyncReplica ---------------------------
(***************************************************************************)
(* What replication promises in the words of tracker/sync.hpp: "Local      *)
(* changes apply immediately [...] generating an operation with a local    *)
(* sequence number that replicates asynchronously", to a tracker that no   *)
(* client writes to.  No links, messages, logs or acknowledgements: the    *)
(* primary executes, a backlog holds what the replica has not replayed,    *)
(* and the replica replays it in order, each operation once.               *)
(***************************************************************************)
EXTENDS Sequences

CONSTANTS
    Op,                 \* the operations that are replicated
    EmptyState,         \* the state of a tracker that has just started
    Execute(_, _),      \* what an operation of a client does to a state
    apply_remote(_, _)  \* what the replay of one does

VARIABLES
    primary,    \* the state of the tracker the clients use
    backlog,    \* its operations the other tracker has not replayed
    replica     \* the state of the other tracker

vars == <<primary, backlog, replica>>

Init == primary = EmptyState /\ backlog = <<>> /\ replica = EmptyState

Apply == \E op \in Op :
    /\ Execute(primary, op).status = "OK"
    /\ primary' = Execute(primary, op).state
    /\ backlog' = Append(backlog, op)
    /\ UNCHANGED replica

Replay ==
    /\ backlog # <<>>
    /\ replica' = apply_remote(replica, Head(backlog)).state
    /\ backlog' = Tail(backlog)
    /\ UNCHANGED primary

Next == Apply \/ Replay

Spec == Init /\ [][Next]_vars /\ WF_vars(Replay)

=============================================================================
