------------------------ MODULE SteadyReplication -------------------------
(***************************************************************************)
(* What Replication achieves when it is given the chance: a link that is   *)
(* up, or one that finally stays up, and threads that all keep running.    *)
(***************************************************************************)
EXTENDS Replication

\* Every thread of both trackers goes on.  No thread waits for a client, and
\* nothing in the code stops one for good but a full socket, which Replication
\* leaves out.  Weak fairness is enough: only the thread itself disables its
\* step.  Clients need not ask for anything.
Fairness ==
    /\ \A t \in Tracker, w \in Worker :
         WF_vars(RecordOp(t, w)) /\ WF_vars(SendOp(t, w))
    /\ WF_vars(ConnectLoop)
    /\ \A l \in Link : WF_vars(Listener(l))
    /\ \A l \in Link, t \in Tracker : WF_vars(ProcessPeerMessage(l, t))

\* All that was recorded is acknowledged and the trackers agree.
Synchronized ==
    /\ \A t \in Tracker : node[t].log = <<>>
    /\ Agree(node[Dialer].state, node[Acceptor].state)

----------------------------------------------------------------------------
(* A link that stays up *)

\* Both trackers started, linked and exchanged their empty snapshots.
LinkedInit ==
    /\ node = [t \in Tracker |-> [FreshNode EXCEPT !.out_fd = 1]]
    /\ worker = [t \in Tracker |-> [w \in Worker |-> Idle]]
    /\ dialer = [pc |-> "read", fd |-> 1]
    /\ link = [l \in Link |->
                 IF l = 1 THEN [UnusedLink EXCEPT !.up = TRUE, !.server = "peer"]
                 ELSE UnusedLink]
    /\ restarts = [t \in Tracker |-> 0]
    /\ seen = [t \in Tracker |-> {}]

SteadySpec == LinkedInit /\ [][Threads]_vars /\ Fairness

\* The tracker clients use, when there is one.
Primary == CHOOSE t \in Active : TRUE

\* What the other tracker still has to replay: the tail of the log above its
\* applied_peer_seq, and the operation a session has not recorded yet.
Backlog ==
    LET tail == After(node[Primary].log, node[Other(Primary)].applied_peer_seq)
        late == {w \in Worker : worker[Primary][w].pc = "record"}
    IN  [i \in DOMAIN tail |-> tail[i].op]
        \o (IF late = {} THEN <<>>
            ELSE <<worker[Primary][CHOOSE w \in late : TRUE].op>>)

Promise == INSTANCE AsyncReplica WITH
    primary <- node[Primary].state,
    backlog <- Backlog,
    replica <- node[Other(Primary)].state

\* With one tracker in use by one session at a time, replication is an
\* asynchronous replica: the other tracker replays every operation once, in
\* the order in which they were executed, and sooner or later all of them.
ImplementsAsyncReplica == Promise!Spec

\* Requests stop at a bound here, and then both logs drain and the trackers
\* agree for good ("Eventual Consistency", sync.hpp:9-11).
EventuallySynchronized == <>[]Synchronized

----------------------------------------------------------------------------
(* A tracker that comes back *)

\* What the surviving tracker holds: an account that owns a group and seeds a
\* file in it.
SurvivorState ==
    LET u == Smallest(User)
        g == CHOOSE g \in Group : TRUE
        account == create_user(EmptyState, u, CHOOSE p \in Password : TRUE).state
        group == create_group(account, g, u).state
    IN  add_file(group, g, u, CHOOSE a \in Addr : TRUE,
                 CHOOSE f \in File : TRUE, CHOOSE k \in Content : TRUE).state

\* One tracker has just restarted with nothing; the other has state, and has
\* replayed some operations of the first before that exited.  No link is up.
RestartedInit ==
    /\ \E survivor \in Tracker, applied \in 0..MaxOps :
         /\ node = [t \in Tracker |->
                      IF t = survivor
                      THEN [FreshNode EXCEPT !.state = SurvivorState,
                                             !.next_seq = 4,
                                             !.applied_peer_seq = applied]
                      ELSE FreshNode]
         /\ restarts = [t \in Tracker |-> IF t = survivor THEN 0 ELSE 1]
    /\ worker = [t \in Tracker |-> [w \in Worker |-> Idle]]
    /\ dialer = Undialed
    /\ link = [l \in Link |-> UnusedLink]
    /\ seen = [t \in Tracker |-> {}]

\* The links that may break.  Each can cost one more: the thread of a dead
\* link that is still unread may come to AcceptPeer last and close a live one.
Breakable == {l \in Link : 2 * l < MaxLinks}

RecoverySpec ==
    /\ RestartedInit
    /\ [][Threads \/ \E l \in Breakable : LinkBreak(l)]_vars
    /\ Fairness

\* While clients are quiet, a restarted tracker, the dialer or the acceptor,
\* gets the state of its peer back over the first link that lives long enough
\* (README.md, restart recovery by SNAPSHOT_REQUEST / SNAPSHOT_DATA).
EventuallyRecovered == <>[](node[Dialer].state = node[Acceptor].state
                            /\ ~IsEmpty(node[Dialer].state))

=============================================================================
