--------------------------- MODULE SessionReplay ---------------------------
(***************************************************************************)
(* What the order of the operation log means for the other tracker.        *)
(*                                                                         *)
(* TrackerSessions together with an ideal peer: the peer of a link that    *)
(* never fails, which runs SyncManager::apply_remote on every operation at *)
(* the moment it enters the log and in log order.  The states such a peer  *)
(* takes are the best replication could do; whatever it gets wrong, the    *)
(* real link (module Replication) gets wrong too.                          *)
(***************************************************************************)
EXTENDS TrackerSessions

VARIABLE replica    \* the TrackerState of the ideal peer

replayVars == <<vars, replica>>

ReplayInit == Init /\ replica = EmptyState

\* record_and_replicate: the operation enters the log, the peer replays it.
RecordAndReplay(c) ==
    /\ Record(c)
    /\ replica' = apply_remote(replica, session[c].op).state

ReplayNext == \E c \in Connection :
    \/ RecordAndReplay(c)
    \/ /\ Accept(c) \/ Disconnect(c) \/ Login(c) \/ Logout(c) \/ Request(c)
       /\ UNCHANGED replica

ReplaySpec == ReplayInit /\ [][ReplayNext]_replayVars

----------------------------------------------------------------------------
(* Properties *)

\* Once every operation that was acknowledged is in the log, the replica has
\* the accounts, groups, owners, members, pending requests and files of the
\* tracker, and every seeder the tracker lists (README.md: both trackers land
\* on the same state by replaying the same operations).
ReplayAgrees ==
    (\A c \in Connection : session[c].phase # "recording")
        => Agree(state, replica)

\* The operation being recorded brings the replica to the state it brought
\* this tracker to: the invariant of a single session behind ReplayAgrees.
OneOpBehind ==
    \A c \in Connection :
        session[c].phase = "recording"
            => Agree(state, apply_remote(replica, session[c].op).state)

\* The replica never refuses an operation of the log: apply_remote returns
\* true, so __applied_peer_seq of the peer follows the log.
ReplayAccepted ==
    \A c \in Connection :
        session[c].phase = "recording" => apply_remote(replica, session[c].op).ok

=============================================================================
