-------------------------- MODULE TrackerSessions --------------------------
(***************************************************************************)
(* The client side of one tracker: the threads that serve client           *)
(* connections (tracker/main.cpp, tracker/session.cpp) over the shared     *)
(* TrackerState.                                                           *)
(*                                                                         *)
(* Every accepted connection has a thread of its own that reads a request, *)
(* calls one TrackerState method, and on ST_OK of a replicated operation   *)
(* calls SyncManager::record_and_replicate before it replies.  The method  *)
(* and the recording take different locks, so other threads run between    *)
(* them: a session is "recording" from the one to the other.  What         *)
(* recording does is the business of Replication and SessionReplay.        *)
(*                                                                         *)
(* Requests that read only (LIST_GROUPS, LIST_REQUESTS, LIST_FILES,        *)
(* GET_FILE_META) and refused requests change nothing; the replies are not *)
(* modelled.                                                               *)
(***************************************************************************)
EXTENDS TrackerState

CONSTANT Connection     \* the client connections a tracker can serve

ASSUME NilIsNoOp == Nil \notin Op

VARIABLES
    state,      \* the TrackerState all threads share
    session     \* per connection, its Session object and where its thread is

vars == <<state, session>>

Phase == {"closed", "reading", "recording"}

SessionRecord == [phase: Phase, user: User \cup {Nil}, addr: Addr \cup {Nil},
                  op: Op \cup {Nil}]

ClosedSession == [phase |-> "closed", user |-> Nil, addr |-> Nil, op |-> Nil]

Init ==
    /\ state = EmptyState
    /\ session = [c \in Connection |-> ClosedSession]

LoggedIn(c) == session[c].phase = "reading" /\ session[c].user # Nil

----------------------------------------------------------------------------
(* Connections *)

Accept(c) ==
    /\ session[c].phase = "closed"
    /\ session' = [session EXCEPT ![c].phase = "reading"]
    /\ UNCHANGED state

\* The end of Session::run: a connection that goes away logs its user out.
Disconnect(c) ==
    /\ session[c].phase = "reading"
    /\ session' = [session EXCEPT ![c] = ClosedSession]
    /\ state' = IF session[c].user = Nil THEN state
                ELSE logout(state, session[c].user).state

\* Slip: the port the user seeds at is not kept in the session.
LoginWithoutPort(c) ==
    \E uid \in User, pwd \in Password, addr \in Addr :
        LET outcome == login(state, uid, pwd, addr)
        IN  /\ session[c].phase = "reading"
            /\ outcome.status = "OK"
            /\ state' = outcome.state
            /\ session' = [session EXCEPT ![c].user = uid]

\* A second login on a connection replaces the user of the session.
Login(c) ==
    \E uid \in User, pwd \in Password, addr \in Addr :
        LET outcome == login(state, uid, pwd, addr)
        IN  /\ session[c].phase = "reading"
            /\ outcome.status = "OK"
            /\ state' = outcome.state
            /\ session' = [session EXCEPT ![c].user = uid, ![c].addr = addr]

Logout(c) ==
    /\ LoggedIn(c)
    /\ state' = logout(state, session[c].user).state
    /\ session' = [session EXCEPT ![c].user = Nil]

----------------------------------------------------------------------------
(* Replicated operations *)

\* Session::dispatch up to the call of record_and_replicate.
Mutate(c, op) ==
    LET outcome == Execute(state, op)
    IN  /\ session[c].phase = "reading"
        /\ outcome.status = "OK"
        /\ state' = outcome.state
        /\ session' = [session EXCEPT ![c].phase = "recording", ![c].op = op]

\* Creating an account is the only operation that needs no login.
CreateUser(c) ==
    \E uid \in User, pwd \in Password :
        Mutate(c, [type |-> "CREATE_USER", uid |-> uid, pwd |-> pwd])

CreateGroup(c) ==
    /\ LoggedIn(c)
    /\ \E gid \in Group :
        Mutate(c, [type |-> "CREATE_GROUP", gid |-> gid, uid |-> session[c].user])

JoinGroup(c) ==
    /\ LoggedIn(c)
    /\ \E gid \in Group :
        Mutate(c, [type |-> "JOIN_GROUP", gid |-> gid, uid |-> session[c].user])

LeaveGroup(c) ==
    /\ LoggedIn(c)
    /\ \E gid \in Group :
        Mutate(c, [type |-> "LEAVE_GROUP", gid |-> gid, uid |-> session[c].user])

AcceptRequest(c) ==
    /\ LoggedIn(c)
    /\ \E gid \in Group, uid \in User :
        Mutate(c, [type |-> "ACCEPT_REQUEST", gid |-> gid,
                   owner |-> session[c].user, uid |-> uid])

UploadFile(c) ==
    /\ LoggedIn(c)
    /\ \E gid \in Group, file \in File, content \in Content :
        Mutate(c, [type |-> "UPLOAD_FILE", gid |-> gid, file |-> file,
                   content |-> content, uid |-> session[c].user,
                   addr |-> session[c].addr])

StopShare(c) ==
    /\ LoggedIn(c)
    /\ \E gid \in Group, file \in File :
        Mutate(c, [type |-> "STOP_SHARE", gid |-> gid, file |-> file,
                   uid |-> session[c].user])

HavePieces(c) ==
    /\ LoggedIn(c)
    /\ \E gid \in Group, file \in File, bits \in SUBSET Piece :
        Mutate(c, [type |-> "HAVE_PIECES", gid |-> gid, file |-> file,
                   bits |-> bits, uid |-> session[c].user,
                   addr |-> session[c].addr])

\* record_and_replicate is done and the reply sent.
Record(c) ==
    /\ session[c].phase = "recording"
    /\ session' = [session EXCEPT ![c].phase = "reading", ![c].op = Nil]
    /\ UNCHANGED state

----------------------------------------------------------------------------

Request(c) ==
    \/ CreateUser(c) \/ CreateGroup(c) \/ JoinGroup(c) \/ LeaveGroup(c)
    \/ AcceptRequest(c) \/ UploadFile(c) \/ StopShare(c) \/ HavePieces(c)

Next == \E c \in Connection :
    \/ Accept(c) \/ Disconnect(c) \/ Login(c) \/ Logout(c)
    \/ Request(c) \/ Record(c)

Spec == Init /\ [][Next]_vars

----------------------------------------------------------------------------
(* Properties *)

\* The variables have their types: a thread between the method and its
\* recording holds the operation it will record, a session that carries a
\* user carries the address that user seeds at (session.hpp).
TypeOK ==
    /\ state \in State
    /\ session \in [Connection -> SessionRecord]
    /\ \A c \in Connection :
         /\ session[c].user # Nil => session[c].addr # Nil
         /\ session[c].op \in Op <=> session[c].phase = "recording"

\* Whatever the threads do, every group is owned by one of its members, no
\* applicant is a member already, groups and seeder lists name accounts that
\* exist, and so does every session (the methods of tracker_state.cpp check
\* existence at the time of the call only, and leave_group hands ownership on).
StateConsistent ==
    /\ Consistent(state)
    /\ \A c \in Connection : session[c].user \in DOMAIN state.users \cup {Nil}

\* A user becomes a member of a group that exists only out of its pending
\* requests and only by an accept_request of the session of the owner the
\* group has at that time (tracker_state.cpp accept_request), even when
\* ownership is handed on while requests are pending.
AdmittedByOwner ==
    [][\A g \in DOMAIN state.groups \cap DOMAIN state'.groups :
         \A u \in state'.groups[g].members \ state.groups[g].members :
            /\ u \in state.groups[g].pending
            /\ \E c \in Connection :
                 /\ session[c].user = state.groups[g].owner
                 /\ session'[c].op = [type |-> "ACCEPT_REQUEST", gid |-> g,
                                      owner |-> session[c].user, uid |-> u]]_vars

\* While a group lasts, a file name in it keeps the content it was first
\* uploaded with, so pieces fetched from different seeders belong to the same
\* file (add_file refuses another hash; nothing removes a file).
ContentStable ==
    [][\A g \in DOMAIN state.groups \cap DOMAIN state'.groups :
         \A f \in DOMAIN state.groups[g].files :
            /\ f \in DOMAIN state'.groups[g].files
            /\ state'.groups[g].files[f].content = state.groups[g].files[f].content]_vars

\* A user that goes offline, by logout or by its connection closing, is in no
\* seeder list afterwards, of whatever group and file (TrackerState::logout).
EvictedWhenOffline ==
    [][\A u \in DOMAIN state.users :
         state.users[u].online /\ ~state'.users[u].online
            => u \notin SeedersOf(state')]_vars

\* The claim of README.md on LOGOUT: with every connection closed, every user
\* has been evicted from every seeder list.
NoSeederWithoutConnection ==
    (\A c \in Connection : session[c].phase = "closed") => SeedersOf(state) = {}

=============================================================================
