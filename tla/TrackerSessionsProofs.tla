----------------------- MODULE TrackerSessionsProofs -----------------------
(***************************************************************************)
(* The invariants of TrackerSessions, for any number of users, groups,     *)
(* files and connections.  Inv, the conjunction of TypeOK and              *)
(* StateConsistent, is inductive: the type of the state and its            *)
(* consistency are needed together, since a method keeps a state           *)
(* consistent only if its maps are maps.                                   *)
(*                                                                         *)
(* And when the replay of the log reproduces the tracker (SessionReplay).  *)
(* The methods are sound for replay (ExecuteReplays), so all depends on    *)
(* the order: as long as no session executes an operation while another    *)
(* has one to record, the replica is behind by that one operation only.    *)
(***************************************************************************)
EXTENDS SessionReplay, TrackerStateProofs

Inv == TypeOK /\ StateConsistent

\* A session record with its type, its address and its phase in step, and
\* its user registered.
SessionOK(rec, registered) ==
    /\ rec \in SessionRecord
    /\ rec.user # Nil => rec.addr # Nil
    /\ rec.op \in Op <=> rec.phase = "recording"
    /\ rec.user \in registered \cup {Nil}

\* Inv, one session at a time.
LEMMA InvSplit ==
    Inv <=> /\ Good(state)
            /\ session \in [Connection -> SessionRecord]
            /\ \A c \in Connection : SessionOK(session[c], DOMAIN state.users)
  BY DEF Inv, TypeOK, StateConsistent, Good, SessionOK

\* A step that replaces one session record and keeps the state good and its
\* accounts in place preserves Inv.
LEMMA StepInv ==
    ASSUME Inv, Preserves(state, state'),
           NEW c \in Connection, NEW rec, SessionOK(rec, DOMAIN state'.users),
           session' = [session EXCEPT ![c] = rec]
    PROVE  Inv'
<1>1. Good(state') /\ DOMAIN state.users \subseteq DOMAIN state'.users
  BY DEF Preserves
<1>2. session' \in [Connection -> SessionRecord]
  BY InvSplit DEF SessionOK
<1>3. \A d \in Connection : SessionOK(session'[d], DOMAIN state'.users)
  <2>. SUFFICES ASSUME NEW d \in Connection, d # c
                PROVE  SessionOK(session[d], DOMAIN state'.users)
    BY InvSplit
  <2>. QED
    BY <1>1, InvSplit DEF SessionOK
<1>. QED
  BY <1>1, <1>2, <1>3 DEF Inv, TypeOK, StateConsistent, Good, SessionOK

\* A mutating request: the session keeps its user and holds the operation.
LEMMA MutateInv ==
    ASSUME Inv, NEW c \in Connection, NEW op \in Op, Mutate(c, op)
    PROVE  Inv'
<1>. DEFINE rec == [session[c] EXCEPT !.phase = "recording", !.op = op]
<1>1. Good(state) /\ SessionOK(session[c], DOMAIN state.users)
  BY InvSplit
<1>2. Preserves(state, state')
  BY <1>1, ExecuteGood DEF Mutate
<1>3. session' = [session EXCEPT ![c] = rec]
  BY InvSplit DEF Mutate
<1>4. SessionOK(rec, DOMAIN state'.users)
  BY <1>1, <1>2 DEF SessionOK, SessionRecord, Phase, Preserves
<1>. HIDE DEF rec
<1>. QED
  BY <1>2, <1>3, <1>4, StepInv

\* What a session that is logged in knows of its user.
LEMMA LoggedInUser ==
    ASSUME Inv, NEW c \in Connection, LoggedIn(c)
    PROVE  session[c].user \in User /\ session[c].addr \in Addr
  BY InvSplit DEF LoggedIn, SessionOK, SessionRecord

\* Every replicated request.
LEMMA RequestInv ==
    ASSUME Inv, NEW c \in Connection, Request(c)
    PROVE  Inv'
<1>1. CASE CreateUser(c)
  BY <1>1, MutateInv DEF CreateUser, Op
<1>2. CASE CreateGroup(c)
  BY <1>2, MutateInv, LoggedInUser DEF CreateGroup, Op
<1>3. CASE JoinGroup(c)
  BY <1>3, MutateInv, LoggedInUser DEF JoinGroup, Op
<1>4. CASE LeaveGroup(c)
  BY <1>4, MutateInv, LoggedInUser DEF LeaveGroup, Op
<1>5. CASE AcceptRequest(c)
  BY <1>5, MutateInv, LoggedInUser DEF AcceptRequest, Op
<1>6. CASE UploadFile(c)
  BY <1>6, MutateInv, LoggedInUser DEF UploadFile, Op
<1>7. CASE StopShare(c)
  BY <1>7, MutateInv, LoggedInUser DEF StopShare, Op
<1>8. CASE HavePieces(c)
  BY <1>8, MutateInv, LoggedInUser DEF HavePieces, Op
<1>. QED
  BY <1>1, <1>2, <1>3, <1>4, <1>5, <1>6, <1>7, <1>8 DEF Request

\* Inv is inductive.
LEMMA NextInv ==
    ASSUME Inv, [Next]_vars
    PROVE  Inv'
<1>1. ASSUME NEW c \in Connection, Accept(c)
      PROVE  Inv'
  <2>. DEFINE rec == [session[c] EXCEPT !.phase = "reading"]
  <2>1. SessionOK(rec, DOMAIN state'.users) /\ Preserves(state, state')
    BY <1>1, InvSplit DEF Accept, SessionOK, SessionRecord, Phase, Preserves
  <2>2. session' = [session EXCEPT ![c] = rec]
    BY <1>1, InvSplit DEF Accept
  <2>. HIDE DEF rec
  <2>. QED
    BY <2>1, <2>2, StepInv
<1>2. ASSUME NEW c \in Connection, Disconnect(c)
      PROVE  Inv'
  <2>1. SessionOK(ClosedSession, DOMAIN state'.users)
    BY NilIsNoOp DEF SessionOK, SessionRecord, Phase, ClosedSession
  <2>2. Preserves(state, state')
    <3>1. CASE session[c].user = Nil
      BY <1>2, <3>1, InvSplit DEF Disconnect, Preserves
    <3>2. CASE session[c].user # Nil
      <4>1. session[c].user \in User
        BY <3>2, InvSplit DEF SessionOK, SessionRecord
      <4>. QED
        BY <1>2, <3>2, <4>1, InvSplit, logoutGood DEF Disconnect
    <3>. QED
      BY <3>1, <3>2
  <2>. QED
    BY <1>2, <2>1, <2>2, StepInv DEF Disconnect
<1>3. ASSUME NEW c \in Connection, Login(c)
      PROVE  Inv'
  <2>1. PICK uid \in User, pwd \in Password, addr \in Addr :
           /\ session[c].phase = "reading"
           /\ login(state, uid, pwd, addr).status = "OK"
           /\ state' = login(state, uid, pwd, addr).state
           /\ session' = [session EXCEPT ![c].user = uid, ![c].addr = addr]
    BY <1>3, Zenon DEF Login
  <2>. DEFINE rec == [session[c] EXCEPT !.user = uid, !.addr = addr]
  <2>2. Preserves(state, state')
    BY <2>1, InvSplit, loginGood
  <2>3. uid \in DOMAIN state.users
    BY <2>1 DEF login, Fail
  <2>4. SessionOK(rec, DOMAIN state'.users)
    BY <2>1, <2>2, <2>3, InvSplit, NilAssumption
       DEF SessionOK, SessionRecord, Phase, Preserves
  <2>5. session' = [session EXCEPT ![c] = rec]
    BY <2>1, InvSplit
  <2>. HIDE DEF rec
  <2>. QED
    BY <2>2, <2>4, <2>5, StepInv
<1>4. ASSUME NEW c \in Connection, Logout(c)
      PROVE  Inv'
  <2>. DEFINE rec == [session[c] EXCEPT !.user = Nil]
  <2>1. Preserves(state, state')
    BY <1>4, InvSplit, LoggedInUser, logoutGood DEF Logout
  <2>2. SessionOK(rec, DOMAIN state'.users)
    BY InvSplit DEF SessionOK, SessionRecord
  <2>3. session' = [session EXCEPT ![c] = rec]
    BY <1>4, InvSplit DEF Logout
  <2>. HIDE DEF rec
  <2>. QED
    BY <2>1, <2>2, <2>3, StepInv
<1>5. ASSUME NEW c \in Connection, Record(c)
      PROVE  Inv'
  <2>. DEFINE rec == [session[c] EXCEPT !.phase = "reading", !.op = Nil]
  <2>1. SessionOK(rec, DOMAIN state'.users) /\ Preserves(state, state')
    BY <1>5, InvSplit, NilIsNoOp
       DEF Record, SessionOK, SessionRecord, Phase, Preserves
  <2>2. session' = [session EXCEPT ![c] = rec]
    BY <1>5, InvSplit DEF Record
  <2>. HIDE DEF rec
  <2>. QED
    BY <2>1, <2>2, StepInv
<1>6. CASE UNCHANGED vars
  BY <1>6 DEF vars, Inv, TypeOK, StateConsistent
<1>. QED
  BY <1>1, <1>2, <1>3, <1>4, <1>5, <1>6, RequestInv DEF Next

\* Inv holds of a tracker that has just started.
LEMMA InitInv == Init => Inv
<1>. SUFFICES ASSUME Init PROVE Inv
  OBVIOUS
<1>1. SessionOK(ClosedSession, DOMAIN state.users)
  BY NilIsNoOp DEF SessionOK, SessionRecord, Phase, ClosedSession
<1>. QED
  BY <1>1, EmptyStateGood, InvSplit DEF Init, SessionOK

\* Inv always holds.
THEOREM Invariance == Spec => []Inv
  BY InitInv, NextInv, PTL DEF Spec

\* Type correctness of the tracker and its sessions.
THEOREM TypeCorrect == Spec => []TypeOK
  BY Invariance, PTL DEF Inv

\* Whatever the session threads do, and however many there are, groups are
\* owned by a member, applicants are no members, and groups, seeder lists and
\* sessions name accounts that exist (StateConsistent).
THEOREM AlwaysConsistent == Spec => []StateConsistent
  BY Invariance, PTL DEF Inv

----------------------------------------------------------------------------
(* What a step may never do *)

\* A request is one operation, executed on the state as it is.
LEMMA RequestExecutes ==
    ASSUME Inv, NEW c \in Connection, Request(c)
    PROVE  \E op \in Op :
              /\ Mutate(c, op)
              /\ op.type = "ACCEPT_REQUEST" =>
                   /\ op.owner = session[c].user
                   /\ op = [type |-> "ACCEPT_REQUEST", gid |-> op.gid,
                            owner |-> session[c].user, uid |-> op.uid]
<1>1. CASE CreateUser(c)
  BY <1>1 DEF CreateUser, Op
<1>2. CASE CreateGroup(c)
  BY <1>2, LoggedInUser DEF CreateGroup, Op
<1>3. CASE JoinGroup(c)
  BY <1>3, LoggedInUser DEF JoinGroup, Op
<1>4. CASE LeaveGroup(c)
  BY <1>4, LoggedInUser DEF LeaveGroup, Op
<1>5. CASE AcceptRequest(c)
  <2>1. PICK gid \in Group, uid \in User :
           Mutate(c, [type |-> "ACCEPT_REQUEST", gid |-> gid,
                      owner |-> session[c].user, uid |-> uid])
    BY <1>5 DEF AcceptRequest
  <2>2. [type |-> "ACCEPT_REQUEST", gid |-> gid, owner |-> session[c].user, uid |-> uid] \in Op
    BY <1>5, LoggedInUser DEF AcceptRequest, Op
  <2>. QED
    BY <2>1, <2>2
<1>6. CASE UploadFile(c)
  BY <1>6, LoggedInUser DEF UploadFile, Op
<1>7. CASE StopShare(c)
  BY <1>7, LoggedInUser DEF StopShare, Op
<1>8. CASE HavePieces(c)
  BY <1>8, LoggedInUser DEF HavePieces, Op
<1>. QED
  BY <1>1, <1>2, <1>3, <1>4, <1>5, <1>6, <1>7, <1>8 DEF Request

\* Steps that execute no operation keep the content of files and admit nobody;
\* they take a user offline only together with its entries as a seeder.
Evicts(S, T) ==
    \A u \in DOMAIN S.users : S.users[u].online /\ ~T.users[u].online => u \notin SeedersOf(T)

LEMMA SameStateKeeps ==
    ASSUME NEW S, NEW T, T = S
    PROVE  ContentKept(S, T) /\ NobodyAdmitted(S, T) /\ Evicts(S, T)
  BY DEF ContentKept, FilesKept, NobodyAdmitted, Evicts

LEMMA LogoutStep ==
    ASSUME NEW S, Good(S), NEW u \in DOMAIN S.users, NEW T, T = logout(S, u).state
    PROVE  ContentKept(S, T) /\ NobodyAdmitted(S, T) /\ Evicts(S, T)
<1>1. S \in State
  BY DEF Good
<1>. QED
  BY <1>1, logoutKeeps DEF Evicts

LEMMA SessionStep ==
    ASSUME Inv, NEW c \in Connection,
           Accept(c) \/ Disconnect(c) \/ Login(c) \/ Logout(c) \/ Record(c)
    PROVE  ContentKept(state, state') /\ NobodyAdmitted(state, state') /\ Evicts(state, state')
<1>1. Good(state) /\ session[c].user \in DOMAIN state.users \cup {Nil}
  BY InvSplit DEF SessionOK
<1>2. CASE Accept(c) \/ Record(c)
  BY <1>2, SameStateKeeps DEF Accept, Record
<1>3. CASE Disconnect(c)
  BY <1>1, <1>3, SameStateKeeps, LogoutStep DEF Disconnect
<1>4. CASE Login(c)
  <2>1. PICK uid \in User, pwd \in Password, addr \in Addr :
           state' = login(state, uid, pwd, addr).state
    BY <1>4 DEF Login
  <2>2. /\ state'.groups = state.groups
        /\ \A u \in DOMAIN state.users : state.users[u].online => state'.users[u].online
    BY <1>1, <2>1, loginKeeps DEF Good
  <2>. QED
    BY <2>2 DEF ContentKept, FilesKept, NobodyAdmitted, Evicts
<1>5. CASE Logout(c)
  BY <1>1, <1>5, LogoutStep DEF Logout, LoggedIn
<1>. QED
  BY <1>2, <1>3, <1>4, <1>5

\* Who was admitted, and by whom.
AdmitStep ==
    \A g \in DOMAIN state.groups \cap DOMAIN state'.groups :
        \A u \in state'.groups[g].members \ state.groups[g].members :
            /\ u \in state.groups[g].pending
            /\ \E c \in Connection :
                 /\ session[c].user = state.groups[g].owner
                 /\ session'[c].op = [type |-> "ACCEPT_REQUEST", gid |-> g,
                                      owner |-> session[c].user, uid |-> u]

\* An operation keeps contents and accounts, and admits only as AdmitStep says.
LEMMA RequestStep ==
    ASSUME Inv, NEW c \in Connection, Request(c)
    PROVE  ContentKept(state, state') /\ AdmitStep /\ Evicts(state, state')
<1>1. PICK op \in Op :
         /\ Mutate(c, op)
         /\ op.type = "ACCEPT_REQUEST" =>
              /\ op.owner = session[c].user
              /\ op = [type |-> "ACCEPT_REQUEST", gid |-> op.gid,
                       owner |-> session[c].user, uid |-> op.uid]
  BY RequestExecutes
<1>2. state \in State /\ session \in [Connection -> SessionRecord]
  BY DEF Inv, TypeOK
<1>3. state' = Execute(state, op).state
  BY <1>1 DEF Mutate
<1>4. /\ AccountsKept(state, state') /\ ContentKept(state, state')
      /\ op.type # "ACCEPT_REQUEST" => NobodyAdmitted(state, state')
  BY <1>2, <1>3, ExecuteKeeps
<1>5. Evicts(state, state')
  BY <1>4 DEF AccountsKept, Evicts
<1>6. AdmitStep
  <2>1. CASE op.type # "ACCEPT_REQUEST"
    BY <1>4, <2>1 DEF NobodyAdmitted, AdmitStep
  <2>2. CASE op.type = "ACCEPT_REQUEST"
    <3>1. state' = accept_request(state, op.gid, op.owner, op.uid).state
      BY <1>3, <2>2 DEF Execute
    <3>2. session'[c].op = op
      BY <1>1, <1>2 DEF Mutate, SessionRecord
    <3>3. ASSUME NEW g \in DOMAIN state.groups \cap DOMAIN state'.groups,
                 NEW u \in state'.groups[g].members \ state.groups[g].members
          PROVE  /\ g = op.gid /\ u = op.uid /\ state.groups[g].owner = op.owner
                 /\ u \in state.groups[g].pending
      BY <1>2, <3>1, accept_requestKeeps
    <3>. QED
      BY <1>1, <2>2, <3>2, <3>3 DEF AdmitStep
  <2>. QED
    BY <2>1, <2>2
<1>. QED
  BY <1>4, <1>5, <1>6

\* All three, for every step.
LEMMA StepKeeps ==
    ASSUME Inv, Next
    PROVE  ContentKept(state, state') /\ AdmitStep /\ Evicts(state, state')
<1>1. PICK c \in Connection :
         \/ Accept(c) \/ Disconnect(c) \/ Login(c) \/ Logout(c)
         \/ Request(c) \/ Record(c)
  BY DEF Next
<1>2. CASE Request(c)
  BY <1>2, RequestStep
<1>3. CASE Accept(c) \/ Disconnect(c) \/ Login(c) \/ Logout(c) \/ Record(c)
  BY <1>3, SessionStep DEF NobodyAdmitted, AdmitStep
<1>. QED
  BY <1>1, <1>2, <1>3

\* Nobody joins a group but out of its pending requests, by an accept_request
\* from a session of the owner it has at that moment.
THEOREM OnlyTheOwnerAdmits == Spec => AdmittedByOwner
<1>1. Inv /\ [Next]_vars => [AdmitStep]_vars
  BY StepKeeps
<1>. QED
  BY <1>1, Invariance, PTL DEF Spec, AdmittedByOwner, AdmitStep

\* While a group lasts, a file name in it keeps the content it was uploaded with.
THEOREM ContentsAreStable == Spec => ContentStable
<1>. DEFINE Stable ==
        \A g \in DOMAIN state.groups \cap DOMAIN state'.groups :
           \A f \in DOMAIN state.groups[g].files :
              /\ f \in DOMAIN state'.groups[g].files
              /\ state'.groups[g].files[f].content = state.groups[g].files[f].content
<1>1. Inv /\ [Next]_vars => [Stable]_vars
  BY StepKeeps DEF ContentKept, FilesKept
<1>. QED
  BY <1>1, Invariance, PTL DEF Spec, ContentStable

\* A user that goes offline, by a logout or a lost connection, is in no seeder
\* list afterwards.
THEOREM OfflineIsEvicted == Spec => EvictedWhenOffline
<1>1. Inv /\ [Next]_vars => [Evicts(state, state')]_vars
  BY StepKeeps
<1>. QED
  BY <1>1, Invariance, PTL DEF Spec, EvictedWhenOffline, Evicts

----------------------------------------------------------------------------
(* The order of the log *)

\* A step in which no session executes an operation while another has one to
\* record: what one lock around the method and record_and_replicate would give,
\* and what a single connection gives.
Serial ==
    \A c, d \in Connection :
        session[c].phase = "recording" /\ session'[d].phase = "recording"
            => session[d].phase = "recording"

OneAtATime ==
    \A c, d \in Connection :
        session[c].phase = "recording" /\ session[d].phase = "recording" => c = d

\* ReplayAgrees says nothing of a moment when an operation is being recorded;
\* OneOpBehind carries the agreement over it, and OneAtATime says that there is
\* but one operation to carry it over.
ReplayInv ==
    /\ Inv /\ Good(replica)
    /\ OneAtATime /\ ReplayAgrees /\ OneOpBehind /\ ReplayAccepted

\* A tracker and its replica start alike.
LEMMA ReplayInitInv == ReplayInit => ReplayInv
<1>. SUFFICES ASSUME ReplayInit PROVE ReplayInv
  OBVIOUS
<1>1. Inv /\ Good(replica)
  BY InitInv, EmptyStateGood DEF ReplayInit
<1>2. \A c \in Connection : session[c].phase # "recording"
  BY DEF ReplayInit, Init, ClosedSession
<1>3. Agree(EmptyState, EmptyState)
  BY EmptyMapType DEF Agree, SameAccounts, SameGroups, EmptyState
<1>. QED
  BY <1>1, <1>2, <1>3
     DEF ReplayInit, Init, ReplayInv, OneAtATime, ReplayAgrees, OneOpBehind, ReplayAccepted

\* A step after which the sessions record what they recorded before, and the
\* tracker still agrees with whatever it agreed with.
LEMMA QuietStep ==
    ASSUME ReplayInv, Inv', replica' = replica,
           \A R \in State : Agree(state, R) => Agree(state', R),
           \A c \in Connection :
              session'[c].phase = "recording" <=> session[c].phase = "recording",
           \A c \in Connection :
              session[c].phase = "recording" => session'[c].op = session[c].op
    PROVE  ReplayInv'
<1>1. OneAtATime'
  BY DEF ReplayInv, OneAtATime
<1>2. ReplayAgrees'
  BY DEF ReplayInv, ReplayAgrees, Good
<1>3. ASSUME NEW c \in Connection, session'[c].phase = "recording"
      PROVE  /\ apply_remote(replica', session'[c].op).ok
             /\ Agree(state', apply_remote(replica', session'[c].op).state)
  <2>1. session[c].phase = "recording" /\ session'[c].op = session[c].op
    BY <1>3
  <2>2. session[c].op \in Op
    BY <2>1 DEF ReplayInv, Inv, TypeOK
  <2>3. apply_remote(replica, session[c].op).state \in State
    BY <2>2, apply_remoteGood DEF ReplayInv, Preserves, Good
  <2>. QED
    BY <2>1, <2>3 DEF ReplayInv, OneOpBehind, ReplayAccepted
<1>. QED
  BY <1>1, <1>2, <1>3 DEF ReplayInv, OneOpBehind, ReplayAccepted

\* Connections, logins and logouts.
LEMMA SessionReplayStep ==
    ASSUME ReplayInv, Inv', replica' = replica, NEW c \in Connection,
           Accept(c) \/ Disconnect(c) \/ Login(c) \/ Logout(c)
    PROVE  ReplayInv'
<1>1. state \in State /\ session \in [Connection -> SessionRecord]
  BY DEF ReplayInv, Inv, TypeOK
<1>2. PICK rec : /\ session' = [session EXCEPT ![c] = rec] /\ rec.phase # "recording"
  <2>1. CASE Accept(c)
    <3>1. session' = [session EXCEPT ![c] = [session[c] EXCEPT !.phase = "reading"]]
      BY <1>1, <2>1 DEF Accept
    <3>2. [session[c] EXCEPT !.phase = "reading"].phase = "reading"
      BY <1>1 DEF SessionRecord
    <3>. QED
      BY <3>1, <3>2
  <2>2. CASE Disconnect(c)
    <3>1. session' = [session EXCEPT ![c] = ClosedSession]
      BY <2>2 DEF Disconnect
    <3>2. ClosedSession.phase = "closed"
      BY DEF ClosedSession
    <3>. QED
      BY <3>1, <3>2
  <2>3. CASE Login(c)
    <3>1. PICK uid \in User, addr \in Addr :
             /\ session[c].phase = "reading"
             /\ session' = [session EXCEPT ![c].user = uid, ![c].addr = addr]
      BY <2>3 DEF Login
    <3>2. session' = [session EXCEPT ![c] = [session[c] EXCEPT !.user = uid, !.addr = addr]]
      BY <1>1, <3>1
    <3>3. [session[c] EXCEPT !.user = uid, !.addr = addr].phase = "reading"
      BY <1>1, <3>1 DEF SessionRecord
    <3>. QED
      BY <3>2, <3>3
  <2>4. CASE Logout(c)
    <3>1. session' = [session EXCEPT ![c] = [session[c] EXCEPT !.user = Nil]]
      BY <1>1, <2>4 DEF Logout
    <3>2. [session[c] EXCEPT !.user = Nil].phase = "reading"
      BY <1>1, <2>4 DEF Logout, LoggedIn, SessionRecord
    <3>. QED
      BY <3>1, <3>2
  <2>. QED
    BY <2>1, <2>2, <2>3, <2>4
<1>3. session[c].phase # "recording"
  BY DEF Accept, Disconnect, Login, Logout, LoggedIn
<1>4. /\ session'[c].phase # "recording"
      /\ \A d \in Connection : d # c => session'[d] = session[d]
  BY <1>1, <1>2
<1>5. ASSUME NEW R \in State, Agree(state, R)
      PROVE  Agree(state', R)
  <2>1. CASE Accept(c)
    BY <1>5, <2>1 DEF Accept
  <2>2. CASE Disconnect(c)
    BY <1>1, <1>5, <2>2, LogoutAgrees DEF Disconnect
  <2>3. CASE Login(c)
    <3>1. PICK uid \in User, pwd \in Password, addr \in Addr :
             state' = login(state, uid, pwd, addr).state
      BY <2>3 DEF Login
    <3>. QED
      BY <1>1, <1>5, <3>1, LoginAgrees
  <2>4. CASE Logout(c)
    BY <1>1, <1>5, <2>4, LogoutAgrees DEF Logout
  <2>. QED
    BY <2>1, <2>2, <2>3, <2>4
<1>6. \A d \in Connection :
         /\ session'[d].phase = "recording" <=> session[d].phase = "recording"
         /\ session[d].phase = "recording" => session'[d].op = session[d].op
  BY <1>3, <1>4
<1>. QED
  BY <1>5, <1>6, QuietStep

\* A request: nobody else was recording, so the two agreed, and the operation
\* does to the replica what it did to the tracker.
LEMMA RequestReplayStep ==
    ASSUME ReplayInv, Inv', replica' = replica, Serial, NEW c \in Connection, Request(c)
    PROVE  ReplayInv'
<1>1. PICK op \in Op : Mutate(c, op)
  BY RequestExecutes DEF ReplayInv
<1>2. session \in [Connection -> SessionRecord] /\ state \in State /\ replica \in State
  BY DEF ReplayInv, Inv, TypeOK, Good
<1>3. /\ session'[c].phase = "recording" /\ session'[c].op = op
      /\ \A d \in Connection : d # c => session'[d] = session[d]
      /\ session[c].phase = "reading"
  BY <1>1, <1>2 DEF Mutate, SessionRecord
<1>4. \A d \in Connection : session[d].phase # "recording"
  BY <1>3 DEF Serial
<1>5. Agree(state, replica)
  BY <1>4 DEF ReplayInv, ReplayAgrees
<1>6. /\ apply_remote(replica, op).ok
      /\ Agree(state', apply_remote(replica, op).state)
  BY <1>1, <1>2, <1>5, ExecuteReplays DEF Mutate
<1>7. \A d \in Connection : session'[d].phase = "recording" => d = c
  BY <1>3, <1>4
<1>. QED
  BY <1>3, <1>6, <1>7 DEF ReplayInv, OneAtATime, ReplayAgrees, OneOpBehind, ReplayAccepted

\* The operation enters the log: the replica has caught up.
LEMMA RecordReplayStep ==
    ASSUME ReplayInv, Inv', NEW c \in Connection, RecordAndReplay(c)
    PROVE  ReplayInv'
<1>1. /\ session \in [Connection -> SessionRecord]
      /\ session[c].phase = "recording" /\ session[c].op \in Op
  BY DEF ReplayInv, Inv, TypeOK, RecordAndReplay, Record
<1>2. /\ session'[c].phase = "reading"
      /\ \A d \in Connection : d # c => session'[d] = session[d]
      /\ state' = state /\ replica' = apply_remote(replica, session[c].op).state
  BY <1>1 DEF RecordAndReplay, Record, SessionRecord
<1>3. \A d \in Connection : session'[d].phase # "recording"
  BY <1>1, <1>2 DEF ReplayInv, OneAtATime
<1>4. Good(replica')
  BY <1>1, <1>2, apply_remoteGood DEF ReplayInv, Preserves
<1>5. Agree(state', replica')
  BY <1>1, <1>2 DEF ReplayInv, OneOpBehind
<1>. QED
  BY <1>3, <1>4, <1>5 DEF ReplayInv, OneAtATime, ReplayAgrees, OneOpBehind, ReplayAccepted

\* ReplayInv is inductive for serial steps.
LEMMA ReplayNextInv ==
    ASSUME ReplayInv, [ReplayNext]_replayVars, [Serial]_replayVars
    PROVE  ReplayInv'
<1>1. [Next]_vars
  BY DEF ReplayNext, RecordAndReplay, Next, replayVars, vars
<1>2. Inv'
  BY <1>1, NextInv DEF ReplayInv
<1>3. CASE UNCHANGED replayVars
  <2>1. state' = state /\ session' = session /\ replica' = replica
    BY <1>3 DEF replayVars, vars
  <2>. QED
    BY <1>2, <2>1, QuietStep
<1>4. CASE ReplayNext /\ Serial
  BY <1>2, <1>4, SessionReplayStep, RequestReplayStep, RecordReplayStep DEF ReplayNext
<1>. QED
  BY <1>3, <1>4

\* A single connection takes serial steps only.
LEMMA OneConnectionSerial ==
    ASSUME \A c, d \in Connection : c = d
    PROVE  [ReplayNext]_replayVars => [Serial]_replayVars
  BY DEF Serial

\* For any number of connections, as long as their operations are recorded in the
\* order in which they were executed.
THEOREM SerialReplay ==
    ReplaySpec /\ [][Serial]_replayVars => [](ReplayAgrees /\ ReplayAccepted)
<1>1. ReplayInv => ReplayAgrees /\ ReplayAccepted
  BY DEF ReplayInv
<1>. QED
  BY <1>1, ReplayInitInv, ReplayNextInv, PTL DEF ReplaySpec

\* The replay of the log of one connection reproduces the tracker.
THEOREM OneConnectionAgrees ==
    ASSUME \A c, d \in Connection : c = d
    PROVE  ReplaySpec => []ReplayAgrees
  BY SerialReplay, OneConnectionSerial, PTL DEF ReplaySpec

\* The peer refuses no operation of one connection.
THEOREM OneConnectionAccepted ==
    ASSUME \A c, d \in Connection : c = d
    PROVE  ReplaySpec => []ReplayAccepted
  BY SerialReplay, OneConnectionSerial, PTL DEF ReplaySpec

=============================================================================
