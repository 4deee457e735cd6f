------------------------------- MODULE Client -------------------------------
(***************************************************************************)
(* A client and its connection to the trackers: the console loop of        *)
(* client/main.cpp, class TrackerClient (client/tracker_client) with its   *)
(* fail-over and its replayed login, and a download job that announces     *)
(* pieces through the same TrackerClient (client/download_manager.cpp).    *)
(*                                                                         *)
(* The console and the job are threads; a request holds the mutex of       *)
(* TrackerClient from its first attempt to its last, the console's calls   *)
(* of note_login and clear_login take it again.  A tracker keeps a user    *)
(* per connection (tracker/session.cpp).  Trackers crash and restart       *)
(* without their accounts, and get the other's a while later.              *)
(*                                                                         *)
(* A connection is named by its tracker: TrackerClient has one at a time.  *)
(* Of a request only its type, and for a login and an account the user,    *)
(* matter here; OTHER stands for the commands that only need a login.      *)
(***************************************************************************)
EXTENDS Naturals

CONSTANTS
    User,
    Registered,     \* the accounts both trackers have when the client starts
    MaxFaults,      \* bound on the crashes of trackers
    MaxAnnounces,   \* bound on the announcements of the job
    None            \* no user, no connection, no thread

Tracker == {0, 1}               \* eps_, by index
Thread == {"console", "job"}

\* Slip: no second attempt.
OneAttempt == 1

Attempts == 2

ASSUME NoneAssumption == None \notin User /\ None \notin Tracker /\ None \notin Thread
ASSUME RegisteredAssumption == Registered \subseteq User
ASSUME BoundAssumption == MaxFaults \in Nat /\ MaxAnnounces \in Nat

VARIABLES
    up,             \* per tracker, whether it runs
    accounts,       \* per tracker, the users it knows
    session,        \* user_ of the Session behind the connection
    broken,         \* whether that tracker went away since the connection was made
    fd,             \* fd_: the tracker connected to
    current,        \* current_
    noted,          \* last_uid_ while logged_in_
    lock,           \* the thread that has __mu_lock
    call,           \* per thread, the request it makes and how far it is
    calm,           \* no tracker went away since the mutex was taken
    logged_in_as,   \* of the console
    shares,         \* whether the Seeder has a share
    job,            \* user_id of the running job
    announces, faults,
    bare,           \* history of the connection: made without the login on file,
                    \* for a typed login, or because the replayed one was refused
    crossed         \* history of the connection: made by the job while the console
                    \* had the answer to a login or logout and had not noted it

trackerVars == <<up, accounts>>
connVars == <<session, broken, fd, current>>
consoleVars == <<logged_in_as, shares, job, announces>>
historyVars == <<bare, crossed>>
vars == <<trackerVars, connVars, noted, lock, call, calm, consoleVars, faults, historyVars>>

Type == {"CREATE_USER", "LOGIN", "LOGOUT", "UPLOAD_FILE", "GET_FILE_META",
         "STOP_SHARE", "HAVE_PIECES", "OTHER"}

Status == {"OK", "NOT_LOGGED_IN", "REFUSED", "UNREACHABLE"}

Idle == [pc |-> "idle", type |-> "OTHER", user |-> None, right |-> TRUE,
         attempt |-> 0, status |-> "OK"]

CallRecord ==
    [pc: {"idle", "lock", "attempt", "relogin", "exchange", "executed", "returned",
          "note", "clear"},
     type: Type, user: User \cup {None}, right: BOOLEAN,
     attempt: 0..Attempts, status: Status]

Init ==
    /\ up = [t \in Tracker |-> TRUE]
    /\ accounts = [t \in Tracker |-> Registered]
    /\ fd = 0 /\ current = 0        \* connect_any
    /\ session = None /\ broken = FALSE
    /\ noted = None /\ lock = None /\ calm = TRUE
    /\ call = [th \in Thread |-> Idle]
    /\ logged_in_as = None /\ shares = FALSE /\ job = None
    /\ announces = 0 /\ faults = 0
    /\ bare = FALSE /\ crossed = FALSE

----------------------------------------------------------------------------
(* TrackerClient::request *)

Acquire(th) ==
    /\ call[th].pc = "lock" /\ lock = None
    /\ lock' = th /\ calm' = TRUE
    /\ call' = [call EXCEPT ![th].pc = "attempt", ![th].attempt = 0]
    /\ UNCHANGED <<trackerVars, connVars, noted, consoleVars, faults, historyVars>>

\* Slip: an early return without an unlock.
ReturnLocked(th, status) ==
    /\ call' = [call EXCEPT ![th].pc = "returned", ![th].status = status]
    /\ lock' = lock

Return(th, status) ==
    /\ call' = [call EXCEPT ![th].pc = "returned", ![th].status = status]
    /\ lock' = None

\* The trackers are tried in turn, from the one after the current.
FirstUp == IF up[1 - current] THEN 1 - current ELSE current

\* Slip: a fresh connection is used as it is.
ReplaysNever(th) == FALSE

Replays(th) == noted # None /\ call[th].type # "LOGIN"

\* The console has an answer that changes who is logged in, and has not noted it.
Unnoted ==
    \/ call["console"].pc \in {"note", "clear"}
    \/ /\ call["console"].pc = "returned"
       /\ call["console"].type = "LOGIN" => call["console"].status = "OK"
       /\ call["console"].type \in {"LOGIN", "LOGOUT"}

Reconnect(th) ==
    /\ call[th].pc = "attempt" /\ call[th].attempt < Attempts
    /\ fd = None
    /\ \/ /\ \E t \in Tracker : up[t]
          /\ fd' = FirstUp /\ current' = FirstUp
          /\ session' = None /\ broken' = FALSE
          /\ bare' = (noted # None /\ call[th].type = "LOGIN")
          /\ crossed' = (th = "job" /\ Unnoted)
          /\ call' = [call EXCEPT ![th].pc = IF Replays(th) THEN "relogin" ELSE "exchange"]
          /\ UNCHANGED lock
       \/ /\ \A t \in Tracker : ~up[t]
          /\ Return(th, "UNREACHABLE")
          /\ UNCHANGED <<connVars, historyVars>>
    /\ UNCHANGED <<trackerVars, noted, calm, consoleVars, faults>>

Reuse(th) ==
    /\ call[th].pc = "attempt" /\ call[th].attempt < Attempts
    /\ fd # None
    /\ call' = [call EXCEPT ![th].pc = "exchange"]
    /\ UNCHANGED <<trackerVars, connVars, noted, lock, calm, consoleVars, faults, historyVars>>

GiveUp(th) ==
    /\ call[th].pc = "attempt" /\ call[th].attempt = Attempts
    /\ Return(th, "UNREACHABLE")
    /\ UNCHANGED <<trackerVars, connVars, noted, calm, consoleVars, faults, historyVars>>

\* A send or a receive failed: close, next attempt.
Drop(th) ==
    /\ call[th].pc \in {"relogin", "exchange", "executed"}
    /\ broken
    /\ fd' = None /\ session' = None /\ broken' = FALSE
    /\ call' = [call EXCEPT ![th].pc = "attempt", ![th].attempt = @ + 1]
    /\ UNCHANGED <<current, trackerVars, noted, lock, calm, consoleVars, faults, historyVars>>

\* The replayed login; if it is refused, the request is sent all the same.
LogInAgain(th) ==
    /\ call[th].pc = "relogin" /\ ~broken
    /\ session' = IF noted \in accounts[fd] THEN noted ELSE session
    /\ bare' = (noted \notin accounts[fd])
    /\ call' = [call EXCEPT ![th].pc = "exchange"]
    /\ UNCHANGED <<broken, fd, current, trackerVars, noted, lock, calm, consoleVars, faults, crossed>>

\* What Session::dispatch replies.  Whether a logged-in user may upload, stop
\* sharing or see a file is the business of TrackerState.
Reply(req) ==
    CASE req.type = "CREATE_USER" -> {IF req.user \in accounts[fd] THEN "REFUSED" ELSE "OK"}
      [] req.type = "LOGIN" ->
            {IF req.user \in accounts[fd] /\ req.right THEN "OK" ELSE "REFUSED"}
      [] OTHER ->
            IF session = None THEN {"NOT_LOGGED_IN"}
            ELSE IF req.type = "LOGOUT" THEN {"OK"} ELSE {"OK", "REFUSED"}

\* Session::dispatch at the tracker.  An account reaches the other one by Replicate.
Execute(th) ==
    /\ call[th].pc = "exchange" /\ ~broken
    /\ LET req == call[th]
       IN  \E status \in Reply(req) :
             /\ call' = [call EXCEPT ![th].pc = "executed", ![th].status = status]
             /\ accounts' = IF req.type = "CREATE_USER" /\ status = "OK"
                            THEN [accounts EXCEPT ![fd] = @ \cup {req.user}]
                            ELSE accounts
             /\ IF req.type \in {"LOGIN", "LOGOUT"} /\ status = "OK"
                THEN /\ session' = IF req.type = "LOGIN" THEN req.user ELSE None
                     /\ bare' = FALSE /\ crossed' = FALSE
                ELSE UNCHANGED <<session, historyVars>>
    /\ UNCHANGED <<up, broken, fd, current, noted, lock, calm, consoleVars, faults>>

\* The answer arrives, though the tracker may be gone since.
Answered(th) ==
    /\ call[th].pc = "executed"
    /\ Return(th, call[th].status)
    /\ UNCHANGED <<trackerVars, connVars, noted, calm, consoleVars, faults, historyVars>>

----------------------------------------------------------------------------
(* The console *)

Typed(type, u, right) ==
    /\ call["console"].pc = "idle"
    /\ call' = [call EXCEPT !["console"] =
                    [Idle EXCEPT !.pc = "lock", !.type = type, !.user = u, !.right = right]]

Command ==
    /\ \/ \E u \in User : Typed("CREATE_USER", u, TRUE)
       \/ \E u \in User, right \in BOOLEAN : Typed("LOGIN", u, right)
       \/ \E type \in {"LOGOUT", "STOP_SHARE", "OTHER"} : Typed(type, None, TRUE)
       \/ \E type \in {"UPLOAD_FILE", "GET_FILE_META"} :
            logged_in_as # None /\ Typed(type, None, TRUE)
    /\ UNCHANGED <<trackerVars, connVars, noted, lock, calm, consoleVars, faults, historyVars>>

(* What the console does with an answer *)

Returned(type) == call["console"].pc = "returned" /\ call["console"].type = type

Succeeded == call["console"].status = "OK"

NextPrompt == call' = [call EXCEPT !["console"] = Idle]

\* A login that succeeded goes on to note_login.
LoginDone ==
    /\ Returned("LOGIN")
    /\ IF Succeeded THEN /\ logged_in_as' = call["console"].user
                         /\ call' = [call EXCEPT !["console"].pc = "note"]
                    ELSE NextPrompt /\ UNCHANGED logged_in_as
    /\ UNCHANGED <<trackerVars, connVars, noted, lock, calm, shares, job, announces,
                   faults, historyVars>>

\* Whatever the answer; clear_login follows.
LogoutDone ==
    /\ Returned("LOGOUT")
    /\ logged_in_as' = None
    /\ call' = [call EXCEPT !["console"].pc = "clear"]
    /\ UNCHANGED <<trackerVars, connVars, noted, lock, calm, shares, job, announces,
                   faults, historyVars>>

\* The file is shared, unless it cannot be opened again.
UploadDone ==
    /\ Returned("UPLOAD_FILE")
    /\ shares' \in IF Succeeded THEN {shares, TRUE} ELSE {shares}
    /\ NextPrompt
    /\ UNCHANGED <<trackerVars, connVars, noted, lock, calm, logged_in_as, job, announces,
                   faults, historyVars>>

\* A job starts, unless there is no peer.
MetadataDone ==
    /\ Returned("GET_FILE_META")
    /\ job' \in IF Succeeded /\ job = None THEN {job, logged_in_as} ELSE {job}
    /\ NextPrompt
    /\ UNCHANGED <<trackerVars, connVars, noted, lock, calm, logged_in_as, shares, announces,
                   faults, historyVars>>

StopShareDone ==
    /\ Returned("STOP_SHARE")
    /\ shares' = (shares /\ ~Succeeded)
    /\ NextPrompt
    /\ UNCHANGED <<trackerVars, connVars, noted, lock, calm, logged_in_as, job, announces,
                   faults, historyVars>>

\* All others print the answer.
Printed ==
    /\ Returned("CREATE_USER") \/ Returned("OTHER")
    /\ NextPrompt
    /\ UNCHANGED <<trackerVars, connVars, noted, lock, calm, consoleVars, faults, historyVars>>

NoteLogin ==
    /\ call["console"].pc = "note" /\ lock = None
    /\ noted' = call["console"].user
    /\ call' = [call EXCEPT !["console"] = Idle]
    /\ UNCHANGED <<trackerVars, connVars, lock, calm, consoleVars, faults, historyVars>>

\* Slip: the login stays on file.
KeepLogin ==
    /\ call["console"].pc = "clear" /\ lock = None
    /\ call' = [call EXCEPT !["console"] = Idle]
    /\ UNCHANGED <<trackerVars, connVars, noted, lock, calm, consoleVars, faults, historyVars>>

ClearLogin ==
    /\ call["console"].pc = "clear" /\ lock = None
    /\ noted' = None
    /\ call' = [call EXCEPT !["console"] = Idle]
    /\ UNCHANGED <<trackerVars, connVars, lock, calm, consoleVars, faults, historyVars>>

----------------------------------------------------------------------------
(* The job *)

Announce ==
    /\ job # None /\ call["job"].pc = "idle"
    /\ announces < MaxAnnounces
    /\ announces' = announces + 1
    /\ call' = [call EXCEPT !["job"] = [Idle EXCEPT !.pc = "lock", !.type = "HAVE_PIECES"]]
    /\ UNCHANGED <<trackerVars, connVars, noted, lock, calm, logged_in_as, shares, job,
                   faults, historyVars>>

\* The answer to an announcement is not looked at.
Announced ==
    /\ call["job"].pc = "returned"
    /\ call' = [call EXCEPT !["job"] = Idle]
    /\ UNCHANGED <<trackerVars, connVars, noted, lock, calm, consoleVars, faults, historyVars>>

\* run_job ends: the whole file is shared, or the job failed.
JobEnds ==
    /\ job # None /\ call["job"].pc = "idle"
    /\ job' = None
    /\ shares' \in {shares, TRUE}
    /\ UNCHANGED <<trackerVars, connVars, noted, lock, call, calm, logged_in_as, announces,
                   faults, historyVars>>

----------------------------------------------------------------------------
(* The trackers *)

Down(t) ==
    /\ up[t] /\ faults < MaxFaults
    /\ faults' = faults + 1
    /\ up' = [up EXCEPT ![t] = FALSE]
    /\ broken' = (broken \/ fd = t)
    /\ calm' = FALSE
    /\ UNCHANGED <<accounts, session, fd, current, noted, lock, call, consoleVars, historyVars>>

\* A restarted tracker knows nothing until it has the other's snapshot.
Restart(t) ==
    /\ ~up[t]
    /\ up' = [up EXCEPT ![t] = TRUE]
    /\ accounts' = [accounts EXCEPT ![t] = {}]
    /\ UNCHANGED <<connVars, noted, lock, call, calm, consoleVars, faults, historyVars>>

Replicate(t) ==
    /\ \A s \in Tracker : up[s]
    /\ accounts' = [accounts EXCEPT ![t] = @ \cup accounts[1 - t]]
    /\ UNCHANGED <<up, connVars, noted, lock, call, calm, consoleVars, faults, historyVars>>

----------------------------------------------------------------------------

Request(th) ==
    \/ Acquire(th) \/ Reconnect(th) \/ Reuse(th) \/ GiveUp(th) \/ Drop(th)
    \/ LogInAgain(th) \/ Execute(th) \/ Answered(th)

Console ==
    \/ LoginDone \/ LogoutDone \/ UploadDone \/ MetadataDone \/ StopShareDone \/ Printed
    \/ NoteLogin \/ ClearLogin

Next ==
    \/ Command \/ Console
    \/ Announce \/ Announced \/ JobEnds
    \/ \E th \in Thread : Request(th)
    \/ \E t \in Tracker : Down(t) \/ Restart(t) \/ Replicate(t)

Spec == Init /\ [][Next]_vars

\* Threads go on, and a tracker that runs answers: a request has no timeout of
\* its own.  The mutex need not be fair, since a job announces only so often.
FairSpec ==
    /\ Spec
    /\ \A th \in Thread : WF_vars(Request(th))
    /\ WF_vars(Console) /\ WF_vars(Announced)

----------------------------------------------------------------------------
(* Properties *)

TypeOK ==
    /\ up \in [Tracker -> BOOLEAN]
    /\ accounts \in [Tracker -> SUBSET User]
    /\ fd \in Tracker \cup {None} /\ current \in Tracker
    /\ session \in User \cup {None} /\ broken \in BOOLEAN
    /\ noted \in User \cup {None}
    /\ lock \in Thread \cup {None} /\ calm \in BOOLEAN
    /\ call \in [Thread -> CallRecord]
    /\ logged_in_as \in User \cup {None} /\ shares \in BOOLEAN
    /\ job \in User \cup {None}
    /\ announces \in 0..MaxAnnounces /\ faults \in 0..MaxFaults
    /\ bare \in BOOLEAN /\ crossed \in BOOLEAN

\* The console waits for a command and nobody has the connection.
Quiet == call["console"].pc = "idle" /\ lock = None

\* tracker_client.hpp:33-34: the connection acts for nobody but the user at the
\* console, and for nobody after a logout, however requests were retried, logins
\* replayed and trackers restarted.  The one exception is a connection the job made
\* between the answer to a login or logout and the console's note of it.
ActsForItsUser == Quiet => session \in {None, logged_in_as} \/ crossed

\* tracker_client.hpp:25-28: when a login is on file, the connection has it, also
\* after a fail-over.  The exceptions: the connection above, and one without any
\* login, because it was made for a typed login that was refused, or because the
\* replayed one came to a tracker ahead of its account.
NotedIsLoggedIn ==
    Quiet /\ fd # None /\ ~broken =>
        session = noted \/ (bare /\ session = None) \/ crossed

\* tracker_client.hpp:23-24: a request fails over: it finds the trackers
\* unreachable only if one went away during it or none is there.
ReachableIsReached ==
    \A th \in Thread :
        /\ call[th].pc = "attempt" /\ call[th].attempt = Attempts
        => ~calm

\* Every command is answered, also while a job uses the connection.
CommandReturns == call["console"].pc = "lock" ~> call["console"].pc = "idle"

\* What the documents say and the code does not keep up, for the record (README).
\* download_manager.hpp:33: pieces are announced for the user who runs the
\* download.
AnnouncedForItsUser ==
    [][call["job"].pc = "exchange" /\ call'["job"].pc = "executed"
       /\ call'["job"].status = "OK" => session = job]_vars

\* main.cpp:86: after a logout nothing is shared.
LoggedOutSharesNothing == Quiet /\ logged_in_as = None => ~shares

=============================================================================
