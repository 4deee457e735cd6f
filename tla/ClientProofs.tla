---------------------------- MODULE ClientProofs ----------------------------
(***************************************************************************)
(* The invariants of Client, for any users and any number of faults and    *)
(* announcements.  Whom the connection acts for when the console is idle   *)
(* depends on where a request was at each step before, so the inductive    *)
(* invariant says it for each point of a request (Acting, Current), and    *)
(* with it who has the mutex (Locked), which of the two records of the     *)
(* login is ahead (InStep) and what a failed attempt leaves behind         *)
(* (Connected, Reaching).                                                  *)
(***************************************************************************)
EXTENDS Client, TLAPS

\* Where a thread is that has the mutex.
Inside == {"attempt", "relogin", "exchange", "executed"}

\* The mutex is with the thread that is inside a request, and the threads make
\* the requests that are theirs.
Locked ==
    /\ \A th \in Thread : call[th].pc \in Inside <=> lock = th
    /\ call["console"].type # "HAVE_PIECES"
    /\ call["console"].type \in {"LOGIN", "CREATE_USER"} => call["console"].user \in User
    /\ call["job"].pc # "idle" => call["job"].type = "HAVE_PIECES"
    /\ call["job"].pc \notin {"note", "clear"}
    /\ call["console"].pc = "note" => call["console"].type = "LOGIN"

\* No connection, no session; a request that goes on after a failure has closed
\* its connection; a login is replayed on a fresh one.
Connected ==
    /\ fd = None => session = None /\ ~broken
    /\ \A th \in Thread :
         /\ call[th].pc \in {"relogin", "exchange", "executed"} =>
              fd # None /\ call[th].attempt < Attempts
         /\ call[th].pc = "relogin" => noted # None /\ call[th].type # "LOGIN" /\ session = None
         /\ call[th].pc = "attempt" /\ call[th].attempt > 0 => fd = None

\* In calm, a second attempt does not fail.
Reaching ==
    \A th \in Thread :
        /\ call[th].pc \in {"relogin", "exchange", "executed"} /\ call[th].attempt > 0 /\ calm
             => ~broken
        /\ call[th].pc = "attempt" /\ call[th].attempt = Attempts => ~calm

\* The login on file is that of the console, but for the moment between the
\* console's own note and TrackerClient's.
InStep ==
    /\ call["console"].pc \notin {"note", "clear"} => noted = logged_in_as
    /\ call["console"].pc = "note" => logged_in_as = call["console"].user
    /\ call["console"].pc = "clear" => logged_in_as = None

\* Whom the connection acts for, at each point of the console's request, if the job
\* did not make it in between.
Acting ==
    LET c == call["console"]
        own == session \in {None, logged_in_as}
    IN  ~crossed =>
          /\ c.pc \in {"idle", "lock", "attempt", "relogin", "exchange"} => own
          /\ c.pc \in {"executed", "returned"} =>
               CASE c.type = "LOGIN" /\ c.status = "OK" -> session \in {None, c.user}
                 [] c.type = "LOGOUT" -> session = None
                 [] OTHER -> own
          /\ c.pc = "note" => session \in {None, c.user}
          /\ c.pc = "clear" => session = None
          /\ call["job"].pc = "relogin" => ~Unnoted

\* The connection has the login on file, or was made without one.
Right == session = noted \/ (bare /\ session = None)

\* When that is, at each point of a request.
Current ==
    LET c == call["console"]
    IN  ~crossed /\ fd # None /\ ~broken =>
          /\ c.pc \in {"executed", "returned"} /\ c.type = "LOGIN" /\ c.status = "OK" =>
               session = c.user
          /\ c.pc = "note" => session = c.user
          /\ lock = None /\ ~Unnoted => Right
          /\ \A th \in Thread :
               /\ call[th].pc \in {"attempt", "exchange"} /\ ~Unnoted => Right
               /\ call[th].pc = "executed" /\ ~Unnoted =>
                    Right \/ call[th].type = "LOGOUT"
                          \/ (call[th].type = "LOGIN" /\ call[th].status = "OK")

Inv == TypeOK /\ Locked /\ Connected /\ Reaching /\ InStep /\ Acting /\ Current

----------------------------------------------------------------------------
(* One lemma per action: it keeps the invariant, part by part *)

\* The requests that are started.
LEMMA IdleFresh == Idle \in CallRecord /\ Idle.pc = "idle" /\ Idle.type = "OTHER"
<1>1. Idle \in CallRecord
  BY DEF Idle, CallRecord, Type, Status, Attempts
<1>2. Idle.pc = "idle" /\ Idle.type = "OTHER"
  BY DEF Idle
<1>. QED
  BY <1>1, <1>2

\* The console starts request c.
Starts(c) ==
    /\ c.pc = "lock" /\ c.type # "HAVE_PIECES"
    /\ c.type \in {"LOGIN", "CREATE_USER"} => c.user \in User
    /\ call["console"].pc = "idle" /\ call' = [call EXCEPT !["console"] = c]

LEMMA TypedStarts ==
    ASSUME NEW type \in Type, NEW u \in User \cup {None}, NEW right \in BOOLEAN,
           type # "HAVE_PIECES", type \in {"LOGIN", "CREATE_USER"} => u \in User,
           Typed(type, u, right)
    PROVE  \E c \in CallRecord : Starts(c)
<1>. DEFINE c == [Idle EXCEPT !.pc = "lock", !.type = type, !.user = u, !.right = right]
<1>1. c \in CallRecord /\ c.pc = "lock" /\ c.type = type /\ c.user = u
  BY IdleFresh DEF CallRecord
<1>2. call["console"].pc = "idle" /\ call' = [call EXCEPT !["console"] = c]
  BY DEF Typed
<1>. HIDE DEF c
<1>. QED
  BY <1>1, <1>2 DEF Starts

LEMMA AcquireInv == ASSUME Inv, NEW th \in Thread, Acquire(th) PROVE Inv'
<1>. USE NoneAssumption, BoundAssumption DEF Inv, TypeOK
<1>1. TypeOK'
  BY DEF Acquire, CallRecord, Type, Status, Attempts, Thread, Tracker, trackerVars,
         connVars, consoleVars, historyVars
<1>2. Locked'
  BY DEF Acquire, Locked, Inside, Connected, CallRecord, Thread, trackerVars, connVars,
         consoleVars, historyVars
<1>3. Connected'
  BY DEF Acquire, Locked, Inside, Connected, CallRecord, Thread, Tracker, Attempts,
         trackerVars, connVars, consoleVars, historyVars
<1>4. Reaching'
  BY DEF Acquire, Locked, Inside, Connected, Reaching, CallRecord, Thread, Attempts,
         trackerVars, connVars, consoleVars, historyVars
<1>5. InStep'
  BY DEF Acquire, Locked, Inside, InStep, CallRecord, Thread, trackerVars, connVars,
         consoleVars, historyVars
<1>6. Acting'
  BY DEF Acquire, Locked, Inside, Connected, InStep, Acting, Unnoted, CallRecord,
         Thread, Attempts, trackerVars, connVars, consoleVars, historyVars
<1>7. Current'
  BY DEF Acquire, Locked, Inside, Connected, InStep, Acting, Current, Right, Unnoted,
         CallRecord, Thread, Attempts, trackerVars, connVars, consoleVars, historyVars
<1>. QED
  BY <1>1, <1>2, <1>3, <1>4, <1>5, <1>6, <1>7

LEMMA ReconnectInv == ASSUME Inv, NEW th \in Thread, Reconnect(th) PROVE Inv'
<1>. USE NoneAssumption, BoundAssumption DEF Inv, TypeOK
<1>1. TypeOK'
  <2>1. call' \in [Thread -> CallRecord] /\ lock' \in Thread \cup {None}
    BY DEF Reconnect, Return, CallRecord, Status, Thread
  <2>2. fd' \in Tracker \cup {None} /\ current' \in Tracker
    BY DEF Reconnect, FirstUp, Tracker, connVars
  <2>3. session' \in User \cup {None} /\ broken' \in BOOLEAN
    BY DEF Reconnect, connVars
  <2>4. bare' \in BOOLEAN /\ crossed' \in BOOLEAN
    BY DEF Reconnect, historyVars
  <2>. QED
    BY <2>1, <2>2, <2>3, <2>4 DEF Reconnect, trackerVars, consoleVars
<1>2. Locked'
  BY DEF Reconnect, Return, FirstUp, Replays, Locked, Inside, Connected, CallRecord,
         Thread, trackerVars, connVars, consoleVars, historyVars
<1>3. Connected'
  BY DEF Reconnect, Return, FirstUp, Replays, Locked, Inside, Connected, CallRecord,
         Thread, Tracker, Attempts, trackerVars, connVars, consoleVars, historyVars
<1>4. Reaching'
  BY DEF Reconnect, Return, FirstUp, Replays, Locked, Inside, Connected, Reaching,
         CallRecord, Thread, Attempts, trackerVars, connVars, consoleVars, historyVars
<1>5. InStep'
  BY DEF Reconnect, Return, FirstUp, Replays, Locked, Inside, InStep, CallRecord,
         Thread, trackerVars, connVars, consoleVars, historyVars
<1>6. Acting'
  BY DEF Reconnect, Return, FirstUp, Replays, Locked, Inside, Connected, InStep,
         Acting, Unnoted, CallRecord, Thread, Attempts, trackerVars, connVars,
         consoleVars, historyVars
<1>7. Current'
  BY DEF Reconnect, Return, FirstUp, Replays, Locked, Inside, Connected, InStep,
         Acting, Current, Right, Unnoted, CallRecord, Thread, Attempts, trackerVars,
         connVars, consoleVars, historyVars
<1>. QED
  BY <1>1, <1>2, <1>3, <1>4, <1>5, <1>6, <1>7

LEMMA ReuseInv == ASSUME Inv, NEW th \in Thread, Reuse(th) PROVE Inv'
<1>. USE NoneAssumption, BoundAssumption DEF Inv, TypeOK
<1>1. TypeOK'
  BY DEF Reuse, CallRecord, Type, Status, Attempts, Thread, Tracker, trackerVars,
         connVars, consoleVars, historyVars
<1>2. Locked'
  BY DEF Reuse, Locked, Inside, Connected, CallRecord, Thread, trackerVars, connVars,
         consoleVars, historyVars
<1>3. Connected'
  BY DEF Reuse, Locked, Inside, Connected, CallRecord, Thread, Tracker, Attempts,
         trackerVars, connVars, consoleVars, historyVars
<1>4. Reaching'
  BY DEF Reuse, Locked, Inside, Connected, Reaching, CallRecord, Thread, Attempts,
         trackerVars, connVars, consoleVars, historyVars
<1>5. InStep'
  BY DEF Reuse, Locked, Inside, InStep, CallRecord, Thread, trackerVars, connVars,
         consoleVars, historyVars
<1>6. Acting'
  BY DEF Reuse, Locked, Inside, Connected, InStep, Acting, Unnoted, CallRecord, Thread,
         Attempts, trackerVars, connVars, consoleVars, historyVars
<1>7. Current'
  BY DEF Reuse, Locked, Inside, Connected, InStep, Acting, Current, Right, Unnoted,
         CallRecord, Thread, Attempts, trackerVars, connVars, consoleVars, historyVars
<1>. QED
  BY <1>1, <1>2, <1>3, <1>4, <1>5, <1>6, <1>7

LEMMA GiveUpInv == ASSUME Inv, NEW th \in Thread, GiveUp(th) PROVE Inv'
<1>. USE NoneAssumption, BoundAssumption DEF Inv, TypeOK
<1>1. TypeOK'
  BY DEF GiveUp, Return, CallRecord, Type, Status, Attempts, Thread, Tracker,
         trackerVars, connVars, consoleVars, historyVars
<1>2. Locked'
  BY DEF GiveUp, Return, Locked, Inside, Connected, CallRecord, Thread, trackerVars,
         connVars, consoleVars, historyVars
<1>3. Connected'
  BY DEF GiveUp, Return, Locked, Inside, Connected, CallRecord, Thread, Tracker,
         Attempts, trackerVars, connVars, consoleVars, historyVars
<1>4. Reaching'
  BY DEF GiveUp, Return, Locked, Inside, Connected, Reaching, CallRecord, Thread,
         Attempts, trackerVars, connVars, consoleVars, historyVars
<1>5. InStep'
  BY DEF GiveUp, Return, Locked, Inside, InStep, CallRecord, Thread, trackerVars,
         connVars, consoleVars, historyVars
<1>6. Acting'
  BY DEF GiveUp, Return, Locked, Inside, Connected, InStep, Acting, Unnoted,
         CallRecord, Thread, Attempts, trackerVars, connVars, consoleVars, historyVars
<1>7. Current'
  BY DEF GiveUp, Return, Locked, Inside, Connected, InStep, Acting, Current, Right,
         Unnoted, CallRecord, Thread, Attempts, trackerVars, connVars, consoleVars,
         historyVars
<1>. QED
  BY <1>1, <1>2, <1>3, <1>4, <1>5, <1>6, <1>7

LEMMA DropInv == ASSUME Inv, NEW th \in Thread, Drop(th) PROVE Inv'
<1>. USE NoneAssumption, BoundAssumption DEF Inv, TypeOK
<1>1. TypeOK'
  BY DEF Drop, CallRecord, Type, Status, Attempts, Thread, Tracker, trackerVars,
         connVars, consoleVars, historyVars
<1>2. Locked'
  BY DEF Drop, Locked, Inside, Connected, CallRecord, Thread, trackerVars, connVars,
         consoleVars, historyVars
<1>3. Connected'
  BY DEF Drop, Locked, Inside, Connected, CallRecord, Thread, Tracker, Attempts,
         trackerVars, connVars, consoleVars, historyVars
<1>4. Reaching'
  BY DEF Drop, Locked, Inside, Connected, Reaching, CallRecord, Thread, Attempts,
         trackerVars, connVars, consoleVars, historyVars
<1>5. InStep'
  BY DEF Drop, Locked, Inside, InStep, CallRecord, Thread, trackerVars, connVars,
         consoleVars, historyVars
<1>6. Acting'
  BY DEF Drop, Locked, Inside, Connected, InStep, Acting, Unnoted, CallRecord, Thread,
         Attempts, trackerVars, connVars, consoleVars, historyVars
<1>7. Current'
  BY DEF Drop, Locked, Inside, Connected, InStep, Acting, Current, Right, Unnoted,
         CallRecord, Thread, Attempts, trackerVars, connVars, consoleVars, historyVars
<1>. QED
  BY <1>1, <1>2, <1>3, <1>4, <1>5, <1>6, <1>7

LEMMA LogInAgainInv == ASSUME Inv, NEW th \in Thread, LogInAgain(th) PROVE Inv'
<1>. USE NoneAssumption, BoundAssumption DEF Inv, TypeOK
<1>1. TypeOK'
  BY DEF LogInAgain, CallRecord, Type, Status, Attempts, Thread, Tracker, trackerVars,
         connVars, consoleVars, historyVars
<1>2. Locked'
  BY DEF LogInAgain, Locked, Inside, Connected, CallRecord, Thread, trackerVars,
         connVars, consoleVars, historyVars
<1>3. Connected'
  BY DEF LogInAgain, Locked, Inside, Connected, CallRecord, Thread, Tracker, Attempts,
         trackerVars, connVars, consoleVars, historyVars
<1>4. Reaching'
  BY DEF LogInAgain, Locked, Inside, Connected, Reaching, CallRecord, Thread, Attempts,
         trackerVars, connVars, consoleVars, historyVars
<1>5. InStep'
  BY DEF LogInAgain, Locked, Inside, InStep, CallRecord, Thread, trackerVars, connVars,
         consoleVars, historyVars
<1>6. Acting'
  BY DEF LogInAgain, Locked, Inside, Connected, InStep, Acting, Unnoted, CallRecord,
         Thread, Attempts, trackerVars, connVars, consoleVars, historyVars
<1>7. Current'
  BY DEF LogInAgain, Locked, Inside, Connected, InStep, Acting, Current, Right,
         Unnoted, CallRecord, Thread, Attempts, trackerVars, connVars, consoleVars,
         historyVars
<1>. QED
  BY <1>1, <1>2, <1>3, <1>4, <1>5, <1>6, <1>7

\* A call with a new status.
LEMMA StatusType ==
    ASSUME NEW c \in CallRecord, NEW status \in Status, NEW pc \in {"executed", "returned"}
    PROVE  [c EXCEPT !.pc = pc, !.status = status] \in CallRecord
  BY DEF CallRecord

LEMMA ExecuteInv == ASSUME Inv, NEW th \in Thread, Execute(th) PROVE Inv'
<1>. USE NoneAssumption, BoundAssumption DEF Inv, TypeOK
<1>1. TypeOK'
  <2>1. PICK status \in Reply(call[th]) :
          call' = [call EXCEPT ![th].pc = "executed", ![th].status = status]
    BY DEF Execute
  <2>2. status \in Status
    BY <2>1 DEF Reply, Status
  <2>3. call' \in [Thread -> CallRecord]
    <3>1. [call[th] EXCEPT !.pc = "executed", !.status = status] \in CallRecord
      BY <2>2, StatusType
    <3>2. call' = [call EXCEPT ![th] = [call[th] EXCEPT !.pc = "executed", !.status = status]]
      BY <2>1
    <3>. QED
      BY <3>1, <3>2, Zenon
  <2>4. call[th] \in CallRecord /\ fd \in Tracker
    BY DEF Connected, Execute
  <2>5. call[th].type \in {"LOGIN", "CREATE_USER"} => call[th].user \in User
    BY DEF Locked, Thread, Execute
  <2>6. accounts' \in [Tracker -> SUBSET User]
    BY <2>4, <2>5 DEF Execute
  <2>7. session' \in User \cup {None} /\ bare' \in BOOLEAN /\ crossed' \in BOOLEAN
    BY <2>5 DEF Execute, historyVars
  <2>. QED
    BY <2>3, <2>6, <2>7 DEF Execute, consoleVars
<1>2. Locked'
  BY DEF Execute, Reply, Locked, Inside, Connected, CallRecord, Thread, trackerVars,
         connVars, consoleVars, historyVars
<1>3. Connected'
  BY DEF Execute, Reply, Locked, Inside, Connected, CallRecord, Thread, Tracker,
         Attempts, trackerVars, connVars, consoleVars, historyVars
<1>4. Reaching'
  BY DEF Execute, Reply, Locked, Inside, Connected, Reaching, CallRecord, Thread,
         Attempts, trackerVars, connVars, consoleVars, historyVars
<1>5. InStep'
  BY DEF Execute, Reply, Locked, Inside, InStep, CallRecord, Thread, trackerVars,
         connVars, consoleVars, historyVars
<1>6. Acting'
  BY DEF Execute, Reply, Locked, Inside, Connected, InStep, Acting, Unnoted,
         CallRecord, Thread, Attempts, trackerVars, connVars, consoleVars, historyVars
<1>7. Current'
  BY DEF Execute, Reply, Locked, Inside, Connected, InStep, Acting, Current, Right,
         Unnoted, CallRecord, Thread, Attempts, trackerVars, connVars, consoleVars,
         historyVars
<1>. QED
  BY <1>1, <1>2, <1>3, <1>4, <1>5, <1>6, <1>7

LEMMA AnsweredInv == ASSUME Inv, NEW th \in Thread, Answered(th) PROVE Inv'
<1>. USE NoneAssumption, BoundAssumption DEF Inv, TypeOK
<1>1. TypeOK'
  BY DEF Answered, Return, CallRecord, Type, Status, Attempts, Thread, Tracker,
         trackerVars, connVars, consoleVars, historyVars
<1>2. Locked'
  BY DEF Answered, Return, Locked, Inside, Connected, CallRecord, Thread, trackerVars,
         connVars, consoleVars, historyVars
<1>3. Connected'
  BY DEF Answered, Return, Locked, Inside, Connected, CallRecord, Thread, Tracker,
         Attempts, trackerVars, connVars, consoleVars, historyVars
<1>4. Reaching'
  BY DEF Answered, Return, Locked, Inside, Connected, Reaching, CallRecord, Thread,
         Attempts, trackerVars, connVars, consoleVars, historyVars
<1>5. InStep'
  BY DEF Answered, Return, Locked, Inside, InStep, CallRecord, Thread, trackerVars,
         connVars, consoleVars, historyVars
<1>6. Acting'
  BY DEF Answered, Return, Locked, Inside, Connected, InStep, Acting, Unnoted,
         CallRecord, Thread, Attempts, trackerVars, connVars, consoleVars, historyVars
<1>7. Current'
  BY DEF Answered, Return, Locked, Inside, Connected, InStep, Acting, Current, Right,
         Unnoted, CallRecord, Thread, Attempts, trackerVars, connVars, consoleVars,
         historyVars
<1>. QED
  BY <1>1, <1>2, <1>3, <1>4, <1>5, <1>6, <1>7

LEMMA CommandInv == ASSUME Inv, Command PROVE Inv'
<1>. USE NoneAssumption, BoundAssumption DEF Inv, TypeOK
<1>0. PICK c \in CallRecord : Starts(c)
  <2>1. CASE \E u \in User : Typed("CREATE_USER", u, TRUE)
    BY <2>1, TypedStarts DEF Type
  <2>2. CASE \E u \in User, right \in BOOLEAN : Typed("LOGIN", u, right)
    BY <2>2, TypedStarts DEF Type
  <2>3. CASE \E type \in {"LOGOUT", "STOP_SHARE", "OTHER", "UPLOAD_FILE", "GET_FILE_META"} :
               Typed(type, None, TRUE)
    <3>1. PICK type \in {"LOGOUT", "STOP_SHARE", "OTHER", "UPLOAD_FILE", "GET_FILE_META"} :
             Typed(type, None, TRUE)
      BY <2>3
    <3>2. type \in Type /\ type \notin {"HAVE_PIECES", "LOGIN", "CREATE_USER"}
      BY DEF Type
    <3>. QED
      BY <3>1, <3>2, TypedStarts, Zenon
  <2>. QED
    BY <2>1, <2>2, <2>3 DEF Command
<1>1. TypeOK'
  BY <1>0
     DEF Command, Starts, CallRecord, Type, Status, Attempts, Thread, Tracker,
         trackerVars, connVars, consoleVars, historyVars
<1>2. Locked'
  BY <1>0
     DEF Command, Starts, Locked, Inside, Connected, CallRecord, Thread, trackerVars,
         connVars, consoleVars, historyVars
<1>3. Connected'
  BY <1>0
     DEF Command, Starts, Locked, Inside, Connected, CallRecord, Thread, Tracker,
         Attempts, trackerVars, connVars, consoleVars, historyVars
<1>4. Reaching'
  BY <1>0
     DEF Command, Starts, Locked, Inside, Connected, Reaching, CallRecord, Thread,
         Attempts, trackerVars, connVars, consoleVars, historyVars
<1>5. InStep'
  BY <1>0
     DEF Command, Starts, Locked, Inside, InStep, CallRecord, Thread, trackerVars,
         connVars, consoleVars, historyVars
<1>6. Acting'
  BY <1>0
     DEF Command, Starts, Locked, Inside, Connected, InStep, Acting, Unnoted,
         CallRecord, Thread, Attempts, trackerVars, connVars, consoleVars, historyVars
<1>7. Current'
  BY <1>0
     DEF Command, Starts, Locked, Inside, Connected, InStep, Acting, Current, Right,
         Unnoted, CallRecord, Thread, Attempts, trackerVars, connVars, consoleVars,
         historyVars
<1>. QED
  BY <1>1, <1>2, <1>3, <1>4, <1>5, <1>6, <1>7

LEMMA LoginDoneInv == ASSUME Inv, LoginDone PROVE Inv'
<1>. USE NoneAssumption, BoundAssumption DEF Inv, TypeOK
<1>1. TypeOK'
  <2>1. call["console"].user \in User
    BY DEF LoginDone, Returned, Locked
  <2>2. logged_in_as' \in User \cup {None}
    BY <2>1 DEF LoginDone
  <2>3. call' \in [Thread -> CallRecord]
    BY IdleFresh DEF LoginDone, NextPrompt, CallRecord, Thread
  <2>. QED
    BY <2>2, <2>3 DEF LoginDone, trackerVars, connVars, historyVars
<1>2. Locked'
  BY DEF LoginDone, Idle, Returned, Succeeded, NextPrompt, Locked, Inside, Connected,
         CallRecord, Thread, trackerVars, connVars, consoleVars, historyVars
<1>3. Connected'
  BY DEF LoginDone, Idle, Returned, Succeeded, NextPrompt, Locked, Inside, Connected,
         CallRecord, Thread, Tracker, Attempts, trackerVars, connVars, consoleVars,
         historyVars
<1>4. Reaching'
  BY DEF LoginDone, Idle, Returned, Succeeded, NextPrompt, Locked, Inside, Connected,
         Reaching, CallRecord, Thread, Attempts, trackerVars, connVars, consoleVars,
         historyVars
<1>5. InStep'
  BY DEF LoginDone, Idle, Returned, Succeeded, NextPrompt, Locked, Inside, InStep,
         CallRecord, Thread, trackerVars, connVars, consoleVars, historyVars
<1>6. Acting'
  BY DEF LoginDone, Idle, Returned, Succeeded, NextPrompt, Locked, Inside, Connected,
         InStep, Acting, Unnoted, CallRecord, Thread, Attempts, trackerVars, connVars,
         consoleVars, historyVars
<1>7. Current'
  BY DEF LoginDone, Idle, Returned, Succeeded, NextPrompt, Locked, Inside, Connected,
         InStep, Acting, Current, Right, Unnoted, CallRecord, Thread, Attempts,
         trackerVars, connVars, consoleVars, historyVars
<1>. QED
  BY <1>1, <1>2, <1>3, <1>4, <1>5, <1>6, <1>7

LEMMA LogoutDoneInv == ASSUME Inv, LogoutDone PROVE Inv'
<1>. USE NoneAssumption, BoundAssumption DEF Inv, TypeOK
<1>1. TypeOK'
  BY DEF LogoutDone, Idle, Returned, Succeeded, NextPrompt, CallRecord, Type, Status,
         Attempts, Thread, Tracker, trackerVars, connVars, consoleVars, historyVars
<1>2. Locked'
  BY DEF LogoutDone, Idle, Returned, Succeeded, NextPrompt, Locked, Inside, Connected,
         CallRecord, Thread, trackerVars, connVars, consoleVars, historyVars
<1>3. Connected'
  BY DEF LogoutDone, Idle, Returned, Succeeded, NextPrompt, Locked, Inside, Connected,
         CallRecord, Thread, Tracker, Attempts, trackerVars, connVars, consoleVars,
         historyVars
<1>4. Reaching'
  BY DEF LogoutDone, Idle, Returned, Succeeded, NextPrompt, Locked, Inside, Connected,
         Reaching, CallRecord, Thread, Attempts, trackerVars, connVars, consoleVars,
         historyVars
<1>5. InStep'
  BY DEF LogoutDone, Idle, Returned, Succeeded, NextPrompt, Locked, Inside, InStep,
         CallRecord, Thread, trackerVars, connVars, consoleVars, historyVars
<1>6. Acting'
  BY DEF LogoutDone, Idle, Returned, Succeeded, NextPrompt, Locked, Inside, Connected,
         InStep, Acting, Unnoted, CallRecord, Thread, Attempts, trackerVars, connVars,
         consoleVars, historyVars
<1>7. Current'
  BY DEF LogoutDone, Idle, Returned, Succeeded, NextPrompt, Locked, Inside, Connected,
         InStep, Acting, Current, Right, Unnoted, CallRecord, Thread, Attempts,
         trackerVars, connVars, consoleVars, historyVars
<1>. QED
  BY <1>1, <1>2, <1>3, <1>4, <1>5, <1>6, <1>7

LEMMA UploadDoneInv == ASSUME Inv, UploadDone PROVE Inv'
<1>. USE NoneAssumption, BoundAssumption DEF Inv, TypeOK
<1>1. TypeOK'
  <2>1. shares' \in BOOLEAN
    BY DEF UploadDone
  <2>2. call' \in [Thread -> CallRecord]
    BY IdleFresh DEF UploadDone, NextPrompt, CallRecord, Thread
  <2>. QED
    BY <2>1, <2>2 DEF UploadDone, trackerVars, connVars, historyVars
<1>2. Locked'
  BY DEF UploadDone, Idle, Returned, Succeeded, NextPrompt, Locked, Inside, Connected,
         CallRecord, Thread, trackerVars, connVars, consoleVars, historyVars
<1>3. Connected'
  BY DEF UploadDone, Idle, Returned, Succeeded, NextPrompt, Locked, Inside, Connected,
         CallRecord, Thread, Tracker, Attempts, trackerVars, connVars, consoleVars,
         historyVars
<1>4. Reaching'
  BY DEF UploadDone, Idle, Returned, Succeeded, NextPrompt, Locked, Inside, Connected,
         Reaching, CallRecord, Thread, Attempts, trackerVars, connVars, consoleVars,
         historyVars
<1>5. InStep'
  BY DEF UploadDone, Idle, Returned, Succeeded, NextPrompt, Locked, Inside, InStep,
         CallRecord, Thread, trackerVars, connVars, consoleVars, historyVars
<1>6. Acting'
  BY DEF UploadDone, Idle, Returned, Succeeded, NextPrompt, Locked, Inside, Connected,
         InStep, Acting, Unnoted, CallRecord, Thread, Attempts, trackerVars, connVars,
         consoleVars, historyVars
<1>7. Current'
  BY DEF UploadDone, Idle, Returned, Succeeded, NextPrompt, Locked, Inside, Connected,
         InStep, Acting, Current, Right, Unnoted, CallRecord, Thread, Attempts,
         trackerVars, connVars, consoleVars, historyVars
<1>. QED
  BY <1>1, <1>2, <1>3, <1>4, <1>5, <1>6, <1>7

LEMMA MetadataDoneInv == ASSUME Inv, MetadataDone PROVE Inv'
<1>. USE NoneAssumption, BoundAssumption DEF Inv, TypeOK
<1>1. TypeOK'
  <2>1. job' \in User \cup {None}
    BY DEF MetadataDone
  <2>2. call' \in [Thread -> CallRecord]
    BY IdleFresh DEF MetadataDone, NextPrompt, CallRecord, Thread
  <2>. QED
    BY <2>1, <2>2 DEF MetadataDone, trackerVars, connVars, historyVars
<1>2. Locked'
  BY DEF MetadataDone, Idle, Returned, Succeeded, NextPrompt, Locked, Inside,
         Connected, CallRecord, Thread, trackerVars, connVars, consoleVars, historyVars
<1>3. Connected'
  BY DEF MetadataDone, Idle, Returned, Succeeded, NextPrompt, Locked, Inside,
         Connected, CallRecord, Thread, Tracker, Attempts, trackerVars, connVars,
         consoleVars, historyVars
<1>4. Reaching'
  BY DEF MetadataDone, Idle, Returned, Succeeded, NextPrompt, Locked, Inside,
         Connected, Reaching, CallRecord, Thread, Attempts, trackerVars, connVars,
         consoleVars, historyVars
<1>5. InStep'
  BY DEF MetadataDone, Idle, Returned, Succeeded, NextPrompt, Locked, Inside, InStep,
         CallRecord, Thread, trackerVars, connVars, consoleVars, historyVars
<1>6. Acting'
  BY DEF MetadataDone, Idle, Returned, Succeeded, NextPrompt, Locked, Inside,
         Connected, InStep, Acting, Unnoted, CallRecord, Thread, Attempts, trackerVars,
         connVars, consoleVars, historyVars
<1>7. Current'
  BY DEF MetadataDone, Idle, Returned, Succeeded, NextPrompt, Locked, Inside,
         Connected, InStep, Acting, Current, Right, Unnoted, CallRecord, Thread,
         Attempts, trackerVars, connVars, consoleVars, historyVars
<1>. QED
  BY <1>1, <1>2, <1>3, <1>4, <1>5, <1>6, <1>7

LEMMA StopShareDoneInv == ASSUME Inv, StopShareDone PROVE Inv'
<1>. USE NoneAssumption, BoundAssumption DEF Inv, TypeOK
<1>1. TypeOK'
  <2>1. shares' \in BOOLEAN
    BY DEF StopShareDone
  <2>2. call' \in [Thread -> CallRecord]
    BY IdleFresh DEF StopShareDone, NextPrompt, CallRecord, Thread
  <2>. QED
    BY <2>1, <2>2 DEF StopShareDone, trackerVars, connVars, historyVars
<1>2. Locked'
  BY DEF StopShareDone, Idle, Returned, Succeeded, NextPrompt, Locked, Inside,
         Connected, CallRecord, Thread, trackerVars, connVars, consoleVars, historyVars
<1>3. Connected'
  BY DEF StopShareDone, Idle, Returned, Succeeded, NextPrompt, Locked, Inside,
         Connected, CallRecord, Thread, Tracker, Attempts, trackerVars, connVars,
         consoleVars, historyVars
<1>4. Reaching'
  BY DEF StopShareDone, Idle, Returned, Succeeded, NextPrompt, Locked, Inside,
         Connected, Reaching, CallRecord, Thread, Attempts, trackerVars, connVars,
         consoleVars, historyVars
<1>5. InStep'
  BY DEF StopShareDone, Idle, Returned, Succeeded, NextPrompt, Locked, Inside, InStep,
         CallRecord, Thread, trackerVars, connVars, consoleVars, historyVars
<1>6. Acting'
  BY DEF StopShareDone, Idle, Returned, Succeeded, NextPrompt, Locked, Inside,
         Connected, InStep, Acting, Unnoted, CallRecord, Thread, Attempts, trackerVars,
         connVars, consoleVars, historyVars
<1>7. Current'
  BY DEF StopShareDone, Idle, Returned, Succeeded, NextPrompt, Locked, Inside,
         Connected, InStep, Acting, Current, Right, Unnoted, CallRecord, Thread,
         Attempts, trackerVars, connVars, consoleVars, historyVars
<1>. QED
  BY <1>1, <1>2, <1>3, <1>4, <1>5, <1>6, <1>7

LEMMA PrintedInv == ASSUME Inv, Printed PROVE Inv'
<1>. USE NoneAssumption, BoundAssumption DEF Inv, TypeOK
<1>1. TypeOK'
  BY DEF Printed, Idle, Returned, Succeeded, NextPrompt, CallRecord, Type, Status,
         Attempts, Thread, Tracker, trackerVars, connVars, consoleVars, historyVars
<1>2. Locked'
  BY DEF Printed, Idle, Returned, Succeeded, NextPrompt, Locked, Inside, Connected,
         CallRecord, Thread, trackerVars, connVars, consoleVars, historyVars
<1>3. Connected'
  BY DEF Printed, Idle, Returned, Succeeded, NextPrompt, Locked, Inside, Connected,
         CallRecord, Thread, Tracker, Attempts, trackerVars, connVars, consoleVars,
         historyVars
<1>4. Reaching'
  BY DEF Printed, Idle, Returned, Succeeded, NextPrompt, Locked, Inside, Connected,
         Reaching, CallRecord, Thread, Attempts, trackerVars, connVars, consoleVars,
         historyVars
<1>5. InStep'
  BY DEF Printed, Idle, Returned, Succeeded, NextPrompt, Locked, Inside, InStep,
         CallRecord, Thread, trackerVars, connVars, consoleVars, historyVars
<1>6. Acting'
  BY DEF Printed, Idle, Returned, Succeeded, NextPrompt, Locked, Inside, Connected,
         InStep, Acting, Unnoted, CallRecord, Thread, Attempts, trackerVars, connVars,
         consoleVars, historyVars
<1>7. Current'
  BY DEF Printed, Idle, Returned, Succeeded, NextPrompt, Locked, Inside, Connected,
         InStep, Acting, Current, Right, Unnoted, CallRecord, Thread, Attempts,
         trackerVars, connVars, consoleVars, historyVars
<1>. QED
  BY <1>1, <1>2, <1>3, <1>4, <1>5, <1>6, <1>7

LEMMA NoteLoginInv == ASSUME Inv, NoteLogin PROVE Inv'
<1>. USE NoneAssumption, BoundAssumption DEF Inv, TypeOK
<1>1. TypeOK'
  BY DEF NoteLogin, Idle, CallRecord, Type, Status, Attempts, Thread, Tracker,
         trackerVars, connVars, consoleVars, historyVars
<1>2. Locked'
  BY DEF NoteLogin, Idle, Locked, Inside, Connected, CallRecord, Thread, trackerVars,
         connVars, consoleVars, historyVars
<1>3. Connected'
  BY DEF NoteLogin, Idle, Locked, Inside, Connected, CallRecord, Thread, Tracker,
         Attempts, trackerVars, connVars, consoleVars, historyVars
<1>4. Reaching'
  BY DEF NoteLogin, Idle, Locked, Inside, Connected, Reaching, CallRecord, Thread,
         Attempts, trackerVars, connVars, consoleVars, historyVars
<1>5. InStep'
  BY DEF NoteLogin, Idle, Locked, Inside, InStep, CallRecord, Thread, trackerVars,
         connVars, consoleVars, historyVars
<1>6. Acting'
  BY DEF NoteLogin, Idle, Locked, Inside, Connected, InStep, Acting, Unnoted,
         CallRecord, Thread, Attempts, trackerVars, connVars, consoleVars, historyVars
<1>7. Current'
  BY DEF NoteLogin, Idle, Locked, Inside, Connected, InStep, Acting, Current, Right,
         Unnoted, CallRecord, Thread, Attempts, trackerVars, connVars, consoleVars,
         historyVars
<1>. QED
  BY <1>1, <1>2, <1>3, <1>4, <1>5, <1>6, <1>7

LEMMA ClearLoginInv == ASSUME Inv, ClearLogin PROVE Inv'
<1>. USE NoneAssumption, BoundAssumption DEF Inv, TypeOK
<1>1. TypeOK'
  BY DEF ClearLogin, Idle, CallRecord, Type, Status, Attempts, Thread, Tracker,
         trackerVars, connVars, consoleVars, historyVars
<1>2. Locked'
  BY DEF ClearLogin, Idle, Locked, Inside, Connected, CallRecord, Thread, trackerVars,
         connVars, consoleVars, historyVars
<1>3. Connected'
  BY DEF ClearLogin, Idle, Locked, Inside, Connected, CallRecord, Thread, Tracker,
         Attempts, trackerVars, connVars, consoleVars, historyVars
<1>4. Reaching'
  BY DEF ClearLogin, Idle, Locked, Inside, Connected, Reaching, CallRecord, Thread,
         Attempts, trackerVars, connVars, consoleVars, historyVars
<1>5. InStep'
  BY DEF ClearLogin, Idle, Locked, Inside, InStep, CallRecord, Thread, trackerVars,
         connVars, consoleVars, historyVars
<1>6. Acting'
  BY DEF ClearLogin, Idle, Locked, Inside, Connected, InStep, Acting, Unnoted,
         CallRecord, Thread, Attempts, trackerVars, connVars, consoleVars, historyVars
<1>7. Current'
  BY DEF ClearLogin, Idle, Locked, Inside, Connected, InStep, Acting, Current, Right,
         Unnoted, CallRecord, Thread, Attempts, trackerVars, connVars, consoleVars,
         historyVars
<1>. QED
  BY <1>1, <1>2, <1>3, <1>4, <1>5, <1>6, <1>7

LEMMA AnnounceInv == ASSUME Inv, Announce PROVE Inv'
<1>. USE NoneAssumption, BoundAssumption DEF Inv, TypeOK
<1>1. TypeOK'
  <2>1. call' \in [Thread -> CallRecord]
    <3>1. [Idle EXCEPT !.pc = "lock", !.type = "HAVE_PIECES"] \in CallRecord
      BY IdleFresh DEF CallRecord, Type
    <3>. QED
      BY <3>1 DEF Announce, Thread
  <2>2. announces' \in 0..MaxAnnounces
    BY DEF Announce
  <2>. QED
    BY <2>1, <2>2 DEF Announce, trackerVars, connVars, historyVars
<1>2. Locked'
  BY DEF Announce, Idle, Locked, Inside, Connected, CallRecord, Thread, trackerVars,
         connVars, consoleVars, historyVars
<1>3. Connected'
  BY DEF Announce, Idle, Locked, Inside, Connected, CallRecord, Thread, Tracker,
         Attempts, trackerVars, connVars, consoleVars, historyVars
<1>4. Reaching'
  BY DEF Announce, Idle, Locked, Inside, Connected, Reaching, CallRecord, Thread,
         Attempts, trackerVars, connVars, consoleVars, historyVars
<1>5. InStep'
  BY DEF Announce, Idle, Locked, Inside, InStep, CallRecord, Thread, trackerVars,
         connVars, consoleVars, historyVars
<1>6. Acting'
  BY DEF Announce, Idle, Locked, Inside, Connected, InStep, Acting, Unnoted,
         CallRecord, Thread, Attempts, trackerVars, connVars, consoleVars, historyVars
<1>7. Current'
  BY DEF Announce, Idle, Locked, Inside, Connected, InStep, Acting, Current, Right,
         Unnoted, CallRecord, Thread, Attempts, trackerVars, connVars, consoleVars,
         historyVars
<1>. QED
  BY <1>1, <1>2, <1>3, <1>4, <1>5, <1>6, <1>7

LEMMA AnnouncedInv == ASSUME Inv, Announced PROVE Inv'
<1>. USE NoneAssumption, BoundAssumption DEF Inv, TypeOK
<1>1. TypeOK'
  BY DEF Announced, Idle, CallRecord, Type, Status, Attempts, Thread, Tracker,
         trackerVars, connVars, consoleVars, historyVars
<1>2. Locked'
  BY DEF Announced, Idle, Locked, Inside, Connected, CallRecord, Thread, trackerVars,
         connVars, consoleVars, historyVars
<1>3. Connected'
  BY DEF Announced, Idle, Locked, Inside, Connected, CallRecord, Thread, Tracker,
         Attempts, trackerVars, connVars, consoleVars, historyVars
<1>4. Reaching'
  BY DEF Announced, Idle, Locked, Inside, Connected, Reaching, CallRecord, Thread,
         Attempts, trackerVars, connVars, consoleVars, historyVars
<1>5. InStep'
  BY DEF Announced, Idle, Locked, Inside, InStep, CallRecord, Thread, trackerVars,
         connVars, consoleVars, historyVars
<1>6. Acting'
  BY DEF Announced, Idle, Locked, Inside, Connected, InStep, Acting, Unnoted,
         CallRecord, Thread, Attempts, trackerVars, connVars, consoleVars, historyVars
<1>7. Current'
  BY DEF Announced, Idle, Locked, Inside, Connected, InStep, Acting, Current, Right,
         Unnoted, CallRecord, Thread, Attempts, trackerVars, connVars, consoleVars,
         historyVars
<1>. QED
  BY <1>1, <1>2, <1>3, <1>4, <1>5, <1>6, <1>7

LEMMA JobEndsInv == ASSUME Inv, JobEnds PROVE Inv'
<1>. USE NoneAssumption, BoundAssumption DEF Inv, TypeOK
<1>1. TypeOK'
  <2>1. shares' \in BOOLEAN
    BY DEF JobEnds
  <2>. QED
    BY <2>1 DEF JobEnds, trackerVars, connVars, historyVars
<1>2. Locked'
  BY DEF JobEnds, Locked, Inside, Connected, CallRecord, Thread, trackerVars, connVars,
         consoleVars, historyVars
<1>3. Connected'
  BY DEF JobEnds, Locked, Inside, Connected, CallRecord, Thread, Tracker, Attempts,
         trackerVars, connVars, consoleVars, historyVars
<1>4. Reaching'
  BY DEF JobEnds, Locked, Inside, Connected, Reaching, CallRecord, Thread, Attempts,
         trackerVars, connVars, consoleVars, historyVars
<1>5. InStep'
  BY DEF JobEnds, Locked, Inside, InStep, CallRecord, Thread, trackerVars, connVars,
         consoleVars, historyVars
<1>6. Acting'
  BY DEF JobEnds, Locked, Inside, Connected, InStep, Acting, Unnoted, CallRecord,
         Thread, Attempts, trackerVars, connVars, consoleVars, historyVars
<1>7. Current'
  BY DEF JobEnds, Locked, Inside, Connected, InStep, Acting, Current, Right, Unnoted,
         CallRecord, Thread, Attempts, trackerVars, connVars, consoleVars, historyVars
<1>. QED
  BY <1>1, <1>2, <1>3, <1>4, <1>5, <1>6, <1>7

LEMMA DownInv == ASSUME Inv, NEW t \in Tracker, Down(t) PROVE Inv'
<1>. USE NoneAssumption, BoundAssumption DEF Inv, TypeOK
<1>1. TypeOK'
  <2>1. up' \in [Tracker -> BOOLEAN] /\ faults' \in 0..MaxFaults
    BY DEF Down
  <2>2. broken' \in BOOLEAN /\ calm' \in BOOLEAN
    BY DEF Down
  <2>. QED
    BY <2>1, <2>2 DEF Down, consoleVars, historyVars
<1>2. Locked'
  BY DEF Down, Locked, Inside, Connected, CallRecord, Thread, trackerVars, connVars,
         consoleVars, historyVars
<1>3. Connected'
  BY DEF Down, Locked, Inside, Connected, CallRecord, Thread, Tracker, Attempts,
         trackerVars, connVars, consoleVars, historyVars
<1>4. Reaching'
  BY DEF Down, Locked, Inside, Connected, Reaching, CallRecord, Thread, Attempts,
         trackerVars, connVars, consoleVars, historyVars
<1>5. InStep'
  BY DEF Down, Locked, Inside, InStep, CallRecord, Thread, trackerVars, connVars,
         consoleVars, historyVars
<1>6. Acting'
  BY DEF Down, Locked, Inside, Connected, InStep, Acting, Unnoted, CallRecord, Thread,
         Attempts, trackerVars, connVars, consoleVars, historyVars
<1>7. Current'
  BY DEF Down, Locked, Inside, Connected, InStep, Acting, Current, Right, Unnoted,
         CallRecord, Thread, Attempts, trackerVars, connVars, consoleVars, historyVars
<1>. QED
  BY <1>1, <1>2, <1>3, <1>4, <1>5, <1>6, <1>7

LEMMA RestartInv == ASSUME Inv, NEW t \in Tracker, Restart(t) PROVE Inv'
<1>. USE NoneAssumption, BoundAssumption DEF Inv, TypeOK
<1>1. TypeOK'
  BY DEF Restart, CallRecord, Type, Status, Attempts, Thread, Tracker, trackerVars,
         connVars, consoleVars, historyVars
<1>2. Locked'
  BY DEF Restart, Locked, Inside, Connected, CallRecord, Thread, trackerVars, connVars,
         consoleVars, historyVars
<1>3. Connected'
  BY DEF Restart, Locked, Inside, Connected, CallRecord, Thread, Tracker, Attempts,
         trackerVars, connVars, consoleVars, historyVars
<1>4. Reaching'
  BY DEF Restart, Locked, Inside, Connected, Reaching, CallRecord, Thread, Attempts,
         trackerVars, connVars, consoleVars, historyVars
<1>5. InStep'
  BY DEF Restart, Locked, Inside, InStep, CallRecord, Thread, trackerVars, connVars,
         consoleVars, historyVars
<1>6. Acting'
  BY DEF Restart, Locked, Inside, Connected, InStep, Acting, Unnoted, CallRecord,
         Thread, Attempts, trackerVars, connVars, consoleVars, historyVars
<1>7. Current'
  BY DEF Restart, Locked, Inside, Connected, InStep, Acting, Current, Right, Unnoted,
         CallRecord, Thread, Attempts, trackerVars, connVars, consoleVars, historyVars
<1>. QED
  BY <1>1, <1>2, <1>3, <1>4, <1>5, <1>6, <1>7

LEMMA ReplicateInv == ASSUME Inv, NEW t \in Tracker, Replicate(t) PROVE Inv'
<1>. USE NoneAssumption, BoundAssumption DEF Inv, TypeOK
<1>1. TypeOK'
  BY DEF Replicate, CallRecord, Type, Status, Attempts, Thread, Tracker, trackerVars,
         connVars, consoleVars, historyVars
<1>2. Locked'
  BY DEF Replicate, Locked, Inside, Connected, CallRecord, Thread, trackerVars,
         connVars, consoleVars, historyVars
<1>3. Connected'
  BY DEF Replicate, Locked, Inside, Connected, CallRecord, Thread, Tracker, Attempts,
         trackerVars, connVars, consoleVars, historyVars
<1>4. Reaching'
  BY DEF Replicate, Locked, Inside, Connected, Reaching, CallRecord, Thread, Attempts,
         trackerVars, connVars, consoleVars, historyVars
<1>5. InStep'
  BY DEF Replicate, Locked, Inside, InStep, CallRecord, Thread, trackerVars, connVars,
         consoleVars, historyVars
<1>6. Acting'
  BY DEF Replicate, Locked, Inside, Connected, InStep, Acting, Unnoted, CallRecord,
         Thread, Attempts, trackerVars, connVars, consoleVars, historyVars
<1>7. Current'
  BY DEF Replicate, Locked, Inside, Connected, InStep, Acting, Current, Right, Unnoted,
         CallRecord, Thread, Attempts, trackerVars, connVars, consoleVars, historyVars
<1>. QED
  BY <1>1, <1>2, <1>3, <1>4, <1>5, <1>6, <1>7

----------------------------------------------------------------------------
(* The invariant, and what follows *)

\* A client that has just connected.
LEMMA InitInv == Init => Inv
<1>. SUFFICES ASSUME Init PROVE Inv
  OBVIOUS
<1>. USE NoneAssumption, RegisteredAssumption, BoundAssumption DEF Init
<1>2. TypeOK
  <2>1. call \in [Thread -> CallRecord]
    BY IdleFresh
  <2>2. up \in [Tracker -> BOOLEAN] /\ accounts \in [Tracker -> SUBSET User]
    OBVIOUS
  <2>3. fd \in Tracker \cup {None} /\ current \in Tracker
    BY DEF Tracker
  <2>4. announces \in 0..MaxAnnounces /\ faults \in 0..MaxFaults
    OBVIOUS
  <2>5. broken \in BOOLEAN /\ calm \in BOOLEAN /\ shares \in BOOLEAN
    OBVIOUS
  <2>. QED
    BY <2>1, <2>2, <2>3, <2>4, <2>5 DEF TypeOK
<1>3. call["console"] = Idle /\ call["job"] = Idle
  BY DEF Thread
<1>4. Locked
  BY IdleFresh, <1>3 DEF Locked, Inside, Thread
<1>5. Connected /\ Reaching
  BY IdleFresh, <1>3 DEF Connected, Reaching, Thread
<1>6. InStep /\ Acting /\ Current
  BY IdleFresh, <1>3 DEF InStep, Acting, Current, Right, Unnoted, Inside, Thread
<1>. QED
  BY <1>2, <1>4, <1>5, <1>6 DEF Inv

\* Every step of a thread or a tracker keeps the invariant.
LEMMA NextInv == Inv /\ [Next]_vars => Inv'
<1>. SUFFICES ASSUME Inv, [Next]_vars PROVE Inv'
  OBVIOUS
<1>1. CASE Command
  BY <1>1, CommandInv
<1>2. CASE Console
  BY <1>2, LoginDoneInv, LogoutDoneInv, UploadDoneInv, MetadataDoneInv, StopShareDoneInv,
     PrintedInv, NoteLoginInv, ClearLoginInv DEF Console
<1>3. CASE Announce \/ Announced \/ JobEnds
  BY <1>3, AnnounceInv, AnnouncedInv, JobEndsInv
<1>4. ASSUME NEW th \in Thread, Request(th) PROVE Inv'
  BY <1>4, AcquireInv, ReconnectInv, ReuseInv, GiveUpInv, DropInv, LogInAgainInv, ExecuteInv,
     AnsweredInv DEF Request
<1>6. ASSUME NEW t \in Tracker, Down(t) \/ Restart(t) \/ Replicate(t) PROVE Inv'
  BY <1>6, DownInv, RestartInv, ReplicateInv
<1>7. CASE UNCHANGED vars
  <2>. USE <1>7 DEF vars, trackerVars, connVars, consoleVars, historyVars, Inv
  <2>1. TypeOK' /\ Locked' /\ Connected'
    BY DEF TypeOK, Locked, Connected
  <2>2. Reaching' /\ InStep'
    BY DEF Reaching, InStep
  <2>3. Acting' /\ Current'
    BY DEF Acting, Current, Right, Unnoted
  <2>. QED
    BY <2>1, <2>2, <2>3
<1>. QED
  BY <1>1, <1>2, <1>3, <1>4, <1>6, <1>7 DEF Next

\* The inductive invariant holds throughout.
THEOREM Invariance == Spec => []Inv
  BY InitInv, NextInv, PTL DEF Spec

\* The state of a client and of its connection has its type.
THEOREM ClientTypes == Spec => []TypeOK
<1>1. Inv => TypeOK
  BY DEF Inv
<1>. QED
  BY <1>1, Invariance, PTL

\* tracker_client.hpp:33-34: the connection acts for nobody but the user at the
\* console, whatever users there are, however often trackers crash and the job
\* announces; except one that the job made between the answer to a login or logout
\* and the console's note of it.
THEOREM ActingForItsUser == Spec => []ActsForItsUser
<1>1. Inv => ActsForItsUser
  BY DEF Inv, Acting, ActsForItsUser, Quiet
<1>. QED
  BY <1>1, Invariance, PTL

\* tracker_client.hpp:25-28: the connection has the login that is on file, also
\* after a fail-over; except that one, and one without a login, made for a typed
\* login or left so by the refusal of the replayed one.
THEOREM NotedLoggedIn == Spec => []NotedIsLoggedIn
<1>1. Inv => NotedIsLoggedIn
  BY DEF Inv, Current, Right, Unnoted, NotedIsLoggedIn, Quiet
<1>. QED
  BY <1>1, Invariance, PTL

\* tracker_client.hpp:23-24: two attempts find a tracker that stays there.
THEOREM ReachableReached == Spec => []ReachableIsReached
<1>1. Inv => ReachableIsReached
  BY DEF Inv, Reaching, ReachableIsReached
<1>. QED
  BY <1>1, Invariance, PTL

=============================================================================
