------------------------------ MODULE SyncFlow ------------------------------
(***************************************************************************)
(* The link between the trackers as a pair of bounded buffers: who waits   *)
(* for whom in SyncManager (tracker/sync.cpp) when sockets are full.       *)
(*                                                                         *)
(* At each tracker, client sessions push their operation under __send_mu   *)
(* before they reply to the client, and one thread reads the link: it      *)
(* acknowledges an operation under __send_mu, trims the log for an ACK,    *)
(* and answers a catch-up request with the whole log in one go, again      *)
(* under __send_mu.  A thread that writes to a full socket waits, with the *)
(* lock.  The sockets have no timeout.                                     *)
(*                                                                         *)
(* A socket holds Capacity messages.  The link is up and stays up; what    *)
(* operations do, and their numbers, are left to Replication.              *)
(***************************************************************************)
EXTENDS Naturals, Sequences

CONSTANTS
    Worker,         \* client sessions of each tracker
    Active,         \* the trackers clients use
    Capacity,       \* messages a socket holds
    Backlog,        \* bound on those logged at the acceptor when the link forms
    MaxOps,         \* bound on the operations of clients
    None

Dialer == 0
Acceptor == 1
Tracker == {Dialer, Acceptor}
Other(t) == 1 - t
Reader == "reader"

VARIABLES
    chan,       \* per tracker, what it wrote and its peer has not read
    send_mu,    \* per tracker, the thread that has __send_mu
    worker,     \* per tracker and session, where its thread is
    outbox,     \* per tracker, what its reading thread has to write
    log,        \* per tracker, the operations not acknowledged
    ops         \* operations of clients so far

vars == <<chan, send_mu, worker, outbox, log, ops>>

Init ==
    /\ chan = [t \in Tracker |-> IF t = Dialer THEN <<"CATCHUP">> ELSE <<>>]
    /\ send_mu = [t \in Tracker |-> None]
    /\ worker = [t \in Tracker |-> [w \in Worker |-> "idle"]]
    /\ outbox = [t \in Tracker |-> <<>>]
    /\ \E n \in 0..Backlog : log = [t \in Tracker |-> IF t = Acceptor THEN n ELSE 0]
    /\ ops = 0

HasRoom(t) == Len(chan[t]) < Capacity

Incoming(t, type) ==
    /\ outbox[t] = <<>>
    /\ chan[Other(t)] # <<>> /\ Head(chan[Other(t)]) = type

Consumed(t) == [chan EXCEPT ![Other(t)] = Tail(@)]

----------------------------------------------------------------------------
(* Client sessions: record_and_replicate, then the reply *)

Record(t, w) ==
    /\ t \in Active /\ ops < MaxOps
    /\ worker[t][w] = "idle"
    /\ worker' = [worker EXCEPT ![t][w] = "lock"]
    /\ log' = [log EXCEPT ![t] = @ + 1]
    /\ ops' = ops + 1
    /\ UNCHANGED <<chan, send_mu, outbox>>

Lock(t, w) ==
    /\ worker[t][w] = "lock" /\ send_mu[t] = None
    /\ send_mu' = [send_mu EXCEPT ![t] = w]
    /\ worker' = [worker EXCEPT ![t][w] = "write"]
    /\ UNCHANGED <<chan, outbox, log, ops>>

Write(t, w) ==
    /\ worker[t][w] = "write" /\ HasRoom(t)
    /\ chan' = [chan EXCEPT ![t] = Append(@, "OP")]
    /\ send_mu' = [send_mu EXCEPT ![t] = None]
    /\ worker' = [worker EXCEPT ![t][w] = "idle"]
    /\ UNCHANGED <<outbox, log, ops>>

----------------------------------------------------------------------------
(* The thread that reads the link *)

ReadOp(t) ==
    /\ Incoming(t, "OP")
    /\ chan' = Consumed(t)
    /\ outbox' = [outbox EXCEPT ![t] = <<"ACK">>]
    /\ UNCHANGED <<send_mu, worker, log, ops>>

\* Slip: the log is trimmed under __send_mu.
TrimUnderSendMu(t) ==
    /\ Incoming(t, "ACK")
    /\ send_mu[t] = None
    /\ chan' = Consumed(t)
    /\ log' = [log EXCEPT ![t] = IF @ = 0 THEN 0 ELSE @ - 1]
    /\ UNCHANGED <<send_mu, worker, outbox, ops>>

\* An operation sent twice, by a session and in a catch-up, is acknowledged
\* twice.
ReadAck(t) ==
    /\ Incoming(t, "ACK")
    /\ chan' = Consumed(t)
    /\ log' = [log EXCEPT ![t] = IF @ = 0 THEN 0 ELSE @ - 1]
    /\ UNCHANGED <<send_mu, worker, outbox, ops>>

ReadCatchup(t) ==
    /\ Incoming(t, "CATCHUP")
    /\ chan' = Consumed(t)
    /\ outbox' = [outbox EXCEPT ![t] = [i \in 1..log[t] |-> "OP"]]
    /\ UNCHANGED <<send_mu, worker, log, ops>>

LockToAnswer(t) ==
    /\ outbox[t] # <<>> /\ send_mu[t] = None
    /\ send_mu' = [send_mu EXCEPT ![t] = Reader]
    /\ UNCHANGED <<chan, worker, outbox, log, ops>>

Answer(t) ==
    /\ send_mu[t] = Reader /\ HasRoom(t)
    /\ chan' = [chan EXCEPT ![t] = Append(@, Head(outbox[t]))]
    /\ outbox' = [outbox EXCEPT ![t] = Tail(@)]
    /\ send_mu' = [send_mu EXCEPT ![t] = IF Len(outbox[t]) = 1 THEN None ELSE @]
    /\ UNCHANGED <<worker, log, ops>>

----------------------------------------------------------------------------

Session(t, w) == Lock(t, w) \/ Write(t, w)

PeerThread(t) ==
    ReadOp(t) \/ ReadAck(t) \/ ReadCatchup(t) \/ LockToAnswer(t) \/ Answer(t)

Next ==
    \E t \in Tracker :
        PeerThread(t) \/ \E w \in Worker : Record(t, w) \/ Session(t, w)

Spec == Init /\ [][Next]_vars

\* Threads go on.  A mutex may be unfair, but clients ask only so often.
Fairness ==
    \A t \in Tracker :
        WF_vars(PeerThread(t)) /\ \A w \in Worker : WF_vars(Session(t, w))

FairSpec == Spec /\ Fairness

----------------------------------------------------------------------------
(* Properties *)

\* Nothing is left to do: everything sent was read and acknowledged.
Drained ==
    \A t \in Tracker :
        /\ chan[t] = <<>> /\ outbox[t] = <<>>
        /\ \A w \in Worker : worker[t][w] = "idle"

\* At both ends the thread that reads has to write first, and has no room to.
MutualStandstill == \A t \in Tracker : outbox[t] # <<>> /\ ~HasRoom(t)

\* Sessions that hold __send_mu, or wait for it, never bring the link to a halt, full
\* as it may be: an ACK is taken under __mu_lock alone, so a reading thread waits only
\* for what it has to write itself (process_peer_message).  Every client gets its reply
\* and the link is idle in the end, unless the two readers wait for each other.
StandstillIsMutual == <>[]Drained \/ <>[]MutualStandstill

\* README.md:393: sync is fully asynchronous, so every client gets its reply.
LinkDrains == <>[]Drained

=============================================================================
