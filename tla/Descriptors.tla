---------------------------- MODULE Descriptors ----------------------------
(***************************************************************************)
(* The descriptor numbers of tracker 1: the accept loop and its threads    *)
(* (tracker/main.cpp), client sessions (tracker/session.cpp) and the links *)
(* of SyncManager (tracker/sync.cpp).                                      *)
(*                                                                         *)
(* The system gives a new connection the lowest free number, and a number  *)
(* is free once anyone closed it.  A link that comes while another is up   *)
(* closes the other's number; the thread of the other closes its number    *)
(* too, when it notices.  A client session pushes its operation to the     *)
(* number __out_fd had a while ago.  What flows over the connections is    *)
(* the subject of Replication, which has no numbers.                       *)
(***************************************************************************)
EXTENDS Naturals, FiniteSets

CONSTANTS
    Client,         \* connections of clients
    Link,           \* connections of the other tracker
    Pusher,         \* client sessions that push operations
    None            \* no connection, no number

Connection == Client \cup Link

\* Every connection can have a number at once.
Number == 1..Cardinality(Connection)

ASSUME KindAssumption ==
    Client \cap Link = {} /\ None \notin Connection /\ None \notin Number

VARIABLES
    table,      \* per number, the connection it stands for
    thread,     \* per connection, where its thread is and the number it uses
    dropped,    \* connections the other end closed
    out_fd,     \* __out_fd
    noted,      \* per worker, the number it is about to write to
    cut,        \* history: clients whose connection another thread closed
    misled,     \* history: clients whose connection an operation was written to
    overlapped  \* history: whether a link came before the last one's thread ended

harmVars == <<cut, misled>>
fdVars == <<table, thread, dropped, out_fd, noted, harmVars, overlapped>>

FdInit ==
    /\ table = [n \in Number |-> None]
    /\ thread = [c \in Connection |-> [pc |-> "none", fd |-> None]]
    /\ dropped = {}
    /\ out_fd = None
    /\ noted = [w \in Pusher |-> None]
    /\ cut = {} /\ misled = {} /\ overlapped = FALSE

----------------------------------------------------------------------------

Running(c) == thread[c].pc \in {"start", "run"}

\* accept, and a thread that gets the number; external: which number it is.
Accept(c) ==
    /\ thread[c].pc = "none"
    /\ overlapped' = (overlapped \/ (c \in Link /\ \E l \in Link : Running(l)))
    /\ \E n \in Number :
         /\ table[n] = None /\ \A k \in Number : k < n => table[k] # None
         /\ table' = [table EXCEPT ![n] = c]
         /\ thread' = [thread EXCEPT ![c] =
                [pc |-> IF c \in Link THEN "start" ELSE "run", fd |-> n]]
    /\ UNCHANGED <<dropped, out_fd, noted, harmVars>>

\* The thread of c closes the number n, whatever it stands for by now.
Close(c, n) ==
    /\ table' = [table EXCEPT ![n] = None]
    /\ cut' = cut \cup ((Client \cap {table[n]}) \ {c})

\* The start of handle_peer_connection: the last link's number is closed.
StartLink(l) ==
    /\ l \in Link /\ thread[l].pc = "start"
    /\ IF out_fd # None THEN Close(l, out_fd) ELSE UNCHANGED <<table, cut>>
    /\ out_fd' = thread[l].fd
    /\ thread' = [thread EXCEPT ![l].pc = "run"]
    /\ UNCHANGED <<dropped, noted, misled, overlapped>>

Drop(c) ==
    /\ Running(c) /\ c \notin dropped
    /\ dropped' = dropped \cup {c}
    /\ UNCHANGED <<table, thread, out_fd, noted, harmVars, overlapped>>

\* Slip: __out_fd keeps the number.
EndLinkStale(l) ==
    /\ l \in Link /\ thread[l].pc = "run"
    /\ l \in dropped \/ table[thread[l].fd] # l
    /\ Close(l, thread[l].fd)
    /\ thread' = [thread EXCEPT ![l].pc = "end"]
    /\ UNCHANGED <<dropped, out_fd, noted, misled, overlapped>>

\* The end of handle_peer_connection: recv failed, because the link dropped or
\* the number is no longer its own.
EndLink(l) ==
    /\ l \in Link /\ thread[l].pc = "run"
    /\ l \in dropped \/ table[thread[l].fd] # l
    /\ Close(l, thread[l].fd)
    /\ out_fd' = IF out_fd = thread[l].fd THEN None ELSE out_fd
    /\ thread' = [thread EXCEPT ![l].pc = "end"]
    /\ UNCHANGED <<dropped, noted, misled, overlapped>>

\* The end of Session::run.
EndSession(c) ==
    /\ c \in Client /\ thread[c].pc = "run" /\ c \in dropped
    /\ Close(c, thread[c].fd)
    /\ thread' = [thread EXCEPT ![c].pc = "end"]
    /\ UNCHANGED <<dropped, out_fd, noted, misled, overlapped>>

\* record_and_replicate: note __out_fd under the lock ...
Note(w) ==
    /\ noted[w] = None /\ out_fd # None
    /\ noted' = [noted EXCEPT ![w] = out_fd]
    /\ UNCHANGED <<table, thread, dropped, out_fd, harmVars, overlapped>>

\* ... and write to it under another.
Push(w) ==
    /\ noted[w] # None
    /\ misled' = misled \cup (Client \cap {table[noted[w]]})
    /\ noted' = [noted EXCEPT ![w] = None]
    /\ UNCHANGED <<table, thread, dropped, out_fd, cut, overlapped>>

FdNext ==
    \/ \E c \in Connection :
         Accept(c) \/ StartLink(c) \/ Drop(c) \/ EndLink(c) \/ EndSession(c)
    \/ \E w \in Pusher : Note(w) \/ Push(w)

FdSpec == FdInit /\ [][FdNext]_fdVars

----------------------------------------------------------------------------
(* Properties *)

\* No thread closes a client's connection but the session's own, whatever numbers
\* are reused, as long as a link comes only after the last one's thread ended.
ClientsUndisturbed == ~overlapped => cut = {}

\* __out_fd stands for the link that runs, so an operation cannot go to a client
\* that got the number of a link that is gone.
OutIsLink == ~overlapped /\ out_fd # None => table[out_fd] \in Link

\* What does not hold, for the record (README): overlapping links cut a client
\* off, and a session that noted __out_fd writes to whoever has the number then.
NeverCut == cut = {}
NeverMisled == misled = {}

=============================================================================
