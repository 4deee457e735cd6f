---------------------------- MODULE Replication ----------------------------
(***************************************************************************)
(* Replication between the two trackers: class SyncManager of              *)
(* tracker/sync.{hpp,cpp}, the accept loop of tracker/main.cpp that hands   *)
(* it inbound links, and the part of Session::dispatch that records        *)
(* operations.                                                             *)
(*                                                                         *)
(* Tracker 0 dials tracker 1.  Each side logs its own operations, pushes   *)
(* them over the one link there is, and trims its log on ACKs; the dialer  *)
(* also asks the acceptor to catch it up when the link forms.  The threads *)
(* are: client sessions (worker), the dialer's connect_loop (dialer), and  *)
(* one thread per accepted link at tracker 1 (link[l].server).  Every      *)
(* message is written under __send_mu, hence whole and in one piece, in    *)
(* the order in which threads get that lock.                               *)
(*                                                                         *)
(* Links break and trackers restart.  A link carries messages in order, at *)
(* most once, and when it breaks it loses any suffix of what was in        *)
(* flight.  A link that supersedes another closes its descriptor at        *)
(* tracker 1, not its thread: that goes on with the message it has.  A     *)
(* link is never reused: what the reuse of a descriptor number can do is   *)
(* not modelled.  The back pressure of full socket buffers is not modelled *)
(* either.                                                                 *)
(***************************************************************************)
EXTENDS TrackerState, Sequences

CONSTANTS
    Worker,         \* the client sessions of each tracker
    Active,         \* the trackers clients use
    RequestType,    \* the types of the operations clients ask for
    MaxOps,         \* bound: no request once the trackers numbered this many
    MaxLinks,       \* bound on the links ever dialed
    MaxRestarts     \* bound on the restarts of both trackers together

Dialer == 0
Acceptor == 1
Tracker == {Dialer, Acceptor}
Link == 1..MaxLinks
NoLink == 0             \* __out_fd = -1

ASSUME ActiveAssumption == Active \subseteq Tracker
ASSUME BoundAssumption ==
    MaxOps \in Nat /\ MaxLinks \in Nat /\ MaxRestarts \in Nat

VARIABLES
    node,       \* per tracker, its TrackerState and the fields of SyncManager
    worker,     \* per tracker and session, where its thread is
    dialer,     \* where connect_loop is, and its fd
    link,       \* per link, what it carries and the thread serving it
    restarts,   \* per tracker, how often it restarted
    seen        \* ghost: per tracker, its operations its peer replayed or loaded

vars == <<node, worker, dialer, link, restarts, seen>>

\* An operation in the log; born is the incarnation of the tracker that
\* recorded it (ghost: it tells apart equal numbers given out after a restart).
Entry == [seq: Nat \ {0}, op: Op, born: Nat]

\* covers is a ghost too: the operations whose effect the snapshot contains.
Message == [type: {"HELLO", "SNAPSHOT_REQUEST"}]
           \cup [type: {"CATCHUP"}, after: Nat]
           \cup [type: {"OP"}, entry: Entry]
           \cup [type: {"ACK"}, seq: Nat \ {0}]
           \cup [type: {"SNAPSHOT_DATA"}, blob: Blob, covers: SUBSET (Nat \X Nat)]

Node == [state: State, next_seq: Nat \ {0}, applied_peer_seq: Nat,
         log: Seq(Entry), out_fd: Link \cup {NoLink}]

WorkerRecord == [pc: {"idle"}]
                \cup [pc: {"record"}, op: Op]
                \cup [pc: {"send"}, entry: Entry, fd: Link]

DialerRecord == [pc: {"down", "hello", "ask", "read"}, fd: Link \cup {NoLink}]

\* chan[t] is what t wrote and its peer has not read; outbox[t] is what the
\* thread reading at t's end is about to write under __send_mu.  The thread of a
\* superseded link is "superseded" while it waits in the recv_msg in which the
\* close met it, and "last" when that returned.
LinkRecord == [up: BOOLEAN,
               server: {"none", "unread", "start", "peer", "superseded", "last",
                        "client", "closed"},
               chan: [Tracker -> Seq(Message)],
               outbox: [Tracker -> Seq(Message)]]

Other(t) == 1 - t

----------------------------------------------------------------------------
(* Helpers *)

Empty == [t \in Tracker |-> <<>>]
FreshNode == [state |-> EmptyState, next_seq |-> 1, applied_peer_seq |-> 0,
              log |-> <<>>, out_fd |-> NoLink]
Idle == [pc |-> "idle"]
Undialed == [pc |-> "down", fd |-> NoLink]
UnusedLink == [up |-> FALSE, server |-> "none", chan |-> Empty, outbox |-> Empty]

OpMessage(entry) == [type |-> "OP", entry |-> entry]

\* Slips: one entry too many, or one too few, is trimmed.
AfterNext(log, seq) ==
    LET first == Smallest({i \in 1..Len(log) + 1 :
                             i > Len(log) \/ log[i].seq > seq + 1})
    IN  SubSeq(log, first, Len(log))

From(log, seq) ==
    LET first == Smallest({i \in 1..Len(log) + 1 :
                             i > Len(log) \/ log[i].seq >= seq})
    IN  SubSeq(log, first, Len(log))

\* The suffix of a log that starts at the first entry numbered above seq.
After(log, seq) ==
    LET first == Smallest({i \in 1..Len(log) + 1 :
                             i > Len(log) \/ log[i].seq > seq})
    IN  SubSeq(log, first, Len(log))

\* Whether t can still write to a link: a superseded one it cannot.
Writable(rec, t) == rec.up /\ ~(t = Acceptor /\ rec.server = "superseded")

\* The links once t has written msgs to fd; writing to a dead link is lost.
Written(links, fd, t, msgs) ==
    IF fd \in Link /\ Writable(links[fd], t)
    THEN [links EXCEPT ![fd].chan[t] = @ \o msgs]
    ELSE links

\* The thread that reads at t's end of link l is in its recv_msg.
Reading(l, t) ==
    /\ link[l].outbox[t] = <<>>
    /\ IF t = Dialer THEN dialer = [pc |-> "read", fd |-> l]
                     ELSE link[l].server \in {"peer", "last"}

\* The next message for t on link l is of the given type.
Incoming(l, t, type) ==
    /\ Reading(l, t)
    /\ link[l].chan[Other(t)] # <<>>
    /\ Head(link[l].chan[Other(t)]).type = type

\* link[l] after t has read one message and has msgs to write in reply.
Answered(l, t, msgs) ==
    [link EXCEPT ![l].chan[Other(t)] = Tail(@), ![l].outbox[t] = msgs]

\* The operations this incarnation of t has numbered.
Numbered(t) == {restarts[t]} \X (1..(node[t].next_seq - 1))

----------------------------------------------------------------------------

Init ==
    /\ node = [t \in Tracker |-> FreshNode]
    /\ worker = [t \in Tracker |-> [w \in Worker |-> Idle]]
    /\ dialer = Undialed
    /\ link = [l \in Link |-> UnusedLink]
    /\ restarts = [t \in Tracker |-> 0]
    /\ seen = [t \in Tracker |-> {}]

----------------------------------------------------------------------------
(* Client sessions *)

\* Session::dispatch: a method of TrackerState succeeds.
ClientRequest(t, w) ==
    /\ t \in Active
    /\ worker[t][w] = Idle
    /\ node[Dialer].next_seq + node[Acceptor].next_seq < MaxOps + 2
    /\ \E op \in Op :
         LET outcome == Execute(node[t].state, op)
         IN  /\ op.type \in RequestType
             /\ outcome.status = "OK"
             /\ node' = [node EXCEPT ![t].state = outcome.state]
             /\ worker' = [worker EXCEPT ![t][w] = [pc |-> "record", op |-> op]]
    /\ UNCHANGED <<dialer, link, restarts, seen>>

\* Slip: without a link there is nothing to send, so nothing is logged.
RecordIfLinked(t, w) ==
    LET entry == [seq |-> node[t].next_seq, op |-> worker[t][w].op,
                  born |-> restarts[t]]
    IN  /\ worker[t][w].pc = "record"
        /\ node' = [node EXCEPT ![t].next_seq = @ + 1,
                                ![t].log = IF node[t].out_fd = NoLink THEN @
                                           ELSE Append(@, entry)]
        /\ worker' = [worker EXCEPT ![t][w] =
                        IF node[t].out_fd = NoLink THEN Idle
                        ELSE [pc |-> "send", entry |-> entry,
                              fd |-> node[t].out_fd]]
        /\ UNCHANGED <<dialer, link, restarts, seen>>

\* Slip: the descriptor is not checked before the operation is sent.
RecordUnchecked(t, w) ==
    LET entry == [seq |-> node[t].next_seq, op |-> worker[t][w].op,
                  born |-> restarts[t]]
    IN  /\ worker[t][w].pc = "record"
        /\ node' = [node EXCEPT ![t].next_seq = @ + 1,
                                ![t].log = Append(@, entry)]
        /\ worker' = [worker EXCEPT ![t][w] =
                        [pc |-> "send", entry |-> entry, fd |-> node[t].out_fd]]
        /\ UNCHANGED <<dialer, link, restarts, seen>>

\* record_and_replicate: number and log the operation, note the link.
RecordOp(t, w) ==
    LET entry == [seq |-> node[t].next_seq, op |-> worker[t][w].op,
                  born |-> restarts[t]]
    IN  /\ worker[t][w].pc = "record"
        /\ node' = [node EXCEPT ![t].next_seq = @ + 1,
                                ![t].log = Append(@, entry)]
        /\ worker' = [worker EXCEPT ![t][w] =
                        IF node[t].out_fd = NoLink THEN Idle
                        ELSE [pc |-> "send", entry |-> entry,
                              fd |-> node[t].out_fd]]
        /\ UNCHANGED <<dialer, link, restarts, seen>>

\* record_and_replicate: push the operation on the link noted before.
SendOp(t, w) ==
    /\ worker[t][w].pc = "send"
    /\ link' = Written(link, worker[t][w].fd, t,
                       <<OpMessage(worker[t][w].entry)>>)
    /\ worker' = [worker EXCEPT ![t][w] = Idle]
    /\ UNCHANGED <<node, dialer, restarts, seen>>

----------------------------------------------------------------------------
(* connect_loop of tracker 0 *)

\* __out_fd is the new link from here on, before HELLO is on it.
Dial(l) ==
    /\ dialer.pc = "down"
    /\ link[l].server = "none"
    /\ \A k \in 1..(l - 1) : link[k].server # "none"
    /\ link' = [link EXCEPT ![l].up = TRUE, ![l].server = "unread"]
    /\ dialer' = [pc |-> "hello", fd |-> l]
    /\ node' = [node EXCEPT ![Dialer].out_fd = l]
    /\ UNCHANGED <<worker, restarts, seen>>

SendHello ==
    /\ dialer.pc = "hello"
    /\ link' = Written(link, dialer.fd, Dialer, <<[type |-> "HELLO"]>>)
    /\ dialer' = [dialer EXCEPT !.pc = "ask"]
    /\ UNCHANGED <<node, worker, restarts, seen>>

\* Decide between snapshot and catch-up; Flush writes the request.
Ask ==
    /\ dialer.pc = "ask"
    /\ dialer' = [dialer EXCEPT !.pc = "read"]
    /\ link' = [link EXCEPT ![dialer.fd].outbox[Dialer] =
                 IF IsEmpty(node[Dialer].state)
                 THEN <<[type |-> "SNAPSHOT_REQUEST"]>>
                 ELSE <<[type |-> "CATCHUP",
                         after |-> node[Dialer].applied_peer_seq]>>]
    /\ UNCHANGED <<node, worker, restarts, seen>>

\* recv_msg fails once a dead link is drained: close it, dial again.
DialerHangup(l) ==
    /\ Reading(l, Dialer)
    /\ ~link[l].up
    /\ link[l].chan[Acceptor] = <<>>
    /\ dialer' = Undialed
    /\ node' = [node EXCEPT ![Dialer].out_fd = NoLink]
    /\ UNCHANGED <<worker, link, restarts, seen>>

----------------------------------------------------------------------------
(* The threads of tracker 1 for accepted links *)

\* The thread at tracker 1 is gone, with the end of its link.
Closed(rec) == [rec EXCEPT !.up = FALSE, !.server = "closed",
                           !.chan[Dialer] = <<>>, !.outbox[Acceptor] = <<>>]

\* The message the thread of a superseded link processes beside the new link's,
\* its last one: the next recv_msg fails.
LastMessage(rec) == [rec EXCEPT !.up = FALSE, !.server = "last",
                                !.chan[Dialer] = <<Head(@)>>]

\* What becomes of a superseded link when its descriptor is closed.  A thread
\* that has read a message goes on with it.  One that waits for a message is not
\* woken, and the connection lasts until its recv_msg returns.  One that is
\* elsewhere ends: what it has to write is lost, and its next recv_msg fails.
Superseded(rec) ==
    IF rec.server = "peer" /\ rec.outbox[Acceptor] = <<>>
    THEN {Closed(rec), IF rec.chan[Dialer] = <<>> THEN [rec EXCEPT !.server = "superseded"]
                       ELSE LastMessage(rec)}
    ELSE {Closed(rec)}

\* Slip: the superseded link is left open.
AcceptBesideOld(l) ==
    /\ link[l].server = "unread"
    /\ link[l].chan[Dialer] # <<>>
    /\ Head(link[l].chan[Dialer]).type = "HELLO"
    /\ node' = [node EXCEPT ![Acceptor].out_fd = l]
    /\ link' = [link EXCEPT ![l].server = "start", ![l].chan[Dialer] = Tail(@)]
    /\ UNCHANGED <<worker, dialer, restarts, seen>>

\* The peeked first message is HELLO: the link becomes the link to the peer,
\* and the descriptor of the one it supersedes is closed.
AcceptPeer(l) ==
    LET old == node[Acceptor].out_fd
        read == [link EXCEPT ![l].server = "start", ![l].chan[Dialer] = Tail(@)]
    IN  /\ link[l].server = "unread"
        /\ link[l].chan[Dialer] # <<>>
        /\ Head(link[l].chan[Dialer]).type = "HELLO"
        /\ node' = [node EXCEPT ![Acceptor].out_fd = l]
        /\ IF old = NoLink THEN link' = read
           ELSE \E rec \in Superseded(link[old]) : link' = [read EXCEPT ![old] = rec]
        /\ UNCHANGED <<worker, dialer, restarts, seen>>

\* The recv_msg in which a thread was superseded returns, with a message or
\* without.
LastReceive(l) ==
    /\ link[l].server = "superseded"
    /\ \/ /\ link[l].chan[Dialer] # <<>>
          /\ link' = [link EXCEPT ![l] = LastMessage(@)]
       \/ /\ link[l].chan[Dialer] # <<>> \/ ~link[l].up
          /\ link' = [link EXCEPT ![l] = Closed(@)]
    /\ UNCHANGED <<node, worker, dialer, restarts, seen>>

\* Anything else starts a client session, which answers NOT_IMPLEMENTED to
\* this message and to all that follow; the dialer ignores those answers.
TakenForClient(l) ==
    /\ \/ /\ link[l].server = "unread"
          /\ link[l].chan[Dialer] # <<>>
          /\ Head(link[l].chan[Dialer]).type # "HELLO"
       \/ /\ link[l].server = "client"
          /\ link[l].chan[Dialer] # <<>>
    /\ link' = [link EXCEPT ![l].server = "client", ![l].chan[Dialer] = Tail(@)]
    /\ UNCHANGED <<node, worker, dialer, restarts, seen>>

\* Slip: only the dialer asks for a snapshot.
ServeWithoutAsking(l) ==
    /\ link[l].server = "start"
    /\ link' = [link EXCEPT ![l].server = "peer"]
    /\ UNCHANGED <<node, worker, dialer, restarts, seen>>

\* handle_peer_connection asks for a snapshot if this tracker has no state.
ServePeer(l) ==
    /\ link[l].server = "start"
    /\ link' = [link EXCEPT ![l].server = "peer",
                            ![l].outbox[Acceptor] =
                                IF IsEmpty(node[Acceptor].state)
                                THEN <<[type |-> "SNAPSHOT_REQUEST"]>>
                                ELSE <<>>]
    /\ UNCHANGED <<node, worker, dialer, restarts, seen>>

ServerHangup(l) ==
    /\ link[l].server \in {"unread", "client"} \/ Reading(l, Acceptor)
    /\ ~link[l].up
    /\ link[l].chan[Dialer] = <<>>
    /\ link' = [link EXCEPT ![l] = Closed(@)]
    /\ node' = [node EXCEPT ![Acceptor].out_fd = IF @ = l THEN NoLink ELSE @]
    /\ UNCHANGED <<worker, dialer, restarts, seen>>

----------------------------------------------------------------------------
(* process_peer_message, at either end *)

\* Write the replies to the last message (or the opening request) at once.
Flush(l, t) ==
    /\ link[l].outbox[t] # <<>>
    /\ link' = Written([link EXCEPT ![l].outbox[t] = <<>>], l, t,
                       link[l].outbox[t])
    /\ UNCHANGED <<node, worker, dialer, restarts, seen>>

ReceiveCatchup(l, t) ==
    /\ Incoming(l, t, "CATCHUP")
    /\ LET batch == After(node[t].log, Head(link[l].chan[Other(t)]).after)
       IN  link' = Answered(l, t, [i \in DOMAIN batch |-> OpMessage(batch[i])])
    /\ UNCHANGED <<node, worker, dialer, restarts, seen>>

\* Slip: the ACK is for the highest number seen instead of the one received.
AckHighest(l, t) ==
    /\ Incoming(l, t, "OP")
    /\ LET entry == Head(link[l].chan[Other(t)]).entry
           result == apply_remote(node[t].state, entry.op)
           applied == IF result.ok /\ entry.seq > node[t].applied_peer_seq
                      THEN entry.seq ELSE node[t].applied_peer_seq
       IN  /\ node' = [node EXCEPT ![t].state = result.state,
                                   ![t].applied_peer_seq = applied]
           /\ link' = Answered(l, t, <<[type |-> "ACK", seq |-> applied]>>)
           /\ seen' = [seen EXCEPT ![Other(t)] = @ \cup {<<entry.born, entry.seq>>}]
    /\ UNCHANGED <<worker, dialer, restarts>>

\* Slip: applied_peer_seq does not follow.
ApplyUncounted(l, t) ==
    /\ Incoming(l, t, "OP")
    /\ LET entry == Head(link[l].chan[Other(t)]).entry
       IN  /\ node' = [node EXCEPT ![t].state =
                          apply_remote(node[t].state, entry.op).state]
           /\ link' = Answered(l, t, <<[type |-> "ACK", seq |-> entry.seq]>>)
           /\ seen' = [seen EXCEPT ![Other(t)] = @ \cup {<<entry.born, entry.seq>>}]
    /\ UNCHANGED <<worker, dialer, restarts>>

\* Only an operation that was applied moves applied_peer_seq; all are ACKed.
ReceiveOp(l, t) ==
    /\ Incoming(l, t, "OP")
    /\ LET entry == Head(link[l].chan[Other(t)]).entry
           result == apply_remote(node[t].state, entry.op)
       IN  /\ node' = [node EXCEPT
                 ![t].state = result.state,
                 ![t].applied_peer_seq =
                     IF result.ok /\ entry.seq > @ THEN entry.seq ELSE @]
           /\ link' = Answered(l, t, <<[type |-> "ACK", seq |-> entry.seq]>>)
           /\ seen' = [seen EXCEPT ![Other(t)] = @ \cup {<<entry.born, entry.seq>>}]
    /\ UNCHANGED <<worker, dialer, restarts>>

ReceiveAck(l, t) ==
    /\ Incoming(l, t, "ACK")
    /\ node' = [node EXCEPT ![t].log =
                    After(@, Head(link[l].chan[Other(t)]).seq)]
    /\ link' = Answered(l, t, <<>>)
    /\ UNCHANGED <<worker, dialer, restarts, seen>>

\* The snapshot is taken here; Flush writes it.
ReceiveSnapshotRequest(l, t) ==
    /\ Incoming(l, t, "SNAPSHOT_REQUEST")
    /\ link' = Answered(l, t, <<[type |-> "SNAPSHOT_DATA",
                                 blob |-> snapshot(node[t].state),
                                 covers |-> Numbered(t)]>>)
    /\ UNCHANGED <<node, worker, dialer, restarts, seen>>

\* Slip: only the groups of the snapshot are taken over.
RestoreGroups(l, t) ==
    /\ Incoming(l, t, "SNAPSHOT_DATA")
    /\ LET data == Head(link[l].chan[Other(t)])
       IN  /\ node' = [node EXCEPT ![t].state.groups =
                                        restore(data.blob).groups]
           /\ seen' = [seen EXCEPT ![Other(t)] = @ \cup data.covers]
    /\ link' = Answered(l, t, <<>>)
    /\ UNCHANGED <<worker, dialer, restarts>>

\* restore replaces the whole state and nothing else.
ReceiveSnapshot(l, t) ==
    /\ Incoming(l, t, "SNAPSHOT_DATA")
    /\ LET data == Head(link[l].chan[Other(t)])
       IN  /\ node' = [node EXCEPT ![t].state = restore(data.blob)]
           /\ seen' = [seen EXCEPT ![Other(t)] = @ \cup data.covers]
    /\ link' = Answered(l, t, <<>>)
    /\ UNCHANGED <<worker, dialer, restarts>>

----------------------------------------------------------------------------
(* Faults *)

\* A link dies with any suffix of what was in flight in either direction.
LinkBreak(l) ==
    /\ link[l].up
    /\ \E a \in 0..Len(link[l].chan[Dialer]), b \in 0..Len(link[l].chan[Acceptor]) :
         link' = [link EXCEPT ![l].up = FALSE,
                              ![l].chan[Dialer] = SubSeq(@, 1, a),
                              ![l].chan[Acceptor] = SubSeq(@, 1, b)]
    /\ UNCHANGED <<node, worker, dialer, restarts, seen>>

\* Link l after tracker t exited: its end is gone, unread data with it.  What
\* t wrote last may still arrive; that it may not is a LinkBreak just before.
Abandoned(t, l) ==
    IF link[l].server = "none" THEN link[l]
    ELSE [link[l] EXCEPT !.up = FALSE,
                         !.server = IF t = Acceptor THEN "closed" ELSE @,
                         !.chan[Other(t)] = <<>>,
                         !.outbox[t] = <<>>]

\* A tracker exits (quit, crash) and starts again with nothing.
Restart(t) ==
    /\ restarts[Dialer] + restarts[Acceptor] < MaxRestarts
    /\ restarts' = [restarts EXCEPT ![t] = @ + 1]
    /\ node' = [node EXCEPT ![t] = FreshNode]
    /\ worker' = [worker EXCEPT ![t] = [w \in Worker |-> Idle]]
    /\ dialer' = IF t = Dialer THEN Undialed ELSE dialer
    /\ link' = [l \in Link |-> Abandoned(t, l)]
    /\ UNCHANGED seen

----------------------------------------------------------------------------

Session(t, w) == ClientRequest(t, w) \/ RecordOp(t, w) \/ SendOp(t, w)

ConnectLoop == SendHello \/ Ask \/ \E l \in Link : Dial(l) \/ DialerHangup(l)

Listener(l) ==
    \/ AcceptPeer(l) \/ LastReceive(l) \/ TakenForClient(l)
    \/ ServePeer(l) \/ ServerHangup(l)

ProcessPeerMessage(l, t) ==
    \/ Flush(l, t) \/ ReceiveCatchup(l, t) \/ ReceiveOp(l, t)
    \/ ReceiveAck(l, t) \/ ReceiveSnapshotRequest(l, t) \/ ReceiveSnapshot(l, t)

Threads ==
    \/ \E t \in Tracker, w \in Worker : Session(t, w)
    \/ ConnectLoop
    \/ \E l \in Link : Listener(l)
    \/ \E l \in Link, t \in Tracker : ProcessPeerMessage(l, t)

Faults ==
    \/ \E l \in Link : LinkBreak(l)
    \/ \E t \in Tracker : Restart(t)

Next == Threads \/ Faults

Spec == Init /\ [][Next]_vars

----------------------------------------------------------------------------
(* Safety *)

TypeOK ==
    /\ node \in [Tracker -> Node]
    /\ worker \in [Tracker -> [Worker -> WorkerRecord]]
    /\ dialer \in DialerRecord
    /\ link \in [Link -> LinkRecord]
    /\ restarts \in [Tracker -> Nat]
    /\ seen \in [Tracker -> SUBSET (Nat \X Nat)]

\* Whatever is lost, repeated, overtaken or restored, neither tracker gets
\* into a state its own methods could not produce: groups owned by a member,
\* members and applicants disjoint and registered (apply_remote runs the same
\* checks as a client request; restore replaces users and groups together).
BothConsistent == \A t \in Tracker : Consistent(node[t].state)

\* A link that is superseded is done with: of all links but the one in __out_fd,
\* tracker 1 processes at most one message more, whatever is still in flight on
\* them, and nothing it writes there arrives (handle_peer_connection).
OnePeerLink ==
    \A l \in Link :
        /\ link[l].server \in {"start", "peer"} <=> node[Acceptor].out_fd = l
        /\ link[l].server = "last" =>
             Len(link[l].chan[Dialer]) <= 1 /\ ~Writable(link[l], Acceptor)

\* The numbers of the log are the latest ones given out, in order and without
\* gaps: what ACKs trim is a prefix (record_and_replicate, MSG_SYNC_ACK).
LogIsSuffix ==
    \A t \in Tracker :
        LET log == node[t].log
        IN  \A i \in DOMAIN log : log[i].seq = node[t].next_seq - 1 - (Len(log) - i)

\* The operations tracker t has removed from its log, by number.
Trimmed(t) == 1..(node[t].next_seq - 1 - Len(node[t].log))

Processed(t, seq) == <<restarts[t], seq>> \in seen[t]

\* The last operation a tracker trimmed is one its peer has replayed or loaded
\* with a snapshot: no ACK is made up, taken for an operation of another
\* incarnation, or sent to a link it does not belong to.
AckSound ==
    \A t \in Tracker :
        Trimmed(t) # {} => Processed(t, node[t].next_seq - 1 - Len(node[t].log))

\* A snapshot with the effect of operation seq of t is on a live link, or
\* about to be written to one.
OnItsWay(t, seq) ==
    \E l \in Link :
        /\ link[l].up
        /\ \E msgs \in {link[l].chan[t], link[l].outbox[t]} :
             \E i \in DOMAIN msgs :
                /\ msgs[i].type = "SNAPSHOT_DATA"
                /\ <<restarts[t], seq>> \in msgs[i].covers

\* The claim of sync.cpp:118 and sync.hpp:16-18: an operation leaves the log
\* only when the peer has it or is being sent it, so nothing is lost.
NothingLost ==
    \A t \in Tracker : \A seq \in Trimmed(t) :
        Processed(t, seq) \/ OnItsWay(t, seq)

\* sync.hpp:54-55: the first message on a link is HELLO, so no link of the
\* peer is ever taken for a client's.
FirstIsHello == \A l \in Link : link[l].server # "client"

\* An account stays on a tracker as long as the tracker runs: nothing deletes
\* accounts.  (sync.hpp:22-24: only a tracker without state loads a snapshot.)
AccountsStay ==
    [][\A t \in Tracker : restarts'[t] = restarts[t]
         => DOMAIN node[t].state.users \subseteq DOMAIN node'[t].state.users]_vars

=============================================================================
