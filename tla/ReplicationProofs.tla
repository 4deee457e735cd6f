------------------------- MODULE ReplicationProofs -------------------------
(***************************************************************************)
(* Safety of Replication for any users, groups and files, any number of    *)
(* sessions, operations, links and restarts, and any loss of messages.     *)
(***************************************************************************)
EXTENDS Replication, TrackerStateProofs, SequenceTheorems

\* The messages that can do no harm: a snapshot is one of a good state.
SafeMessage ==
    {m \in Message : m.type = "SNAPSHOT_DATA" => Good(restore(m.blob))}

SafeNode == {n \in Node : Consistent(n.state)}

SafeLink == [up: BOOLEAN,
             server: {"none", "unread", "start", "peer", "superseded", "last",
                      "client", "closed"},
             chan: [Tracker -> Seq(SafeMessage)],
             outbox: [Tracker -> Seq(SafeMessage)]]

\* TypeOK, the consistency of both states, and that of every snapshot that
\* is written or about to be.
SafeInv ==
    /\ node \in [Tracker -> SafeNode]
    /\ worker \in [Tracker -> [Worker -> WorkerRecord]]
    /\ dialer \in DialerRecord
    /\ link \in [Link -> SafeLink]
    /\ restarts \in [Tracker -> Nat]
    /\ seen \in [Tracker -> SUBSET (Nat \X Nat)]

----------------------------------------------------------------------------
(* Data *)

\* The two trackers.
LEMMA OtherTracker ==
    ASSUME NEW t \in Tracker
    PROVE  Other(t) \in Tracker /\ Other(t) # t
  BY DEF Tracker, Dialer, Acceptor, Other

\* The entries of a map have its keys and values.
LEMMA EntriesType ==
    ASSUME NEW K, NEW V, NEW m,
           \A k \in DOMAIN m : k \in K /\ m[k] \in V
    PROVE  Entries(m) \in SUBSET [key: K, value: V]
  BY DEF Entries

\* A snapshot has the type of what is sent.
LEMMA snapshotType ==
    ASSUME NEW S \in State
    PROVE  snapshot(S) \in Blob
<1>1. \A grp \in GroupRecord :
         GroupEntry(grp) \in GroupBlob
  <2>. SUFFICES ASSUME NEW grp \in GroupRecord
                PROVE  GroupEntry(grp) \in GroupBlob
    OBVIOUS
  <2>1. grp.files \in Maps(File, FileMeta)
    BY DEF GroupRecord
  <2>2. \A f \in DOMAIN grp.files :
           f \in File /\ FileEntry(grp.files[f]) \in FileBlob
    <3>. SUFFICES ASSUME NEW f \in DOMAIN grp.files
                  PROVE  f \in File /\ FileEntry(grp.files[f]) \in FileBlob
      OBVIOUS
    <3>1. f \in File /\ grp.files[f] \in FileMeta
      BY <2>1, GetMap
    <3>2. grp.files[f].seeders \in Maps(User, PeerRef)
      BY <3>1 DEF FileMeta
    <3>3. Entries(grp.files[f].seeders) \in SUBSET [key: User, value: PeerRef]
      BY <3>2, MapsDef DEF Entries
    <3>. QED
      BY <3>1, <3>3 DEF FileEntry, FileBlob, FileMeta
  <2>3. Entries([f \in DOMAIN grp.files |-> FileEntry(grp.files[f])])
          \in SUBSET [key: File, value: FileBlob]
    BY <2>2, EntriesType
  <2>. QED
    BY <2>3 DEF GroupEntry, GroupBlob, GroupRecord
<1>2. S.users \in Maps(User, UserRecord) /\ S.groups \in Maps(Group, GroupRecord)
  BY DEF State
<1>3. Entries(S.users) \in SUBSET [key: User, value: UserRecord]
  BY <1>2, MapsDef DEF Entries
<1>4. \A g \in DOMAIN S.groups :
         g \in Group /\ GroupEntry(S.groups[g]) \in GroupBlob
  BY <1>1, <1>2, GetMap
<1>5. Entries([g \in DOMAIN S.groups |-> GroupEntry(S.groups[g])])
        \in SUBSET [key: Group, value: GroupBlob]
  BY <1>4, EntriesType
<1>. QED
  BY <1>3, <1>5 DEF snapshot, Blob

\* A suffix of a log is one: what a catch-up sends and what an ACK leaves
\* are the entries from some first one on.
LEMMA AfterType ==
    ASSUME NEW log \in Seq(Entry), NEW seq \in Nat
    PROVE  \E first \in 1..(Len(log) + 1) : After(log, seq) = SubSeq(log, first, Len(log))
<1>. DEFINE later == {i \in 1..(Len(log) + 1) : i > Len(log) \/ log[i].seq > seq}
<1>1. later \subseteq Nat /\ later # {}
  <2>1. Len(log) \in Nat
    BY LenProperties
  <2>2. Len(log) + 1 \in later
    BY <2>1
  <2>. QED
    BY <2>2
<1>2. Smallest(later) \in later
  BY <1>1, SmallestIsLeast
<1>. QED
  BY <1>2 DEF After

\* In particular it is a log.
LEMMA AfterSeq ==
    ASSUME NEW log \in Seq(Entry), NEW seq \in Nat
    PROVE  After(log, seq) \in Seq(Entry)
<1>1. PICK first \in 1..(Len(log) + 1) : After(log, seq) = SubSeq(log, first, Len(log))
  BY AfterType
<1>. QED
  BY <1>1, LenProperties, SubSeqProperties

----------------------------------------------------------------------------
(* Messages and links *)

\* What the trackers write, snapshots of good states included.
LEMMA SafeMessages ==
    /\ [type |-> "HELLO"] \in SafeMessage
    /\ [type |-> "SNAPSHOT_REQUEST"] \in SafeMessage
    /\ \A n \in Nat : [type |-> "CATCHUP", after |-> n] \in SafeMessage
    /\ \A n \in Nat \ {0} : [type |-> "ACK", seq |-> n] \in SafeMessage
    /\ \A entry \in Entry : OpMessage(entry) \in SafeMessage
  BY DEF SafeMessage, Message, OpMessage

\* A snapshot of a good state, on its way.
LEMMA SafeSnapshot ==
    ASSUME NEW S, Good(S), NEW covers \in SUBSET (Nat \X Nat)
    PROVE  [type |-> "SNAPSHOT_DATA", blob |-> snapshot(S), covers |-> covers]
             \in SafeMessage
<1>1. snapshot(S) \in Blob /\ Good(restore(snapshot(S)))
  BY snapshotType, SnapshotRoundTrip DEF Good
<1>. HIDE DEF Good
<1>. QED
  BY <1>1 DEF SafeMessage, Message

\* What the fields of a message are, by its type.
LEMMA MessageFields ==
    ASSUME NEW m \in SafeMessage
    PROVE  /\ m.type = "CATCHUP" => m.after \in Nat
           /\ m.type = "OP" => m.entry \in Entry
           /\ m.type = "ACK" => m.seq \in Nat \ {0}
           /\ m.type = "SNAPSHOT_DATA" =>
                Good(restore(m.blob)) /\ m.covers \in SUBSET (Nat \X Nat)
  BY DEF SafeMessage, Message

\* Writing safe messages keeps the links safe (send_msg).
LEMMA WrittenSafe ==
    ASSUME NEW links \in [Link -> SafeLink], NEW fd, NEW t \in Tracker,
           NEW msgs \in Seq(SafeMessage)
    PROVE  Written(links, fd, t, msgs) \in [Link -> SafeLink]
<1>1. CASE fd \in Link /\ Writable(links[fd], t)
  <2>1. links[fd].chan[t] \o msgs \in Seq(SafeMessage)
    BY <1>1, ConcatProperties DEF SafeLink
  <2>. QED
    BY <1>1, <2>1 DEF Written, SafeLink
<1>2. CASE ~(fd \in Link /\ Writable(links[fd], t))
  BY <1>2 DEF Written
<1>. QED
  BY <1>1, <1>2

\* What is read is safe, and leaves the channel safe (recv_msg).
LEMMA IncomingSafe ==
    ASSUME SafeInv, NEW l \in Link, NEW t \in Tracker, NEW type,
           Incoming(l, t, type)
    PROVE  /\ Head(link[l].chan[Other(t)]) \in SafeMessage
           /\ Head(link[l].chan[Other(t)]).type = type
           /\ Tail(link[l].chan[Other(t)]) \in Seq(SafeMessage)
  BY OtherTracker, HeadTailProperties DEF SafeInv, SafeLink, Incoming

\* Taking a message and leaving safe replies keeps the links safe.
LEMMA AnsweredSafe ==
    ASSUME SafeInv, NEW l \in Link, NEW t \in Tracker, NEW type,
           Incoming(l, t, type), NEW msgs \in Seq(SafeMessage)
    PROVE  Answered(l, t, msgs) \in [Link -> SafeLink]
<1>. DEFINE o == Other(t)
            rest == Tail(link[l].chan[o])
            rec == [link[l] EXCEPT !.chan[o] = rest, !.outbox[t] = msgs]
<1>1. o \in Tracker /\ rest \in Seq(SafeMessage)
  BY OtherTracker, IncomingSafe
<1>2. Answered(l, t, msgs) = [link EXCEPT ![l] = rec]
  BY DEF Answered, SafeInv
<1>. HIDE DEF o, rest
<1>3. rec \in SafeLink
  BY <1>1 DEF SafeInv, SafeLink
<1>. HIDE DEF rec
<1>. QED
  BY <1>2, <1>3 DEF SafeInv

\* Closing an end of a link keeps it safe.
LEMMA ClosedSafe ==
    ASSUME NEW rec \in SafeLink
    PROVE  Closed(rec) \in SafeLink
  BY EmptySeq DEF SafeLink, Closed, Tracker, Dialer, Acceptor

\* So does leaving its thread with one message.
LEMMA LastMessageSafe ==
    ASSUME NEW rec \in SafeLink, rec.chan[Dialer] # <<>>
    PROVE  LastMessage(rec) \in SafeLink
<1>1. <<Head(rec.chan[Dialer])>> \in Seq(SafeMessage)
  BY DEF SafeLink, Tracker
<1>. QED
  BY <1>1 DEF SafeLink, LastMessage

\* What becomes of a superseded link (handle_peer_connection).
LEMMA SupersededCases ==
    ASSUME NEW rec, NEW new \in Superseded(rec)
    PROVE  \/ new = Closed(rec)
           \/ new = [rec EXCEPT !.server = "superseded"]
           \/ rec.chan[Dialer] # <<>> /\ new = LastMessage(rec)
<1>. DEFINE waits == [rec EXCEPT !.server = "superseded"]
<1>1. CASE rec.server = "peer" /\ rec.outbox[Acceptor] = <<>>
  <2>1. CASE rec.chan[Dialer] = <<>>
    BY <1>1, <2>1, Zenon DEF Superseded
  <2>2. CASE rec.chan[Dialer] # <<>>
    BY <1>1, <2>2, Zenon DEF Superseded
  <2>. QED
    BY <2>1, <2>2
<1>2. CASE ~(rec.server = "peer" /\ rec.outbox[Acceptor] = <<>>)
  BY <1>2, Zenon DEF Superseded
<1>. QED
  BY <1>1, <1>2

\* It stays safe.
LEMMA SupersededSafe ==
    ASSUME NEW rec \in SafeLink, NEW new \in Superseded(rec)
    PROVE  new \in SafeLink
<1>1. \/ new = Closed(rec)
      \/ new = [rec EXCEPT !.server = "superseded"]
      \/ rec.chan[Dialer] # <<>> /\ new = LastMessage(rec)
  BY SupersededCases
<1>2. [rec EXCEPT !.server = "superseded"] \in SafeLink
  BY DEF SafeLink
<1>. QED
  BY <1>1, <1>2, ClosedSafe, LastMessageSafe

----------------------------------------------------------------------------
(* One step of a thread *)

\* The state of a tracker is good, and replacing it by a good one is safe.
LEMMA NodeState ==
    ASSUME SafeInv, NEW t \in Tracker
    PROVE  /\ Good(node[t].state)
           /\ node[t].next_seq \in Nat \ {0} /\ node[t].applied_peer_seq \in Nat
           /\ node[t].log \in Seq(Entry) /\ node[t].out_fd \in Link \cup {NoLink}
           /\ \A S : Good(S) => [node EXCEPT ![t].state = S] \in [Tracker -> SafeNode]
  BY DEF SafeInv, SafeNode, Node, Good

\* A client's request executes one operation (Session::dispatch).
LEMMA ClientRequestSafe ==
    ASSUME SafeInv, NEW t \in Tracker, NEW w \in Worker, ClientRequest(t, w)
    PROVE  SafeInv'
<1>1. PICK op \in Op :
         /\ node' = [node EXCEPT ![t].state = Execute(node[t].state, op).state]
         /\ worker' = [worker EXCEPT ![t][w] = [pc |-> "record", op |-> op]]
  BY Zenon DEF ClientRequest
<1>2. Good(Execute(node[t].state, op).state)
  BY NodeState, ExecuteGood DEF Preserves
<1>3. node' \in [Tracker -> SafeNode]
  BY <1>1, <1>2, NodeState
<1>4. worker' \in [Tracker -> [Worker -> WorkerRecord]]
  BY <1>1 DEF SafeInv, WorkerRecord
<1>5. UNCHANGED <<dialer, link, restarts, seen>>
  BY DEF ClientRequest
<1>. QED
  BY <1>3, <1>4, <1>5 DEF SafeInv

\* The operation is numbered and logged (record_and_replicate).
LEMMA RecordOpSafe ==
    ASSUME SafeInv, NEW t \in Tracker, NEW w \in Worker, RecordOp(t, w)
    PROVE  SafeInv'
<1>. DEFINE entry == [seq |-> node[t].next_seq, op |-> worker[t][w].op,
                      born |-> restarts[t]]
<1>1. entry \in Entry
  <2>1. worker[t][w] \in WorkerRecord /\ worker[t][w].pc = "record"
    BY DEF RecordOp, SafeInv
  <2>2. worker[t][w].op \in Op
    BY <2>1 DEF WorkerRecord
  <2>3. restarts[t] \in Nat /\ node[t].next_seq \in Nat \ {0}
    BY NodeState DEF SafeInv
  <2>. QED
    BY <2>2, <2>3 DEF Entry
<1>2. /\ node' = [node EXCEPT ![t].next_seq = @ + 1, ![t].log = Append(@, entry)]
      /\ worker' = [worker EXCEPT ![t][w] =
                      IF node[t].out_fd = NoLink THEN Idle
                      ELSE [pc |-> "send", entry |-> entry, fd |-> node[t].out_fd]]
      /\ UNCHANGED <<dialer, link, restarts, seen>>
  BY DEF RecordOp
<1>. HIDE DEF entry
<1>3. Append(node[t].log, entry) \in Seq(Entry)
  BY <1>1, NodeState, AppendProperties
<1>4. node' \in [Tracker -> SafeNode]
  <2>. DEFINE log == Append(node[t].log, entry)
              rec == [node[t] EXCEPT !.next_seq = @ + 1, !.log = log]
  <2>1. node' = [node EXCEPT ![t] = rec]
    BY <1>2 DEF SafeInv
  <2>2. log \in Seq(Entry)
    BY <1>3
  <2>. HIDE DEF log
  <2>3. node[t] \in Node /\ Consistent(node[t].state)
    BY DEF SafeInv, SafeNode
  <2>4. rec \in Node /\ rec.state = node[t].state
    <3>1. node[t].next_seq + 1 \in Nat \ {0}
      BY NodeState
    <3>. QED
      BY <2>2, <2>3, <3>1 DEF Node
  <2>. HIDE DEF rec
  <2>. QED
    BY <2>1, <2>3, <2>4 DEF SafeInv, SafeNode
<1>5. worker' \in [Tracker -> [Worker -> WorkerRecord]]
  BY <1>1, <1>2, NodeState DEF SafeInv, WorkerRecord, Idle
<1>. QED
  BY <1>2, <1>4, <1>5 DEF SafeInv

\* The operation is pushed (record_and_replicate).
LEMMA SendOpSafe ==
    ASSUME SafeInv, NEW t \in Tracker, NEW w \in Worker, SendOp(t, w)
    PROVE  SafeInv'
<1>1. worker[t][w].entry \in Entry
  BY DEF SendOp, SafeInv, WorkerRecord
<1>2. <<OpMessage(worker[t][w].entry)>> \in Seq(SafeMessage)
  BY <1>1, SafeMessages
<1>3. link' \in [Link -> SafeLink]
  BY <1>2, WrittenSafe DEF SendOp, SafeInv
<1>4. worker' \in [Tracker -> [Worker -> WorkerRecord]]
  BY DEF SendOp, SafeInv, WorkerRecord, Idle
<1>. QED
  BY <1>3, <1>4 DEF SendOp, SafeInv

\* connect_loop of the dialer.
LEMMA ConnectLoopSafe ==
    ASSUME SafeInv, ConnectLoop
    PROVE  SafeInv'
<1>. Dialer \in Tracker
  BY DEF Tracker
<1>1. ASSUME NEW l \in Link, Dial(l)
      PROVE  SafeInv'
  <2>1. link' \in [Link -> SafeLink]
    BY <1>1, ZenonT(40) DEF Dial, SafeInv, SafeLink
  <2>2. node' \in [Tracker -> SafeNode]
    BY <1>1 DEF Dial, SafeInv, SafeNode, Node
  <2>3. dialer' \in DialerRecord
    BY <1>1 DEF Dial, DialerRecord
  <2>. QED
    BY <1>1, <2>1, <2>2, <2>3 DEF Dial, SafeInv
<1>2. CASE SendHello
  <2>1. <<[type |-> "HELLO"]>> \in Seq(SafeMessage)
    BY SafeMessages
  <2>2. link' \in [Link -> SafeLink]
    BY <1>2, <2>1, WrittenSafe DEF SendHello, SafeInv
  <2>3. dialer' \in DialerRecord
    BY <1>2 DEF SendHello, SafeInv, DialerRecord
  <2>. QED
    BY <1>2, <2>2, <2>3 DEF SendHello, SafeInv
<1>3. CASE Ask
  <2>. DEFINE request == IF IsEmpty(node[Dialer].state)
                         THEN <<[type |-> "SNAPSHOT_REQUEST"]>>
                         ELSE <<[type |-> "CATCHUP",
                                 after |-> node[Dialer].applied_peer_seq]>>
  <2>1. request \in Seq(SafeMessage)
    BY NodeState, SafeMessages
  <2>2. link' = [link EXCEPT ![dialer.fd].outbox[Dialer] = request]
    BY <1>3 DEF Ask
  <2>. HIDE DEF request
  <2>3. link' \in [Link -> SafeLink]
    BY <2>1, <2>2, ZenonT(40) DEF SafeInv, SafeLink
  <2>4. dialer' \in DialerRecord
    BY <1>3 DEF Ask, SafeInv, DialerRecord
  <2>. QED
    BY <1>3, <2>3, <2>4 DEF Ask, SafeInv
<1>4. ASSUME NEW l \in Link, DialerHangup(l)
      PROVE  SafeInv'
  <2>1. node' \in [Tracker -> SafeNode]
    BY <1>4 DEF DialerHangup, SafeInv, SafeNode, Node
  <2>2. dialer' \in DialerRecord
    BY <1>4 DEF DialerHangup, DialerRecord, Undialed
  <2>. QED
    BY <1>4, <2>1, <2>2 DEF DialerHangup, SafeInv
<1>. QED
  BY <1>1, <1>2, <1>3, <1>4 DEF ConnectLoop

\* The threads that accepted a link (main and handle_peer_connection).
LEMMA ListenerSafe ==
    ASSUME SafeInv, NEW l \in Link, Listener(l)
    PROVE  SafeInv'
<1>. Dialer \in Tracker /\ Acceptor \in Tracker
  BY DEF Tracker
<1>1. CASE AcceptPeer(l)
  <2>. DEFINE rest == Tail(link[l].chan[Dialer])
              read == [link EXCEPT ![l].server = "start", ![l].chan[Dialer] = rest]
              old == node[Acceptor].out_fd
  <2>1. rest \in Seq(SafeMessage)
    BY <1>1, HeadTailProperties DEF AcceptPeer, SafeInv, SafeLink
  <2>2. \/ link' = read
        \/ old # NoLink /\ \E rec \in Superseded(link[old]) : link' = [read EXCEPT ![old] = rec]
    BY <1>1, Zenon DEF AcceptPeer
  <2>. HIDE DEF rest
  <2>3. read \in [Link -> SafeLink]
    BY <2>1, ZenonT(40) DEF SafeInv, SafeLink
  <2>4. old \in Link \cup {NoLink}
    BY NodeState
  <2>. HIDE DEF read, old
  <2>5. link' \in [Link -> SafeLink]
    <3>1. CASE link' = read
      BY <2>3, <3>1
    <3>2. ASSUME old # NoLink, NEW rec \in Superseded(link[old]),
                 link' = [read EXCEPT ![old] = rec]
          PROVE  link' \in [Link -> SafeLink]
      <4>1. old \in Link /\ link[old] \in SafeLink
        BY <2>4, <3>2 DEF SafeInv
      <4>2. rec \in SafeLink
        BY <4>1, SupersededSafe
      <4>. QED
        BY <2>3, <3>2, <4>2
    <3>. QED
      BY <2>2, <3>1, <3>2
  <2>6. node' \in [Tracker -> SafeNode]
    <3>1. node' = [node EXCEPT ![Acceptor].out_fd = l]
      BY <1>1, Zenon DEF AcceptPeer
    <3>. QED
      BY <3>1 DEF SafeInv, SafeNode, Node
  <2>7. UNCHANGED <<worker, dialer, restarts, seen>>
    BY <1>1, Zenon DEF AcceptPeer
  <2>. QED
    BY <2>5, <2>6, <2>7 DEF SafeInv
<1>2. CASE TakenForClient(l)
  <2>. DEFINE rest == Tail(link[l].chan[Dialer])
  <2>1. rest \in Seq(SafeMessage)
    BY <1>2, HeadTailProperties DEF TakenForClient, SafeInv, SafeLink
  <2>2. link' = [link EXCEPT ![l].server = "client", ![l].chan[Dialer] = rest]
    BY <1>2 DEF TakenForClient
  <2>. HIDE DEF rest
  <2>3. link' \in [Link -> SafeLink]
    BY <2>1, <2>2, ZenonT(40) DEF SafeInv, SafeLink
  <2>. QED
    BY <1>2, <2>3 DEF TakenForClient, SafeInv
<1>3. CASE ServePeer(l)
  <2>. DEFINE request == IF IsEmpty(node[Acceptor].state)
                         THEN <<[type |-> "SNAPSHOT_REQUEST"]>> ELSE <<>>
  <2>1. request \in Seq(SafeMessage)
    BY SafeMessages
  <2>2. link' = [link EXCEPT ![l].server = "peer", ![l].outbox[Acceptor] = request]
    BY <1>3 DEF ServePeer
  <2>. HIDE DEF request
  <2>3. link' \in [Link -> SafeLink]
    BY <2>1, <2>2, ZenonT(40) DEF SafeInv, SafeLink
  <2>. QED
    BY <1>3, <2>3 DEF ServePeer, SafeInv
<1>4. CASE ServerHangup(l)
  <2>1. link' \in [Link -> SafeLink]
    BY <1>4, ClosedSafe DEF ServerHangup, SafeInv
  <2>2. node' \in [Tracker -> SafeNode]
    BY <1>4, ZenonT(40) DEF ServerHangup, SafeInv, SafeNode, Node
  <2>. QED
    BY <1>4, <2>1, <2>2 DEF ServerHangup, SafeInv
<1>5. CASE LastReceive(l)
  <2>1. PICK rec : /\ link' = [link EXCEPT ![l] = rec]
                   /\ \/ rec = Closed(link[l])
                      \/ link[l].chan[Dialer] # <<>> /\ rec = LastMessage(link[l])
    BY <1>5 DEF LastReceive, SafeInv
  <2>2. rec \in SafeLink
    BY <2>1, ClosedSafe, LastMessageSafe DEF SafeInv
  <2>3. link' \in [Link -> SafeLink]
    BY <2>1, <2>2 DEF SafeInv
  <2>. QED
    BY <1>5, <2>3 DEF LastReceive, SafeInv
<1>. QED
  BY <1>1, <1>2, <1>3, <1>4, <1>5 DEF Listener

\* What a peer numbered is a set of pairs of naturals.
LEMMA NumberedType ==
    ASSUME SafeInv, NEW t \in Tracker
    PROVE  Numbered(t) \in SUBSET (Nat \X Nat)
  BY NodeState DEF SafeInv, Numbered

\* The cases of process_peer_message, at either end of a link.
LEMMA ProcessPeerMessageSafe ==
    ASSUME SafeInv, NEW l \in Link, NEW t \in Tracker, ProcessPeerMessage(l, t)
    PROVE  SafeInv'
<1>. DEFINE msg == Head(link[l].chan[Other(t)])
<1>1. CASE Flush(l, t)
  <2>. DEFINE emptied == [link EXCEPT ![l].outbox[t] = <<>>]
  <2>1. emptied \in [Link -> SafeLink]
    BY EmptySeq DEF SafeInv, SafeLink
  <2>2. link[l].outbox[t] \in Seq(SafeMessage)
    BY DEF SafeInv, SafeLink
  <2>3. link' = Written(emptied, l, t, link[l].outbox[t])
    BY <1>1 DEF Flush
  <2>. HIDE DEF emptied
  <2>4. link' \in [Link -> SafeLink]
    BY <2>1, <2>2, <2>3, WrittenSafe
  <2>. QED
    BY <1>1, <2>4 DEF Flush, SafeInv
<1>2. CASE ReceiveCatchup(l, t)
  <2>. DEFINE batch == After(node[t].log, msg.after)
              msgs == [i \in DOMAIN batch |-> OpMessage(batch[i])]
  <2>1. msg \in SafeMessage /\ msg.after \in Nat
    BY <1>2, IncomingSafe, MessageFields DEF ReceiveCatchup
  <2>2. batch \in Seq(Entry)
    BY <2>1, NodeState, AfterSeq
  <2>3. link' = Answered(l, t, msgs)
    BY <1>2 DEF ReceiveCatchup
  <2>. HIDE DEF batch
  <2>4. msgs \in Seq(SafeMessage)
    BY <2>2, SafeMessages
  <2>. HIDE DEF msgs
  <2>5. link' \in [Link -> SafeLink]
    <3>1. Incoming(l, t, "CATCHUP")
      BY <1>2 DEF ReceiveCatchup
    <3>. QED
      BY <2>3, <2>4, <3>1, AnsweredSafe
  <2>. QED
    BY <1>2, <2>5 DEF ReceiveCatchup, SafeInv
<1>3. CASE ReceiveOp(l, t)
  <2>. DEFINE result == apply_remote(node[t].state, msg.entry.op)
              ack == <<[type |-> "ACK", seq |-> msg.entry.seq]>>
              applied == IF result.ok /\ msg.entry.seq > node[t].applied_peer_seq
                         THEN msg.entry.seq ELSE node[t].applied_peer_seq
              covered == seen[Other(t)] \cup {<<msg.entry.born, msg.entry.seq>>}
  <2>1. msg \in SafeMessage /\ msg.entry \in Entry
    BY <1>3, IncomingSafe, MessageFields DEF ReceiveOp
  <2>2. msg.entry.op \in Op /\ msg.entry.seq \in Nat \ {0} /\ msg.entry.born \in Nat
    BY <2>1 DEF Entry
  <2>3. Good(result.state)
    BY <2>2, NodeState, apply_remoteGood DEF Preserves
  <2>4. ack \in Seq(SafeMessage)
    BY <2>2, SafeMessages
  <2>5. applied \in Nat
    BY <2>2, NodeState
  <2>6. covered \in SUBSET (Nat \X Nat)
    BY <2>2, OtherTracker DEF SafeInv
  <2>7. /\ node' = [node EXCEPT ![t].state = result.state,
                                ![t].applied_peer_seq = applied]
        /\ link' = Answered(l, t, ack)
        /\ seen' = [seen EXCEPT ![Other(t)] = covered]
        /\ UNCHANGED <<worker, dialer, restarts>>
    BY <1>3 DEF ReceiveOp
  <2>. HIDE DEF result, ack, applied, covered
  <2>8. link' \in [Link -> SafeLink]
    <3>1. Incoming(l, t, "OP")
      BY <1>3 DEF ReceiveOp
    <3>. QED
      BY <2>4, <2>7, <3>1, AnsweredSafe
  <2>9. node' \in [Tracker -> SafeNode]
    BY <2>3, <2>5, <2>7, ZenonT(40) DEF SafeInv, SafeNode, Node, Good
  <2>10. seen' \in [Tracker -> SUBSET (Nat \X Nat)]
    BY <2>6, <2>7 DEF SafeInv
  <2>. QED
    BY <2>7, <2>8, <2>9, <2>10 DEF SafeInv
<1>4. CASE ReceiveAck(l, t)
  <2>. DEFINE rest == After(node[t].log, msg.seq)
  <2>1. msg \in SafeMessage /\ msg.seq \in Nat
    BY <1>4, IncomingSafe, MessageFields DEF ReceiveAck
  <2>2. rest \in Seq(Entry)
    BY <2>1, NodeState, AfterSeq
  <2>3. node' = [node EXCEPT ![t].log = rest] /\ link' = Answered(l, t, <<>>)
    BY <1>4 DEF ReceiveAck
  <2>. HIDE DEF rest
  <2>4. node' \in [Tracker -> SafeNode]
    BY <2>2, <2>3 DEF SafeInv, SafeNode, Node
  <2>5. link' \in [Link -> SafeLink]
    <3>1. Incoming(l, t, "ACK") /\ <<>> \in Seq(SafeMessage)
      BY <1>4, EmptySeq DEF ReceiveAck
    <3>. QED
      BY <2>3, <3>1, AnsweredSafe
  <2>. QED
    BY <1>4, <2>4, <2>5 DEF ReceiveAck, SafeInv
<1>5. CASE ReceiveSnapshotRequest(l, t)
  <2>. DEFINE data == [type |-> "SNAPSHOT_DATA", blob |-> snapshot(node[t].state),
                       covers |-> Numbered(t)]
  <2>1. data \in SafeMessage
    BY NodeState, NumberedType, SafeSnapshot
  <2>2. link' = Answered(l, t, <<data>>)
    BY <1>5 DEF ReceiveSnapshotRequest
  <2>. HIDE DEF data
  <2>3. link' \in [Link -> SafeLink]
    <3>1. <<data>> \in Seq(SafeMessage)
      BY <2>1
    <3>. QED
      BY <1>5, <2>2, <3>1, AnsweredSafe, ZenonT(40) DEF ReceiveSnapshotRequest
  <2>. QED
    BY <1>5, <2>3 DEF ReceiveSnapshotRequest, SafeInv
<1>6. CASE ReceiveSnapshot(l, t)
  <2>. DEFINE S == restore(msg.blob)
              covered == seen[Other(t)] \cup msg.covers
  <2>1. msg \in SafeMessage /\ Good(S) /\ msg.covers \in SUBSET (Nat \X Nat)
    BY <1>6, IncomingSafe, MessageFields DEF ReceiveSnapshot
  <2>2. covered \in SUBSET (Nat \X Nat)
    BY <2>1, OtherTracker DEF SafeInv
  <2>3. /\ node' = [node EXCEPT ![t].state = S]
        /\ seen' = [seen EXCEPT ![Other(t)] = covered]
        /\ link' = Answered(l, t, <<>>)
        /\ UNCHANGED <<worker, dialer, restarts>>
    BY <1>6 DEF ReceiveSnapshot
  <2>. HIDE DEF S, covered
  <2>4. node' \in [Tracker -> SafeNode]
    BY <2>1, <2>3, NodeState
  <2>5. link' \in [Link -> SafeLink]
    <3>1. Incoming(l, t, "SNAPSHOT_DATA") /\ <<>> \in Seq(SafeMessage)
      BY <1>6, EmptySeq DEF ReceiveSnapshot
    <3>. QED
      BY <2>3, <3>1, AnsweredSafe
  <2>6. seen' \in [Tracker -> SUBSET (Nat \X Nat)]
    BY <2>2, <2>3 DEF SafeInv
  <2>. QED
    BY <2>3, <2>4, <2>5, <2>6 DEF SafeInv
<1>. QED
  BY <1>1, <1>2, <1>3, <1>4, <1>5, <1>6 DEF ProcessPeerMessage

----------------------------------------------------------------------------
(* Faults *)

\* A link loses what it carried.
LEMMA LinkBreakSafe ==
    ASSUME SafeInv, NEW l \in Link, LinkBreak(l)
    PROVE  SafeInv'
<1>. Dialer \in Tracker /\ Acceptor \in Tracker
  BY DEF Tracker
<1>1. PICK a \in 0..Len(link[l].chan[Dialer]), b \in 0..Len(link[l].chan[Acceptor]) :
         link' = [link EXCEPT ![l].up = FALSE,
                              ![l].chan[Dialer] = SubSeq(@, 1, a),
                              ![l].chan[Acceptor] = SubSeq(@, 1, b)]
  BY Zenon DEF LinkBreak
<1>. DEFINE left == SubSeq(link[l].chan[Dialer], 1, a)
            right == SubSeq(link[l].chan[Acceptor], 1, b)
            rec == [link[l] EXCEPT !.up = FALSE, !.chan[Dialer] = left,
                                   !.chan[Acceptor] = right]
<1>2. link[l].chan[Dialer] \in Seq(SafeMessage) /\ link[l].chan[Acceptor] \in Seq(SafeMessage)
  BY DEF SafeInv, SafeLink
<1>3. left \in Seq(SafeMessage) /\ right \in Seq(SafeMessage)
  BY <1>2, LenProperties, SubSeqProperties
<1>4. link' = [link EXCEPT ![l] = rec]
  BY <1>1 DEF SafeInv, SafeLink, Dialer, Acceptor
<1>. HIDE DEF left, right
<1>5. rec \in SafeLink
  BY <1>3 DEF SafeInv, SafeLink
<1>. HIDE DEF rec
<1>6. link' \in [Link -> SafeLink]
  BY <1>4, <1>5 DEF SafeInv
<1>. QED
  BY <1>6 DEF LinkBreak, SafeInv

\* A tracker starts again with nothing, which is safe.
LEMMA RestartSafe ==
    ASSUME SafeInv, NEW t \in Tracker, Restart(t)
    PROVE  SafeInv'
<1>1. FreshNode \in SafeNode
  BY EmptyStateGood, EmptySeq DEF FreshNode, SafeNode, Node, Good
<1>2. node' \in [Tracker -> SafeNode]
  BY <1>1 DEF Restart, SafeInv
<1>3. worker' \in [Tracker -> [Worker -> WorkerRecord]]
  BY DEF Restart, SafeInv, WorkerRecord, Idle
<1>4. dialer' \in DialerRecord
  BY DEF Restart, SafeInv, DialerRecord, Undialed
<1>5. ASSUME NEW l \in Link
      PROVE  Abandoned(t, l) \in SafeLink
  <2>1. link[l] \in SafeLink
    BY DEF SafeInv
  <2>. QED
    BY <2>1, OtherTracker, EmptySeq DEF Abandoned, SafeLink
<1>6. link' \in [Link -> SafeLink]
  BY <1>5 DEF Restart
<1>7. restarts' \in [Tracker -> Nat]
  BY DEF Restart, SafeInv
<1>. QED
  BY <1>2, <1>3, <1>4, <1>6, <1>7 DEF Restart, SafeInv

----------------------------------------------------------------------------
(* Type correctness and consistency *)

\* Two trackers that have just started are safe.
LEMMA InitSafe == Init => SafeInv
<1>. SUFFICES ASSUME Init PROVE SafeInv
  OBVIOUS
<1>1. FreshNode \in SafeNode
  BY EmptyStateGood, EmptySeq DEF FreshNode, SafeNode, Node, Good
<1>2. UnusedLink \in SafeLink
  BY EmptySeq DEF UnusedLink, SafeLink, Empty
<1>. QED
  BY <1>1, <1>2 DEF Init, SafeInv, WorkerRecord, Idle, DialerRecord, Undialed

\* SafeInv is inductive.
LEMMA NextSafe ==
    ASSUME SafeInv, [Next]_vars
    PROVE  SafeInv'
<1>1. ASSUME NEW t \in Tracker, NEW w \in Worker, Session(t, w)
      PROVE  SafeInv'
  BY <1>1, ClientRequestSafe, RecordOpSafe, SendOpSafe DEF Session
<1>2. CASE UNCHANGED vars
  BY <1>2 DEF vars, SafeInv
<1>3. CASE Threads
  BY <1>1, <1>3, ConnectLoopSafe, ListenerSafe, ProcessPeerMessageSafe DEF Threads
<1>4. CASE Faults
  BY <1>4, LinkBreakSafe, RestartSafe DEF Faults
<1>. QED
  BY <1>2, <1>3, <1>4 DEF Next

\* SafeInv always holds.
THEOREM Safety == Spec => []SafeInv
  BY InitSafe, NextSafe, PTL DEF Spec

\* SafeInv says more than the type invariant.
LEMMA SafeTypeOK == SafeInv => TypeOK
<1>. SUFFICES ASSUME SafeInv PROVE TypeOK
  OBVIOUS
<1>1. SafeMessage \subseteq Message
  BY DEF SafeMessage
<1>2. ASSUME NEW msgs \in Seq(SafeMessage) PROVE msgs \in Seq(Message)
  BY <1>1
<1>3. SafeLink \subseteq LinkRecord
  BY <1>2 DEF SafeLink, LinkRecord
<1>4. SafeNode \subseteq Node
  BY DEF SafeNode
<1>. QED
  BY <1>3, <1>4 DEF SafeInv, TypeOK

\* Type correctness of both trackers, their threads and their links.
THEOREM ReplicationTypeCorrect == Spec => []TypeOK
  BY Safety, SafeTypeOK, PTL

\* Whatever links lose and whenever trackers restart, both trackers stay in
\* states their own methods could produce (BothConsistent): replays run the
\* checks of requests, and a snapshot replaces users and groups together.
THEOREM AlwaysBothConsistent == Spec => []BothConsistent
<1>1. SafeInv => BothConsistent
  BY DEF SafeInv, SafeNode, BothConsistent
<1>. QED
  BY <1>1, Safety, PTL

----------------------------------------------------------------------------
(* The log *)

\* The entries of log are numbered up to next - 1, without gaps.
Numbering(log, next) == \A i \in 1..Len(log) : log[i].seq = next - 1 - (Len(log) - i)

\* LogIsSuffix, one log at a time.
LEMMA LogSplit ==
    ASSUME SafeInv
    PROVE  LogIsSuffix <=>
             \A t \in Tracker : Numbering(node[t].log, node[t].next_seq)
<1>1. \A t \in Tracker : DOMAIN node[t].log = 1..Len(node[t].log)
  BY NodeState, LenProperties
<1>. QED
  BY <1>1 DEF LogIsSuffix, Numbering

\* The same of the state after a step.
LEMMA LogSplitNext ==
    ASSUME SafeInv',
           \A t \in Tracker : Numbering(node'[t].log, node'[t].next_seq)
    PROVE  LogIsSuffix'
<1>1. \A t \in Tracker : node'[t].log \in Seq(Entry)
  BY DEF SafeInv, SafeNode, Node
<1>2. \A t \in Tracker : DOMAIN node'[t].log = 1..Len(node'[t].log)
  BY <1>1, LenProperties
<1>. QED
  BY <1>2 DEF LogIsSuffix, Numbering

\* One more entry, with the next number.
LEMMA NumberingAppend ==
    ASSUME NEW log \in Seq(Entry), NEW next \in Nat, NEW entry,
           entry.seq = next, Numbering(log, next)
    PROVE  Numbering(Append(log, entry), next + 1)
<1>. DEFINE longer == Append(log, entry)
<1>1. Len(log) \in Nat /\ Len(longer) = Len(log) + 1
  OBVIOUS
<1>2. longer[Len(log) + 1] = entry /\ \A i \in 1..Len(log) : longer[i] = log[i]
  OBVIOUS
<1>. HIDE DEF longer
<1>3. ASSUME NEW i \in 1..Len(longer)
      PROVE  longer[i].seq = (next + 1) - 1 - (Len(longer) - i)
  <2>1. CASE i = Len(log) + 1
    BY <1>1, <1>2, <2>1
  <2>2. CASE i \in 1..Len(log)
    <3>1. longer[i].seq = next - 1 - (Len(log) - i)
      BY <1>2, <2>2 DEF Numbering
    <3>. QED
      BY <1>1, <2>2, <3>1
  <2>. QED
    BY <1>1, <2>1, <2>2
<1>. QED
  BY <1>3 DEF Numbering, longer

\* A number of entries less, from the front.
LEMMA NumberingAfter ==
    ASSUME NEW log \in Seq(Entry), NEW next \in Nat, NEW seq \in Nat,
           Numbering(log, next)
    PROVE  Numbering(After(log, seq), next)
<1>1. Len(log) \in Nat
  OBVIOUS
<1>2. PICK first \in 1..(Len(log) + 1) : After(log, seq) = SubSeq(log, first, Len(log))
  BY AfterType
<1>. DEFINE rest == SubSeq(log, first, Len(log))
<1>3. /\ Len(rest) = Len(log) + 1 - first
      /\ \A i \in 1..Len(rest) : rest[i] = log[first + i - 1]
  BY <1>1
<1>. HIDE DEF rest
<1>4. ASSUME NEW i \in 1..Len(rest)
      PROVE  rest[i].seq = next - 1 - (Len(rest) - i)
  <2>. DEFINE k == first + i - 1
  <2>1. k \in 1..Len(log) /\ Len(rest) - i = Len(log) - k
    BY <1>1, <1>3
  <2>2. rest[i] = log[k]
    BY <1>3
  <2>. HIDE DEF k
  <2>. QED
    BY <2>1, <2>2 DEF Numbering
<1>. QED
  BY <1>2, <1>4 DEF Numbering, rest

\* A step that touches neither the log nor the numbering keeps LogIsSuffix.
LEMMA LogUntouched ==
    ASSUME LogIsSuffix,
           \A t \in Tracker : /\ node'[t].log = node[t].log
                              /\ node'[t].next_seq = node[t].next_seq
    PROVE  LogIsSuffix'
  BY DEF LogIsSuffix

\* A new entry has the number after that of the last (record_and_replicate).
LEMMA RecordOpLog ==
    ASSUME SafeInv, LogIsSuffix, NEW t \in Tracker, NEW w \in Worker, RecordOp(t, w)
    PROVE  LogIsSuffix'
<1>. DEFINE entry == [seq |-> node[t].next_seq, op |-> worker[t][w].op,
                      born |-> restarts[t]]
<1>1. SafeInv'
  BY RecordOpSafe
<1>2. node' = [node EXCEPT ![t].next_seq = @ + 1, ![t].log = Append(@, entry)]
  BY DEF RecordOp
<1>3. entry.seq = node[t].next_seq
  OBVIOUS
<1>. HIDE DEF entry
<1>4. /\ node'[t].next_seq = node[t].next_seq + 1
      /\ node'[t].log = Append(node[t].log, entry)
      /\ \A u \in Tracker : u # t => node'[u] = node[u]
  BY <1>2 DEF SafeInv, SafeNode, Node
<1>5. Numbering(node'[t].log, node'[t].next_seq)
  BY <1>3, <1>4, NodeState, LogSplit, NumberingAppend
<1>6. \A u \in Tracker : Numbering(node'[u].log, node'[u].next_seq)
  BY <1>4, <1>5, LogSplit
<1>. QED
  BY <1>1, <1>6, LogSplitNext

\* What an ACK leaves of the log is still the end of it.
LEMMA ReceiveAckLog ==
    ASSUME SafeInv, LogIsSuffix, NEW l \in Link, NEW t \in Tracker, ReceiveAck(l, t)
    PROVE  LogIsSuffix'
<1>. DEFINE seq == Head(link[l].chan[Other(t)]).seq
<1>1. SafeInv'
  BY ProcessPeerMessageSafe DEF ProcessPeerMessage
<1>2. seq \in Nat
  BY IncomingSafe, MessageFields DEF ReceiveAck
<1>3. node' = [node EXCEPT ![t].log = After(@, seq)]
  BY DEF ReceiveAck
<1>. HIDE DEF seq
<1>4. /\ node'[t].next_seq = node[t].next_seq
      /\ node'[t].log = After(node[t].log, seq)
      /\ \A u \in Tracker : u # t => node'[u] = node[u]
  BY <1>3 DEF SafeInv, SafeNode, Node
<1>5. Numbering(node'[t].log, node'[t].next_seq)
  BY <1>2, <1>4, NodeState, LogSplit, NumberingAfter
<1>6. \A u \in Tracker : Numbering(node'[u].log, node'[u].next_seq)
  BY <1>4, <1>5, LogSplit
<1>. QED
  BY <1>1, <1>6, LogSplitNext

\* The steps of process_peer_message other than that for an ACK.
LEMMA ProcessPeerMessageLog ==
    ASSUME SafeInv, LogIsSuffix, NEW l \in Link, NEW t \in Tracker,
           ProcessPeerMessage(l, t)
    PROVE  LogIsSuffix'
<1>1. CASE ReceiveAck(l, t)
  BY <1>1, ReceiveAckLog
<1>2. CASE Flush(l, t) \/ ReceiveCatchup(l, t) \/ ReceiveSnapshotRequest(l, t)
  BY <1>2, LogUntouched DEF Flush, ReceiveCatchup, ReceiveSnapshotRequest
<1>3. CASE ReceiveOp(l, t)
  <2>1. PICK S, n : node' = [node EXCEPT ![t].state = S, ![t].applied_peer_seq = n]
    BY <1>3 DEF ReceiveOp
  <2>. QED
    BY <2>1, LogUntouched DEF SafeInv, SafeNode, Node
<1>4. CASE ReceiveSnapshot(l, t)
  <2>1. PICK S : node' = [node EXCEPT ![t].state = S]
    BY <1>4 DEF ReceiveSnapshot
  <2>. QED
    BY <2>1, LogUntouched DEF SafeInv, SafeNode, Node
<1>. QED
  BY <1>1, <1>2, <1>3, <1>4 DEF ProcessPeerMessage

\* LogIsSuffix is inductive, given the types.
LEMMA NextLog ==
    ASSUME SafeInv, LogIsSuffix, [Next]_vars
    PROVE  LogIsSuffix'
<1>. Dialer \in Tracker /\ Acceptor \in Tracker
  BY DEF Tracker
<1>1. ASSUME NEW t \in Tracker, NEW w \in Worker, Session(t, w)
      PROVE  LogIsSuffix'
  <2>1. CASE ClientRequest(t, w)
    <3>1. PICK S : node' = [node EXCEPT ![t].state = S]
      BY <2>1 DEF ClientRequest
    <3>. QED
      BY <3>1, LogUntouched DEF SafeInv, SafeNode, Node
  <2>2. CASE RecordOp(t, w)
    BY <2>2, RecordOpLog
  <2>3. CASE SendOp(t, w)
    BY <2>3, LogUntouched DEF SendOp
  <2>. QED
    BY <1>1, <2>1, <2>2, <2>3 DEF Session
<1>2. CASE ConnectLoop
  <2>1. PICK fd : node' = [node EXCEPT ![Dialer].out_fd = fd] \/ node' = node
    BY <1>2 DEF ConnectLoop, Dial, SendHello, Ask, DialerHangup
  <2>2. CASE node' = node
    BY <2>2, LogUntouched
  <2>3. CASE node' = [node EXCEPT ![Dialer].out_fd = fd]
    BY <2>3, LogUntouched DEF SafeInv, SafeNode, Node
  <2>. QED
    BY <2>1, <2>2, <2>3
<1>3. ASSUME NEW l \in Link, Listener(l)
      PROVE  LogIsSuffix'
  <2>1. PICK fd : node' = [node EXCEPT ![Acceptor].out_fd = fd] \/ node' = node
    <3>1. CASE AcceptPeer(l)
      BY <3>1, Zenon DEF AcceptPeer
    <3>2. CASE ServerHangup(l)
      BY <3>2 DEF ServerHangup
    <3>. QED
      BY <1>3, <3>1, <3>2 DEF Listener, LastReceive, TakenForClient, ServePeer
  <2>2. CASE node' = node
    BY <2>2, LogUntouched
  <2>3. CASE node' = [node EXCEPT ![Acceptor].out_fd = fd]
    BY <2>3, LogUntouched DEF SafeInv, SafeNode, Node
  <2>. QED
    BY <2>1, <2>2, <2>3
<1>4. ASSUME NEW t \in Tracker, Restart(t)
      PROVE  LogIsSuffix'
  <2>1. node'[t] = FreshNode /\ \A u \in Tracker : u # t => node'[u] = node[u]
    BY <1>4 DEF Restart, SafeInv
  <2>. QED
    BY <2>1 DEF LogIsSuffix, FreshNode
<1>5. CASE (\E l \in Link : LinkBreak(l)) \/ UNCHANGED vars
  BY <1>5, LogUntouched DEF LinkBreak, vars
<1>. QED
  BY <1>1, <1>2, <1>3, <1>4, <1>5, ProcessPeerMessageLog DEF Next, Threads, Faults

\* The log of a tracker holds the latest numbers it gave out, in order and
\* without gaps, through any ACKs, catch-ups and restarts (LogIsSuffix).
THEOREM LogAlwaysSuffix == Spec => []LogIsSuffix
<1>1. Init => LogIsSuffix
  BY DEF Init, LogIsSuffix, FreshNode
<1>. QED
  BY <1>1, NextLog, Safety, PTL DEF Spec

----------------------------------------------------------------------------
(* One link to the peer *)

\* A thread at its last message has no other before it, and writes in vain.
Spent(rec) == rec.server = "last" => ~rec.up /\ Len(rec.chan[Dialer]) <= 1

\* OnePeerLink in these terms.
LEMMA PeerLinkParts ==
    OnePeerLink <=>
      \A l \in Link : /\ link[l].server \in {"start", "peer"} <=> node[Acceptor].out_fd = l
                     /\ Spent(link[l])
  BY DEF OnePeerLink, Spent, Writable

\* The thread of a link stays where it is.
Stays(old, new) == new.server = old.server /\ (Spent(old) => Spent(new))

\* A step that touches neither __out_fd of tracker 1 nor the threads of its
\* links keeps OnePeerLink.
LEMMA PeerLinkUntouched ==
    ASSUME OnePeerLink,
           node'[Acceptor].out_fd = node[Acceptor].out_fd,
           \A l \in Link : Stays(link[l], link'[l])
    PROVE  OnePeerLink'
<1>1. \A l \in Link : Spent(link'[l])
  BY PeerLinkParts DEF Stays
<1>. QED
  BY <1>1 DEF OnePeerLink, Spent, Writable, Stays

\* Writing to a link is none of its thread's business, and in vain once the
\* link is down.
LEMMA WrittenStays ==
    ASSUME NEW fd, NEW t \in Tracker, NEW msgs,
           NEW links, links \in [Link -> LinkRecord]
    PROVE  \A l \in Link : Stays(links[l], Written(links, fd, t, msgs)[l])
<1>. SUFFICES ASSUME NEW l \in Link PROVE Stays(links[l], Written(links, fd, t, msgs)[l])
  OBVIOUS
<1>1. CASE l = fd /\ Writable(links[fd], t)
  <2>. DEFINE new == [links[l] EXCEPT !.chan[t] = @ \o msgs]
  <2>1. Written(links, fd, t, msgs)[l] = new
    BY <1>1 DEF Written
  <2>2. new.server = links[l].server /\ new.up = links[l].up /\ links[l].up
    BY <1>1 DEF LinkRecord, Writable
  <2>. HIDE DEF new
  <2>. QED
    BY <2>1, <2>2 DEF Stays, Spent
<1>2. CASE ~(l = fd /\ Writable(links[fd], t))
  BY <1>2 DEF Written, Stays
<1>. QED
  BY <1>1, <1>2

\* The links have their types.
LEMMA LinkTypes == ASSUME SafeInv PROVE link \in [Link -> LinkRecord]
  BY SafeTypeOK DEF TypeOK

\* Nor is what waits to be written.
LEMMA OutboxStays ==
    ASSUME NEW links \in [Link -> LinkRecord], NEW fd, NEW t \in Tracker, NEW msgs
    PROVE  \A l \in Link : Stays(links[l], [links EXCEPT ![fd].outbox[t] = msgs][l])
  BY DEF Stays, Spent, LinkRecord

\* Reading leaves fewer messages.
LEMMA AnsweredStays ==
    ASSUME SafeInv, NEW l \in Link, NEW t \in Tracker, NEW msgs,
           link[l].chan[Other(t)] # <<>>
    PROVE  \A k \in Link : Stays(link[k], Answered(l, t, msgs)[k])
<1>. SUFFICES ASSUME NEW k \in Link PROVE Stays(link[k], Answered(l, t, msgs)[k])
  OBVIOUS
<1>1. CASE k # l
  BY <1>1, LinkTypes DEF Answered, Stays
<1>2. CASE k = l
  <2>. DEFINE rest == Tail(link[l].chan[Other(t)])
              new == [link[l] EXCEPT !.chan[Other(t)] = rest, !.outbox[t] = msgs]
  <2>1. Answered(l, t, msgs)[l] = new
    BY LinkTypes DEF Answered
  <2>2. Other(t) \in Tracker /\ link[l] \in LinkRecord /\ Dialer \in Tracker
    BY LinkTypes, OtherTracker DEF Tracker
  <2>3. new.server = link[l].server /\ new.up = link[l].up
    BY <2>2 DEF LinkRecord
  <2>4. Len(rest) <= Len(link[l].chan[Other(t)]) /\ Len(link[l].chan[Dialer]) \in Nat
    BY <2>2, HeadTailProperties DEF LinkRecord
  <2>5. new.chan[Dialer] = IF Other(t) = Dialer THEN rest ELSE link[l].chan[Dialer]
    BY <2>2 DEF LinkRecord
  <2>6. Len(rest) \in Nat
    BY <2>2, HeadTailProperties DEF LinkRecord
  <2>. HIDE DEF new, rest
  <2>. QED
    BY <1>2, <2>1, <2>3, <2>4, <2>5, <2>6 DEF Stays, Spent
<1>. QED
  BY <1>1, <1>2

\* connect_loop knows nothing of the threads at the other end, except that
\* a link it dials is new there.
LEMMA ConnectLoopPeerLink ==
    ASSUME SafeInv, OnePeerLink, ConnectLoop
    PROVE  OnePeerLink'
<1>. Dialer \in Tracker /\ Acceptor \in Tracker /\ Dialer # Acceptor
  BY DEF Tracker, Dialer, Acceptor
<1>1. CASE SendHello
  <2>. DEFINE msgs == <<[type |-> "HELLO"]>>
  <2>1. node' = node /\ link' = Written(link, dialer.fd, Dialer, msgs)
    BY <1>1 DEF SendHello
  <2>. HIDE DEF msgs
  <2>. QED
    BY <2>1, LinkTypes, WrittenStays, PeerLinkUntouched
<1>2. CASE Ask
  <2>1. PICK msgs : link' = [link EXCEPT ![dialer.fd].outbox[Dialer] = msgs]
    BY <1>2 DEF Ask
  <2>2. node' = node
    BY <1>2 DEF Ask
  <2>3. \A l \in Link : Stays(link[l], link'[l])
    BY <2>1, LinkTypes, OutboxStays
  <2>. QED
    BY <2>2, <2>3, PeerLinkUntouched
<1>3. ASSUME NEW l \in Link, Dial(l)
      PROVE  OnePeerLink'
  <2>1. /\ link[l].server = "none"
        /\ link' = [link EXCEPT ![l].up = TRUE, ![l].server = "unread"]
        /\ node' = [node EXCEPT ![Dialer].out_fd = l]
    BY <1>3 DEF Dial
  <2>2. node'[Acceptor] = node[Acceptor]
    BY <2>1 DEF SafeInv
  <2>3. /\ link'[l].server = "unread"
        /\ \A k \in Link : k # l => link'[k] = link[k]
    BY <2>1, LinkTypes DEF LinkRecord
  <2>. QED
    BY <2>1, <2>2, <2>3 DEF OnePeerLink
<1>4. ASSUME NEW l \in Link, DialerHangup(l)
      PROVE  OnePeerLink'
  <2>1. link' = link /\ node' = [node EXCEPT ![Dialer].out_fd = NoLink]
    BY <1>4 DEF DialerHangup
  <2>2. node'[Acceptor] = node[Acceptor]
    BY <2>1 DEF SafeInv
  <2>. QED
    BY <2>1, <2>2, PeerLinkUntouched DEF Stays
<1>. QED
  BY <1>1, <1>2, <1>3, <1>4 DEF ConnectLoop

\* When a tracker exits the threads at the other end stay where they are.
LEMMA AbandonedStays ==
    ASSUME link \in [Link -> LinkRecord]
    PROVE  \A l \in Link : Stays(link[l], Abandoned(Dialer, l))
<1>. SUFFICES ASSUME NEW l \in Link, link[l].server # "none"
              PROVE  Stays(link[l], Abandoned(Dialer, l))
  BY DEF Abandoned, Stays
<1>1. Dialer \in Tracker /\ Acceptor \in Tracker /\ Dialer # Acceptor /\ Other(Dialer) = Acceptor
  BY DEF Tracker, Dialer, Acceptor, Other
<1>2. /\ Abandoned(Dialer, l).server = link[l].server
      /\ ~Abandoned(Dialer, l).up
      /\ Abandoned(Dialer, l).chan[Dialer] = link[l].chan[Dialer]
  BY <1>1 DEF Abandoned, LinkRecord
<1>. QED
  BY <1>2 DEF Stays, Spent

\* The thread of a superseded link has one message left, if any.
LEMMA EndsSpent ==
    ASSUME NEW rec \in LinkRecord
    PROVE  /\ Closed(rec).server \notin {"start", "peer"} /\ Spent(Closed(rec))
           /\ LastMessage(rec).server \notin {"start", "peer"} /\ Spent(LastMessage(rec))
<1>1. Closed(rec).server = "closed"
  BY DEF Closed, LinkRecord
<1>2. /\ LastMessage(rec).server = "last" /\ ~LastMessage(rec).up
      /\ LastMessage(rec).chan[Dialer] = <<Head(rec.chan[Dialer])>>
  BY DEF LastMessage, LinkRecord, Tracker
<1>. QED
  BY <1>1, <1>2 DEF Spent

LEMMA SupersededSpent ==
    ASSUME NEW rec \in LinkRecord, NEW new \in Superseded(rec)
    PROVE  new.server \notin {"start", "peer"} /\ Spent(new)
<1>1. CASE new = [rec EXCEPT !.server = "superseded"]
  BY <1>1 DEF Spent, LinkRecord
<1>. QED
  BY <1>1, SupersededCases, EndsSpent

\* A link becomes the link to the peer, and stops being it, together with
\* __out_fd (handle_peer_connection).
LEMMA ListenerPeerLink ==
    ASSUME SafeInv, OnePeerLink, NEW l \in Link, Listener(l)
    PROVE  OnePeerLink'
<1>. Acceptor \in Tracker
  BY DEF Tracker
<1>. NoLink \notin Link
  BY BoundAssumption DEF Link, NoLink
<1>. DEFINE old == node[Acceptor].out_fd
<1>1. CASE AcceptPeer(l)
  <2>. DEFINE read == [link EXCEPT ![l].server = "start", ![l].chan[Dialer] = Tail(@)]
  <2>1. /\ link[l].server = "unread"
        /\ node' = [node EXCEPT ![Acceptor].out_fd = l]
        /\ \/ old = NoLink /\ link' = read
           \/ old # NoLink /\ \E rec \in Superseded(link[old]) : link' = [read EXCEPT ![old] = rec]
    BY <1>1, Zenon DEF AcceptPeer
  <2>2. node'[Acceptor].out_fd = l
    BY <2>1 DEF SafeInv, SafeNode, Node
  <2>3. old \in Link \cup {NoLink} /\ old # l
    BY <2>1 DEF OnePeerLink, SafeInv, SafeNode, Node
  <2>4. /\ DOMAIN read = Link
        /\ read[l].server = "start"
        /\ \A k \in Link : k # l => read[k] = link[k]
    BY LinkTypes DEF LinkRecord
  <2>. HIDE DEF old, read
  <2>5. CASE old = NoLink
    <3>1. \A k \in Link : k # l => link'[k] = link[k] /\ link[k].server \notin {"start", "peer"}
      BY <2>1, <2>4, <2>5 DEF OnePeerLink, old
    <3>. QED
      BY <2>1, <2>2, <2>4, <2>5, <3>1 DEF OnePeerLink
  <2>6. ASSUME NEW rec \in Superseded(link[old]), old # NoLink, link' = [read EXCEPT ![old] = rec]
        PROVE  OnePeerLink'
    <3>1. old \in Link /\ old # l /\ link'[old] = rec /\ link'[l] = read[l]
      BY <2>3, <2>4, <2>6
    <3>2. \A k \in Link : k # l /\ k # old =>
            link'[k] = link[k] /\ link[k].server \notin {"start", "peer"}
      BY <2>4, <2>6 DEF OnePeerLink, old
    <3>3. rec.server \notin {"start", "peer"} /\ Spent(rec)
      BY <2>6, <3>1, LinkTypes, SupersededSpent
    <3>. QED
      BY <2>2, <2>4, <3>1, <3>2, <3>3 DEF OnePeerLink, Spent, Writable
  <2>. QED
    BY <2>1, <2>5, <2>6
<1>2. CASE TakenForClient(l)
  <2>1. /\ link[l].server \in {"unread", "client"}
        /\ link' = [link EXCEPT ![l].server = "client", ![l].chan[Dialer] = Tail(@)]
        /\ node' = node
    BY <1>2 DEF TakenForClient
  <2>2. /\ link'[l].server = "client"
        /\ \A k \in Link : k # l => link'[k] = link[k]
    BY <2>1, LinkTypes DEF LinkRecord
  <2>. QED
    BY <2>1, <2>2 DEF OnePeerLink
<1>3. CASE ServePeer(l)
  <2>1. PICK msgs : link' = [link EXCEPT ![l].server = "peer", ![l].outbox[Acceptor] = msgs]
    BY <1>3 DEF ServePeer
  <2>2. link[l].server = "start" /\ node' = node
    BY <1>3 DEF ServePeer
  <2>3. /\ link'[l].server = "peer"
        /\ \A k \in Link : k # l => link'[k] = link[k]
    BY <2>1, LinkTypes DEF LinkRecord
  <2>. QED
    BY <2>2, <2>3 DEF OnePeerLink
<1>4. CASE ServerHangup(l)
  <2>1. /\ link' = [link EXCEPT ![l] = Closed(@)]
        /\ node' = [node EXCEPT ![Acceptor].out_fd = IF @ = l THEN NoLink ELSE @]
    BY <1>4 DEF ServerHangup
  <2>2. node'[Acceptor].out_fd = IF old = l THEN NoLink ELSE old
    BY <2>1 DEF SafeInv, SafeNode, Node
  <2>3. link'[l] = Closed(link[l]) /\ \A k \in Link : k # l => link'[k] = link[k]
    BY <2>1, LinkTypes
  <2>4. Closed(link[l]).server = "closed"
    BY LinkTypes DEF Closed, LinkRecord
  <2>. QED
    BY <2>2, <2>3, <2>4 DEF OnePeerLink
<1>5. CASE LastReceive(l)
  <2>1. /\ link[l].server = "superseded" /\ node' = node
        /\ \/ link' = [link EXCEPT ![l] = Closed(@)]
           \/ link' = [link EXCEPT ![l] = LastMessage(@)]
    BY <1>5 DEF LastReceive
  <2>2. /\ link'[l] = Closed(link[l]) \/ link'[l] = LastMessage(link[l])
        /\ \A k \in Link : k # l => link'[k] = link[k]
    BY <2>1, LinkTypes
  <2>3. link'[l].server \notin {"start", "peer"} /\ Spent(link'[l])
    BY <2>2, LinkTypes, EndsSpent
  <2>. QED
    BY <2>1, <2>2, <2>3 DEF OnePeerLink, Spent, Writable
<1>. QED
  BY <1>1, <1>2, <1>3, <1>4, <1>5 DEF Listener

\* process_peer_message leaves __out_fd and the threads alone.
LEMMA ProcessPeerMessagePeerLink ==
    ASSUME SafeInv, OnePeerLink, NEW l \in Link, NEW t \in Tracker,
           ProcessPeerMessage(l, t)
    PROVE  OnePeerLink'
<1>1. CASE Flush(l, t)
  <2>. DEFINE flushed == [link EXCEPT ![l].outbox[t] = <<>>]
              msgs == link[l].outbox[t]
  <2>1. node' = node /\ link' = Written(flushed, l, t, msgs)
    BY <1>1 DEF Flush
  <2>2. \A k \in Link : Stays(link[k], flushed[k])
    BY LinkTypes, OutboxStays
  <2>3. flushed \in [Link -> LinkRecord]
    <3>. <<>> \in Seq(Message)
      OBVIOUS
    <3>. QED
      BY LinkTypes DEF LinkRecord
  <2>. HIDE DEF flushed, msgs
  <2>4. \A k \in Link : Stays(flushed[k], link'[k])
    BY <2>1, <2>3, WrittenStays
  <2>. QED
    BY <2>1, <2>2, <2>4, PeerLinkUntouched DEF Stays
<1>2. ASSUME ~Flush(l, t)
      PROVE  /\ \E msgs : link' = Answered(l, t, msgs)
             /\ link[l].chan[Other(t)] # <<>>
             /\ \A u \in Tracker : node'[u].out_fd = node[u].out_fd
  <2>1. CASE ReceiveCatchup(l, t)
    BY <2>1 DEF ReceiveCatchup, Incoming
  <2>2. CASE ReceiveSnapshotRequest(l, t)
    BY <2>2 DEF ReceiveSnapshotRequest, Incoming
  <2>3. CASE ReceiveAck(l, t)
    <3>1. PICK log : node' = [node EXCEPT ![t].log = log]
      BY <2>3 DEF ReceiveAck
    <3>. QED
      BY <2>3, <3>1 DEF ReceiveAck, Incoming, SafeInv, SafeNode, Node
  <2>4. CASE ReceiveOp(l, t)
    <3>1. PICK S, n : node' = [node EXCEPT ![t].state = S, ![t].applied_peer_seq = n]
      BY <2>4 DEF ReceiveOp
    <3>2. (\E msgs : link' = Answered(l, t, msgs)) /\ link[l].chan[Other(t)] # <<>>
      BY <2>4 DEF ReceiveOp, Incoming
    <3>. QED
      BY <3>1, <3>2 DEF SafeInv, SafeNode, Node
  <2>5. CASE ReceiveSnapshot(l, t)
    <3>1. PICK S : node' = [node EXCEPT ![t].state = S]
      BY <2>5 DEF ReceiveSnapshot
    <3>. QED
      BY <2>5, <3>1 DEF ReceiveSnapshot, Incoming, SafeInv, SafeNode, Node
  <2>. QED
    BY <1>2, <2>1, <2>2, <2>3, <2>4, <2>5 DEF ProcessPeerMessage
<1>3. ASSUME NEW msgs, link' = Answered(l, t, msgs), link[l].chan[Other(t)] # <<>>
      PROVE  \A k \in Link : Stays(link[k], link'[k])
  BY <1>3, AnsweredStays
<1>. QED
  BY <1>1, <1>2, <1>3, PeerLinkUntouched DEF Tracker

\* OnePeerLink is inductive, given the types.
LEMMA NextPeerLink ==
    ASSUME SafeInv, OnePeerLink, [Next]_vars
    PROVE  OnePeerLink'
<1>. Dialer \in Tracker /\ Acceptor \in Tracker /\ Dialer # Acceptor
  BY DEF Tracker, Dialer, Acceptor
<1>. NoLink \notin Link
  BY BoundAssumption DEF Link, NoLink
<1>1. ASSUME NEW t \in Tracker, NEW w \in Worker, Session(t, w)
      PROVE  OnePeerLink'
  <2>1. CASE ClientRequest(t, w)
    <3>1. PICK S : node' = [node EXCEPT ![t].state = S]
      BY <2>1 DEF ClientRequest
    <3>2. link' = link
      BY <2>1 DEF ClientRequest
    <3>. QED
      BY <3>1, <3>2, PeerLinkUntouched DEF SafeInv, SafeNode, Node, Stays
  <2>2. CASE RecordOp(t, w)
    <3>1. PICK n, log : node' = [node EXCEPT ![t].next_seq = n, ![t].log = log]
      BY <2>2 DEF RecordOp
    <3>2. link' = link
      BY <2>2 DEF RecordOp
    <3>. QED
      BY <3>1, <3>2, PeerLinkUntouched DEF SafeInv, SafeNode, Node, Stays
  <2>3. CASE SendOp(t, w)
    <3>. DEFINE msgs == <<OpMessage(worker[t][w].entry)>>
    <3>1. node' = node /\ link' = Written(link, worker[t][w].fd, t, msgs)
      BY <2>3 DEF SendOp
    <3>. HIDE DEF msgs
    <3>. QED
      BY <3>1, LinkTypes, WrittenStays, PeerLinkUntouched
  <2>. QED
    BY <1>1, <2>1, <2>2, <2>3 DEF Session
<1>2. ASSUME NEW l \in Link, LinkBreak(l)
      PROVE  OnePeerLink'
  <2>1. PICK a, b : link' = [link EXCEPT ![l].up = FALSE,
                                         ![l].chan[Dialer] = SubSeq(@, 1, a),
                                         ![l].chan[Acceptor] = SubSeq(@, 1, b)]
    BY <1>2, Zenon DEF LinkBreak
  <2>2. node' = node /\ link[l].up
    BY <1>2 DEF LinkBreak
  <2>3. \A k \in Link : Stays(link[k], link'[k])
    <3>1. link'[l].server = link[l].server /\ \A k \in Link : k # l => link'[k] = link[k]
      BY <2>1, LinkTypes DEF LinkRecord
    <3>. QED
      BY <2>2, <3>1 DEF Stays, Spent
  <2>. QED
    BY <2>2, <2>3, PeerLinkUntouched
<1>3. ASSUME NEW t \in Tracker, Restart(t)
      PROVE  OnePeerLink'
  <2>1. /\ node' = [node EXCEPT ![t] = FreshNode]
        /\ link' = [l \in Link |-> Abandoned(t, l)]
    BY <1>3 DEF Restart
  <2>2. \A l \in Link :
          link'[l].server = IF link[l].server # "none" /\ t = Acceptor
                            THEN "closed" ELSE link[l].server
    BY <2>1, LinkTypes DEF Abandoned, LinkRecord
  <2>3. CASE t = Dialer
    <3>1. node'[Acceptor] = node[Acceptor]
      BY <2>1, <2>3 DEF SafeInv
    <3>2. \A l \in Link : Stays(link[l], link'[l])
      BY <2>1, <2>3, LinkTypes, AbandonedStays
    <3>. QED
      BY <3>1, <3>2, PeerLinkUntouched
  <2>4. CASE t = Acceptor
    <3>1. node'[Acceptor].out_fd = NoLink
      BY <2>1, <2>4 DEF SafeInv, FreshNode
    <3>2. \A l \in Link : link'[l].server \in {"none", "closed"}
      BY <2>2, <2>4
    <3>. QED
      BY <3>1, <3>2 DEF OnePeerLink
  <2>. QED
    BY <2>3, <2>4 DEF Tracker
<1>4. CASE UNCHANGED vars
  BY <1>4, PeerLinkUntouched DEF vars, Stays
<1>. QED
  BY <1>1, <1>2, <1>3, <1>4, ConnectLoopPeerLink, ListenerPeerLink,
     ProcessPeerMessagePeerLink DEF Next, Threads, Faults

\* Tracker 1 serves one link to the peer at most, the one in __out_fd, through
\* any dialing, superseding, hang-ups and restarts (OnePeerLink).
THEOREM AlwaysOnePeerLink == Spec => []OnePeerLink
<1>1. Init => OnePeerLink
  BY BoundAssumption
     DEF Init, OnePeerLink, FreshNode, UnusedLink, Tracker, Link, NoLink
<1>. QED
  BY <1>1, NextPeerLink, Safety, PTL DEF Spec

----------------------------------------------------------------------------
(* ACKs.  A tracker that restarts numbers its operations from 1 again, so an *)
(* ACK must never outlive the incarnation it is meant for.  It does not: the *)
(* links of a tracker go down with it, and an ACK is written only to a link  *)
(* that is up, so to the incarnation whose operation came over that link.    *)
(* AckInv says so of everything that is written or about to be.              *)

\* The numbers of each tracker's incarnation that its peer has processed.
Acked == [t \in Tracker |->
            {n \in Nat : n < node[t].next_seq /\ <<restarts[t], n>> \in seen[t]}]

\* The entries each tracker's incarnation has numbered.
Given == [t \in Tracker |->
            {e \in Entry : e.born = restarts[t] /\ e.seq < node[t].next_seq}]

\* The messages whose ACKs are of numbers in A and whose operations are in G.
Telling(A, G) ==
    {m \in SafeMessage : /\ m.type = "ACK" => m.seq \in A
                         /\ m.type = "OP" => m.entry \in G}

\* What a link carries: ACKs are right wherever they can still be read, and on
\* a link that is up operations are of the incarnation that writes to it.
LinkTells(rec, A, G) ==
    \A t \in Tracker :
        /\ rec.chan[t] \in Seq(Telling(A[Other(t)], Entry))
        /\ rec.up => /\ rec.chan[t] \in Seq(Telling(A[Other(t)], G[t]))
                     /\ rec.outbox[t] \in Seq(Telling(A[Other(t)], G[t]))
        /\ rec.server = "none" => /\ ~rec.up /\ rec.chan[t] = <<>>
                                  /\ rec.outbox[t] \in Seq(Telling({}, {}))

LinksTell == \A l \in Link : LinkTells(link[l], Acked, Given)

WorkersTell ==
    \A t \in Tracker : \A w \in Worker :
        worker[t][w].pc = "send" => worker[t][w].entry \in Given[t]

LogsTell == \A t \in Tracker : node[t].log \in Seq(Given[t])

AckInv == LinksTell /\ WorkersTell /\ LogsTell /\ AckSound

\* More numbers and entries make more messages right.
LEMMA TellingMore ==
    ASSUME NEW A, NEW B, A \subseteq B, NEW G, NEW H, G \subseteq H
    PROVE  /\ Seq(Telling(A, G)) \subseteq Seq(Telling(B, H))
           /\ Seq(Telling(A, G)) \subseteq Seq(Telling(B, Entry))
<1>1. Telling(A, G) \subseteq Telling(B, H)
  BY DEF Telling
<1>2. Telling(A, G) \subseteq Telling(B, Entry)
  BY MessageFields DEF Telling
<1>. QED
  BY <1>1, <1>2, SeqMonotonic

LEMMA LinkTellsMore ==
    ASSUME NEW A, NEW B, NEW G, NEW H,
           \A t \in Tracker : A[t] \subseteq B[t] /\ G[t] \subseteq H[t],
           NEW rec, LinkTells(rec, A, G)
    PROVE  LinkTells(rec, B, H)
<1>. SUFFICES ASSUME NEW t \in Tracker
              PROVE  /\ rec.chan[t] \in Seq(Telling(B[Other(t)], Entry))
                     /\ rec.up => /\ rec.chan[t] \in Seq(Telling(B[Other(t)], H[t]))
                                  /\ rec.outbox[t] \in Seq(Telling(B[Other(t)], H[t]))
                     /\ rec.server = "none" => /\ ~rec.up /\ rec.chan[t] = <<>>
                                               /\ rec.outbox[t] \in Seq(Telling({}, {}))
  BY DEF LinkTells
<1>1. A[Other(t)] \subseteq B[Other(t)] /\ G[t] \subseteq H[t] /\ Entry \subseteq Entry
  BY OtherTracker
<1>2. /\ Seq(Telling(A[Other(t)], Entry)) \subseteq Seq(Telling(B[Other(t)], Entry))
      /\ Seq(Telling(A[Other(t)], G[t])) \subseteq Seq(Telling(B[Other(t)], H[t]))
  BY <1>1, TellingMore
<1>. QED
  BY <1>2 DEF LinkTells

\* The numbers given out and processed grow, between restarts.
LEMMA TellGrown ==
    ASSUME SafeInv, restarts' = restarts,
           \A t \in Tracker : /\ node'[t].next_seq \in Nat
                              /\ node[t].next_seq <= node'[t].next_seq
                              /\ seen[t] \subseteq seen'[t]
    PROVE  \A t \in Tracker : Acked[t] \subseteq Acked'[t] /\ Given[t] \subseteq Given'[t]
<1>. SUFFICES ASSUME NEW t \in Tracker
              PROVE  Acked[t] \subseteq Acked'[t] /\ Given[t] \subseteq Given'[t]
  OBVIOUS
<1>1. /\ Acked[t] = {n \in Nat : n < node[t].next_seq /\ <<restarts[t], n>> \in seen[t]}
      /\ Acked'[t] = {n \in Nat : n < node'[t].next_seq /\ <<restarts[t], n>> \in seen'[t]}
  BY DEF Acked
<1>2. /\ Given[t] = {e \in Entry : e.born = restarts[t] /\ e.seq < node[t].next_seq}
      /\ Given'[t] = {e \in Entry : e.born = restarts[t] /\ e.seq < node'[t].next_seq}
  BY DEF Given
<1>3. node[t].next_seq \in Nat /\ \A e \in Entry : e.seq \in Nat
  BY NodeState DEF Entry
<1>. QED
  BY <1>1, <1>2, <1>3

\* A step between restarts that numbers nothing and trims nothing.
LEMMA AckUntouched ==
    ASSUME SafeInv, SafeInv', AckInv, restarts' = restarts,
           \A t \in Tracker : /\ node'[t].log = node[t].log
                              /\ node'[t].next_seq = node[t].next_seq
                              /\ seen[t] \subseteq seen'[t]
                              /\ \A w \in Worker : worker'[t][w].pc = "send" =>
                                   worker'[t][w] = worker[t][w],
           \A l \in Link : \/ LinkTells(link'[l], Acked, Given)
                           \/ LinkTells(link'[l], Acked', Given')
    PROVE  AckInv'
<1>1. \A t \in Tracker : Acked[t] \subseteq Acked'[t] /\ Given[t] \subseteq Given'[t]
  BY NodeState, TellGrown
<1>2. LinksTell'
  <2>. SUFFICES ASSUME NEW l \in Link PROVE LinkTells(link'[l], Acked', Given')
    BY DEF LinksTell
  <2>. QED
    BY <1>1, LinkTellsMore
<1>3. WorkersTell'
  BY <1>1 DEF AckInv, WorkersTell
<1>4. LogsTell'
  <2>. SUFFICES ASSUME NEW t \in Tracker PROVE node'[t].log \in Seq(Given'[t])
    BY DEF LogsTell
  <2>1. node[t].log \in Seq(Given[t]) /\ Given[t] \subseteq Given'[t]
    BY <1>1 DEF AckInv, LogsTell
  <2>2. node[t].log \in Seq(Given'[t])
    BY <2>1, SeqMonotonic
  <2>. QED
    BY <2>2
<1>5. AckSound'
  BY DEF AckInv, AckSound, Trimmed, Processed
<1>. QED
  BY <1>2, <1>3, <1>4, <1>5 DEF AckInv

\* Writing right messages (send_msg).
LEMMA WrittenTells ==
    ASSUME NEW A, NEW G, NEW links \in [Link -> SafeLink], NEW fd, NEW t \in Tracker,
           NEW msgs,
           fd \in Link /\ links[fd].up => msgs \in Seq(Telling(A[Other(t)], G[t])),
           \A l \in Link : LinkTells(links[l], A, G)
    PROVE  \A l \in Link : LinkTells(Written(links, fd, t, msgs)[l], A, G)
<1>1. CASE fd \in Link /\ Writable(links[fd], t)
  <2>. DEFINE new == links[fd].chan[t] \o msgs
              rec == [links[fd] EXCEPT !.chan[t] = new]
  <2>0. links[fd].up /\ msgs \in Seq(Telling(A[Other(t)], G[t]))
    BY <1>1 DEF Writable
  <2>1. links[fd].chan[t] \in Seq(Telling(A[Other(t)], G[t]))
    BY <1>1, <2>0 DEF LinkTells
  <2>2. new \in Seq(Telling(A[Other(t)], G[t]))
    BY <2>0, <2>1, ConcatProperties
  <2>3. new \in Seq(Telling(A[Other(t)], Entry))
    BY <2>2, TellingMore
  <2>4. Written(links, fd, t, msgs) = [links EXCEPT ![fd] = rec]
    BY <1>1 DEF Written
  <2>. HIDE DEF new
  <2>5. /\ rec.up = links[fd].up /\ rec.server = links[fd].server
        /\ rec.outbox = links[fd].outbox
        /\ \A u \in Tracker : rec.chan[u] = IF u = t THEN new ELSE links[fd].chan[u]
    BY <1>1 DEF SafeLink
  <2>. HIDE DEF rec
  <2>6. LinkTells(rec, A, G)
    BY <1>1, <2>0, <2>2, <2>3, <2>5 DEF LinkTells
  <2>. QED
    BY <1>1, <2>4, <2>6
<1>2. CASE ~(fd \in Link /\ Writable(links[fd], t))
  BY <1>2 DEF Written
<1>. QED
  BY <1>1, <1>2

\* Replacing the outbox of an end.
LEMMA OutboxTells ==
    ASSUME NEW A, NEW G, NEW rec \in SafeLink, LinkTells(rec, A, G), NEW t \in Tracker,
           NEW msgs, NEW s \in {"unread", "start", "peer", "client", "closed", rec.server},
           rec.up => msgs \in Seq(Telling(A[Other(t)], G[t])),
           rec.server = "none" => msgs \in Seq(Telling({}, {}))
    PROVE  LinkTells([rec EXCEPT !.outbox[t] = msgs, !.server = s], A, G)
<1>. DEFINE new == [rec EXCEPT !.outbox[t] = msgs, !.server = s]
<1>1. /\ new.up = rec.up /\ new.server = s /\ new.chan = rec.chan
      /\ \A u \in Tracker : new.outbox[u] = IF u = t THEN msgs ELSE rec.outbox[u]
  BY DEF SafeLink
<1>. HIDE DEF new
<1>2. s = "none" => rec.server = "none"
  OBVIOUS
<1>3. LinkTells(new, A, G)
  BY <1>1, <1>2 DEF LinkTells
<1>. QED
  BY <1>3 DEF new

\* Reading a message, with right replies if the link is up (recv_msg).
LEMMA AnsweredTells ==
    ASSUME SafeInv, LinksTell, NEW l \in Link, NEW t \in Tracker, NEW type,
           Incoming(l, t, type), NEW msgs, NEW A, NEW G,
           \A u \in Tracker : Acked[u] \subseteq A[u] /\ Given[u] \subseteq G[u],
           link[l].up => msgs \in Seq(Telling(A[Other(t)], G[t]))
    PROVE  \A k \in Link : LinkTells(Answered(l, t, msgs)[k], A, G)
<1>. DEFINE o == Other(t)
            rest == Tail(link[l].chan[o])
            rec == [link[l] EXCEPT !.chan[o] = rest, !.outbox[t] = msgs]
<1>1. o \in Tracker /\ o # t /\ link[l] \in SafeLink /\ link[l].chan[o] # <<>>
  BY OtherTracker DEF SafeInv, Incoming
<1>2. Answered(l, t, msgs) = [link EXCEPT ![l] = rec]
  BY DEF Answered, SafeInv
<1>3. \A k \in Link : LinkTells(link[k], A, G)
  <2>. SUFFICES ASSUME NEW k \in Link PROVE LinkTells(link[k], A, G)
    OBVIOUS
  <2>1. LinkTells(link[k], Acked, Given)
    BY DEF LinksTell
  <2>. QED
    BY <2>1, LinkTellsMore
<1>. HIDE DEF o
<1>4. /\ rest \in Seq(Telling(A[Other(o)], Entry))
      /\ link[l].up => rest \in Seq(Telling(A[Other(o)], G[o]))
  BY <1>1, <1>3, HeadTailProperties DEF LinkTells
<1>. HIDE DEF rest
<1>5. /\ rec.up = link[l].up /\ rec.server = link[l].server
      /\ \A u \in Tracker : /\ rec.chan[u] = IF u = o THEN rest ELSE link[l].chan[u]
                            /\ rec.outbox[u] = IF u = t THEN msgs ELSE link[l].outbox[u]
  BY <1>1 DEF SafeLink
<1>. HIDE DEF rec
<1>6. link[l].server # "none"
  BY <1>1, <1>3 DEF LinkTells
<1>7. LinkTells(rec, A, G)
  BY <1>1, <1>3, <1>4, <1>5, <1>6 DEF LinkTells
<1>. QED
  BY <1>2, <1>3, <1>7 DEF SafeInv

\* An end of a link that closes writes nothing any more.
LEMMA ClosedTells ==
    ASSUME NEW A, NEW G, NEW rec \in SafeLink, LinkTells(rec, A, G)
    PROVE  LinkTells(Closed(rec), A, G)
<1>1. /\ Closed(rec).up = FALSE /\ Closed(rec).server = "closed"
      /\ \A u \in Tracker : Closed(rec).chan[u] \in {<<>>, rec.chan[u]}
  BY DEF Closed, SafeLink, Tracker, Dialer, Acceptor
<1>2. \A u \in Tracker : <<>> \in Seq(Telling(A[Other(u)], Entry))
  BY EmptySeq
<1>. QED
  BY <1>1, <1>2 DEF LinkTells

\* Nor does one that is left with one message, or that waits for one.
LEMMA LastMessageTells ==
    ASSUME NEW A, NEW G, NEW rec \in SafeLink, LinkTells(rec, A, G), rec.chan[Dialer] # <<>>
    PROVE  LinkTells(LastMessage(rec), A, G)
<1>1. Dialer \in Tracker
  BY DEF Tracker
<1>2. <<Head(rec.chan[Dialer])>> \in Seq(Telling(A[Other(Dialer)], Entry))
  <2>1. rec.chan[Dialer] \in Seq(Telling(A[Other(Dialer)], Entry))
    BY <1>1 DEF LinkTells
  <2>. QED
    BY <2>1
<1>3. /\ LastMessage(rec).up = FALSE /\ LastMessage(rec).server = "last"
      /\ \A u \in Tracker : LastMessage(rec).chan[u] =
            IF u = Dialer THEN <<Head(rec.chan[Dialer])>> ELSE rec.chan[u]
  BY <1>1 DEF LastMessage, SafeLink
<1>. QED
  BY <1>2, <1>3 DEF LinkTells

LEMMA SupersededTells ==
    ASSUME NEW A, NEW G, NEW rec \in SafeLink, LinkTells(rec, A, G),
           NEW new \in Superseded(rec)
    PROVE  LinkTells(new, A, G)
<1>1. CASE new = [rec EXCEPT !.server = "superseded"]
  <2>1. /\ new.up = rec.up /\ new.server = "superseded"
        /\ new.chan = rec.chan /\ new.outbox = rec.outbox
    BY <1>1 DEF SafeLink
  <2>. QED
    BY <2>1 DEF LinkTells
<1>. QED
  BY <1>1, SupersededCases, ClosedTells, LastMessageTells

\* Reading the first message at tracker 1.
LEMMA ReadTells ==
    ASSUME NEW A, NEW G, NEW rec \in SafeLink, LinkTells(rec, A, G),
           rec.chan[Dialer] # <<>>, NEW s \in {"start", "client"}
    PROVE  LinkTells([rec EXCEPT !.server = s, !.chan[Dialer] = Tail(@)], A, G)
<1>. DEFINE rest == Tail(rec.chan[Dialer])
            new == [rec EXCEPT !.server = s, !.chan[Dialer] = rest]
<1>1. Dialer \in Tracker
  BY DEF Tracker
<1>2. /\ rest \in Seq(Telling(A[Other(Dialer)], Entry))
      /\ rec.up => rest \in Seq(Telling(A[Other(Dialer)], G[Dialer]))
  BY <1>1, HeadTailProperties DEF LinkTells
<1>. HIDE DEF rest
<1>3. /\ new.up = rec.up /\ new.server = s /\ new.outbox = rec.outbox
      /\ \A u \in Tracker : new.chan[u] = IF u = Dialer THEN rest ELSE rec.chan[u]
  BY <1>1 DEF SafeLink
<1>. HIDE DEF new
<1>4. LinkTells(new, A, G)
  BY <1>2, <1>3 DEF LinkTells
<1>. QED
  BY <1>4 DEF new, rest

\* The end of a sequence is one.
LEMMA SuffixSeq ==
    ASSUME NEW S, NEW s \in Seq(S), NEW first \in 1..(Len(s) + 1)
    PROVE  SubSeq(s, first, Len(s)) \in Seq(S)
<1>1. Len(s) \in Nat /\ first \in Int
  BY LenProperties
<1>2. \A i \in first..Len(s) : s[i] \in S
  BY <1>1, ElementOfSeq
<1>. QED
  BY <1>1, <1>2, SubSeqProperties

\* Requests say nothing of operations.
LEMMA RequestsTell ==
    ASSUME NEW A, NEW G
    PROVE  /\ <<>> \in Seq(Telling(A, G))
           /\ <<[type |-> "HELLO"]>> \in Seq(Telling(A, G))
           /\ <<[type |-> "SNAPSHOT_REQUEST"]>> \in Seq(Telling(A, G))
           /\ \A n \in Nat : <<[type |-> "CATCHUP", after |-> n]>> \in Seq(Telling(A, G))
<1>1. /\ [type |-> "HELLO"] \in Telling(A, G)
      /\ [type |-> "SNAPSHOT_REQUEST"] \in Telling(A, G)
      /\ \A n \in Nat : [type |-> "CATCHUP", after |-> n] \in Telling(A, G)
  BY SafeMessages DEF Telling
<1>. QED
  BY <1>1

\* The links as they are.
LEMMA LinksNow ==
    ASSUME SafeInv, AckInv
    PROVE  \A l \in Link : link[l] \in SafeLink /\ LinkTells(link[l], Acked, Given)
  BY DEF SafeInv, AckInv, LinksTell

\* connect_loop writes requests, to a link that is new.
LEMMA ConnectLoopAck ==
    ASSUME SafeInv, SafeInv', AckInv, ConnectLoop
    PROVE  AckInv'
<1>. Dialer \in Tracker /\ Acceptor \in Tracker
  BY DEF Tracker
<1>1. restarts' = restarts /\ seen' = seen /\ worker' = worker
  BY DEF ConnectLoop, Dial, SendHello, Ask, DialerHangup
<1>2. \A t \in Tracker : node'[t].log = node[t].log /\ node'[t].next_seq = node[t].next_seq
  <2>1. PICK fd : node' = [node EXCEPT ![Dialer].out_fd = fd] \/ node' = node
    BY DEF ConnectLoop, Dial, SendHello, Ask, DialerHangup
  <2>2. CASE node' = [node EXCEPT ![Dialer].out_fd = fd]
    BY <2>2 DEF SafeInv, SafeNode, Node
  <2>. QED
    BY <2>1, <2>2
<1>3. ASSUME NEW l \in Link, Dial(l) PROVE \A k \in Link : LinkTells(link'[k], Acked, Given)
  <2>. DEFINE rec == [link[l] EXCEPT !.up = TRUE, !.server = "unread"]
  <2>1. link[l].server = "none" /\ link' = [link EXCEPT ![l] = rec]
    BY <1>3 DEF Dial, SafeInv
  <2>2. /\ rec.server = "unread" /\ rec.chan = link[l].chan /\ rec.outbox = link[l].outbox
    BY LinksNow DEF SafeLink
  <2>. HIDE DEF rec
  <2>3. ASSUME NEW t \in Tracker
        PROVE  /\ rec.chan[t] \in Seq(Telling(Acked[Other(t)], Given[t]))
               /\ rec.chan[t] \in Seq(Telling(Acked[Other(t)], Entry))
               /\ rec.outbox[t] \in Seq(Telling(Acked[Other(t)], Given[t]))
    <3>1. link[l].chan[t] = <<>> /\ link[l].outbox[t] \in Seq(Telling({}, {}))
      BY <2>1, LinksNow DEF LinkTells
    <3>. QED
      BY <2>2, <3>1, RequestsTell, TellingMore
  <2>4. LinkTells(rec, Acked, Given)
    BY <2>2, <2>3 DEF LinkTells
  <2>. QED
    BY <2>1, <2>4, LinksNow DEF SafeInv
<1>4. CASE SendHello
  <2>. DEFINE msgs == <<[type |-> "HELLO"]>>
  <2>1. link' = Written(link, dialer.fd, Dialer, msgs)
    BY <1>4 DEF SendHello
  <2>2. msgs \in Seq(Telling(Acked[Other(Dialer)], Given[Dialer]))
    BY RequestsTell
  <2>. HIDE DEF msgs
  <2>3. link \in [Link -> SafeLink] /\ \A l \in Link : LinkTells(link[l], Acked, Given)
    BY LinksNow DEF SafeInv
  <2>4. \A l \in Link : LinkTells(link'[l], Acked, Given)
    BY <2>1, <2>2, <2>3, WrittenTells
  <2>. QED
    BY <1>1, <1>2, <2>4, AckUntouched
<1>5. CASE Ask
  <2>. DEFINE msgs == IF IsEmpty(node[Dialer].state)
                      THEN <<[type |-> "SNAPSHOT_REQUEST"]>>
                      ELSE <<[type |-> "CATCHUP",
                              after |-> node[Dialer].applied_peer_seq]>>
              fd == dialer.fd
  <2>1. link' = [link EXCEPT ![fd].outbox[Dialer] = msgs]
    BY <1>5 DEF Ask
  <2>2. /\ msgs \in Seq(Telling(Acked[Other(Dialer)], Given[Dialer]))
        /\ msgs \in Seq(Telling({}, {}))
    BY NodeState, RequestsTell
  <2>. HIDE DEF msgs, fd
  <2>3. CASE fd \in Link
    <3>1. link[fd] \in SafeLink /\ LinkTells(link[fd], Acked, Given)
      BY <2>3, LinksNow
    <3>2. LinkTells([link[fd] EXCEPT !.outbox[Dialer] = msgs, !.server = link[fd].server],
                    Acked, Given)
      BY <2>2, <3>1, OutboxTells
    <3>3. link'[fd] = [link[fd] EXCEPT !.outbox[Dialer] = msgs, !.server = link[fd].server]
      BY <2>1, <2>3, <3>1 DEF SafeInv, SafeLink
    <3>. QED
      BY <1>1, <1>2, <2>1, <3>2, <3>3, LinksNow, AckUntouched DEF SafeInv
  <2>4. CASE fd \notin Link
    <3>1. \A l \in Link : link'[l] = link[l]
      BY <2>1, <2>4 DEF SafeInv
    <3>. QED
      BY <1>1, <1>2, <3>1, LinksNow, AckUntouched
  <2>. QED
    BY <2>3, <2>4
<1>6. ASSUME NEW l \in Link, DialerHangup(l) PROVE link' = link
  BY <1>6 DEF DialerHangup
<1>. QED
  BY <1>1, <1>2, <1>3, <1>4, <1>5, <1>6, LinksNow, AckUntouched DEF ConnectLoop

\* The threads of tracker 1 read, close and write requests.
LEMMA ListenerAck ==
    ASSUME SafeInv, SafeInv', AckInv, NEW l \in Link, Listener(l)
    PROVE  AckInv'
<1>. Dialer \in Tracker /\ Acceptor \in Tracker
  BY DEF Tracker
<1>1. restarts' = restarts /\ seen' = seen /\ worker' = worker
  <2>1. CASE AcceptPeer(l)
    BY <2>1, Zenon DEF AcceptPeer
  <2>. QED
    BY <2>1 DEF Listener, LastReceive, TakenForClient, ServePeer, ServerHangup
<1>2. \A t \in Tracker : node'[t].log = node[t].log /\ node'[t].next_seq = node[t].next_seq
  <2>1. PICK fd : node' = [node EXCEPT ![Acceptor].out_fd = fd] \/ node' = node
    <3>1. CASE AcceptPeer(l)
      BY <3>1, Zenon DEF AcceptPeer
    <3>. QED
      BY <3>1 DEF Listener, LastReceive, TakenForClient, ServePeer, ServerHangup
  <2>2. CASE node' = [node EXCEPT ![Acceptor].out_fd = fd]
    BY <2>2 DEF SafeInv, SafeNode, Node
  <2>. QED
    BY <2>1, <2>2
<1>3. link[l] \in SafeLink /\ LinkTells(link[l], Acked, Given) /\ link \in [Link -> SafeLink]
  BY LinksNow DEF SafeInv
<1>4. CASE AcceptPeer(l)
  <2>. DEFINE old == node[Acceptor].out_fd
              rec == [link[l] EXCEPT !.server = "start", !.chan[Dialer] = Tail(@)]
              read == [link EXCEPT ![l] = rec]
  <2>1. /\ link[l].chan[Dialer] # <<>>
        /\ \/ link' = read
           \/ old # NoLink /\ \E new \in Superseded(link[old]) : link' = [read EXCEPT ![old] = new]
    <3>. DEFINE raw == [link EXCEPT ![l].server = "start", ![l].chan[Dialer] = Tail(@)]
    <3>1. raw = read
      BY <1>3
    <3>2. link[l].chan[Dialer] # <<>>
      BY <1>4 DEF AcceptPeer
    <3>3. \/ link' = raw
          \/ old # NoLink /\ \E new \in Superseded(link[old]) : link' = [raw EXCEPT ![old] = new]
      BY <1>4, Zenon DEF AcceptPeer
    <3>. HIDE DEF raw, read, old
    <3>. QED
      BY <3>1, <3>2, <3>3
  <2>2. LinkTells(rec, Acked, Given)
    BY <1>3, <2>1, ReadTells
  <2>3. rec \in SafeLink
    <3>. DEFINE rest == Tail(link[l].chan[Dialer])
    <3>1. rest \in Seq(SafeMessage)
      BY <1>3, <2>1, HeadTailProperties DEF SafeLink
    <3>. HIDE DEF rest
    <3>2. [link[l] EXCEPT !.server = "start", !.chan[Dialer] = rest] \in SafeLink
      BY <1>3, <3>1 DEF SafeLink
    <3>. QED
      BY <3>2 DEF rest
  <2>. HIDE DEF rec
  <2>4. \A k \in Link : read[k] \in SafeLink /\ LinkTells(read[k], Acked, Given)
    BY <1>3, <2>2, <2>3, LinksNow
  <2>5. read \in [Link -> SafeLink] /\ old \in Link \cup {NoLink}
    BY <1>3, <2>3, NodeState
  <2>. HIDE DEF read, old
  <2>6. \A k \in Link : LinkTells(link'[k], Acked, Given)
    <3>1. CASE link' = read
      BY <2>4, <3>1
    <3>2. ASSUME old # NoLink, NEW new \in Superseded(link[old]),
                 link' = [read EXCEPT ![old] = new]
          PROVE  \A k \in Link : LinkTells(link'[k], Acked, Given)
      <4>1. old \in Link /\ link[old] \in SafeLink /\ LinkTells(link[old], Acked, Given)
        BY <2>5, <3>2, LinksNow
      <4>2. LinkTells(new, Acked, Given)
        BY <3>2, <4>1, SupersededTells
      <4>. QED
        BY <2>4, <2>5, <3>2, <4>2
    <3>. QED
      BY <2>1, <3>1, <3>2
  <2>. QED
    BY <1>1, <1>2, <2>6, AckUntouched
<1>5. CASE TakenForClient(l)
  <2>. DEFINE rec == [link[l] EXCEPT !.server = "client", !.chan[Dialer] = Tail(@)]
  <2>1. link[l].chan[Dialer] # <<>> /\ link' = [link EXCEPT ![l] = rec]
    BY <1>3, <1>5 DEF TakenForClient
  <2>2. LinkTells(rec, Acked, Given)
    BY <1>3, <2>1, ReadTells
  <2>. HIDE DEF rec
  <2>3. \A k \in Link : LinkTells(link'[k], Acked, Given)
    BY <1>3, <2>1, <2>2, LinksNow
  <2>. QED
    BY <1>1, <1>2, <2>3, AckUntouched
<1>6. CASE ServePeer(l)
  <2>. DEFINE msgs == IF IsEmpty(node[Acceptor].state)
                      THEN <<[type |-> "SNAPSHOT_REQUEST"]>> ELSE <<>>
              rec == [link[l] EXCEPT !.outbox[Acceptor] = msgs, !.server = "peer"]
  <2>1. msgs \in Seq(Telling(Acked[Other(Acceptor)], Given[Acceptor]))
        /\ msgs \in Seq(Telling({}, {}))
    BY RequestsTell
  <2>2. link' = [link EXCEPT ![l].server = "peer", ![l].outbox[Acceptor] = msgs]
    BY <1>6 DEF ServePeer
  <2>. HIDE DEF msgs
  <2>3. link' = [link EXCEPT ![l] = rec]
    BY <1>3, <2>2 DEF SafeLink
  <2>4. LinkTells(rec, Acked, Given)
    BY <1>3, <2>1, OutboxTells
  <2>. HIDE DEF rec
  <2>5. \A k \in Link : LinkTells(link'[k], Acked, Given)
    BY <1>3, <2>3, <2>4, LinksNow
  <2>. QED
    BY <1>1, <1>2, <2>5, AckUntouched
<1>7. CASE ServerHangup(l)
  <2>1. link' = [link EXCEPT ![l] = Closed(@)]
    BY <1>7 DEF ServerHangup
  <2>2. \A k \in Link : LinkTells(link'[k], Acked, Given)
    BY <1>3, <2>1, ClosedTells, LinksNow
  <2>. QED
    BY <1>1, <1>2, <2>2, AckUntouched
<1>8. CASE LastReceive(l)
  <2>1. PICK rec : /\ link' = [link EXCEPT ![l] = rec]
                   /\ \/ rec = Closed(link[l])
                      \/ link[l].chan[Dialer] # <<>> /\ rec = LastMessage(link[l])
    BY <1>3, <1>8 DEF LastReceive
  <2>2. LinkTells(rec, Acked, Given)
    BY <1>3, <2>1, ClosedTells, LastMessageTells
  <2>3. \A k \in Link : LinkTells(link'[k], Acked, Given)
    BY <1>3, <2>1, <2>2, LinksNow
  <2>. QED
    BY <1>1, <1>2, <2>3, AckUntouched
<1>. QED
  BY <1>4, <1>5, <1>6, <1>7, <1>8 DEF Listener

\* The operation of a worker is of its tracker's incarnation (record_and_replicate).
LEMMA SendOpAck ==
    ASSUME SafeInv, SafeInv', AckInv, NEW t \in Tracker, NEW w \in Worker, SendOp(t, w)
    PROVE  AckInv'
<1>. DEFINE entry == worker[t][w].entry
            msgs == <<OpMessage(entry)>>
<1>1. /\ worker[t][w].pc = "send" /\ link' = Written(link, worker[t][w].fd, t, msgs)
      /\ worker' = [worker EXCEPT ![t][w] = Idle]
      /\ UNCHANGED <<node, restarts, seen>>
  BY DEF SendOp
<1>2. entry \in Entry /\ entry \in Given[t]
  BY <1>1 DEF AckInv, WorkersTell, Given
<1>. HIDE DEF entry
<1>3. OpMessage(entry) \in Telling(Acked[Other(t)], Given[t])
  BY <1>2, SafeMessages DEF Telling, OpMessage
<1>4. msgs \in Seq(Telling(Acked[Other(t)], Given[t]))
  BY <1>3
<1>. HIDE DEF msgs
<1>5. \A l \in Link : LinkTells(link'[l], Acked, Given)
  BY <1>1, <1>4, LinksNow, WrittenTells DEF SafeInv
<1>6. \A u \in Tracker, v \in Worker :
        worker'[u][v].pc = "send" => worker'[u][v] = worker[u][v]
  BY <1>1 DEF SafeInv, Idle
<1>. QED
  BY <1>1, <1>5, <1>6, AckUntouched

\* A request changes the state of a tracker only.
LEMMA ClientRequestAck ==
    ASSUME SafeInv, SafeInv', AckInv, NEW t \in Tracker, NEW w \in Worker,
           ClientRequest(t, w)
    PROVE  AckInv'
<1>1. PICK S, op : /\ node' = [node EXCEPT ![t].state = S]
                   /\ worker' = [worker EXCEPT ![t][w] = [pc |-> "record", op |-> op]]
  BY Zenon DEF ClientRequest
<1>2. UNCHANGED <<link, restarts, seen>>
  BY DEF ClientRequest
<1>3. \A u \in Tracker : node'[u].log = node[u].log /\ node'[u].next_seq = node[u].next_seq
  BY <1>1 DEF SafeInv, SafeNode, Node
<1>4. \A u \in Tracker, v \in Worker :
        worker'[u][v].pc = "send" => worker'[u][v] = worker[u][v]
  BY <1>1 DEF SafeInv
<1>. QED
  BY <1>2, <1>3, <1>4, LinksNow, AckUntouched

\* A new entry gets the next number of the incarnation.
LEMMA RecordOpAck ==
    ASSUME SafeInv, SafeInv', AckInv, NEW t \in Tracker, NEW w \in Worker, RecordOp(t, w)
    PROVE  AckInv'
<1>. DEFINE entry == [seq |-> node[t].next_seq, op |-> worker[t][w].op,
                      born |-> restarts[t]]
<1>1. /\ node' = [node EXCEPT ![t].next_seq = @ + 1, ![t].log = Append(@, entry)]
      /\ worker' = [worker EXCEPT ![t][w] =
                      IF node[t].out_fd = NoLink THEN Idle
                      ELSE [pc |-> "send", entry |-> entry, fd |-> node[t].out_fd]]
      /\ worker[t][w].pc = "record"
      /\ UNCHANGED <<link, restarts, seen>>
  BY DEF RecordOp
<1>2. entry.seq = node[t].next_seq /\ entry.born = restarts[t]
  OBVIOUS
<1>3. entry \in Entry
  <2>1. worker[t][w].op \in Op
    BY <1>1 DEF SafeInv, WorkerRecord
  <2>2. restarts[t] \in Nat /\ node[t].next_seq \in Nat \ {0}
    BY NodeState DEF SafeInv
  <2>. QED
    BY <2>1, <2>2 DEF Entry
<1>. HIDE DEF entry
<1>4. /\ node'[t].next_seq = node[t].next_seq + 1
      /\ node'[t].log = Append(node[t].log, entry)
      /\ \A u \in Tracker : u # t => node'[u] = node[u]
  BY <1>1 DEF SafeInv, SafeNode, Node
<1>5. \A u \in Tracker : node'[u].next_seq \in Nat /\ node[u].next_seq <= node'[u].next_seq
  BY <1>4, NodeState
<1>6. \A u \in Tracker : Acked[u] \subseteq Acked'[u] /\ Given[u] \subseteq Given'[u]
  BY <1>1, <1>5, TellGrown
<1>7. entry \in Given'[t]
  <2>1. Given'[t] = {e \in Entry : e.born = restarts[t] /\ e.seq < node'[t].next_seq}
    BY <1>1 DEF Given
  <2>. QED
    BY <1>2, <1>3, <1>4, <2>1, NodeState
<1>8. LinksTell'
  <2>. SUFFICES ASSUME NEW l \in Link PROVE LinkTells(link[l], Acked', Given')
    BY <1>1 DEF LinksTell
  <2>. QED
    BY <1>6, LinksNow, LinkTellsMore
<1>9. WorkersTell'
  <2>. SUFFICES ASSUME NEW u \in Tracker, NEW v \in Worker, worker'[u][v].pc = "send"
                PROVE  worker'[u][v].entry \in Given'[u]
    BY DEF WorkersTell
  <2>1. CASE u = t /\ v = w
    <3>1. worker'[t][w] = IF node[t].out_fd = NoLink THEN Idle
                          ELSE [pc |-> "send", entry |-> entry, fd |-> node[t].out_fd]
      BY <1>1 DEF SafeInv
    <3>. QED
      BY <1>7, <2>1, <3>1 DEF Idle
  <2>2. CASE ~(u = t /\ v = w)
    <3>1. worker'[u][v] = worker[u][v]
      BY <1>1, <2>2 DEF SafeInv
    <3>. QED
      BY <1>6, <3>1 DEF AckInv, WorkersTell
  <2>. QED
    BY <2>1, <2>2
<1>10. LogsTell'
  <2>. SUFFICES ASSUME NEW u \in Tracker PROVE node'[u].log \in Seq(Given'[u])
    BY DEF LogsTell
  <2>1. node[u].log \in Seq(Given'[u])
    BY <1>6, SeqMonotonic DEF AckInv, LogsTell
  <2>2. CASE u = t
    <3>1. Append(node[t].log, entry) \in Seq(Given'[t])
      BY <1>7, <2>1, <2>2, AppendProperties
    <3>. QED
      BY <1>4, <2>2, <3>1
  <2>. QED
    BY <1>4, <2>1, <2>2
<1>11. AckSound'
  <2>1. node[t].log \in Seq(Entry) /\ Len(node[t].log) \in Nat /\ node[t].next_seq \in Nat
    BY NodeState, LenProperties
  <2>2. Len(node'[t].log) = Len(node[t].log) + 1
    BY <1>3, <1>4, <2>1, AppendProperties
  <2>3. \A u \in Tracker : node'[u].next_seq - 1 - Len(node'[u].log)
                            = node[u].next_seq - 1 - Len(node[u].log)
    <3>1. node'[t].next_seq - 1 - Len(node'[t].log) = node[t].next_seq - 1 - Len(node[t].log)
      <4>1. PICK a \in Nat, b \in Nat : a = node[t].next_seq /\ b = Len(node[t].log)
        BY <2>1
      <4>2. node'[t].next_seq = a + 1 /\ Len(node'[t].log) = b + 1
        BY <1>4, <2>2, <4>1
      <4>3. (a + 1) - 1 - (b + 1) = a - 1 - b
        OBVIOUS
      <4>. QED
        BY <4>1, <4>2, <4>3, Zenon
    <3>. QED
      BY <1>4, <3>1
  <2>. QED
    BY <1>1, <2>3 DEF AckInv, AckSound, Trimmed, Processed
<1>. QED
  BY <1>8, <1>9, <1>10, <1>11 DEF AckInv

\* What an ACK of a number given out trims: nothing, or all up to that number.
LEMMA TrimmedUpTo ==
    ASSUME NEW log \in Seq(Entry), NEW next \in Nat, NEW seq \in Nat, seq < next,
           Numbering(log, next)
    PROVE  \/ Len(After(log, seq)) = Len(log)
           \/ next - 1 - Len(After(log, seq)) = seq
<1>. DEFINE later == {i \in 1..(Len(log) + 1) : i > Len(log) \/ log[i].seq > seq}
            first == Smallest(later)
            n == Len(log)
<1>1. n \in Nat
  BY LenProperties
<1>2. later \subseteq Nat /\ later # {}
  <2>1. n + 1 \in later
    BY <1>1
  <2>. QED
    BY <2>1
<1>3. first \in later /\ \A i \in later : first <= i
  BY <1>2, SmallestIsLeast
<1>4. After(log, seq) = SubSeq(log, first, n)
  BY DEF After
<1>5. \A i \in 1..n : log[i].seq = next - 1 - (n - i)
  BY DEF Numbering
<1>6. first \in 1..(n + 1) /\ (first <= n => log[first].seq > seq)
  BY <1>1, <1>3
<1>7. first > 1 => ~(log[first - 1].seq > seq)
  <2>. SUFFICES ASSUME first > 1, log[first - 1].seq > seq PROVE FALSE
    OBVIOUS
  <2>1. first - 1 \in later
    BY <1>1, <1>6
  <2>. QED
    BY <1>1, <1>3, <1>6, <2>1
<1>. HIDE DEF later, first, n
<1>8. Len(After(log, seq)) = n + 1 - first
  <2>1. \A i \in first..n : log[i] \in Entry
    BY <1>1, <1>6, ElementOfSeq DEF n
  <2>. QED
    BY <1>1, <1>4, <1>6, <2>1, SubSeqProperties
<1>9. CASE first = 1
  BY <1>1, <1>8, <1>9 DEF n
<1>10. CASE first > 1
  <2>1. first - 1 \in 1..n
    BY <1>1, <1>6, <1>10
  <2>2. log[first - 1].seq = next - 1 - (n - (first - 1))
    BY <1>5, <2>1
  <2>3. seq >= next - 1 - (n - (first - 1))
    BY <1>1, <1>6, <1>7, <1>10, <2>2
  <2>4. CASE first = n + 1
    BY <1>1, <1>8, <2>3, <2>4
  <2>5. CASE first \in 1..n
    <3>1. next - 1 - (n - first) > seq
      BY <1>5, <1>6, <2>5
    <3>. QED
      BY <1>1, <1>8, <2>3, <2>5, <3>1
  <2>. QED
    BY <1>1, <1>6, <2>4, <2>5
<1>. QED
  BY <1>6, <1>9, <1>10

\* An ACK trims up to a number the peer has processed.
LEMMA ReceiveAckAck ==
    ASSUME SafeInv, SafeInv', LogIsSuffix, AckInv, NEW l \in Link, NEW t \in Tracker,
           ReceiveAck(l, t)
    PROVE  AckInv'
<1>. DEFINE msg == Head(link[l].chan[Other(t)])
            seq == msg.seq
<1>1. /\ Incoming(l, t, "ACK") /\ link' = Answered(l, t, <<>>)
      /\ node' = [node EXCEPT ![t].log = After(@, seq)]
      /\ UNCHANGED <<worker, restarts, seen>>
  BY DEF ReceiveAck
<1>2. seq \in Acked[t]
  <2>. DEFINE o == Other(t)
  <2>1. o \in Tracker /\ Other(o) = t
    BY DEF Other, Tracker, Dialer, Acceptor
  <2>2. link[l].chan[o] # <<>> /\ msg.type = "ACK"
    BY <1>1 DEF Incoming
  <2>3. link[l].chan[o] \in Seq(Telling(Acked[t], Entry))
    BY <2>1, LinksNow DEF LinkTells
  <2>4. msg \in Telling(Acked[t], Entry)
    BY <2>2, <2>3, HeadTailProperties
  <2>. QED
    BY <2>2, <2>4 DEF Telling
<1>. HIDE DEF seq
<1>3. seq \in Nat /\ seq < node[t].next_seq /\ <<restarts[t], seq>> \in seen[t]
  BY <1>2 DEF Acked
<1>4. /\ node'[t].next_seq = node[t].next_seq
      /\ node'[t].log = After(node[t].log, seq)
      /\ \A u \in Tracker : u # t => node'[u] = node[u]
  BY <1>1 DEF SafeInv, SafeNode, Node
<1>5. /\ Acked' = Acked /\ Given' = Given
  BY <1>1, <1>4 DEF Acked, Given
<1>6. LinksTell'
  <2>1. <<>> \in Seq(Telling(Acked[Other(t)], Given[t]))
    BY RequestsTell
  <2>2. \A k \in Link : LinkTells(link'[k], Acked, Given)
    BY <1>1, <2>1, AnsweredTells DEF AckInv
  <2>. QED
    BY <1>5, <2>2 DEF LinksTell
<1>7. WorkersTell'
  BY <1>1, <1>5 DEF AckInv, WorkersTell
<1>8. node[t].log \in Seq(Entry) /\ node[t].next_seq \in Nat /\ Len(node[t].log) \in Nat
  BY NodeState, LenProperties
<1>9. LogsTell'
  <2>1. node[t].log \in Seq(Given[t])
    BY DEF AckInv, LogsTell
  <2>2. PICK first \in 1..(Len(node[t].log) + 1) :
          After(node[t].log, seq) = SubSeq(node[t].log, first, Len(node[t].log))
    BY <1>3, <1>8, AfterType
  <2>3. After(node[t].log, seq) \in Seq(Given[t])
    BY <2>1, <2>2, SuffixSeq
  <2>. QED
    BY <1>4, <1>5, <2>3 DEF AckInv, LogsTell
<1>10. AckSound'
  <2>1. Numbering(node[t].log, node[t].next_seq)
    BY LogSplit
  <2>2. \/ Len(node'[t].log) = Len(node[t].log)
        \/ node[t].next_seq - 1 - Len(node'[t].log) = seq
    BY <1>3, <1>4, <1>8, <2>1, TrimmedUpTo
  <2>3. \A u \in Tracker : \/ /\ node'[u].next_seq = node[u].next_seq
                              /\ Len(node'[u].log) = Len(node[u].log)
                           \/ /\ u = t
                              /\ node'[u].next_seq - 1 - Len(node'[u].log) = seq
    BY <1>4, <2>2
  <2>. QED
    BY <1>1, <1>3, <2>3 DEF AckInv, AckSound, Trimmed, Processed
<1>. QED
  BY <1>6, <1>7, <1>9, <1>10 DEF AckInv

\* Steps of process_peer_message that answer without numbering or trimming.
LEMMA AnswerAck ==
    ASSUME SafeInv, SafeInv', AckInv, NEW l \in Link, NEW t \in Tracker, NEW type,
           Incoming(l, t, type), NEW msgs, link' = Answered(l, t, msgs),
           UNCHANGED <<worker, restarts>>,
           \A u \in Tracker : /\ node'[u].log = node[u].log
                              /\ node'[u].next_seq = node[u].next_seq
                              /\ seen[u] \subseteq seen'[u],
           link[l].up => msgs \in Seq(Telling(Acked'[Other(t)], Given'[t]))
    PROVE  AckInv'
<1>1. \A u \in Tracker : Acked[u] \subseteq Acked'[u] /\ Given[u] \subseteq Given'[u]
  BY NodeState, TellGrown
<1>2. \A k \in Link : LinkTells(link'[k], Acked', Given')
  BY <1>1, AnsweredTells DEF AckInv
<1>. QED
  BY <1>2, AckUntouched

\* An operation that comes over a link that is up is of the writer's incarnation,
\* so its ACK is right; over a dead link no ACK goes back.
LEMMA ReceiveOpAck ==
    ASSUME SafeInv, SafeInv', AckInv, NEW l \in Link, NEW t \in Tracker, ReceiveOp(l, t)
    PROVE  AckInv'
<1>. DEFINE o == Other(t)
            msg == Head(link[l].chan[o])
            entry == msg.entry
            ack == [type |-> "ACK", seq |-> entry.seq]
<1>1. /\ Incoming(l, t, "OP") /\ link' = Answered(l, t, <<ack>>)
      /\ seen' = [seen EXCEPT ![o] = @ \cup {<<entry.born, entry.seq>>}]
      /\ UNCHANGED <<worker, restarts>>
  BY DEF ReceiveOp
<1>2. o \in Tracker /\ Other(o) = t
  BY DEF Other, Tracker, Dialer, Acceptor
<1>3. msg \in SafeMessage /\ msg.type = "OP"
  BY <1>1, IncomingSafe
<1>4. entry \in Entry /\ ack \in SafeMessage
  <2>1. entry \in Entry
    BY <1>3, MessageFields
  <2>2. entry.seq \in Nat \ {0}
    BY <2>1 DEF Entry
  <2>. QED
    BY <2>1, <2>2, SafeMessages
<1>5. \A u \in Tracker : node'[u].log = node[u].log /\ node'[u].next_seq = node[u].next_seq
  <2>1. PICK S, n : node' = [node EXCEPT ![t].state = S, ![t].applied_peer_seq = n]
    BY DEF ReceiveOp
  <2>. QED
    BY <2>1 DEF SafeInv, SafeNode, Node
<1>6. ASSUME link[l].up PROVE entry \in Given[o]
  <2>1. link[l].chan[o] # <<>> /\ link[l].chan[o] \in Seq(Telling(Acked[Other(o)], Given[o]))
    BY <1>1, <1>2, <1>6, LinksNow DEF LinkTells, Incoming
  <2>2. msg \in Telling(Acked[Other(o)], Given[o])
    BY <2>1, HeadTailProperties
  <2>. QED
    BY <1>3, <2>2 DEF Telling
<1>. HIDE DEF entry, o
<1>7. ASSUME link[l].up PROVE <<ack>> \in Seq(Telling(Acked'[o], Given'[t]))
  <2>1. entry.born = restarts[o] /\ entry.seq < node[o].next_seq /\ entry.seq \in Nat
    BY <1>2, <1>4, <1>6, <1>7 DEF Given, Entry
  <2>2. Acked'[o] = {n \in Nat : n < node'[o].next_seq /\ <<restarts'[o], n>> \in seen'[o]}
    BY <1>2 DEF Acked
  <2>3. <<entry.born, entry.seq>> \in seen'[o]
    BY <1>1, <1>2 DEF SafeInv
  <2>4. entry.seq \in Acked'[o]
    BY <1>1, <1>2, <1>5, <2>1, <2>2, <2>3
  <2>5. ack \in Telling(Acked'[o], Given'[t])
    BY <1>4, <2>4 DEF Telling
  <2>. QED
    BY <2>5
<1>8. \A u \in Tracker : seen[u] \subseteq seen'[u]
  BY <1>1 DEF SafeInv
<1>. HIDE DEF ack
<1>. QED
  BY <1>1, <1>5, <1>7, <1>8, AnswerAck DEF o

\* A catch-up is of entries of the log, which are of this incarnation.
LEMMA ReceiveCatchupAck ==
    ASSUME SafeInv, SafeInv', AckInv, NEW l \in Link, NEW t \in Tracker,
           ReceiveCatchup(l, t)
    PROVE  AckInv'
<1>. DEFINE n == Head(link[l].chan[Other(t)]).after
            batch == After(node[t].log, n)
            msgs == [i \in DOMAIN batch |-> OpMessage(batch[i])]
<1>1. /\ Incoming(l, t, "CATCHUP") /\ link' = Answered(l, t, msgs)
      /\ UNCHANGED <<node, worker, restarts, seen>>
  BY DEF ReceiveCatchup
<1>2. n \in Nat
  BY <1>1, IncomingSafe, MessageFields
<1>3. /\ node[t].log \in Seq(Entry) /\ node[t].log \in Seq(Given[t])
      /\ Len(node[t].log) \in Nat /\ Given[t] \subseteq Entry
  BY NodeState, LenProperties DEF AckInv, LogsTell, Given
<1>4. batch \in Seq(Given[t])
  <2>1. PICK first \in 1..(Len(node[t].log) + 1) :
          batch = SubSeq(node[t].log, first, Len(node[t].log))
    BY <1>2, <1>3, AfterType
  <2>. QED
    BY <1>3, <2>1, SuffixSeq
<1>. HIDE DEF batch
<1>5. msgs \in Seq(Telling(Acked[Other(t)], Given[t]))
  <2>1. Len(batch) \in Nat /\ DOMAIN batch = 1..Len(batch)
    BY <1>4, LenProperties
  <2>2. \A e \in Given[t] : OpMessage(e) \in Telling(Acked[Other(t)], Given[t])
    BY <1>3, SafeMessages DEF Telling, OpMessage
  <2>3. \A i \in 1..Len(batch) : OpMessage(batch[i]) \in Telling(Acked[Other(t)], Given[t])
    BY <1>4, <2>2, ElementOfSeq
  <2>4. msgs \in [1..Len(batch) -> Telling(Acked[Other(t)], Given[t])]
    BY <2>1, <2>3
  <2>. QED
    BY <2>1, <2>4, SeqDef
<1>. HIDE DEF msgs
<1>6. Acked' = Acked /\ Given' = Given
  BY <1>1 DEF Acked, Given
<1>. QED
  BY <1>1, <1>5, <1>6, AnswerAck

\* Snapshots are neither operations nor ACKs; loading one is processing.
LEMMA SnapshotAck ==
    ASSUME SafeInv, SafeInv', AckInv, NEW l \in Link, NEW t \in Tracker,
           ReceiveSnapshotRequest(l, t) \/ ReceiveSnapshot(l, t)
    PROVE  AckInv'
<1>1. CASE ReceiveSnapshotRequest(l, t)
  <2>. DEFINE data == [type |-> "SNAPSHOT_DATA", blob |-> snapshot(node[t].state),
                       covers |-> Numbered(t)]
  <2>1. /\ Incoming(l, t, "SNAPSHOT_REQUEST") /\ link' = Answered(l, t, <<data>>)
        /\ UNCHANGED <<node, worker, restarts, seen>>
    BY <1>1 DEF ReceiveSnapshotRequest
  <2>2. data \in SafeMessage /\ data.type = "SNAPSHOT_DATA"
    BY NodeState, NumberedType, SafeSnapshot
  <2>. HIDE DEF data
  <2>3. data \in Telling(Acked'[Other(t)], Given'[t])
    BY <2>2 DEF Telling
  <2>4. <<data>> \in Seq(Telling(Acked'[Other(t)], Given'[t]))
    BY <2>3
  <2>. QED
    BY <2>1, <2>4, AnswerAck
<1>2. CASE ReceiveSnapshot(l, t)
  <2>1. PICK S, covers :
          /\ node' = [node EXCEPT ![t].state = S]
          /\ seen' = [seen EXCEPT ![Other(t)] = @ \cup covers]
    BY <1>2 DEF ReceiveSnapshot
  <2>2. /\ Incoming(l, t, "SNAPSHOT_DATA") /\ link' = Answered(l, t, <<>>)
        /\ UNCHANGED <<worker, restarts>>
    BY <1>2 DEF ReceiveSnapshot
  <2>3. \A u \in Tracker : /\ node'[u].log = node[u].log
                           /\ node'[u].next_seq = node[u].next_seq
                           /\ seen[u] \subseteq seen'[u]
    BY <2>1 DEF SafeInv, SafeNode, Node
  <2>4. <<>> \in Seq(Telling(Acked'[Other(t)], Given'[t]))
    BY RequestsTell
  <2>. QED
    BY <2>2, <2>3, <2>4, AnswerAck
<1>. QED
  BY <1>1, <1>2

\* What is about to be written is right if the link is up, and lost otherwise.
LEMMA FlushAck ==
    ASSUME SafeInv, SafeInv', AckInv, NEW l \in Link, NEW t \in Tracker, Flush(l, t)
    PROVE  AckInv'
<1>. DEFINE msgs == link[l].outbox[t]
            rec == [link[l] EXCEPT !.outbox[t] = <<>>, !.server = link[l].server]
            emptied == [link EXCEPT ![l] = rec]
<1>1. link[l] \in SafeLink /\ LinkTells(link[l], Acked, Given) /\ link \in [Link -> SafeLink]
  BY LinksNow DEF SafeInv
<1>2. rec = [link[l] EXCEPT !.outbox[t] = <<>>] /\ rec \in SafeLink /\ rec.up = link[l].up
  BY <1>1, EmptySeq DEF SafeLink
<1>3. LinkTells(rec, Acked, Given)
  BY <1>1, RequestsTell, OutboxTells
<1>. HIDE DEF rec
<1>4. link' = Written(emptied, l, t, msgs) /\ UNCHANGED <<node, worker, restarts, seen>>
  <2>1. [link EXCEPT ![l].outbox[t] = <<>>] = emptied
    BY <1>2
  <2>. HIDE DEF emptied
  <2>. QED
    BY <2>1 DEF Flush
<1>5. emptied \in [Link -> SafeLink] /\ emptied[l].up = link[l].up
  BY <1>1, <1>2
<1>6. \A k \in Link : LinkTells(emptied[k], Acked, Given)
  BY <1>1, <1>3, LinksNow
<1>. HIDE DEF emptied
<1>7. link[l].up => msgs \in Seq(Telling(Acked[Other(t)], Given[t]))
  BY <1>1 DEF LinkTells
<1>. HIDE DEF msgs
<1>8. \A k \in Link : LinkTells(link'[k], Acked, Given)
  BY <1>4, <1>5, <1>6, <1>7, WrittenTells
<1>. QED
  BY <1>4, <1>8, AckUntouched

\* A link that breaks loses messages and makes up none.
LEMMA LinkBreakAck ==
    ASSUME SafeInv, SafeInv', AckInv, NEW l \in Link, LinkBreak(l)
    PROVE  AckInv'
<1>. Dialer \in Tracker /\ Acceptor \in Tracker
  BY DEF Tracker
<1>1. PICK a \in 0..Len(link[l].chan[Dialer]), b \in 0..Len(link[l].chan[Acceptor]) :
         link' = [link EXCEPT ![l].up = FALSE,
                              ![l].chan[Dialer] = SubSeq(@, 1, a),
                              ![l].chan[Acceptor] = SubSeq(@, 1, b)]
  BY Zenon DEF LinkBreak
<1>2. link[l].up /\ UNCHANGED <<node, worker, restarts, seen>>
  BY DEF LinkBreak
<1>3. link[l] \in SafeLink /\ LinkTells(link[l], Acked, Given) /\ link \in [Link -> SafeLink]
  BY LinksNow DEF SafeInv
<1>. DEFINE left == SubSeq(link[l].chan[Dialer], 1, a)
            right == SubSeq(link[l].chan[Acceptor], 1, b)
            rec == [link[l] EXCEPT !.up = FALSE, !.chan[Dialer] = left,
                                   !.chan[Acceptor] = right]
<1>4. link' = [link EXCEPT ![l] = rec]
  BY <1>1, <1>3 DEF SafeLink, Dialer, Acceptor
<1>5. ASSUME NEW S, NEW s \in Seq(S), NEW m \in 0..Len(s) PROVE SubSeq(s, 1, m) \in Seq(S)
  <2>1. Len(s) \in Nat /\ \A i \in 1..m : s[i] \in S
    BY LenProperties, ElementOfSeq
  <2>. QED
    BY <2>1, SubSeqProperties
<1>6. /\ left \in Seq(Telling(Acked[Other(Dialer)], Entry))
      /\ right \in Seq(Telling(Acked[Other(Acceptor)], Entry))
  BY <1>3, <1>5 DEF LinkTells
<1>. HIDE DEF left, right
<1>7. /\ rec.up = FALSE /\ rec.server = link[l].server
      /\ rec.chan[Dialer] = left /\ rec.chan[Acceptor] = right
  BY <1>3 DEF SafeLink, Dialer, Acceptor, Tracker
<1>8. link[l].server # "none"
  BY <1>2, <1>3 DEF LinkTells
<1>. HIDE DEF rec
<1>9. LinkTells(rec, Acked, Given)
  BY <1>6, <1>7, <1>8 DEF LinkTells, Tracker
<1>10. \A k \in Link : LinkTells(link'[k], Acked, Given)
  BY <1>3, <1>4, <1>9, LinksNow
<1>. QED
  BY <1>2, <1>10, AckUntouched

\* A tracker that restarts takes its links down, with what was written to it:
\* no ACK reaches the next incarnation.
LEMMA RestartAck ==
    ASSUME SafeInv, SafeInv', AckInv, NEW t \in Tracker, Restart(t)
    PROVE  AckInv'
<1>. DEFINE o == Other(t)
<1>1. /\ restarts' = [restarts EXCEPT ![t] = @ + 1]
      /\ node' = [node EXCEPT ![t] = FreshNode]
      /\ worker' = [worker EXCEPT ![t] = [w \in Worker |-> Idle]]
      /\ link' = [l \in Link |-> Abandoned(t, l)]
      /\ seen' = seen
  BY DEF Restart
<1>2. o \in Tracker /\ o # t /\ Other(o) = t /\ \A u \in Tracker : u = t \/ u = o
  BY DEF Other, Tracker, Dialer, Acceptor
<1>3. node'[t] = FreshNode /\ node'[o] = node[o] /\ restarts'[o] = restarts[o]
  BY <1>1, <1>2 DEF SafeInv
<1>4. Acked'[o] = Acked[o] /\ Given'[o] = Given[o]
  <2>1. /\ Acked[o] = {n \in Nat : n < node[o].next_seq /\ <<restarts[o], n>> \in seen[o]}
        /\ Acked'[o] = {n \in Nat : n < node'[o].next_seq /\ <<restarts'[o], n>> \in seen'[o]}
        /\ Given[o] = {e \in Entry : e.born = restarts[o] /\ e.seq < node[o].next_seq}
        /\ Given'[o] = {e \in Entry : e.born = restarts'[o] /\ e.seq < node'[o].next_seq}
    BY <1>2 DEF Acked, Given
  <2>. QED
    BY <1>1, <1>3, <2>1
<1>. HIDE DEF o
<1>5. LinksTell'
  <2>. SUFFICES ASSUME NEW l \in Link PROVE LinkTells(Abandoned(t, l), Acked', Given')
    BY <1>1 DEF LinksTell
  <2>1. link[l] \in SafeLink /\ LinkTells(link[l], Acked, Given)
    BY LinksNow
  <2>2. \A u \in Tracker : <<>> \in Seq(Telling(Acked'[Other(u)], Entry))
    BY EmptySeq
  <2>3. CASE link[l].server = "none"
    <3>1. /\ Abandoned(t, l) = link[l] /\ ~link[l].up
          /\ \A u \in Tracker : /\ link[l].chan[u] = <<>>
                                /\ link[l].outbox[u] \in Seq(Telling({}, {}))
      BY <2>1, <2>3 DEF Abandoned, LinkTells
    <3>. QED
      BY <2>2, <3>1 DEF LinkTells
  <2>4. CASE link[l].server # "none"
    <3>1. /\ Abandoned(t, l).up = FALSE /\ Abandoned(t, l).server # "none"
          /\ Abandoned(t, l).chan[o] = <<>> /\ Abandoned(t, l).chan[t] = link[l].chan[t]
      BY <1>2, <2>1, <2>4 DEF Abandoned, SafeLink, o
    <3>2. link[l].chan[t] \in Seq(Telling(Acked'[Other(t)], Entry))
      BY <1>4, <2>1 DEF LinkTells, o
    <3>. QED
      BY <1>2, <2>2, <3>1, <3>2 DEF LinkTells
  <2>. QED
    BY <2>3, <2>4
<1>6. WorkersTell'
  <2>1. /\ \A w \in Worker : worker'[t][w] = Idle
        /\ worker'[o] = worker[o]
    BY <1>1, <1>2 DEF SafeInv
  <2>. QED
    BY <1>2, <1>4, <2>1 DEF AckInv, WorkersTell, Idle
<1>7. LogsTell'
  <2>1. node'[t].log = <<>> /\ <<>> \in Seq(Given'[t])
    BY <1>3, EmptySeq DEF FreshNode
  <2>2. node'[o].log \in Seq(Given'[o])
    BY <1>2, <1>3, <1>4 DEF AckInv, LogsTell
  <2>. QED
    BY <1>2, <2>1, <2>2 DEF LogsTell
<1>8. AckSound'
  <2>1. node'[t].next_seq = 1 /\ Len(node'[t].log) = 0
    BY <1>3 DEF FreshNode
  <2>2. Trimmed(t)' = {}
    BY <2>1 DEF Trimmed
  <2>3. Trimmed(o)' = Trimmed(o)
        /\ (Processed(o, node[o].next_seq - 1 - Len(node[o].log))
             => <<restarts'[o], node'[o].next_seq - 1 - Len(node'[o].log)>> \in seen'[o])
    BY <1>1, <1>3 DEF Trimmed, Processed
  <2>. QED
    BY <1>2, <2>2, <2>3 DEF AckInv, AckSound, Processed
<1>. QED
  BY <1>5, <1>6, <1>7, <1>8 DEF AckInv

\* AckInv is inductive, given the types and the order of the log.
LEMMA NextAck ==
    ASSUME SafeInv, SafeInv', LogIsSuffix, AckInv, [Next]_vars
    PROVE  AckInv'
<1>1. ASSUME NEW t \in Tracker, NEW w \in Worker, Session(t, w) PROVE AckInv'
  BY <1>1, ClientRequestAck, RecordOpAck, SendOpAck DEF Session
<1>2. ASSUME NEW l \in Link, NEW t \in Tracker, ProcessPeerMessage(l, t) PROVE AckInv'
  BY <1>2, FlushAck, ReceiveCatchupAck, ReceiveOpAck, ReceiveAckAck, SnapshotAck
     DEF ProcessPeerMessage
<1>3. CASE UNCHANGED vars
  <2>1. UNCHANGED <<node, worker, link, restarts, seen>>
    BY <1>3 DEF vars
  <2>. QED
    BY <2>1, LinksNow, AckUntouched
<1>4. CASE Threads
  BY <1>1, <1>2, <1>4, ConnectLoopAck, ListenerAck DEF Threads
<1>5. CASE Faults
  BY <1>5, LinkBreakAck, RestartAck DEF Faults
<1>. QED
  BY <1>3, <1>4, <1>5 DEF Next

\* Nothing has been numbered yet.
LEMMA InitAck == ASSUME Init PROVE AckInv
<1>1. /\ node = [t \in Tracker |-> FreshNode] /\ link = [l \in Link |-> UnusedLink]
      /\ worker = [t \in Tracker |-> [w \in Worker |-> Idle]]
  BY DEF Init
<1>2. LinksTell
  <2>. SUFFICES ASSUME NEW l \in Link PROVE LinkTells(UnusedLink, Acked, Given)
    BY <1>1 DEF LinksTell
  <2>1. /\ UnusedLink.up = FALSE
        /\ \A t \in Tracker : UnusedLink.chan[t] = <<>> /\ UnusedLink.outbox[t] = <<>>
    BY DEF UnusedLink, Empty
  <2>2. \A A, G : <<>> \in Seq(Telling(A, G))
    BY EmptySeq
  <2>. QED
    BY <2>1, <2>2 DEF LinkTells
<1>3. WorkersTell
  BY <1>1 DEF WorkersTell, Idle
<1>4. LogsTell
  BY <1>1, EmptySeq DEF LogsTell, FreshNode
<1>5. AckSound
  <2>1. \A t \in Tracker : node[t].next_seq = 1 /\ Len(node[t].log) = 0
    BY <1>1 DEF FreshNode
  <2>2. \A t \in Tracker : Trimmed(t) = {}
    BY <2>1 DEF Trimmed
  <2>. QED
    BY <2>2 DEF AckSound
<1>. QED
  BY <1>2, <1>3, <1>4, <1>5 DEF AckInv

\* A tracker trims its log only up to an operation its peer has processed, for
\* any number of sessions, links and restarts and whatever links lose: no ACK is
\* made up or taken for one of another incarnation (MSG_SYNC_ACK, AckSound).
THEOREM AcksAreSound == Spec => []AckSound
<1>1. Init => AckInv
  BY InitAck
<1>2. SafeInv /\ SafeInv' /\ LogIsSuffix /\ AckInv /\ [Next]_vars => AckInv'
  BY NextAck
<1>3. AckInv => AckSound
  BY DEF AckInv
<1>. QED
  BY <1>1, <1>2, <1>3, Safety, LogAlwaysSuffix, PTL DEF Spec

=============================================================================
