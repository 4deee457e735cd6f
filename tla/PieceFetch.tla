----------------------------- MODULE PieceFetch -----------------------------
(***************************************************************************)
(* One connection between a downloading client and a seeding one: the loop *)
(* of peer_worker with fetch_piece (client/download_manager.cpp) at one    *)
(* end, a serve_peer thread of the Seeder (client/seeder.cpp) at the other.*)
(*                                                                         *)
(* Requests and replies carry no number.  When a receive times out, the    *)
(* request is forgotten but its reply still comes, and the next request    *)
(* finds it.  A receive that times out inside a message leaves the rest of *)
(* the message to be read as a header.  The sharing user may stop sharing  *)
(* the file, or share another under its name, while requests are served;   *)
(* the seeding client may die.                                             *)
(*                                                                         *)
(* Messages are modelled whole, a stream that lost its place as "garbled". *)
(* The queue is the one Download treats as a set: here its order matters.  *)
(* Other workers of the job take from it and give back to it.              *)
(***************************************************************************)
EXTENDS Naturals, Sequences

CONSTANTS
    Count,          \* the pieces of the file are 1..Count
    MaxFailures,    \* maxConsecutiveFailures
    MaxRivals,      \* bound on the pieces other workers take
    MaxTimeouts,    \* bound on the receives that time out between messages
    MaxTorn,        \* bound on the receives that time out inside a message
    MaxReshares,    \* bound on the changes to what is shared
    MaxBadWrites,   \* bound on the writes to disk that fail
    MayDie,         \* whether the seeding client may die
    None            \* no store, no piece

Piece == 1..Count

\* What the Seeder may have under the name: the file, another one, nothing.
Shared == {"file", "other", None}

ASSUME FetchAssumption ==
    /\ Count \in Nat /\ MaxFailures \in Nat \ {0}
    /\ {MaxRivals, MaxTimeouts, MaxTorn, MaxReshares, MaxBadWrites} \subseteq Nat
    /\ None \notin Piece /\ None \notin {"file", "other"}

VARIABLES
    queue,      \* __queue of the job
    at,         \* where peer_worker is
    piece,      \* its index
    failures,   \* its consecutive_failures
    written,    \* the pieces in the store of the job
    rival,      \* the pieces other workers have in hand
    rivals,     \* how often other workers took a piece
    requests,   \* on their way to the seeding client
    serving,    \* what serve_peer is answering: the request and the store found
    replies,    \* on their way back
    garbled,    \* the next bytes to read are not the start of a message
    store,      \* what the Seeder has under the name
    alive,      \* whether the seeding client lives
    misses,     \* times the peer answered late, not at all, or without the piece
    badWrites,  \* verified pieces that the disk did not take
    timeouts,   \* receives that timed out between messages
    torn,       \* receives that timed out inside a message
    reshares    \* changes to what is shared

rivalVars == <<rival, rivals>>
workerVars == <<queue, at, piece, failures, written>>
peerVars == <<requests, serving, store, alive, reshares>>
fetchVars == <<workerVars, rivalVars, replies, garbled, misses, badWrites, timeouts, torn, peerVars>>

FetchInit ==
    /\ queue = [i \in 1..Count |-> i]
    /\ at = "take" /\ piece = None /\ failures = 0
    /\ written = {} /\ rival = {} /\ rivals = 0
    /\ requests = <<>> /\ serving = None /\ replies = <<>>
    /\ garbled = FALSE
    /\ store = "file" /\ alive = TRUE
    /\ misses = 0 /\ badWrites = 0 /\ timeouts = 0 /\ torn = 0 /\ reshares = 0

----------------------------------------------------------------------------
(* peer_worker *)

Front(s) == SubSeq(s, 1, Len(s) - 1)

Take ==
    /\ at = "take" /\ queue # <<>>
    /\ piece' = queue[Len(queue)]
    /\ queue' = Front(queue)
    /\ at' = "send"
    /\ UNCHANGED <<failures, written, rivalVars, replies, garbled, misses, badWrites, timeouts, torn, peerVars>>

Retire ==
    /\ at = "take" /\ queue = <<>>
    /\ at' = "off"
    /\ UNCHANGED <<queue, piece, failures, written, rivalVars, replies, garbled, misses,
                   badWrites, timeouts, torn, peerVars>>

\* A request to a dead peer is lost.
Send ==
    /\ at = "send"
    /\ at' = "receive"
    /\ requests' = IF alive THEN Append(requests, piece) ELSE requests
    /\ UNCHANGED <<queue, piece, failures, written, rivalVars, replies, garbled, misses,
                   badWrites, timeouts, torn, serving, store, alive, reshares>>

\* Slip: the piece goes to the other end of the queue.
PushFront ==
    queue' = <<piece>> \o queue

PushBack ==
    queue' = Append(queue, piece)

\* Slip: one failure fewer is forgiven.
TooManyEarly == failures + 2 >= MaxFailures

TooMany == failures + 1 >= MaxFailures

\* The piece goes back; after too many failures in a row the worker retires.
Fail ==
    /\ PushBack
    /\ failures' = failures + 1
    /\ at' = IF TooMany THEN "off" ELSE "take"
    /\ piece' = None
    /\ UNCHANGED written

\* fetch_piece: an OK reply that names the piece asked for.
Fetched(r) == r.index = piece

\* write_piece: the bytes have the hash of that piece.
Verified(r) == r.index = piece /\ r.from = "file"

\* The bytes are written, unless the disk fails: then the piece goes back as after
\* any other failure.
WritePiece ==
    \/ /\ written' = written \cup {piece}
       /\ failures' = 0
       /\ at' = "take" /\ piece' = None
       /\ UNCHANGED <<queue, badWrites>>
    \/ /\ badWrites < MaxBadWrites
       /\ badWrites' = badWrites + 1
       /\ Fail

Receive ==
    /\ at = "receive" /\ replies # <<>> /\ ~garbled
    /\ LET r == Head(replies) IN
         /\ misses' = IF r.from # "file" THEN misses + 1 ELSE misses
         /\ \/ Fetched(r) /\ Verified(r) /\ WritePiece
            \/ ~(Fetched(r) /\ Verified(r)) /\ Fail /\ UNCHANGED badWrites
    /\ replies' = Tail(replies)
    /\ UNCHANGED <<rivalVars, garbled, timeouts, torn, peerVars>>

\* The bytes read as a header have no PROTO_MAGIC or announce nonsense; the
\* place in the stream may be found again by chance.
ReceiveGarbage ==
    /\ at = "receive" /\ garbled
    /\ Fail
    /\ garbled' \in BOOLEAN
    /\ UNCHANGED <<rivalVars, replies, misses, badWrites, timeouts, torn, peerVars>>

\* recv finds the connection closed.
ReceiveEnd ==
    /\ at = "receive" /\ replies = <<>> /\ ~alive
    /\ Fail
    /\ misses' = misses + 1
    /\ UNCHANGED <<rivalVars, replies, garbled, badWrites, timeouts, torn, peerVars>>

\* SO_RCVTIMEO: nothing came for kPeerIoTimeoutSec.
Timeout ==
    /\ at = "receive" /\ replies = <<>> /\ alive
    /\ timeouts < MaxTimeouts
    /\ Fail
    /\ misses' = misses + 1 /\ timeouts' = timeouts + 1
    /\ UNCHANGED <<rivalVars, replies, garbled, badWrites, torn, peerVars>>

\* The same, with a part of the reply received.
TornTimeout ==
    /\ at = "receive" /\ replies = <<>> /\ serving # None
    /\ torn < MaxTorn
    /\ Fail
    /\ serving' = None /\ garbled' = TRUE
    /\ misses' = misses + 1 /\ torn' = torn + 1
    /\ UNCHANGED <<rivalVars, replies, badWrites, timeouts, requests, store, alive, reshares>>

----------------------------------------------------------------------------
(* The other workers of the job *)

RivalTakes ==
    /\ rivals < MaxRivals /\ queue # <<>>
    /\ rivals' = rivals + 1
    /\ rival' = rival \cup {queue[Len(queue)]}
    /\ queue' = Front(queue)
    /\ UNCHANGED <<at, piece, failures, written, replies, garbled, misses, badWrites, timeouts, torn, peerVars>>

RivalEnds ==
    /\ \E p \in rival :
         /\ rival' = rival \ {p}
         /\ \/ queue' = Append(queue, p) /\ UNCHANGED written
            \/ written' = written \cup {p} /\ UNCHANGED queue
    /\ UNCHANGED <<rivals, at, piece, failures, replies, garbled, misses, badWrites, timeouts, torn, peerVars>>

----------------------------------------------------------------------------
(* serve_peer *)

\* recv_msg, then find: the store is kept while it is read, even when the share
\* is removed meanwhile.
Find ==
    /\ alive /\ serving = None /\ requests # <<>>
    /\ serving' = [index |-> Head(requests), store |-> store]
    /\ requests' = Tail(requests)
    /\ UNCHANGED <<workerVars, rivalVars, replies, garbled, misses, badWrites, timeouts, torn, store, alive, reshares>>

\* read_piece, then the reply: the piece, or ST_NOT_FOUND.
Reply ==
    /\ alive /\ serving # None
    /\ replies' = Append(replies,
            IF serving.store = None THEN [index |-> None, from |-> None]
            ELSE [index |-> serving.index, from |-> serving.store])
    /\ serving' = None
    /\ UNCHANGED <<workerVars, rivalVars, garbled, misses, badWrites, timeouts, torn, requests, store, alive, reshares>>

\* add_share or remove_share at the console of the seeding client.
Reshare ==
    /\ alive /\ reshares < MaxReshares
    /\ reshares' = reshares + 1
    /\ \E s \in Shared \ {store} : store' = s
    /\ UNCHANGED <<workerVars, rivalVars, replies, garbled, misses, badWrites, timeouts, torn, requests, serving, alive>>

\* The seeding client is gone; what it sent may be lost.
Die ==
    /\ MayDie /\ alive
    /\ alive' = FALSE
    /\ requests' = <<>> /\ serving' = None
    /\ replies' \in {replies, <<>>}
    /\ UNCHANGED <<workerVars, rivalVars, garbled, misses, badWrites, timeouts, torn, store, reshares>>

----------------------------------------------------------------------------

WorkerGoesOn ==
    Take \/ Retire \/ Send \/ Receive \/ ReceiveGarbage \/ ReceiveEnd

PeerWorker == WorkerGoesOn \/ Timeout \/ TornTimeout

ServePeer == Find \/ Reply

FetchNext ==
    \/ PeerWorker \/ ServePeer
    \/ RivalTakes \/ RivalEnds \/ Reshare \/ Die

FetchSpec == FetchInit /\ [][FetchNext]_fetchVars

\* The worker and the serving thread go on while there is something for them.
\* No fairness is asked of timeouts: the worker always has another step when
\* the peer answers.
FetchFairSpec ==
    /\ FetchSpec
    /\ WF_fetchVars(WorkerGoesOn)
    /\ WF_fetchVars(ServePeer)

----------------------------------------------------------------------------
(* Properties *)

\* What a reply is: the piece asked for and the file its bytes are of.
Answer == [index: Piece \cup {None}, from: Shared]

FetchTypeOK ==
    /\ queue \in Seq(Piece)
    /\ at \in {"take", "send", "receive", "off"}
    /\ piece \in Piece \cup {None} /\ (at \in {"send", "receive"} => piece \in Piece)
    /\ failures \in 0..MaxFailures
    /\ written \subseteq Piece
    /\ rival \subseteq Piece /\ rivals \in 0..MaxRivals
    /\ requests \in Seq(Piece)
    /\ serving \in [index: Piece, store: Shared] \cup {None}
    /\ replies \in Seq(Answer)
    /\ garbled \in BOOLEAN /\ alive \in BOOLEAN
    /\ store \in Shared
    /\ misses \in Nat /\ badWrites \in 0..MaxBadWrites /\ timeouts \in 0..MaxTimeouts
    /\ torn \in 0..MaxTorn /\ reshares \in 0..MaxReshares

\* A worker that has the queue to itself gives up on its peer only when as many
\* requests as that takes were missed or refused by the peer, or their pieces by the
\* disk of this client: stale replies to earlier requests never add up to a dropped
\* peer (the queue is a stack: a failed piece is asked for again, and its late reply
\* is then welcome).
RetiredForCause ==
    rivals = 0 /\ failures = MaxFailures =>
        misses + badWrites >= MaxFailures \/ torn > 0

\* download_manager.cpp:128-131: the same beside other workers.
RetiredForCauseAmongRivals ==
    failures = MaxFailures => misses + badWrites >= MaxFailures \/ torn > 0

\* If peer and disk together fail fewer requests than a worker forgives, it gets
\* every piece over this one connection, unless others take pieces from it.
AllFetched ==
    <>( \/ written = Piece
        \/ misses + badWrites >= MaxFailures
        \/ torn > 0 \/ rivals > 0 )

=============================================================================
