------------------------------ MODULE Download ------------------------------
(***************************************************************************)
(* Downloads of one client: class DownloadManager with its jobs and their  *)
(* peer_worker threads, the PieceStore each job writes, and the Seeder     *)
(* that serves the result (client/download_manager, piece_store, seeder).  *)
(*                                                                         *)
(* A job runs rounds.  In a round a few workers per peer share a queue of  *)
(* missing pieces: take one, fetch it, verify it, write it, mark it, now   *)
(* and then announce the marked ones to the tracker, and give a piece back *)
(* that could not be fetched.  The client may crash; what is on disk then  *)
(* stays, and another download of the file resumes from it.                *)
(*                                                                         *)
(* A job is a record of its key ("group/file"), its destination path and   *)
(* the content it is after.  The bytes of a piece on disk are nothing yet  *)
(* ("hole"), incomplete ("torn") or those of the piece in some content; a  *)
(* hash identifies a content.  Peers and the tracker are the environment:  *)
(* fetches and requests succeed or fail.  The queue is a set: EachPieceOnce*)
(* shows that no piece is ever in it twice.  The time and the count that   *)
(* make an announcement due are a free choice.  What happens on one        *)
(* connection to a peer is the subject of PieceFetch.                      *)
(***************************************************************************)
EXTENDS Naturals, FiniteSets

CONSTANTS
    Job,                \* the downloads the user ever asks for
    Piece,              \* the pieces of a file
    Peer,               \* the other clients
    Honest,             \* peers that are up, hold the file and answer
    TargetConnections,  \* kTargetConnections
    MaxFailures,        \* maxConsecutiveFailures
    MaxRounds,          \* kMaxRounds
    DiskWorks,          \* outcomes of disk I/O: TRUE, FALSE
    TrackerAnswers,     \* outcomes of a request to the tracker: TRUE, FALSE
    MaxCrashes,         \* bound on the crashes of the client
    None                \* no job, no piece

Key == {j.key : j \in Job}
Path == {j.dest : j \in Job}
Content == {j.content : j \in Job}

ASSUME PieceAssumption == IsFiniteSet(Piece) /\ None \notin Piece
ASSUME PeerAssumption == IsFiniteSet(Peer) /\ Honest \subseteq Peer
ASSUME LimitAssumption ==
    /\ TargetConnections \in Nat \ {0} /\ MaxFailures \in Nat \ {0}
    /\ MaxRounds \in Nat \ {0} /\ MaxCrashes \in Nat
ASSUME OutcomeAssumption == DiskWorks \subseteq BOOLEAN /\ TrackerAnswers \subseteq BOOLEAN
ASSUME NoneAssumption == None \notin Job /\ {"hole", "torn"} \cap Content = {}

VARIABLES
    phase,      \* per job, where run_job is
    round,      \* per job, the rounds it is through
    peers,      \* per job, the peers of the current round
    queue,      \* per job, __queue
    have,       \* per job, the bitmap of its PieceStore
    worker,     \* per job and connection, a peer_worker thread
    disk,       \* per path and piece, the bytes there
    share,      \* per key, the job whose store the Seeder serves
    listed,     \* per key, the pieces the tracker lists for this client
    crashes     \* how often the client crashed

jobVars == <<phase, round, peers, queue, have>>
vars == <<jobVars, worker, disk, share, listed, crashes>>

Phase == {"new", "open", "loop", "work", "done", "failed", "killed"}

Worker == Peer \X (1..TargetConnections)

WorkerRecord == [pc: {"off", "connect", "take", "fetch", "write", "mark",
                      "announce", "send"},
                 piece: Piece \cup {None}, failures: Nat, bits: SUBSET Piece]

Off == [pc |-> "off", piece |-> None, failures |-> 0, bits |-> {}]

Running(j) == phase[j] \in {"open", "loop", "work"}

\* complete()
Complete(j) == have[j] = Piece

OnDisk(j) == {p \in Piece : disk[j.dest][p] = j.content}

Init ==
    /\ phase = [j \in Job |-> "new"]
    /\ round = [j \in Job |-> 0]
    /\ peers = [j \in Job |-> {}]
    /\ queue = [j \in Job |-> {}]
    /\ have = [j \in Job |-> {}]
    /\ worker = [j \in Job |-> [w \in Worker |-> Off]]
    /\ disk = [d \in Path |-> [p \in Piece |-> "hole"]]
    /\ share = [k \in Key |-> None]
    /\ listed = [k \in Key |-> {}]
    /\ crashes = 0

----------------------------------------------------------------------------
(* run_job *)

\* download_file at the console: no job for the key may be running, some peer
\* must hold the file.
Start(j) ==
    /\ phase[j] = "new"
    /\ \A i \in Job : i.key = j.key => ~Running(i)
    /\ phase' = [phase EXCEPT ![j] = "open"]
    /\ \E P \in (SUBSET Peer) \ {{}} : peers' = [peers EXCEPT ![j] = P]
    /\ UNCHANGED <<round, queue, have, worker, disk, share, listed, crashes>>

\* Slip: the bytes found on disk are taken for good without a hash.
OpenTrusting(j) ==
    /\ phase[j] = "open"
    /\ \E ok \in DiskWorks :
         /\ phase' = [phase EXCEPT ![j] = IF ok THEN "loop" ELSE "failed"]
         /\ have' = [have EXCEPT ![j] =
                IF ok THEN {p \in Piece : disk[j.dest][p] # "hole"} ELSE @]
    /\ UNCHANGED <<round, peers, queue, worker, disk, share, listed, crashes>>

\* Slip: the destination is opened with O_TRUNC.
OpenAfresh(j) ==
    /\ phase[j] = "open"
    /\ phase' = [phase EXCEPT ![j] = "loop"]
    /\ disk' = [disk EXCEPT ![j.dest] = [p \in Piece |-> "hole"]]
    /\ UNCHANGED <<round, peers, queue, have, worker, share, listed, crashes>>

\* open_for_download, then resume_scan: what is on disk, can be read and hashes
\* right is marked.
Open(j) ==
    /\ phase[j] = "open"
    /\ \E ok \in DiskWorks :
         /\ phase' = [phase EXCEPT ![j] = IF ok THEN "loop" ELSE "failed"]
         /\ \E found \in IF FALSE \in DiskWorks THEN SUBSET OnDisk(j) ELSE {OnDisk(j)} :
              have' = [have EXCEPT ![j] = IF ok THEN found ELSE @]
    /\ UNCHANGED <<round, peers, queue, worker, disk, share, listed, crashes>>

\* The workers of a round: several connections per peer when peers are few.
ConnectionsPerPeer(n) ==
    IF TargetConnections < n THEN 1 ELSE TargetConnections \div n

Pool(P) == P \X (1..ConnectionsPerPeer(Cardinality(P)))

\* Slip: one round too many.
RoundsLeftLate(j) == round[j] <= MaxRounds

RoundsLeft(j) == round[j] < MaxRounds

\* A round begins with every missing piece queued; after the first, with the
\* peers the tracker now names.  Without peers the round is over at once.
BeginRound(j) ==
    /\ phase[j] = "loop"
    /\ ~Complete(j) /\ RoundsLeft(j)
    /\ \E P \in IF round[j] = 0 THEN {peers[j]} ELSE SUBSET Peer :
         /\ peers' = [peers EXCEPT ![j] = P]
         /\ IF P = {}
            THEN /\ round' = [round EXCEPT ![j] = @ + 1]
                 /\ UNCHANGED <<phase, queue, worker>>
            ELSE /\ phase' = [phase EXCEPT ![j] = "work"]
                 /\ queue' = [queue EXCEPT ![j] = Piece \ have[j]]
                 /\ worker' = [worker EXCEPT ![j] =
                        [w \in Worker |->
                            IF w \in Pool(P) THEN [Off EXCEPT !.pc = "connect"]
                            ELSE Off]]
                 /\ UNCHANGED round
    /\ UNCHANGED <<have, disk, share, listed, crashes>>

AllOff(j) == \A w \in Worker : worker[j][w].pc = "off"

\* Slip: the announcements that were held back are not flushed.
EndRoundSilently(j) ==
    /\ phase[j] = "work"
    /\ AllOff(j)
    /\ phase' = [phase EXCEPT ![j] = "loop"]
    /\ round' = [round EXCEPT ![j] = @ + 1]
    /\ UNCHANGED <<peers, queue, have, worker, disk, share, listed, crashes>>

\* All workers are joined; announce flushes what batching held back.
EndRound(j) ==
    /\ phase[j] = "work"
    /\ AllOff(j)
    /\ phase' = [phase EXCEPT ![j] = "loop"]
    /\ round' = [round EXCEPT ![j] = @ + 1]
    /\ \E ok \in TrackerAnswers :
         listed' = [listed EXCEPT ![j.key] = IF ok THEN have[j] ELSE @]
    /\ UNCHANGED <<peers, queue, have, worker, disk, share, crashes>>

\* Slip: a job that ran out of rounds is shared like a whole one.
FinishAnyhow(j) ==
    /\ phase[j] = "loop"
    /\ Complete(j) \/ ~RoundsLeft(j)
    /\ phase' = [phase EXCEPT ![j] = "done"]
    /\ share' = [share EXCEPT ![j.key] = j]
    /\ UNCHANGED <<round, peers, queue, have, worker, disk, listed, crashes>>

\* The end of run_job: share the whole file, or give up.
Finish(j) ==
    /\ phase[j] = "loop"
    /\ Complete(j) \/ ~RoundsLeft(j)
    /\ phase' = [phase EXCEPT ![j] = IF Complete(j) THEN "done" ELSE "failed"]
    /\ share' = [share EXCEPT ![j.key] = IF Complete(j) THEN j ELSE @]
    /\ UNCHANGED <<round, peers, queue, have, worker, disk, listed, crashes>>

----------------------------------------------------------------------------
(* peer_worker *)

\* tcp_connect; a worker whose peer is dead retires.
Connect(j, w) ==
    /\ worker[j][w].pc = "connect"
    /\ \E ok \in IF w[1] \in Honest THEN {TRUE} ELSE BOOLEAN :
         worker' = [worker EXCEPT ![j][w] =
                        IF ok THEN [Off EXCEPT !.pc = "take"] ELSE Off]
    /\ UNCHANGED <<jobVars, disk, share, listed, crashes>>

Take(j, w) ==
    /\ worker[j][w].pc = "take"
    /\ \E p \in queue[j] :
         /\ queue' = [queue EXCEPT ![j] = @ \ {p}]
         /\ worker' = [worker EXCEPT ![j][w].pc = "fetch", ![j][w].piece = p]
    /\ UNCHANGED <<phase, round, peers, have, disk, share, listed, crashes>>

\* An empty queue retires the worker, although others may still put pieces
\* back.
Retire(j, w) ==
    /\ worker[j][w].pc = "take"
    /\ queue[j] = {}
    /\ worker' = [worker EXCEPT ![j][w] = Off]
    /\ UNCHANGED <<jobVars, disk, share, listed, crashes>>

\* Slip: a worker that gives up on its peer keeps its piece.
GiveBackUnlessLast(j, w) ==
    LET last == worker[j][w].failures + 1 >= MaxFailures
    IN  /\ queue' = [queue EXCEPT ![j] = IF last THEN @ ELSE @ \cup {worker[j][w].piece}]
        /\ worker' = [worker EXCEPT ![j][w] =
                        IF last THEN Off
                        ELSE [Off EXCEPT !.pc = "take",
                                         !.failures = worker[j][w].failures + 1]]

\* Slip: failures in a row are not counted.
GiveBackForever(j, w) ==
    /\ queue' = [queue EXCEPT ![j] = @ \cup {worker[j][w].piece}]
    /\ worker' = [worker EXCEPT ![j][w] = [Off EXCEPT !.pc = "take"]]

\* The piece goes back; too many failures in a row retire the worker.
GiveBack(j, w) ==
    /\ queue' = [queue EXCEPT ![j] = @ \cup {worker[j][w].piece}]
    /\ worker' = [worker EXCEPT ![j][w] =
                    IF worker[j][w].failures + 1 >= MaxFailures THEN Off
                    ELSE [Off EXCEPT !.pc = "take",
                                     !.failures = worker[j][w].failures + 1]]

\* No answer, another answer, or bytes that fail the hash: nothing is written.
FetchFails(j, w) ==
    /\ worker[j][w].pc = "fetch"
    /\ w[1] \notin Honest
    /\ GiveBack(j, w)
    /\ UNCHANGED <<phase, round, peers, have, disk, share, listed, crashes>>

\* Slip: the piece is marked before its bytes are written.
MarkEarly(j, w) ==
    /\ worker[j][w].pc = "fetch"
    /\ have' = [have EXCEPT ![j] = @ \cup {worker[j][w].piece}]
    /\ worker' = [worker EXCEPT ![j][w].pc = "write"]
    /\ disk' = [disk EXCEPT ![j.dest][worker[j][w].piece] =
                    IF @ = j.content THEN @ ELSE "torn"]
    /\ UNCHANGED <<phase, round, peers, queue, share, listed, crashes>>

\* The bytes hash right and pwrite begins.  Writing what is there already
\* changes nothing on the way.
Fetched(j, w) ==
    /\ worker[j][w].pc = "fetch"
    /\ worker' = [worker EXCEPT ![j][w].pc = "write"]
    /\ disk' = [disk EXCEPT ![j.dest][worker[j][w].piece] =
                    IF @ = j.content THEN @ ELSE "torn"]
    /\ UNCHANGED <<jobVars, share, listed, crashes>>

WriteFails(j, w) ==
    /\ worker[j][w].pc = "write"
    /\ FALSE \in DiskWorks
    /\ GiveBack(j, w)
    /\ UNCHANGED <<phase, round, peers, have, disk, share, listed, crashes>>

Written(j, w) ==
    /\ worker[j][w].pc = "write"
    /\ TRUE \in DiskWorks
    /\ disk' = [disk EXCEPT ![j.dest][worker[j][w].piece] = j.content]
    /\ worker' = [worker EXCEPT ![j][w].pc = "mark"]
    /\ UNCHANGED <<jobVars, share, listed, crashes>>

\* The end of write_piece; maybe_announce then finds an announcement due or
\* not.
Mark(j, w) ==
    /\ worker[j][w].pc = "mark"
    /\ have' = [have EXCEPT ![j] = @ \cup {worker[j][w].piece}]
    /\ \E pc \in {"announce", "take"} :
         worker' = [worker EXCEPT ![j][w] = [Off EXCEPT !.pc = pc]]
    /\ UNCHANGED <<phase, round, peers, queue, disk, share, listed, crashes>>

\* Slip: the bitmap of a full seeder is announced.
AnnounceAll(j, w) ==
    /\ worker[j][w].pc = "announce"
    /\ worker' = [worker EXCEPT ![j][w].pc = "send", ![j][w].bits = Piece]
    /\ UNCHANGED <<jobVars, disk, share, listed, crashes>>

\* announce: take the bitmap under its lock, then send it.
Announce(j, w) ==
    /\ worker[j][w].pc = "announce"
    /\ worker' = [worker EXCEPT ![j][w].pc = "send", ![j][w].bits = have[j]]
    /\ UNCHANGED <<jobVars, disk, share, listed, crashes>>

Send(j, w) ==
    /\ worker[j][w].pc = "send"
    /\ \E ok \in TrackerAnswers :
         listed' = [listed EXCEPT ![j.key] = IF ok THEN worker[j][w].bits ELSE @]
    /\ worker' = [worker EXCEPT ![j][w] = [Off EXCEPT !.pc = "take"]]
    /\ UNCHANGED <<jobVars, disk, share, crashes>>

----------------------------------------------------------------------------
(* Faults *)

\* The client is killed.  Its threads and maps are gone, the disk stays, and
\* the tracker drops a client whose connection closes.
Crash ==
    /\ crashes < MaxCrashes
    /\ crashes' = crashes + 1
    /\ phase' = [j \in Job |-> IF phase[j] = "new" THEN "new" ELSE "killed"]
    /\ queue' = [j \in Job |-> {}]
    /\ have' = [j \in Job |-> {}]
    /\ worker' = [j \in Job |-> [w \in Worker |-> Off]]
    /\ share' = [k \in Key |-> None]
    /\ listed' = [k \in Key |-> {}]
    /\ UNCHANGED <<round, peers, disk>>

----------------------------------------------------------------------------

RunJob(j) == Open(j) \/ BeginRound(j) \/ EndRound(j) \/ Finish(j)

PeerWorker(j, w) ==
    \/ Connect(j, w) \/ Take(j, w) \/ Retire(j, w) \/ FetchFails(j, w)
    \/ Fetched(j, w) \/ WriteFails(j, w) \/ Written(j, w) \/ Mark(j, w)
    \/ Announce(j, w) \/ Send(j, w)

Next ==
    \/ \E j \in Job : Start(j) \/ RunJob(j)
    \/ \E j \in Job, w \in Worker : PeerWorker(j, w)
    \/ Crash

Spec == Init /\ [][Next]_vars

\* Every thread goes on: fetches end because the sockets to peers have
\* timeouts, connects and disk I/O because the system's do; a request to the
\* tracker is taken to end too.
Fairness ==
    /\ \A j \in Job : WF_vars(RunJob(j))
    /\ \A j \in Job, w \in Worker : WF_vars(PeerWorker(j, w))

FairSpec == Spec /\ Fairness

----------------------------------------------------------------------------
(* Properties *)

TypeOK ==
    /\ phase \in [Job -> Phase]
    /\ round \in [Job -> 0..MaxRounds]
    /\ peers \in [Job -> SUBSET Peer]
    /\ queue \in [Job -> SUBSET Piece]
    /\ have \in [Job -> SUBSET Piece]
    /\ worker \in [Job -> [Worker -> WorkerRecord]]
    /\ disk \in [Path -> [Piece -> Content \cup {"hole", "torn"}]]
    /\ share \in [Key -> Job \cup {None}]
    /\ listed \in [Key -> SUBSET Piece]
    /\ crashes \in 0..MaxCrashes

\* A piece marked in the bitmap of a store, hence served and announced, is
\* whole on disk, whatever was torn by failed writes and crashes before
\* (write_piece verifies, writes, then marks; resume_scan hashes).
MarkedIsWhole == \A j \in Job : have[j] \subseteq OnDisk(j)

InFlight(j, p) ==
    {w \in Worker : /\ worker[j][w].piece = p
                    /\ worker[j][w].pc \in {"fetch", "write", "mark"}}

\* While the workers of a round run, a piece is in exactly one place: in the
\* queue, marked, or with exactly one worker.  None is forgotten by a worker
\* that fails or retires, none fetched twice, none queued twice.
EachPieceOnce ==
    \A j \in Job : phase[j] = "work" =>
        \A p \in Piece :
            /\ \A v, w \in InFlight(j, p) : v = w
            /\ InFlight(j, p) # {} => p \notin queue[j] \cup have[j]
            /\ InFlight(j, p) = {} => p \in queue[j] \/ p \in have[j]
            /\ p \notin queue[j] \cap have[j]

\* What the Seeder serves is a whole file on disk, and only jobs that ended
\* well are served (run_job adds the share last).
SharedIsWhole ==
    \A k \in Key : share[k] # None =>
        /\ phase[share[k]] = "done" /\ share[k].key = k
        /\ have[share[k]] = Piece

\* The pieces the tracker lists for this client are whole on its disk, also
\* when announcements of several workers overtake each other.
ListedIsOnDisk ==
    \A j \in Job : listed[j.key] \subseteq OnDisk(j)

\* When a job that fetched anything is reported done, the tracker lists every
\* piece of it, although announcements are batched and may overtake each other:
\* the last one is sent when all workers are joined.  (If the tracker answers.)
DoneIsAnnounced ==
    [][\A j \in Job :
         /\ phase[j] # "done" /\ phase'[j] = "done" /\ round[j] > 0
         /\ TrackerAnswers = {TRUE}
         => listed'[j.key] = Piece]_vars

\* Every download ends, whatever peers and disk do: workers retire, and the
\* rounds are numbered.
JobEnds == \A j \in Job : phase[j] = "open" ~> ~Running(j)

\* The downloads implement VerifiedFiles: what is held never shrinks, not by a
\* torn write, a crash or a second download, and only a file held in full is
\* ever reported done.
Files ==
    INSTANCE VerifiedFiles WITH
        Download <- Job,
        held <- [j \in Job |-> OnDisk(j)],
        status <- [j \in Job |-> IF Running(j) THEN "running" ELSE phase[j]]

KeepsItsProgress == Files!Spec

\* What comments say and the code does not keep to, for the record (README): the
\* run unserved shows the second, the README how to see the others.

\* download_manager.cpp:113-114: pieces missing at the end of a round mean
\* that no peer of the round held them and behaved.
MissingMeansMisbehaved ==
    \A j \in Job :
        phase[j] = "work" /\ AllOff(j) /\ ~Complete(j) => peers[j] \cap Honest = {}

\* download_manager.cpp:179: other peers can pull the pieces announced.
AnnouncedIsServed ==
    \A k \in Key : listed[k] # {} => share[k] # None /\ listed[k] \subseteq have[share[k]]

\* download_manager.cpp:122: a client with the whole file is a full seeder of
\* it: the tracker lists it so.
DoneIsListed ==
    \A j \in Job : phase[j] = "done" => listed[j.key] = Piece

=============================================================================
