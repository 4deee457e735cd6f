# A TLA+ development of the peer-to-peer file sharing system

The repository is a small BitTorrent-like system: two *trackers* keep accounts,
groups, file metadata and peer lists in memory and replicate to each other;
*clients* log in at a tracker, publish files, download pieces from other clients
and seed what they have. This directory models the trackers, their replication
and the clients, checks the models with TLC and proves part of what they promise
with TLAPS.

## 1. Inventory

| Component | State | Operations | Talks to |
|---|---|---|---|
| `TrackerState` (`tracker/tracker_state.*`) | users (password digest, online, address); groups (owner, members, pending, files); per file its content and seeders with bitfields | account, login and logout, group, file and announcement methods; snapshot and restore; each under one lock | called by Session and SyncManager |
| `Session` (`tracker/session.*`) | the user and port of one connection | `dispatch` per request, `run` until the connection closes | TrackerState, then `record_and_replicate`, then the reply |
| `SyncManager` (`tracker/sync.*`) | log of own operations, next number, highest number applied of the peer's, descriptor of the link | record and push, connect loop, HELLO, catch-up, ACK, snapshot | the other tracker, over one TCP link |
| tracker `main` | listening socket | accept, peek at the first message, hand over to Session or SyncManager; `quit` | both |
| `TrackerClient` (`client/tracker_client.*`) | connection, current tracker, last login | request with one retry, fail-over, login replay | a tracker |
| `DownloadManager` (`client/download_manager.*`) | jobs; per job a queue of missing pieces and announcement counters | rounds, workers per peer, announcements | PieceStore, TrackerClient, Seeders of other clients |
| `PieceStore` (`client/piece_store.*`) | file descriptor, bitmap of verified pieces | open, resume scan, read, verified write | disk |
| `Seeder` (`client/seeder.*`) | shares | add, remove, serve pieces and bitfields | PieceStore |
| client `main` | who is logged in | one console command at a time | all client parts |
| `net`, `protocol`, `buffer`, `sha1` (`common/`) | none | framing, encoding, hashing | everything |

**How they interact.** A tracker runs one thread per connection. A session calls
one `TrackerState` method under that object's lock and, when it returned `ST_OK`
for one of eight replicated operations, calls `SyncManager::record_and_replicate`
under *another* lock (number it, log it) and a third (send it). Tracker 0 dials
tracker 1; either side pushes `SYNC_OP`s on the one link, applies what it
receives through the same `TrackerState` methods, and acknowledges; an ACK trims
the log of the sender. When a link forms the dialer asks for a catch-up, or for
a snapshot if it has no state; the acceptor asks only for a snapshot, and only
if it has no state.

**What is hard.** Three locks with gaps between them; two sessions whose
operations are recorded, or sent, in another order than they were executed;
descriptors noted under a lock and used after it; links that break with messages
in flight, and whose threads outlive them; restarts that lose log and numbering;
snapshots that cross with operations; ACKs that stand for more than was
received. On the client: fail-over with a lost reply, pieces that are in a
queue, in flight, on disk, marked and announced at different times, replies that
come after their request was given up, a console and jobs that share one
connection and one login. Below all that: sockets that fill up under a lock,
frames longer than the receiver takes, and descriptor numbers that are reused.
`PROJECT.json` lists these as hazards, each at its line with the properties that
would catch it, or a note on how far they do.

**What makes each component correct.**
* TrackerState: a group is owned by one of its members; applicants are not
  members; groups and seeder lists name existing accounts; a file name keeps its
  content; an offline user seeds nothing; only the owner admits members.
* Session: carries an existing user; logs its user out when it ends.
* SyncManager: numbers without gaps; what is trimmed has arrived; both trackers
  stay consistent whatever the link does; one link is served; they agree sooner
  or later; a restarted tracker gets the state back.
* Downloads: while workers run every missing piece is in the queue or with one of
  them; a marked piece is whole on disk, through crashes; what the tracker lists is
  held; what is served is whole; a job ends, and is not reported done before.
* PieceStore and `hash_file`: bits, counts and piece lengths are exact at the
  edges; threads share no slot and leave none out.
* A worker and a Seeder: a peer is dropped for cause only, whatever reply comes when,
  and a peer that serves gets its pieces fetched.
* TrackerClient and console: a request runs as the user at the console, reaches a
  tracker if one stays up, and returns.

## 2. Modules

| Module | Models | Notes |
|---|---|---|
| `TrackerState` | every mutating method of `TrackerState`, `snapshot` and `restore`, and `SyncManager::apply_remote` | no variables: a method is an operator from a state to a status and a state, because each runs under one lock from begin to end |
| `TrackerSessions` | connections of one tracker over a shared `TrackerState` | `state`, `session`; one action per request, and `Record` for the step from executed to recorded |
| `SessionReplay` | `TrackerSessions` with an ideal peer that replays the log in order, at once | `replica`: what the best possible link would do |
| `Replication` | `SyncManager` on both trackers, links, faults | see below |
| `AsyncReplica` | nothing in particular: the abstract specification of replication | a primary, a backlog, a replica; what operations do to a state are constants (`Execute`, `apply_remote`) |
| `SteadyReplication` | fairness, the refinement of `AsyncReplica`, and recovery | extends `Replication` |
| `Convergence` | where `Replication` comes to rest | extends `SteadyReplication` |
| `SyncFlow` | the threads at the two ends of a link, `__send_mu`, sockets of bounded capacity | below `Replication`: operations have no content |
| `FrameLimit` | `MAX_PAYLOAD` on operations and snapshots; the ways of an operation and of a snapshot to `__send_mu` | an upload is its length; only uploads, only tracker 1 has clients |
| `Descriptors` | the descriptor numbers of tracker 1 | who closes and who writes to which number |
| `Download` | `DownloadManager` (jobs, rounds, workers, announcements), the bytes on disk against `PieceStore`'s bitmap, shares of the `Seeder` | peers and tracker answer or fail; the client may crash |
| `VerifiedFiles` | nothing in particular: the abstract specification of downloads | what is held never shrinks, done means held in full |
| `PieceFetch` | one connection: `peer_worker` with `fetch_piece`, and `serve_peer` | late, torn, wrong and missing replies |
| `PieceStore` | bitmap and piece arithmetic of `PieceStore` and `hash_file` | |
| `HashPool` | the threads of `hash_file` and `resume_scan` | |
| `Client` | the console, `TrackerClient`, and a job that announces | trackers crash, restart empty, and lag |
| `MCSessions`, `MCSessionReplay`, `MCReplication`, `MCDownload`, `MCPieces`, `MCClient`, `MCLink` | | the instances TLC checks |
| `TrackerStateProofs`, `TrackerSessionsProofs`, `ReplicationProofs`, `SteadyReplicationProofs`, `DownloadProofs`, `PiecesProofs`, `ClientProofs`, `LinkProofs` | | theorems and proofs (section 6) |

`MCPieces` extends `PieceStore`, `HashPool` and `PieceFetch`, `MCLink` extends
`FrameLimit` and `Descriptors` and takes in `SyncFlow`; the names of the parts differ
(`PoolInit`, `FetchNext`, `FrameSpec`, `FdSpec`), so that a run checks the very
definitions the theorems are about. The parts of each share no variable, so a behaviour
is about one of them, picked at the start (`subject`), and the fairness of each
part is stated for its own steps.

### Correspondence with the code

*State.* A `std::map` is a function on its keys; user ids are naturals, because
`leave_group` hands a group to the least member; a content stands for size, hash
and piece hashes, an address for ip and port, a bitfield for a set of pieces.
`worker[t][w]` is where a session thread of tracker `t` is: idle, between the
method and the lock of `SyncManager`, or between that and `__send_mu`, holding
the descriptor it noted. `dialer` is where `connect_loop` is. `link[l].server` is
where the thread that accepted link `l` is; `link[l].chan[t]` is what tracker `t`
wrote on it and nobody has read; `link[l].outbox[t]` is what the reading thread is
about to write, since every handler computes its reply before it gets
`__send_mu`. Ghosts: `born` in an entry, `covers` in a snapshot, `restarts`, and
`seen` (which operations of a tracker its peer has replayed or loaded).

*A link that is superseded.* `close(__out_fd)` takes the descriptor from the thread
that serves the link, but does not stop it (`Superseded`). What it has to write is
lost, and its next `recv_msg` fails. If it has read a message already (`"last"`) it
processes that one beside the thread of the new link; if it waits in `recv_msg`
(`"superseded"`) it may still get one there (`LastReceive`).

*Actions.* One per handler or per stretch of code between two points where
another thread can run. `PROJECT.json` maps each definition to its lines. The
cases of `process_peer_message` are `ReceiveCatchup`, `ReceiveOp`, `ReceiveAck`,
`ReceiveSnapshotRequest` and `ReceiveSnapshot`; each takes a message and leaves
the reply in the outbox, `Flush` writes it. `apply_remote` and the update of
`__applied_peer_seq` that follows it under another lock are one step, because no
other thread reads that number between them that could tell. A link the listener
takes for a client's (`TakenForClient`) swallows what arrives: the session
answers every message with `NOT_IMPLEMENTED`, which the dialer ignores.

*The client.* `Download` keeps per job the phase of `run_job`, the queue, the
bitmap `have` of its store and one record per `peer_worker` thread; `disk` says
per path and piece whose bytes are there, or that they are missing or torn, so
that `write_piece` is three steps (`Fetched`: verified and about to write;
`Written` or `WriteFails`; `Mark`) with other threads and a crash in between, and
`resume_scan` (`Open`) keeps what hashes right. `share` is what `add_share` told the
Seeder, `listed` what `MSG_HAVE_PIECES` told the tracker; an announcement takes the
bitmap in one step and is sent in a later one, so two can overtake each other.
`PieceFetch` has the two directions of one connection as queues, the queue of the
job in its order, and the store the Seeder found before it was replaced. In
`Client` a call of `request` is a record that goes through lock, attempts, replayed
login and exchange. That a tracker executes the request (`Execute`) and that the
answer arrives (`Answered`) are two steps: in between accounts are replicated, and the
tracker may go away (`Drop`), so that the second attempt finds done what it asks for.
History variables: `bare` and `crossed` in `Client` (about the present connection:
each is forgotten with it, and with the next login or logout through it), `overtaken`
in `FrameLimit`, `cut`, `misled` and `overlapped` in `Descriptors`, `misses`,
`badWrites`, `timeouts`, `torn` and `rivals` in `PieceFetch`, `told` in `PieceStore`.

*Frames.* In `FrameLimit` an upload is executed (`Upload`), numbered (`RecordUpload`)
and pushed (`PushUpload`) in three steps of its session; a request of the dialer is
written (`Dial`), its answer settled (`TakeAnswer`) and written (`WriteAnswer`) in
steps of their own. Hence operations can be pushed in another order than they were
numbered, and ahead of a snapshot taken without them. The empty tracker refuses such
an operation and acknowledges it all the same (`ReadOp`). `overtaken` collects the
uploads that lost their place so.

*Faults.* `LinkBreak` loses any suffix of what is in flight, in each direction;
`Restart` is `quit` or a crash: everything in memory is gone.

*Slips.* Some modules define a variant of an operator marked "Slip": the
operator as a plausible mistake would have it. Nothing uses them; they are there
to show, by putting one in the place of the operator, that the checked
properties notice.

## 3. Runs

State counts are distinct states.

| Run | Bounds | Shows |
|---|---|---|
| `sessions` | 3 users, 2 connections, 1 group, 1 file, 1 content; connections symmetric; 1.2 million states | `TypeOK`, `StateConsistent`, `AdmittedByOwner`, `EvictedWhenOffline` |
| `serial_sessions` | 3 users, 1 connection, 2 contents; 272 thousand states | without concurrency, `ReplayAgrees` and `ReplayAccepted`: the replay of the log reproduces the tracker; and `ContentStable` |
| `faults` | clients on either tracker; 2 operations, 2 links, 1 restart; 4.7 million states | `TypeOK`, `BothConsistent`, `OnePeerLink`, `LogIsSuffix`, `AckSound` |
| `steady` | one link that stays up, 5 operations of all eight types; 13 thousand states | `ImplementsAsyncReplica`, `EventuallySynchronized` |
| `recovery` | either tracker restarted, 5 links of which 2 may break; 184 thousand states | `EventuallyRecovered` |
| `downloads` | 2 downloads of one file, 2 pieces, 2 peers with one connection each, 2 rounds, failing disk, 1 crash; 687 thousand states | `TypeOK`, `MarkedIsWhole`, `EachPieceOnce`, `SharedIsWhole`, `ListedIsOnDisk`, `DoneIsAnnounced`, `KeepsItsProgress` (the refinement), `JobEnds` |
| `pieces` | sizes 0 to 27 with pieces of 3 bytes; 3 threads and 4 pieces, any of them unreadable; 3 pieces over one connection with 2 timeouts, 1 torn message, 3 failed writes, 1 rival, 1 change of the share; 271 thousand states | `BitmapExact`, `PiecesCover`; `OwnSlot`, `HandsBackAll`, `PoolEnds`; `RetiredForCause`, `AllPiecesFetched` |
| `client` | 2 users, 2 faults of trackers of which the second strikes the request the first one struck, 1 announcement; 1.5 million states | `ActsForItsUser`, `ReachableIsReached`, `NotedIsLoggedIn`, `CommandReturns` |
| `link` | clients on both trackers, 2 sessions each, sockets of 1 message, a backlog up to 4, 4 operations; 2 sessions with 2 uploads of lengths that fit and that do not, 2 broken links or restarts; 2 clients, 2 links, 1 pushing session; 549 thousand states | `StandstillIsMutual`; `NothingForgotten`, `CaughtUp`; `ClientsUndisturbed`, `OutIsLink` |
| `agreement` | 1 link replaced by another, 2 more operations | `AgreeAtRest` is violated (finding) |
| `trim` | 3 operations, 2 links | `NothingLost` is violated (finding) |
| `unserved` | 1 download | `AnnouncedIsServed` is violated (finding) |

**Why the bounds are enough for what the runs ask.** Three users are the fewest
for an owner who leaves, an heir and an applicant; two connections the fewest
for an interleaving; two contents for a conflict over a file name, which needs
no second connection since `upload_meta` is one critical section. One group and one file: no
method relates two groups, and only `logout` relates two files, by treating all
alike. Two links are the fewest for one that supersedes another, and two
operations for one that overtakes or is trimmed with another; one restart per
behaviour gives every mix of old and new numbering. Five operations of all types
reach create, create group, upload, announce and stop, or join, accept and leave.
In `faults` a tracker's clients wait while the other has numbered operations since
it last started (`OneInUse`): both roles and every mix after a restart occur, but
not two logs that grow at once, which the theorems of section 6 cover.

Two pieces and two workers are the fewest for a piece that comes back when the
queue looks empty and for announcements that overtake; a second download of the
file the fewest for a resume. The file sizes reach a bitmap of two bytes (nine
pieces), and sizes below, at and above multiples of a piece. Three pieces and three
forgiven failures let a late reply meet each of the next requests. Three failed writes
retire a worker without the peer's doing. Two faults are the
fewest that make a request give up, and both must strike that request; with one user,
whom no tracker knows at first, and two faults anywhere the same properties hold too
(598 thousand states). Sockets of one message and a backlog of four reach every way of
two readers and the sessions to wait for each other, a catch-up longer than both
sockets among them. Two uploads are the fewest of which one can overtake the other, and
two faults the fewest for an operation that is lost with one link and a snapshot with
the next; with three uploads the same properties hold (691 thousand states for
`FrameLimit` alone).

`MaxOps` bounds the numbers given out by both trackers (no request begins at the
bound), `MaxLinks` the links ever dialed, `MaxRestarts` the restarts of both
trackers. When they are used up the bounded system stops, so the `Replication`
configurations switch the deadlock check off; those of the sessions keep it on.

**Fairness.** `SteadyReplication!Fairness` is weak fairness of each thread: it
says that a thread that can go on does, which the scheduler of the operating
system gives. It asks nothing of clients, of links and of the peer's existence.
`steady` starts with a link that is up and has no faults; `recovery` lets the
first links break and keeps the last ones, since without a link that lives
nothing can be promised. Each link that breaks may cost one more: the thread of a
dead link that has not read its HELLO yet may come to `handle_peer_connection`
after that of a live one, and closes it. That is why two breaks need five links.

For the client: each thread goes on (weak fairness of `Request` and of the
console's own steps; of each worker and of `run_job`; of each thread of the pool),
and a peer or tracker that is up answers, where a property speaks of one. A mutex
need not be fair, because the other users of it ask only so often. Nothing is asked
of users, of crashes, or of a peer that may fail. In `SyncFlow` and `FrameLimit`
each thread goes on and `connect_loop` dials again, as it does every few seconds; no
fairness makes a session get `__send_mu` before another.

**Refinement.** In `downloads`, `VerifiedFiles` sees of a job the set of its pieces that
are right on disk, and whether it runs, is done, failed or was killed. `MarkedIsWhole`
is what makes it hold: `resume_scan` and `write_piece` put nothing into a bitmap that is
not on disk, hence done means held. In `steady` the primary is the tracker in use, the
replica the other, and the backlog is the tail of the log above the replica's
`__applied_peer_seq` together with the operation a session has executed and not yet
recorded. Every step then is an `Apply`, a `Replay` or a stutter of `AsyncReplica`, and
what is pending is replayed sooner or later. Section 6 proves the steps of both
refinements for any values of the constants.

## 4. Findings

Three statements of the documentation have a run with the shortest behaviour that
refutes them.

1. `agreement` (`sync.cpp:307`): a catch-up waits for `__send_mu` while a session
   pushes a newer operation; the peer refuses it, acknowledges it all the same, the
   ACK trims it, and nobody asks for it again. `sync.hpp:16-18` promises that peers
   request on reconnect what they miss.
2. `trim` (`sync.cpp:198`): the acceptor never asks for a catch-up and ACKs trim
   everything below their number, so an operation of the dialer that fell into a
   gap is trimmed by the ACK of a later one.
3. `unserved` (`download_manager.cpp:123`): pieces are announced while a download
   runs, which "lets other peers start pulling finished pieces from this client"
   (`download_manager.cpp:179`), but the Seeder knows the file only when it is whole.

## 5. Further divergences

The models show more of them. Each is reproduced by checking the property named,
under the specification and with the constants given (others as in the run of the
module). Where the property of a passing run has a condition for the case, the
condition is to be left out.

| Where | What the code does | What is said | How to see it |
|---|---|---|---|
| `session.cpp:46` | a second LOGIN on a connection forgets the first user, who stays online and listed after the connection closed | README.md:68 | `MCSessions`: `NoSeederWithoutConnection`, 2 users, 1 connection |
| `session.cpp:80` | an operation is executed and numbered in two critical sections; the peer may refuse the replay | sync.hpp:9-11 | `MCSessionReplay`: `ReplayAgrees`, 2 connections |
| `sync.cpp:56` | `__out_fd` is visible before HELLO; an operation pushed first makes the link a client's | sync.hpp:54-55 | `MCReplication`: `FirstIsHello`, both trackers active |
| `sync.cpp:208` | a snapshot is loaded over an account created since it was asked for | sync.hpp:22-24 | `MCReplication`: `AccountsStay`, both trackers active |
| `sync.cpp:226` | both trackers create an account with two passwords; each replay counts as applied | sync.hpp:13-14 | `Convergence`: `AgreeAtRest`, `LinkedSpec`, both active, 2 passwords |
| `sync.cpp:76` | a restarted acceptor numbers from 1; the dialer skips what it thinks it has | sync.hpp:22-24 | `Convergence`: `AgreeAtRest`, `SettledSpec`, 1 restart, accounts only |
| `sync.cpp:116` | two sessions push in another order than they were numbered | sync.hpp:9-11 | `Convergence`: `AgreeAtRest`, `LinkedSpec`, 2 sessions |
| `sync.cpp:116` | so an operation whose later one was acknowledged and trimmed, and that is lost with the link or too long, is in no log and not at the peer | sync.cpp:118 | `FrameLimit`: `NothingForgotten` without `overtaken` |
| `sync.cpp:203` | an operation pushed between taking a snapshot and writing it is refused by the empty peer, trimmed, and not in the snapshot | sync.hpp:22-24 | `FrameLimit`: `NothingForgotten` or `CaughtUp` without `overtaken`, 1 session, 1 upload, no faults |
| `sync.cpp:189` | with clients on both trackers both readers wait for room, with the lock | README.md:393 | `SyncFlow`: `LinkDrains`, `FairSpec`, both active, capacity 1, no backlog |
| `sync.cpp:308` | a catch-up is written by the thread that should read its ACKs | sync.hpp:16-18 | `SyncFlow`: `LinkDrains`, no clients, capacity 1, backlog 4 |
| `sync.cpp:113` | an operation is written to a number that became a client's | sync.hpp:75 | `Descriptors`: `NeverMisled`, 2 clients, 1 link, 1 session |
| `sync.cpp:158` | a superseded link's thread closes its number again, now a client's | main.cpp:98 | `Descriptors`: `NeverCut`, 1 client, 2 links |
| `sync.cpp:157` | it may find its number in `__out_fd` again, and cuts the newest link | sync.hpp:81 | `Descriptors`: `OutIsLink` without its condition, 3 links |
| `net.cpp:59` | a snapshot longer than `MAX_PAYLOAD` is asked for and refused for ever | README.md:397 | `FrameLimit`: `CaughtUp` without `~Fits`, `MaxPayload` 3, lengths 2, 1 session |
| `net.cpp:59` | so is the operation of the longest upload, and all behind it | sync.cpp:118 | the same, `MaxPayload` 2, lengths 1 and 2, no faults |
| `download_manager.cpp:150` | a worker retires at an empty queue although a piece may come back; a round ends with a piece missing an honest peer has | download_manager.cpp:113-114 | `MCDownload`: `MissingMeansMisbehaved`, `Honest` one of two peers |
| `piece_store.cpp:133` | two files downloaded to one path overwrite pieces that stay marked | piece_store.cpp:137 | `MCDownload`: `MarkedIsWhole`, `Job <- SameDestination` |
| `download_manager.cpp:84` | a file found whole on disk is shared but never announced | download_manager.cpp:122 | `MCDownload`: `DoneIsListed` |
| `download_manager.cpp:212` | after one timeout each reply answers the request before; with rivals no index fits and the peer is dropped | download_manager.cpp:128-131 | `PieceFetch`: `RetiredForCauseAmongRivals` |
| `client/main.cpp:270` | a job that reconnects between the answer to LOGOUT and `clear_login` logs the user in again; between a login and `note_login`, the one before | tracker_client.hpp:33-34 | `Client`: `ActsForItsUser` without `crossed`, 1 user, 1 fault |
| `tracker_client.cpp:60` | a replayed login refused for lag is not repeated | tracker_client.hpp:25-28 | `Client`: `NotedIsLoggedIn` without `bare`, 1 user, 1 fault |
| `tracker_client.cpp:51` | a mistyped login on a new connection leaves it without the one on file | tracker_client.hpp:25-28 | the same |
| `download_manager.cpp:188` | a job announces for whoever is logged in by then | download_manager.hpp:33 | `Client`: `AnnouncedForItsUser`, 2 users, 1 fault |
| `client/main.cpp:268` | logout removes nothing from the Seeder | client/main.cpp:86 | `Client`: `LoggedOutSharesNothing` |

## 6. Proofs

Every invariant and action property of the passing runs is also a theorem, for every
value of the constants its module's assumptions allow; the bounds of a run are such
values. The pattern is the same throughout: an inductive invariant, one lemma per
action that it is kept, and a theorem that draws the property from it. Below, what
makes each invariant inductive.

### The tracker (`TrackerStateProofs`, `TrackerSessionsProofs`)

For any sets of users, groups, files, contents and pieces:

* `ExecuteGood`: executing any operation, hence also replaying it, keeps a state
  of type `State` that is `Consistent` so, and keeps every account. One lemma per
  method; the interesting ones are `WithoutMemberGood` (the handoff picks a
  remaining member, by well-foundedness of the naturals) and `logoutGood` (an
  eviction from every file changes nothing else).
* `ExecuteKeeps`: what an operation leaves alone. No account changes, no file name of
  a group that lasts changes its content, and nobody becomes a member of one but by
  `accept_request`.
* `SnapshotRoundTrip`: `restore(snapshot(S)) = S`.
* `ExecuteReplays`: an operation that succeeds at a tracker succeeds at one that
  agrees with it, and they agree afterwards. *Agree* is all but equal: logouts are not
  replicated, so the replica may list seeders the tracker has evicted. One lemma per
  method says that it looks at nothing the two may differ in, or (`leave_group`,
  `stop_share`, `update_bitfield`) that a longer list does no harm.

For any number of connections too, `Inv`, the conjunction of `TypeOK` and
`StateConsistent`, is inductive (`Invariance`, `TypeCorrect`, `AlwaysConsistent`). The
two parts are needed together: a method keeps a state consistent only if its maps are
maps with users as keys, and the type of the state says nothing of the sessions, whose
users must be registered when they create or upload something. With `ExecuteKeeps` it
gives the action properties `OnlyTheOwnerAdmits`, `ContentsAreStable` and
`OfflineIsEvicted`.

*The order of the log.* Two sessions may record in another order than they executed
(section 5, `session.cpp:80`). `SerialReplay` says that nothing else goes wrong: if no
session executes an operation while another has one to record (`Serial`), every replay
of the log is accepted and agrees with the tracker, for any number of connections.
`ReplayAgrees` speaks of moments when nothing is being recorded; `ReplayInv` carries it
over the others: at most one operation is under way (`OneAtATime`), and the tracker is
at what the replica will be after it (`OneOpBehind`). One connection is serial, which
gives `OneConnectionAgrees` and `OneConnectionAccepted`, what `serial_sessions` checks.

Assumptions: user ids are naturals, `Nil` is no user, no address and no operation.

### Replication (`ReplicationProofs`, `SteadyReplicationProofs`)

For any number of sessions, operations, links and restarts, and any of the trackers in
use, `SafeInv` is inductive (`Safety`). It says what `TypeOK` says and moreover that
both trackers are in consistent states and that a snapshot on a link, or in an outbox,
is one of a consistent state. The last part is what makes the rest inductive: a
tracker takes over whatever a snapshot holds, without a check, so its state is good
only if every snapshot under way is, and `SnapshotRoundTrip` carries that from the
sender to the receiver. Operations under way need only be well-formed, since
`apply_remote` runs the checks of a request again (`ExecuteGood`). Then:

* `ReplicationTypeCorrect` and `AlwaysBothConsistent`, directly;
* `LogAlwaysSuffix`: `LogIsSuffix` is inductive given `SafeInv`. Only two steps
  touch a log: `NumberingAppend` and `NumberingAfter` say that appending the next
  entry and cutting off a prefix keep it numbered without gaps, whatever number
  the ACK carries;
* `AlwaysOnePeerLink`: `OnePeerLink` is inductive given `SafeInv`. The step that
  matters is `AcceptPeer`: the link it closes is another than the one it takes
  over, since a link whose first message is unread is not the one in `__out_fd`. The
  thread of the closed one may be at its last message from then on (`Spent`): no more
  gets into its channel, for nobody writes to a link that is down, and its reply gets
  out nowhere;
* `AcksAreSound`: a tracker that restarts gives its numbers out again, so an ACK must
  not outlive the incarnation it is for. `AckInv` says of everything written or about
  to be written that it does not: `LinksTell` (an ACK that can still be read is of a
  number this incarnation gave out and its peer processed; an operation on a link that
  is up is of the incarnation that writes to it), `WorkersTell` and `LogsTell` (so are
  the entries sessions are about to send, and the log). A dead link may carry stale
  operations, whose ACKs are then lost with it; that is why the part on operations asks
  for a link that is up, and the part on ACKs does not.

*The refinement of `AsyncReplica`.* `SteadyReplicationProofs` assumes what `steady`
does (`OneClient`: one tracker in use, one session) but for the bounds, and
that a link has just come up and stays. `SteadyInv` is inductive:

* `Linked`, `OneSided`: nothing is dialed or closed any more, and the other tracker
  only acknowledges what it has applied;
* `Kept`: no entry is trimmed that has not been applied, so what the other tracker has
  yet to replay is the end of the log (`AfterLog`), grows at one end (`AfterAppend`),
  shrinks at the other (`AfterTail`) and is untouched by an ACK (`AfterAfter`);
* `InFlight`: it is on the link in this order, but for the entry the session is about to
  send. Hence the next message is the head of the backlog;
* `Chain`: the replica accepts the operations of the backlog one after the other, and
  agrees with the primary after the last. A new operation extends the chain
  (`ChainApply`, by `ExecuteReplays`), a replay shortens it (`ChainReplay`). Without it
  a replay might be refused, `__applied_peer_seq` would stay behind, and the step would
  be none of `AsyncReplica`.

`SteadyImplements` is the safety part of `ImplementsAsyncReplica`: every step is an
`Apply`, a `Replay` or a stutter. `SteadyAgrees`: the trackers agree whenever the
backlog is empty, and no operation is refused. That the backlog does get empty is
liveness, checked by `steady`.

Assumptions: `Active` is a set of trackers and the bounds are naturals, besides
those above.

### Downloads (`DownloadProofs`)

For any jobs, pieces, peers, limits, outcomes of disk and tracker, and crashes, `Inv` is
inductive. It is `TypeOK` and four parts. `Counted`: a job that has not begun has
no rounds behind it, and in a round one is left. `Calm`: workers run during rounds
only. `Laden`: a busy worker holds a piece. `EachPieceOnce` itself. The last is not
inductive without the others: that a round begins with the
missing pieces in the queue and nowhere else needs `Calm`, and that a piece given back
is in no second place needs `Laden`. From it follow `TypeCorrect` and
`PiecesInOnePlace`, and with one more inductive part each:

* `MarkedIsWholeAlways`: also, a worker about to mark has its piece on disk
  (`AboutToMark`). Assumes `OneContentPerPath`: no two jobs write different files to
  one path. The code does not see to that (section 5), so it is stated in the theorem;
* `SharedIsWholeAlways`: the Seeder is given stores that are complete;
* `ListedIsOnDiskAlways`: also, an announcement under way lists pieces on disk
  (`AboutToSend`). Assumes moreover `OneFilePerKey`;
* `DoneIsAnnouncedAlways`: also, of the jobs for one file at most one runs, and one
  between rounds has told the tracker all it has (`Told`);
* `ImplementsVerifiedFiles` (assumes `OneContentPerPath`): every step is one of
  `VerifiedFiles` or a stutter. A write touches a piece no bitmap has, or writes what is
  there already.

### Pieces (`PiecesProofs`)

* `PiecesCoverAlways`, for every file size and piece size, from what
  rounding up gives (`RoundedUp`), where the last piece begins (`WhereItBegins`) and
  that the count covers the size (`CountedCovers`).
* `BitmapExactAlways`, for every number of pieces: a bit that is not set can be added
  without a carry (`NoCarry`), two pieces of a byte have different bits
  (`DifferentBits`), so `SetBitExact`; `BitmapInv` adds that there are bytes enough.
* `OwnSlotAlways` and `HandsBackAllAlways`, for any number of threads and pieces, any of
  them unreadable. `PoolInv`: the counter is above every number drawn (`Drawn`), every
  number below it is with a thread, done or a failure (`Covered`), a hash is that of a
  piece that was read (`Genuine`), and why a thread ends and the caller returns
  (`PoolEnded`).
* `RetiredOnlyForCause`, for any number of pieces, forgiven failures, timeouts, torn
  messages, failed writes, rivals and changes of the share. Late replies shift, and each
  might be blamed on the peer. `FetchExcuses` says why
  they are not, as long as no other worker or torn message disturbs: of the replies on
  their way only the first few can be stale, and each of those, like each failure
  already counted, goes with a request the peer has missed or a write that failed. It is
  inductive because the
  wanted piece does not change after a failure: the queue is a stack, and the piece that
  was put back is taken again.

### The client (`ClientProofs`)

For any users, accounts, faults and announcements, one console and one job thread. Whom
the connection acts for when the console
is idle depends on every point of a request before that, so the inductive invariant
speaks of each: `Acting` (whose session it is), `Current` (whether it has the login on
file), `InStep` (which of the console's and TrackerClient's notes is ahead), `Locked`
(who is inside a request), `Connected` and `Reaching` (what a failed attempt leaves
behind). Then `ClientTypes`, `ActingForItsUser`, `NotedLoggedIn`, `ReachableReached`.

The exceptions of the first two are facts about the present connection, not about the
past. `crossed`: the job made it while the console had the answer to a login or logout
and had not passed it on to TrackerClient (`Unnoted`), so that it replayed a login out
of date, or none. `bare`: it was made for a typed login, without the one on file, or the
replayed login was refused; then it has no session, and nobody else's. A login or a
logout through the connection ends either, as does its loss.

### The link below replication (`LinkProofs`)

* `NothingIsForgotten` (`FrameLimit`, any sessions, lengths of uploads, `MAX_PAYLOAD`,
  broken links and restarts). An ACK trims all operations up to its number, so none may
  be read while an earlier one is missing, unless that was overtaken. `FrameInv` speaks
  of uploads that are `Sure`: tracker 0 has them, or will with the snapshot that is on
  its way or has yet to be asked for, or they are in `overtaken`. Everything up to what
  is trimmed, to an ACK on its way or late, and to what a catch-up asks to go on from
  is sure (`Trimmable`); before an operation that is carried or to be written come all
  with lower numbers, unless they are sure (`InOrder`); and one that finds tracker 0
  empty is sure, or has the snapshot before it (`NoLoss`). The push of an operation is
  the one step that can break this order, and puts what it passes into `overtaken`.
* `ClientsAreUndisturbed` and `OutIsTheLink` (`Descriptors`, any clients and links).
  `FdInv`: as long as links do not overlap, a number stands for the connection whose
  thread uses it (`Own`), and there is one link at most, whose number `__out_fd` is
  (`OneLink`). With overlapping links both fail (section 5).

### Only model-checked

Liveness: `JobEnds`, `PoolEnds`, `AllPiecesFetched`, `CommandReturns`,
`StandstillIsMutual`, `CaughtUp`, `EventuallySynchronized`, `EventuallyRecovered`, and
the fairness of `ImplementsAsyncReplica`. Liveness under fairness and ENABLED are out of
the prover's reach, as is what a recursive definition computes for every input; the
modules use no RECURSIVE operator, and `FrameLimit`'s sum of lengths enters the proofs
only as a set of possible values (`Sums`). `SyncFlow` has no safety property: its hazard
is that everyone waits. What section 5 lists is refuted by behaviours, so there is
nothing to prove but the conditions under which the properties hold, which the theorems
state.

## 7. Not modelled

* Requests that only read, refused requests and replies: they change nothing.
* Empty names and malformed payloads (`ST_MALFORMED`): refused without effect.
* `Buffer` (encoding), the arithmetic of SHA1, text output and argument parsing. A
  hash is a value compared for equality.
* The bitfield request of the Seeder, which no client sends; `set_bitfield`, which
  has no caller; the Seeder's accept loop and its stop; the way out of the client.
* Resolving addresses and setting up sockets.
* A request to a tracker has no timeout in the code; a tracker that is up but never
  answers is left out.

## 8. Plan

Done: trackers, replication, downloads, pieces, client, and the link below
replication; theorems for every safety property of the runs, and the steps of both
refinements. Next:

1. Proofs of conditions under which a divergence of section 5 does not occur:
   `FirstIsHello` with clients on the acceptor only, `NoSeederWithoutConnection` with one
   login per connection, `NothingLost` while no link breaks.
2. `SteadyImplements` for several sessions that take serial steps, as `SerialReplay` has
   it, and the steps of `recovery` up to the moment the snapshot is loaded.
3. A composition of `Client` and `Replication`: what a user finds after a fail-over.
4. Replication with two sessions per tracker under faults.
