----------------------------- MODULE FrameLimit -----------------------------
(***************************************************************************)
(* The size of the frames between the trackers.  recv_msg refuses a frame  *)
(* longer than MAX_PAYLOAD, room for one piece; whoever reads it then      *)
(* drops the link.  A tracker's clients are held to that limit one upload  *)
(* at a time.  A snapshot is one frame with every upload in it, and the    *)
(* operation of an upload is the client's frame with a little more.        *)
(*                                                                         *)
(* The sessions of tracker 1 register uploads; tracker 0 dials, restarts   *)
(* now and then with nothing, and has no clients.  Uploads are all there   *)
(* is: the accounts and the group they need are at tracker 1 from the      *)
(* start, so tracker 0 has them once it has loaded a snapshot and refuses  *)
(* every upload before.  An upload is its place in the order of execution, *)
(* and the length of its frame (the piece hashes are nearly all of it).    *)
(* Links are superseded only after they dropped (Replication has the       *)
(* rest).                                                                  *)
(***************************************************************************)
EXTENDS Naturals, Sequences, FiniteSetsExt

CONSTANTS
    Uploader,       \* the sessions of tracker 1
    MaxPayload,     \* MAX_PAYLOAD
    Length,         \* lengths of the uploads clients send
    Extra,          \* what record_and_replicate and its caller add to one
    MaxUploads,     \* bound on the uploads
    MaxFaults       \* bound on broken links and restarts of tracker 0

ASSUME FrameAssumption == {MaxPayload, Extra} \cup Length \subseteq Nat

VARIABLES
    uploads,        \* the lengths of the uploads, in the order of execution
    uploader,       \* per session of tracker 1, where its thread is
    recorded,       \* per number given out, the upload that got it
    trimmed,        \* __log holds the numbers above this one
    phase,          \* of the link: down, dialed, linked (tracker 1 has it in
                    \* __out_fd), or broken (tracker 0 has not noticed yet)
    request,        \* what tracker 0 asked for and tracker 1 has not read
    answer,         \* frames the reader at tracker 1 is about to write
    frames,         \* what the link carries to tracker 0
    acks,           \* what it carries back
    late,           \* acknowledgements of earlier links, not yet read
    replica,        \* the uploads tracker 0 knows
    fresh,          \* whether tracker 0 has no state at all
    applied,        \* its __applied_peer_seq
    faults,         \* broken links and restarts so far
    overtaken       \* history: uploads that lost their place (see PushUpload)

linkVars == <<phase, request, answer, frames, acks, late>>
dialerVars == <<replica, fresh, applied>>
logVars == <<recorded, trimmed>>
frameVars == <<uploads, uploader, logVars, linkVars, dialerVars, faults, overtaken>>

NoRequest == [kind |-> "none"]
AtRest == [pc |-> "idle"]

FrameInit ==
    /\ uploads = <<>> /\ uploader = [u \in Uploader |-> AtRest]
    /\ recorded = <<>> /\ trimmed = 0
    /\ phase = "down" /\ request = NoRequest /\ answer = <<>>
    /\ frames = <<>> /\ acks = <<>> /\ late = {}
    /\ replica = {} /\ fresh = TRUE /\ applied = 0
    /\ faults = 0 /\ overtaken = {}

OpFrame(seq) ==
    [kind |-> "op", seq |-> seq, len |-> uploads[recorded[seq]] + Extra]

TotalLength(lengths) == MapThenSumSet(LAMBDA n : lengths[n], DOMAIN lengths)

\* snapshot(): everything in one frame.
SnapshotFrame ==
    [kind |-> "snapshot", holds |-> DOMAIN uploads, len |-> TotalLength(uploads)]

----------------------------------------------------------------------------
(* The sessions of tracker 1: MSG_UPLOAD_FILE *)

\* Their own recv_msg takes no more than MAX_PAYLOAD.
Upload(u, len) ==
    /\ uploader[u] = AtRest
    /\ Len(uploads) < MaxUploads
    /\ len <= MaxPayload
    /\ uploads' = Append(uploads, len)
    /\ uploader' = [uploader EXCEPT ![u] = [pc |-> "record", id |-> Len(uploads')]]
    /\ UNCHANGED <<logVars, linkVars, dialerVars, faults, overtaken>>

\* record_and_replicate under __mu_lock: number it, note the link.
RecordUpload(u) ==
    /\ uploader[u].pc = "record"
    /\ recorded' = Append(recorded, uploader[u].id)
    /\ uploader' = [uploader EXCEPT ![u] =
            IF phase = "linked" THEN [pc |-> "push", seq |-> Len(recorded')] ELSE AtRest]
    /\ UNCHANGED <<uploads, trimmed, linkVars, dialerVars, faults, overtaken>>

Snapshots(fs) == {fs[i] : i \in {j \in DOMAIN fs : fs[j].kind = "snapshot"}}

\* The uploads tracker 0 has, or will have once it has the snapshot it asked for.
Known ==
    IF ~fresh THEN replica
    ELSE UNION {f.holds : f \in Snapshots(answer) \cup Snapshots(frames)}
         \cup (IF request.kind = "snapshot" THEN DOMAIN uploads ELSE {})

\* Those whose operations are on the link.
Carried == {recorded[frames[i].seq] : i \in {j \in DOMAIN frames : frames[j].kind = "op"}}

\* record_and_replicate under __send_mu.  The history: the operation gets ahead of
\* those with lower numbers that are still to be written, and ahead of a snapshot
\* that was taken without it.
PushUpload(u) ==
    /\ uploader[u].pc = "push"
    /\ LET seq == uploader[u].seq
           passed == {recorded[n] : n \in 1..(seq - 1)} \ Carried
           self == IF fresh /\ answer # <<>> THEN {recorded[seq]} ELSE {}
       IN  /\ frames' = Append(frames, OpFrame(seq))
           /\ overtaken' = overtaken \cup ((passed \cup self) \ Known)
    /\ uploader' = [uploader EXCEPT ![u] = AtRest]
    /\ UNCHANGED <<uploads, logVars, phase, request, answer, acks, late,
                   dialerVars, faults>>

----------------------------------------------------------------------------
(* connect_loop of tracker 0 *)

\* Slip: a tracker that restarted asks for a catch-up like any other.
DialAsEver ==
    /\ phase = "down"
    /\ phase' = "dialed"
    /\ request' = [kind |-> "catchup", after |-> applied]
    /\ UNCHANGED <<uploads, uploader, logVars, answer, frames, acks, late,
                   dialerVars, faults, overtaken>>

\* Connect, and ask for the snapshot when empty, for a catch-up otherwise.
Dial ==
    /\ phase = "down"
    /\ phase' = "dialed"
    /\ request' = IF fresh THEN [kind |-> "snapshot"]
                  ELSE [kind |-> "catchup", after |-> applied]
    /\ UNCHANGED <<uploads, uploader, logVars, answer, frames, acks, late,
                   dialerVars, faults, overtaken>>

\* The link is gone for tracker 1: what its threads have to write is lost, and of
\* the acknowledgements any may still be read.
Gone ==
    /\ request' = NoRequest /\ answer' = <<>> /\ acks' = <<>>
    /\ \E some \in SUBSET {acks[i] : i \in DOMAIN acks} : late' = late \cup some
    /\ uploader' = [u \in Uploader |->
                        IF uploader[u].pc = "push" THEN AtRest ELSE uploader[u]]

\* Slip: the frame is skipped and the link kept.
Skip ==
    /\ frames # <<>> /\ Head(frames).len > MaxPayload
    /\ frames' = Tail(frames)
    /\ UNCHANGED <<uploads, uploader, logVars, phase, request, answer, acks, late,
                   dialerVars, faults, overtaken>>

\* recv_msg fails on the length in the header, and the link is dropped with
\* all it still carries.
Refuse ==
    /\ frames # <<>> /\ Head(frames).len > MaxPayload
    /\ phase' = "down" /\ frames' = <<>> /\ Gone
    /\ UNCHANGED <<uploads, logVars, dialerVars, faults, overtaken>>

\* restore() replaces everything.
ReadSnapshot ==
    /\ frames # <<>> /\ Head(frames).len <= MaxPayload
    /\ Head(frames).kind = "snapshot"
    /\ replica' = Head(frames).holds
    /\ fresh' = FALSE
    /\ frames' = Tail(frames)
    /\ UNCHANGED <<uploads, uploader, logVars, phase, request, answer, acks, late,
                   applied, faults, overtaken>>

\* apply_remote, which refuses an upload to a group tracker 0 does not have; the
\* acknowledgement comes all the same.
ReadOp ==
    /\ frames # <<>> /\ Head(frames).len <= MaxPayload
    /\ Head(frames).kind = "op"
    /\ LET seq == Head(frames).seq
       IN  /\ replica' = IF fresh THEN replica ELSE replica \cup {recorded[seq]}
           /\ applied' = IF ~fresh /\ seq > applied THEN seq ELSE applied
           /\ acks' = IF phase = "linked" THEN Append(acks, seq) ELSE acks
    /\ frames' = Tail(frames)
    /\ UNCHANGED <<uploads, uploader, logVars, phase, request, answer, late,
                   fresh, faults, overtaken>>

\* recv_msg finds the end of a broken link.
HangUp ==
    /\ phase = "broken" /\ frames = <<>>
    /\ phase' = "down"
    /\ UNCHANGED <<uploads, uploader, logVars, request, answer, frames, acks, late,
                   dialerVars, faults, overtaken>>

----------------------------------------------------------------------------
(* The thread of tracker 1 that reads the link *)

\* handle_peer_connection: sessions push from here on.
AcceptLink ==
    /\ phase = "dialed"
    /\ phase' = "linked"
    /\ UNCHANGED <<uploads, uploader, logVars, request, answer, frames, acks, late,
                   dialerVars, faults, overtaken>>

\* What is to be sent is settled before __send_mu is taken: the snapshot, or what
\* the log holds of the operations after the last one applied, in order.
TakeAnswer ==
    /\ phase = "linked" /\ request.kind # "none"
    /\ answer' = IF request.kind = "snapshot" THEN <<SnapshotFrame>>
                 ELSE LET last == IF request.after > trimmed THEN request.after ELSE trimmed
                      IN  [i \in 1..(Len(recorded) - last) |-> OpFrame(last + i)]
    /\ request' = NoRequest
    /\ UNCHANGED <<uploads, uploader, logVars, phase, frames, acks, late,
                   dialerVars, faults, overtaken>>

WriteAnswer ==
    /\ answer # <<>>
    /\ frames' = frames \o answer
    /\ answer' = <<>>
    /\ UNCHANGED <<uploads, uploader, logVars, phase, request, acks, late,
                   dialerVars, faults, overtaken>>

Trim(seq) == trimmed' = IF seq > trimmed THEN seq ELSE trimmed

ReadAck ==
    /\ request.kind = "none" /\ answer = <<>> /\ acks # <<>>
    /\ Trim(Head(acks))
    /\ acks' = Tail(acks)
    /\ UNCHANGED <<uploads, uploader, recorded, phase, request, answer, frames, late,
                   dialerVars, faults, overtaken>>

\* The thread of an earlier link still reads one.
ReadLateAck ==
    /\ \E seq \in late : Trim(seq) /\ late' = late \ {seq}
    /\ UNCHANGED <<uploads, uploader, recorded, phase, request, answer, frames, acks,
                   dialerVars, faults, overtaken>>

----------------------------------------------------------------------------
(* Faults *)

\* Of what is on its way to tracker 0 any prefix arrives.
Break ==
    /\ phase \in {"dialed", "linked"} /\ faults < MaxFaults
    /\ faults' = faults + 1
    /\ phase' = "broken" /\ Gone
    /\ \E k \in 0..Len(frames) : frames' = SubSeq(frames, 1, k)
    /\ UNCHANGED <<uploads, logVars, dialerVars, overtaken>>

Restart ==
    /\ faults < MaxFaults
    /\ faults' = faults + 1
    /\ replica' = {} /\ fresh' = TRUE /\ applied' = 0
    /\ phase' = "down" /\ frames' = <<>> /\ Gone
    /\ UNCHANGED <<uploads, logVars, overtaken>>

----------------------------------------------------------------------------

UploaderGoesOn(u) == RecordUpload(u) \/ PushUpload(u)

LinkReads == Refuse \/ ReadSnapshot \/ ReadOp \/ HangUp

LinkAnswers == AcceptLink \/ TakeAnswer \/ WriteAnswer \/ ReadAck

FrameNext ==
    \/ \E u \in Uploader : UploaderGoesOn(u) \/ \E len \in Length : Upload(u, len)
    \/ Dial \/ LinkReads
    \/ LinkAnswers \/ ReadLateAck
    \/ Break \/ Restart

\* connect_loop dials again after every drop and reads while it is linked; the
\* thread at the other end and the sessions go on too.
FrameSpec ==
    /\ FrameInit /\ [][FrameNext]_frameVars
    /\ WF_frameVars(Dial) /\ WF_frameVars(LinkReads) /\ WF_frameVars(LinkAnswers)
    /\ \A u \in Uploader : WF_frameVars(UploaderGoesOn(u))

----------------------------------------------------------------------------
(* Properties *)

\* What tracker 1 has trimmed, a tracker 0 with state knows: an operation refused for
\* its length stays in the log, since the whole link is dropped with it and no later
\* one is read, acknowledged and trimmed (recv_msg), and what a refusing, empty tracker
\* acknowledged comes with its snapshot.  Except for the operations that lost their
\* place on the way to __send_mu (record_and_replicate, MSG_SYNC_SNAPSHOT_REQUEST).
NothingForgotten ==
    ~fresh => \A n \in 1..trimmed : recorded[n] \in replica \cup overtaken

\* Everything tracker 0 can be sent is short enough to be read.
Fits ==
    /\ SnapshotFrame.len <= MaxPayload
    /\ \A n \in DOMAIN uploads : uploads[n] + Extra <= MaxPayload

\* Sooner or later tracker 0 knows every upload, however often it restarted and
\* links broke: by the snapshot what it lost, by the log what it missed
\* (connect_loop asks for one or the other whenever it links).  Once the uploads
\* do not fit it may dial, and be dropped, for ever; and what lost its place may
\* never come.
CaughtUp ==
    \A n \in 1..MaxUploads :
        n \in DOMAIN uploads ~> n \in replica \/ ~Fits \/ n \in overtaken

=============================================================================
