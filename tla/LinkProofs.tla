----------------------------- MODULE LinkProofs -----------------------------
(***************************************************************************)
(* The invariants of FrameLimit and of Descriptors, for any sessions,      *)
(* uploads, lengths and faults, clients and links.                         *)
(***************************************************************************)
EXTENDS FrameLimit, Descriptors, SequenceTheorems, TLAPS

----------------------------------------------------------------------------
(* FrameLimit: what is in flight completes what the replica has *)

\* The lengths snapshots can have; what a sum of lengths is does not matter.
Sums == {TotalLength(lengths) : lengths \in Seq(Nat)}

FrameRecord ==
    [kind: {"op"}, seq: Nat, len: Nat] \cup [kind: {"snapshot"}, holds: SUBSET Nat, len: Sums]

UploaderRecord ==
    {AtRest} \cup [pc: {"record"}, id: Nat] \cup [pc: {"push"}, seq: Nat]

FrameTypes ==
    /\ uploads \in Seq(Nat) /\ recorded \in Seq(Nat)
    /\ uploader \in [Uploader -> UploaderRecord]
    /\ phase \in {"down", "dialed", "linked", "broken"}
    /\ request \in {NoRequest, [kind |-> "snapshot"]} \cup [kind: {"catchup"}, after: Nat]
    /\ answer \in Seq(FrameRecord) /\ frames \in Seq(FrameRecord)
    /\ acks \in Seq(Nat) /\ late \subseteq Nat
    /\ fresh \in BOOLEAN /\ trimmed \in Nat /\ applied \in Nat

\* Every number in use was given out, every upload in use was executed.
Numbers ==
    /\ \A n \in 1..Len(recorded) : recorded[n] \in 1..Len(uploads)
    /\ \A u \in Uploader :
         /\ uploader[u].pc = "record" => uploader[u].id \in 1..Len(uploads)
         /\ uploader[u].pc = "push" => uploader[u].seq \in 1..Len(recorded) /\ phase = "linked"
    /\ trimmed <= Len(recorded) /\ applied <= Len(recorded)
    /\ request.kind = "catchup" => request.after <= Len(recorded)
    /\ \A i \in 1..Len(acks) : acks[i] <= Len(recorded)
    /\ \A m \in late : m <= Len(recorded)

Ops(fs) ==
    \A i \in 1..Len(fs) : fs[i].kind = "op" => fs[i].seq \in 1..Len(recorded)

IsSnapshot(fs, i) == i \in 1..Len(fs) /\ fs[i].kind = "snapshot"

\* What a link is used for in each phase.  A snapshot is on its way to a tracker
\* with nothing only, and no second one.
Phases ==
    /\ fresh => applied = 0
    /\ phase \in {"down", "dialed"} => frames = <<>> /\ answer = <<>>
    /\ phase \in {"down", "broken"} => answer = <<>> /\ request = NoRequest
    /\ request.kind = "snapshot" => fresh /\ \A i \in 1..Len(frames) : ~IsSnapshot(frames, i)
    /\ request.kind = "catchup" => ~fresh
    /\ request.kind # "none" => answer = <<>>
    /\ fresh => answer = <<>> \/ (Len(answer) = 1 /\ IsSnapshot(answer, 1))
    /\ ~fresh => \A i \in 1..Len(answer) : ~IsSnapshot(answer, i)
    /\ ~fresh \/ answer # <<>> => \A i \in 1..Len(frames) : ~IsSnapshot(frames, i)
    /\ \A i, j \in 1..Len(frames) : IsSnapshot(frames, i) /\ IsSnapshot(frames, j) => i = j

\* Tracker 0 has upload x, or it will come with the snapshot that is on its way or
\* has yet to be asked for, or x lost its place.
Sure(x) ==
    \/ x \in overtaken
    \/ ~fresh /\ x \in replica
    \/ /\ fresh
       /\ \A i \in 1..Len(answer) : IsSnapshot(answer, i) => x \in answer[i].holds
       /\ \A i \in 1..Len(frames) : IsSnapshot(frames, i) => x \in frames[i].holds

Covered(m) == \A n \in 1..m : Sure(recorded[n])

\* Whatever is trimmed, or leads to a trimming, covers all below it.
Trimmable ==
    /\ Covered(trimmed)
    /\ \A i \in 1..Len(acks) : Covered(acks[i])
    /\ \A m \in late : Covered(m)
    /\ ~fresh => Covered(applied)
    /\ request.kind = "catchup" => Covered(request.after)

\* Before an operation come all those with lower numbers.
InOrder(fs) ==
    \A i \in 1..Len(fs) : fs[i].kind = "op" =>
        \A n \in 1..(fs[i].seq - 1) :
            \/ Sure(recorded[n])
            \/ \E j \in 1..(i - 1) : fs[j].kind = "op" /\ recorded[fs[j].seq] = recorded[n]

\* An operation that finds tracker 0 with nothing is in the snapshot to come.
NoLoss ==
    fresh => \A i \in 1..Len(frames) : frames[i].kind = "op" =>
        \/ Sure(recorded[frames[i].seq])
        \/ \E j \in 1..(i - 1) : frames[j].kind = "snapshot"

FrameInv ==
    /\ FrameTypes /\ Numbers /\ Ops(answer) /\ Ops(frames) /\ Phases
    /\ Trimmable /\ InOrder(answer) /\ InOrder(frames) /\ NoLoss

LEMMA FrameStart == FrameInit => FrameInv
<1>. SUFFICES ASSUME FrameInit PROVE FrameInv
  OBVIOUS
<1>1. /\ uploads = <<>> /\ recorded = <<>> /\ trimmed = 0 /\ phase = "down" /\ answer = <<>>
      /\ frames = <<>> /\ acks = <<>> /\ late = {} /\ fresh /\ applied = 0
      /\ request = NoRequest /\ NoRequest.kind = "none"
  BY DEF FrameInit, NoRequest
<1>2. \A u \in Uploader : uploader[u] = AtRest /\ uploader[u].pc = "idle"
  BY DEF FrameInit, AtRest
<1>3. FrameTypes
  BY <1>1 DEF FrameInit, FrameTypes, UploaderRecord
<1>4. Numbers /\ Ops(answer) /\ Ops(frames)
  BY <1>1, <1>2 DEF Numbers, Ops
<1>5. Phases
  BY <1>1 DEF Phases
<1>6. Trimmable /\ InOrder(answer) /\ InOrder(frames) /\ NoLoss
  BY <1>1 DEF Trimmable, Covered, InOrder, NoLoss
<1>. QED
  BY <1>3, <1>4, <1>5, <1>6 DEF FrameInv

\* What a request is.
LEMMA RequestFields ==
    ASSUME FrameInv
    PROVE  /\ request.kind \in {"none", "snapshot", "catchup"}
           /\ request.kind = "none" => request = NoRequest
           /\ request.kind = "catchup" => request.after \in Nat
  BY DEF FrameInv, FrameTypes, NoRequest

\* What a frame is.
LEMMA FrameFields ==
    ASSUME NEW f \in FrameRecord
    PROVE  /\ f.kind \in {"op", "snapshot"}
           /\ f.kind = "op" => f.seq \in Nat
           /\ f.kind = "snapshot" => f.holds \subseteq Nat
  BY DEF FrameRecord

\* An operation is a frame, and a snapshot too.
LEMMA OpFrameFields ==
    ASSUME FrameInv, NEW n \in 1..Len(recorded)
    PROVE  OpFrame(n) \in FrameRecord /\ OpFrame(n).kind = "op" /\ OpFrame(n).seq = n
<1>1. uploads[recorded[n]] + Extra \in Nat /\ n \in Nat
  <2>1. uploads \in Seq(Nat) /\ recorded[n] \in 1..Len(uploads) /\ Extra \in Nat
    BY FrameAssumption DEF FrameInv, FrameTypes, Numbers
  <2>. QED
    BY <2>1
<1>2. OpFrame(n) \in [kind: {"op"}, seq: Nat, len: Nat]
  BY <1>1 DEF OpFrame
<1>3. OpFrame(n).kind = "op" /\ OpFrame(n).seq = n
  BY DEF OpFrame
<1>. QED
  BY <1>2, <1>3 DEF FrameRecord

LEMMA SnapshotFrameFields ==
    ASSUME FrameInv
    PROVE  /\ SnapshotFrame \in FrameRecord /\ SnapshotFrame.kind = "snapshot"
           /\ SnapshotFrame.holds = 1..Len(uploads)
<1>1. uploads \in Seq(Nat) /\ DOMAIN uploads = 1..Len(uploads) /\ DOMAIN uploads \subseteq Nat
  BY DEF FrameInv, FrameTypes
<1>2. TotalLength(uploads) \in Sums
  BY <1>1 DEF Sums
<1>3. SnapshotFrame \in [kind: {"snapshot"}, holds: SUBSET Nat, len: Sums]
  BY <1>1, <1>2 DEF SnapshotFrame
<1>. QED
  BY <1>1, <1>3 DEF FrameRecord, SnapshotFrame

\* Nothing that was sure is unsure after a step, and the numbers given out stay.
Onward ==
    /\ \A x \in 1..Len(uploads) : Sure(x) => Sure(x)'
    /\ Len(recorded) <= Len(recorded') /\ recorded' \in Seq(Nat)
    /\ \A n \in 1..Len(recorded) : recorded'[n] = recorded[n]

\* Then what was covered is, and what is sent is as much in order as it was.
LEMMA StillCovered ==
    ASSUME FrameInv, Onward, NEW m \in Nat, m <= Len(recorded), Covered(m)
    PROVE  Covered(m)'
<1>. SUFFICES ASSUME NEW n \in 1..m PROVE Sure(recorded[n])'
  BY DEF Covered
<1>1. n \in 1..Len(recorded) /\ recorded'[n] = recorded[n] /\ Sure(recorded[n])
  <2>1. Len(recorded) \in Nat
    BY DEF FrameInv, FrameTypes
  <2>2. n \in 1..Len(recorded)
    BY <2>1
  <2>3. Sure(recorded[n])
    BY DEF Covered
  <2>. QED
    BY <2>2, <2>3 DEF Onward
<1>2. PICK x \in 1..Len(uploads) : x = recorded[n]
  BY <1>1 DEF FrameInv, Numbers
<1>3. Sure(x)'
  BY <1>1, <1>2 DEF Onward
<1>. QED
  BY <1>1, <1>2, <1>3 DEF Sure

\* The numbers a step hands on.
Handed ==
    /\ trimmed' \in {trimmed} \cup late \cup {acks[i] : i \in 1..Len(acks)}
    /\ late' \subseteq late \cup {acks[i] : i \in 1..Len(acks)}
    /\ \A i \in 1..Len(acks') : \E j \in 1..Len(acks) : acks'[i] = acks[j]
    /\ applied' \in {applied, 0} /\ (~fresh' => ~fresh \/ applied = 0)
    /\ request' \in {request, NoRequest}

LEMMA StillTrimmable == ASSUME FrameInv, Onward, Handed PROVE Trimmable'
<1>1. /\ Trimmable /\ trimmed \in Nat /\ late \subseteq Nat /\ acks \in Seq(Nat)
      /\ applied \in Nat
  BY DEF FrameInv, FrameTypes
<1>2. /\ trimmed <= Len(recorded) /\ applied <= Len(recorded)
      /\ \A i \in 1..Len(acks) : acks[i] \in Nat /\ acks[i] <= Len(recorded)
      /\ \A m \in late : m <= Len(recorded)
  BY <1>1 DEF FrameInv, Numbers
<1>3. \A m \in Nat : m <= Len(recorded) /\ Covered(m) => Covered(m)'
  BY StillCovered
<1>4. Covered(trimmed)'
  <2>1. PICK m \in Nat : m = trimmed' /\ m <= Len(recorded) /\ Covered(m)
    BY <1>1, <1>2 DEF Handed, Trimmable
  <2>. QED
    BY <1>3, <2>1 DEF Covered
<1>5. ASSUME NEW i \in 1..Len(acks') PROVE Covered(acks[i])'
  <2>1. PICK m \in Nat : m = acks'[i] /\ m <= Len(recorded) /\ Covered(m)
    BY <1>1, <1>2, <1>5 DEF Handed, Trimmable
  <2>. QED
    BY <1>3, <2>1 DEF Covered
<1>6. ASSUME NEW m \in late' PROVE Covered(m)'
  <2>1. m \in Nat /\ m <= Len(recorded) /\ Covered(m)
    BY <1>1, <1>2, <1>6 DEF Handed, Trimmable
  <2>. QED
    BY <1>3, <2>1
<1>7. ~fresh' => Covered(applied)'
  <2>1. 0 \in Nat /\ 0 <= Len(recorded) /\ Covered(0)
    BY <1>1, <1>2 DEF Covered
  <2>2. CASE ~fresh'
    <3>1. PICK m \in Nat : m = applied' /\ m <= Len(recorded) /\ Covered(m)
      BY <1>1, <1>2, <2>1, <2>2 DEF Handed, Trimmable
    <3>. QED
      BY <1>3, <3>1 DEF Covered
  <2>. QED
    BY <2>2
<1>8. (request.kind = "catchup" => Covered(request.after))'
  <2>1. CASE request'.kind = "catchup"
    <3>1. request' = request /\ request.after \in Nat /\ request.after <= Len(recorded)
      BY <2>1 DEF Handed, FrameInv, FrameTypes, Numbers, NoRequest
    <3>2. PICK m \in Nat : m = request'.after /\ m <= Len(recorded) /\ Covered(m)
      BY <1>1, <2>1, <3>1 DEF Trimmable
    <3>. QED
      BY <1>3, <3>2 DEF Covered
  <2>. QED
    BY <2>1
<1>. QED
  BY <1>4, <1>5, <1>6, <1>7, <1>8 DEF Trimmable

\* What is to be written, and what is on the link, is as much in order as it was.
LEMMA StillOrdered ==
    ASSUME FrameInv, Onward
    PROVE  /\ answer' = answer => Ops(answer)' /\ InOrder(answer)'
           /\ frames' = frames => Ops(frames)' /\ InOrder(frames)'
           /\ frames' = frames /\ (fresh' => fresh) => NoLoss'
<1>1. \A n \in 1..Len(recorded) : Sure(recorded[n]) => Sure(recorded[n])'
  <2>. SUFFICES ASSUME NEW n \in 1..Len(recorded), Sure(recorded[n]) PROVE Sure(recorded[n])'
    OBVIOUS
  <2>1. PICK x \in 1..Len(uploads) : x = recorded[n] /\ x = recorded'[n]
    BY DEF FrameInv, Numbers, Onward
  <2>2. Sure(x)'
    BY <2>1 DEF Onward
  <2>. QED
    BY <2>1, <2>2 DEF Sure
<1>2. /\ recorded \in Seq(Nat) /\ Len(recorded) <= Len(recorded') /\ recorded' \in Seq(Nat)
      /\ \A n \in 1..Len(recorded) : recorded'[n] = recorded[n]
  BY DEF FrameInv, FrameTypes, Onward
<1>3. ASSUME answer' = answer PROVE Ops(answer)' /\ InOrder(answer)'
  <2>1. Ops(answer) /\ InOrder(answer) /\ answer \in Seq(FrameRecord)
    BY DEF FrameInv, FrameTypes
  <2>2. Ops(answer)'
    BY <1>2, <1>3, <2>1 DEF Ops
  <2>3. ASSUME NEW i \in 1..Len(answer), answer[i].kind = "op", NEW n \in 1..(answer[i].seq - 1)
        PROVE  \/ Sure(recorded[n])'
               \/ \E j \in 1..(i - 1) :
                    answer[j].kind = "op" /\ recorded'[answer[j].seq] = recorded'[n]
    <3>1. answer[i].seq \in 1..Len(recorded) /\ n \in 1..Len(recorded)
      BY <1>2, <2>1, <2>3 DEF Ops
    <3>2. \A j \in 1..(i - 1) : j \in 1..Len(answer)
      BY <2>1, <2>3
    <3>3. CASE Sure(recorded[n])
      BY <1>1, <3>1, <3>3
    <3>4. CASE \E j \in 1..(i - 1) : answer[j].kind = "op" /\ recorded[answer[j].seq] = recorded[n]
      BY <1>2, <2>1, <3>1, <3>2, <3>4 DEF Ops
    <3>. QED
      BY <2>1, <2>3, <3>3, <3>4 DEF InOrder
  <2>. QED
    BY <1>3, <2>2, <2>3 DEF InOrder
<1>4. ASSUME frames' = frames PROVE Ops(frames)' /\ InOrder(frames)'
  <2>1. Ops(frames) /\ InOrder(frames) /\ frames \in Seq(FrameRecord)
    BY DEF FrameInv, FrameTypes
  <2>2. Ops(frames)'
    BY <1>2, <1>4, <2>1 DEF Ops
  <2>3. ASSUME NEW i \in 1..Len(frames), frames[i].kind = "op", NEW n \in 1..(frames[i].seq - 1)
        PROVE  \/ Sure(recorded[n])'
               \/ \E j \in 1..(i - 1) :
                    frames[j].kind = "op" /\ recorded'[frames[j].seq] = recorded'[n]
    <3>1. frames[i].seq \in 1..Len(recorded) /\ n \in 1..Len(recorded)
      BY <1>2, <2>1, <2>3 DEF Ops
    <3>2. \A j \in 1..(i - 1) : j \in 1..Len(frames)
      BY <2>1, <2>3
    <3>3. CASE Sure(recorded[n])
      BY <1>1, <3>1, <3>3
    <3>4. CASE \E j \in 1..(i - 1) : frames[j].kind = "op" /\ recorded[frames[j].seq] = recorded[n]
      BY <1>2, <2>1, <3>1, <3>2, <3>4 DEF Ops
    <3>. QED
      BY <2>1, <2>3, <3>3, <3>4 DEF InOrder
  <2>. QED
    BY <1>4, <2>2, <2>3 DEF InOrder
<1>5. ASSUME frames' = frames, fresh' => fresh PROVE NoLoss'
  <2>1. Ops(frames) /\ NoLoss
    BY DEF FrameInv
  <2>2. ASSUME fresh', NEW i \in 1..Len(frames), frames[i].kind = "op"
        PROVE  \/ Sure(recorded[frames[i].seq])'
               \/ \E j \in 1..(i - 1) : frames[j].kind = "snapshot"
    <3>1. PICK n \in 1..Len(recorded) : n = frames[i].seq
      BY <2>1, <2>2 DEF Ops
    <3>. QED
      BY <1>1, <1>5, <2>1, <2>2, <3>1 DEF NoLoss
  <2>. QED
    BY <1>5, <2>2 DEF NoLoss
<1>. QED
  BY <1>3, <1>4, <1>5

\* A step that neither writes to the link nor reads from it.
LEMMA FramesKept ==
    ASSUME FrameInv, FrameTypes', Numbers', Phases', Onward, Handed,
           frames' = frames, answer' = answer, fresh' = fresh
    PROVE  FrameInv'
  BY StillOrdered, StillTrimmable DEF FrameInv

LEMMA UploadInv ==
    ASSUME FrameInv, NEW u \in Uploader, NEW len \in Length, Upload(u, len)
    PROVE  FrameInv'
<1>. DEFINE m == Len(uploads) + 1
<1>1. /\ uploads \in Seq(Nat) /\ len \in Nat /\ Len(uploads) \in Nat
      /\ uploads' = Append(uploads, len)
      /\ uploader' = [uploader EXCEPT ![u] = [pc |-> "record", id |-> Len(uploads')]]
      /\ UNCHANGED <<recorded, trimmed, phase, request, answer, frames, acks, late>>
      /\ UNCHANGED <<replica, fresh, applied, overtaken>>
  BY FrameAssumption
     DEF FrameInv, FrameTypes, Upload, logVars, linkVars, dialerVars
<1>2. uploads' \in Seq(Nat) /\ Len(uploads') = m
  BY <1>1
<1>3. uploader' \in [Uploader -> UploaderRecord]
  BY <1>1, <1>2 DEF FrameInv, FrameTypes, UploaderRecord
<1>4. FrameTypes'
  BY <1>1, <1>2, <1>3 DEF FrameInv, FrameTypes
<1>5. Numbers'
  <2>1. \A v \in Uploader :
          uploader'[v] = IF v = u THEN [pc |-> "record", id |-> m] ELSE uploader[v]
    BY <1>1, <1>2 DEF FrameInv, FrameTypes
  <2>2. m \in 1..m /\ 1..Len(uploads) \subseteq 1..m
    BY <1>1
  <2>. QED
    BY <1>1, <1>2, <2>1, <2>2 DEF FrameInv, Numbers
<1>6. Phases'
  BY <1>1 DEF FrameInv, Phases, IsSnapshot
<1>7. Onward /\ Handed
  BY <1>1 DEF FrameInv, FrameTypes, Onward, Handed, Sure, IsSnapshot
<1>. QED
  BY <1>1, <1>4, <1>5, <1>6, <1>7, FramesKept

LEMMA RecordUploadInv ==
    ASSUME FrameInv, NEW u \in Uploader, RecordUpload(u)
    PROVE  FrameInv'
<1>. DEFINE m == Len(recorded) + 1
<1>1. /\ uploader[u].pc = "record" /\ recorded' = Append(recorded, uploader[u].id)
      /\ uploader' = [uploader EXCEPT ![u] =
            IF phase = "linked" THEN [pc |-> "push", seq |-> Len(recorded')] ELSE AtRest]
      /\ UNCHANGED <<uploads, trimmed, phase, request, answer, frames, acks, late>>
      /\ UNCHANGED <<replica, fresh, applied, overtaken>>
  BY DEF RecordUpload, linkVars, dialerVars
<1>2. /\ recorded \in Seq(Nat) /\ uploader[u].id \in 1..Len(uploads)
      /\ uploads \in Seq(Nat) /\ Len(recorded) \in Nat
  BY <1>1 DEF FrameInv, FrameTypes, Numbers
<1>3. /\ recorded' \in Seq(Nat) /\ Len(recorded') = m /\ recorded'[m] = uploader[u].id
      /\ \A n \in 1..Len(recorded) : recorded'[n] = recorded[n]
  BY <1>1, <1>2
<1>4. uploader' \in [Uploader -> UploaderRecord]
  BY <1>1, <1>2, <1>3 DEF FrameInv, FrameTypes, UploaderRecord
<1>5. FrameTypes'
  BY <1>1, <1>3, <1>4 DEF FrameInv, FrameTypes
<1>6. Numbers'
  <2>1. \A v \in Uploader :
          uploader'[v] = IF v # u THEN uploader[v]
                         ELSE IF phase = "linked" THEN [pc |-> "push", seq |-> m] ELSE AtRest
    BY <1>1, <1>3 DEF FrameInv, FrameTypes
  <2>2. /\ \A n \in 1..Len(recorded') : recorded'[n] \in 1..Len(uploads')
        /\ m \in 1..m /\ 1..Len(recorded) \subseteq 1..m
    BY <1>1, <1>2, <1>3 DEF FrameInv, Numbers
  <2>3. \A v \in Uploader :
          /\ uploader'[v].pc = "record" => uploader'[v].id \in 1..Len(uploads')
          /\ uploader'[v].pc = "push" => uploader'[v].seq \in 1..Len(recorded') /\ phase' = "linked"
    BY <1>1, <1>3, <2>1, <2>2 DEF FrameInv, Numbers, AtRest
  <2>4. /\ trimmed' <= m /\ applied' <= m
        /\ request'.kind = "catchup" => request'.after <= m
        /\ \A i \in 1..Len(acks') : acks'[i] <= m
        /\ \A k \in late' : k <= m
    <3>1. /\ \A k \in Nat : k <= Len(recorded) => k <= m
          /\ trimmed \in Nat /\ applied \in Nat /\ acks \in Seq(Nat) /\ late \subseteq Nat
          /\ request.kind = "catchup" => request.after \in Nat
      BY <1>2 DEF FrameInv, FrameTypes, NoRequest
    <3>2. /\ trimmed <= Len(recorded) /\ applied <= Len(recorded)
          /\ request.kind = "catchup" => request.after <= Len(recorded)
          /\ \A i \in 1..Len(acks) : acks[i] \in Nat /\ acks[i] <= Len(recorded)
          /\ \A k \in late : k <= Len(recorded)
      BY <3>1 DEF FrameInv, Numbers
    <3>. QED
      BY <1>1, <3>1, <3>2
  <2>. QED
    BY <1>3, <2>2, <2>3, <2>4 DEF Numbers
<1>7. Phases'
  BY <1>1 DEF FrameInv, Phases, IsSnapshot
<1>8. Onward /\ Handed
  <2>1. Len(recorded) <= Len(recorded')
    BY <1>2, <1>3
  <2>. QED
    BY <1>1, <1>3, <2>1 DEF Onward, Handed, Sure, IsSnapshot
<1>. QED
  BY <1>1, <1>5, <1>6, <1>7, <1>8, FramesKept

LEMMA DialInv == ASSUME FrameInv, Dial PROVE FrameInv'
<1>1. /\ phase = "down" /\ phase' = "dialed"
      /\ request' = (IF fresh THEN [kind |-> "snapshot"]
                     ELSE [kind |-> "catchup", after |-> applied])
      /\ UNCHANGED <<uploads, uploader, recorded, trimmed, answer, frames, acks, late>>
      /\ UNCHANGED <<replica, fresh, applied, overtaken>>
  BY DEF Dial, logVars, dialerVars
<1>2. FrameTypes'
  BY <1>1 DEF FrameInv, FrameTypes
<1>3. Numbers'
  BY <1>1 DEF FrameInv, FrameTypes, Numbers
<1>4. Phases'
  BY <1>1 DEF FrameInv, Phases, IsSnapshot
<1>5. Onward
  BY <1>1 DEF FrameInv, FrameTypes, Onward, Sure, IsSnapshot
<1>6. Trimmable'
  <2>1. \A x : Sure(x)' <=> Sure(x)
    BY <1>1 DEF Sure, IsSnapshot
  <2>2. \A m : Covered(m)' <=> Covered(m)
    BY <1>1, <2>1 DEF Covered, Sure, IsSnapshot
  <2>3. (request.kind = "catchup" => Covered(request.after))'
    BY <1>1, <2>2 DEF FrameInv, Trimmable, Covered, Sure, IsSnapshot
  <2>. QED
    BY <1>1, <2>2, <2>3 DEF FrameInv, Trimmable, Covered, Sure, IsSnapshot
<1>. QED
  BY <1>1, <1>2, <1>3, <1>4, <1>5, <1>6, StillOrdered DEF FrameInv

LEMMA HangUpInv == ASSUME FrameInv, HangUp PROVE FrameInv'
<1>1. /\ phase = "broken" /\ frames = <<>> /\ phase' = "down"
      /\ UNCHANGED <<uploads, uploader, recorded, trimmed, request, answer, frames, acks, late>>
      /\ UNCHANGED <<replica, fresh, applied, overtaken>>
  BY DEF HangUp, logVars, dialerVars
<1>2. FrameTypes' /\ Numbers' /\ Phases'
  BY <1>1 DEF FrameInv, FrameTypes, Numbers, Phases, IsSnapshot
<1>3. Onward
  BY <1>1 DEF FrameInv, FrameTypes, Onward, Sure, IsSnapshot
<1>4. Handed
  BY <1>1 DEF Handed
<1>. QED
  BY <1>1, <1>2, <1>3, <1>4, FramesKept

LEMMA AcceptLinkInv == ASSUME FrameInv, AcceptLink PROVE FrameInv'
<1>1. /\ phase = "dialed" /\ phase' = "linked"
      /\ UNCHANGED <<uploads, uploader, recorded, trimmed, request, answer, frames, acks, late>>
      /\ UNCHANGED <<replica, fresh, applied, overtaken>>
  BY DEF AcceptLink, logVars, dialerVars
<1>2. FrameTypes' /\ Numbers' /\ Phases'
  BY <1>1 DEF FrameInv, FrameTypes, Numbers, Phases, IsSnapshot
<1>3. Onward
  BY <1>1 DEF FrameInv, FrameTypes, Onward, Sure, IsSnapshot
<1>4. Handed
  BY <1>1 DEF Handed
<1>. QED
  BY <1>1, <1>2, <1>3, <1>4, FramesKept

LEMMA ReadAckInv == ASSUME FrameInv, ReadAck PROVE FrameInv'
<1>1. /\ acks # <<>> /\ acks' = Tail(acks)
      /\ trimmed' = (IF Head(acks) > trimmed THEN Head(acks) ELSE trimmed)
      /\ UNCHANGED <<uploads, uploader, recorded, phase, request, answer, frames, late>>
      /\ UNCHANGED <<replica, fresh, applied, overtaken>>
  BY DEF ReadAck, Trim, dialerVars
<1>2. /\ acks \in Seq(Nat) /\ Len(acks) > 0 /\ Head(acks) = acks[1] /\ acks[1] \in Nat
      /\ acks' \in Seq(Nat) /\ Len(acks') = Len(acks) - 1
      /\ \A i \in 1..Len(acks') : acks'[i] = acks[i + 1]
  BY <1>1 DEF FrameInv, FrameTypes
<1>3. trimmed' \in {trimmed, acks[1]}
  BY <1>1, <1>2
<1>4. \A i \in 1..Len(acks') : \E j \in 1..Len(acks) : acks'[i] = acks[j]
  <2>1. \A i \in 1..Len(acks') : i + 1 \in 1..Len(acks)
    BY <1>2
  <2>. QED
    BY <1>2, <2>1
<1>5. FrameTypes'
  BY <1>1, <1>2, <1>3 DEF FrameInv, FrameTypes
<1>6. Numbers'
  <2>1. trimmed <= Len(recorded) /\ \A i \in 1..Len(acks) : acks[i] <= Len(recorded)
    BY DEF FrameInv, Numbers
  <2>2. trimmed' <= Len(recorded)
    BY <1>2, <1>3, <2>1
  <2>3. \A i \in 1..Len(acks') : acks'[i] <= Len(recorded)
    BY <1>4, <2>1
  <2>. QED
    BY <1>1, <2>2, <2>3 DEF FrameInv, Numbers
<1>7. Phases'
  BY <1>1 DEF FrameInv, Phases, IsSnapshot
<1>8. Onward /\ Handed
  BY <1>1, <1>2, <1>3, <1>4 DEF FrameInv, FrameTypes, Onward, Handed, Sure, IsSnapshot
<1>. QED
  BY <1>1, <1>5, <1>6, <1>7, <1>8, FramesKept

LEMMA ReadLateAckInv == ASSUME FrameInv, ReadLateAck PROVE FrameInv'
<1>1. PICK seq \in late :
        /\ trimmed' = (IF seq > trimmed THEN seq ELSE trimmed)
        /\ late' = late \ {seq}
        /\ UNCHANGED <<uploads, uploader, recorded, phase, request, answer, frames, acks>>
        /\ UNCHANGED <<replica, fresh, applied, overtaken>>
  BY DEF ReadLateAck, Trim, dialerVars
<1>2. trimmed' \in {trimmed, seq} /\ seq \in Nat
  BY <1>1 DEF FrameInv, FrameTypes
<1>3. FrameTypes'
  BY <1>1, <1>2 DEF FrameInv, FrameTypes
<1>4. Numbers'
  BY <1>1, <1>2 DEF FrameInv, Numbers
<1>5. Phases'
  BY <1>1 DEF FrameInv, Phases, IsSnapshot
<1>6. Onward /\ Handed
  BY <1>1, <1>2 DEF FrameInv, FrameTypes, Onward, Handed, Sure, IsSnapshot
<1>. QED
  BY <1>1, <1>3, <1>4, <1>5, <1>6, FramesKept

\* A link that ends, whatever arrives of what it carries, and whether tracker 0
\* keeps its state or loses it.
LEMMA GoneInv ==
    ASSUME FrameInv, Gone, UNCHANGED <<uploads, recorded, trimmed, overtaken>>,
           frames' \in Seq(FrameRecord), Len(frames') <= Len(frames),
           \A i \in 1..Len(frames') : frames'[i] = frames[i],
           \/ UNCHANGED dialerVars
           \/ fresh' = TRUE /\ replica' = {} /\ applied' = 0 /\ frames' = <<>>,
           \/ phase' = "down" /\ frames' = <<>>
           \/ phase' = "broken"
    PROVE  FrameInv'
<1>1. /\ request' = NoRequest /\ answer' = <<>> /\ acks' = <<>>
      /\ late' \subseteq late \cup {acks[i] : i \in 1..Len(acks)}
      /\ uploader' = [u \in Uploader |->
                        IF uploader[u].pc = "push" THEN AtRest ELSE uploader[u]]
  <2>1. DOMAIN acks = 1..Len(acks)
    BY DEF FrameInv, FrameTypes
  <2>. QED
    BY <2>1 DEF Gone
<1>2. /\ fresh' \in BOOLEAN /\ applied' \in {applied, 0} /\ (~fresh' => ~fresh)
      /\ fresh' => applied' = 0
  <2>1. fresh \in BOOLEAN /\ (fresh => applied = 0)
    BY DEF FrameInv, FrameTypes, Phases
  <2>2. CASE UNCHANGED dialerVars
    BY <2>1, <2>2 DEF dialerVars
  <2>3. CASE fresh' = TRUE /\ applied' = 0
    BY <2>3
  <2>. QED
    BY <2>2, <2>3
<1>3. frames \in Seq(FrameRecord) /\ \A i \in 1..Len(frames') : i \in 1..Len(frames)
  BY DEF FrameInv, FrameTypes
<1>4. FrameTypes'
  <2>1. uploader' \in [Uploader -> UploaderRecord]
    BY <1>1 DEF FrameInv, FrameTypes, UploaderRecord
  <2>2. late' \subseteq Nat
    <3>1. late \subseteq Nat /\ \A i \in 1..Len(acks) : acks[i] \in Nat
      BY DEF FrameInv, FrameTypes
    <3>. QED
      BY <1>1, <3>1
  <2>. QED
    BY <1>1, <1>2, <2>1, <2>2 DEF FrameInv, FrameTypes
<1>5. Numbers'
  <2>1. \A u \in Uploader :
          uploader'[u].pc # "push" /\ (uploader'[u].pc = "record" => uploader'[u] = uploader[u])
    BY <1>1 DEF AtRest
  <2>2. \A m \in late' : m <= Len(recorded)
    BY <1>1 DEF FrameInv, Numbers
  <2>3. applied' <= Len(recorded)
    BY <1>2 DEF FrameInv, FrameTypes, Numbers
  <2>4. NoRequest.kind = "none"
    BY DEF NoRequest
  <2>. QED
    BY <1>1, <2>1, <2>2, <2>3, <2>4 DEF FrameInv, Numbers
<1>6. \A i : IsSnapshot(frames, i)' => IsSnapshot(frames, i) /\ frames'[i] = frames[i]
  BY <1>3 DEF IsSnapshot
<1>7. Phases'
  <2>1. NoRequest.kind = "none"
    BY DEF NoRequest
  <2>2. \A i, j \in 1..Len(frames') : IsSnapshot(frames, i)' /\ IsSnapshot(frames, j)' => i = j
    BY <1>3, <1>6 DEF FrameInv, Phases
  <2>3. ~fresh' => \A i \in 1..Len(frames') : ~IsSnapshot(frames, i)'
    BY <1>2, <1>3, <1>6 DEF FrameInv, Phases
  <2>. QED
    BY <1>1, <1>2, <2>1, <2>2, <2>3 DEF Phases
<1>8. Onward
  <2>1. ASSUME NEW x \in 1..Len(uploads), Sure(x) PROVE Sure(x)'
    <3>1. CASE UNCHANGED dialerVars
      BY <1>1, <1>3, <1>6, <2>1, <3>1 DEF Sure, dialerVars
    <3>2. CASE fresh' = TRUE /\ frames' = <<>>
      BY <1>1, <3>2 DEF Sure
    <3>. QED
      BY <3>1, <3>2
  <2>. QED
    BY <2>1 DEF FrameInv, FrameTypes, Onward
<1>9. Handed
  BY <1>1, <1>2 DEF Handed
<1>10. Ops(answer)' /\ InOrder(answer)'
  BY <1>1 DEF Ops, InOrder
<1>11. Ops(frames)' /\ InOrder(frames)' /\ NoLoss'
  <2>1. \A n \in 1..Len(recorded) : Sure(recorded[n]) => Sure(recorded[n])'
    <3>. SUFFICES ASSUME NEW n \in 1..Len(recorded), Sure(recorded[n]) PROVE Sure(recorded[n])'
      OBVIOUS
    <3>1. PICK x \in 1..Len(uploads) : x = recorded[n] /\ x = recorded'[n]
      BY DEF FrameInv, Numbers, Onward
    <3>2. Sure(x)'
      BY <1>8, <3>1 DEF Onward
    <3>. QED
      BY <3>1, <3>2 DEF Sure
  <2>2. Ops(frames)'
    BY <1>3 DEF FrameInv, Ops
  <2>3. InOrder(frames)'
    <3>. SUFFICES ASSUME NEW i \in 1..Len(frames'), frames'[i].kind = "op",
                         NEW n \in 1..(frames'[i].seq - 1)
                  PROVE  \/ Sure(recorded[n])'
                         \/ \E j \in 1..(i - 1) : frames'[j].kind = "op"
                              /\ recorded'[frames'[j].seq] = recorded'[n]
      BY DEF InOrder
    <3>1. n \in 1..Len(recorded) /\ n \in 1..(frames[i].seq - 1) /\ i \in 1..Len(frames)
      BY <1>3, <2>2 DEF FrameInv, FrameTypes, Ops
    <3>2. \A j \in 1..(i - 1) : j \in 1..Len(frames')
      BY <1>3
    <3>3. CASE Sure(recorded[n])
      BY <2>1, <3>1, <3>3
    <3>4. CASE \E j \in 1..(i - 1) : frames[j].kind = "op" /\ recorded[frames[j].seq] = recorded[n]
      BY <3>2, <3>4
    <3>. QED
      BY <3>1, <3>3, <3>4 DEF FrameInv, InOrder
  <2>4. NoLoss'
    <3>. SUFFICES ASSUME fresh', NEW i \in 1..Len(frames'), frames'[i].kind = "op"
                  PROVE  \/ Sure(recorded[frames[i].seq])'
                         \/ \E j \in 1..(i - 1) : frames'[j].kind = "snapshot"
      BY DEF NoLoss
    <3>1. i \in 1..Len(frames) /\ frames[i].kind = "op" /\ frames[i].seq \in 1..Len(recorded)
      BY <1>3 DEF FrameInv, Ops
    <3>2. \A j \in 1..(i - 1) : j \in 1..Len(frames')
      BY <1>3
    <3>3. fresh
      <4>1. frames' # <<>>
        BY <1>3, <3>2
      <4>. QED
        BY <4>1 DEF dialerVars
    <3>. QED
      BY <2>1, <3>1, <3>2, <3>3 DEF FrameInv, NoLoss
  <2>. QED
    BY <2>2, <2>3, <2>4
<1>. QED
  BY <1>4, <1>5, <1>7, <1>8, <1>9, <1>10, <1>11, StillTrimmable DEF FrameInv

LEMMA EndsInv == ASSUME FrameInv, Refuse \/ Break \/ Restart PROVE FrameInv'
<1>1. frames \in Seq(FrameRecord) /\ Len(frames) \in Nat
  BY DEF FrameInv, FrameTypes
<1>2. <<>> \in Seq(FrameRecord) /\ Len(<<>>) = 0
  OBVIOUS
<1>3. CASE Refuse
  BY <1>1, <1>2, <1>3, GoneInv DEF Refuse, logVars
<1>4. CASE Restart
  BY <1>1, <1>2, <1>4, GoneInv DEF Restart, logVars
<1>5. CASE Break
  <2>1. PICK k \in 0..Len(frames) : frames' = SubSeq(frames, 1, k)
    BY <1>5 DEF Break
  <2>2. /\ frames' \in Seq(FrameRecord) /\ Len(frames') = k
        /\ \A i \in 1..k : frames'[i] = frames[i]
    BY <1>1, <2>1, SubSeqProperties
  <2>. QED
    BY <1>1, <1>5, <2>2, GoneInv DEF Break, logVars
<1>. QED
  BY <1>3, <1>4, <1>5

\* Restoring the snapshot makes sure what was to come with it.
LEMMA ReadSnapshotInv == ASSUME FrameInv, ReadSnapshot PROVE FrameInv'
<1>1. /\ frames # <<>> /\ Head(frames).kind = "snapshot"
      /\ replica' = Head(frames).holds /\ fresh' = FALSE /\ frames' = Tail(frames)
      /\ UNCHANGED <<uploads, uploader, recorded, trimmed, phase, request, answer, acks, late>>
      /\ UNCHANGED <<applied, overtaken>>
  BY DEF ReadSnapshot, logVars
<1>2. /\ frames \in Seq(FrameRecord) /\ Len(frames) > 0 /\ Head(frames) = frames[1]
      /\ frames' \in Seq(FrameRecord) /\ Len(frames') = Len(frames) - 1
      /\ \A i \in 1..Len(frames') : frames'[i] = frames[i + 1] /\ i + 1 \in 1..Len(frames)
  BY <1>1 DEF FrameInv, FrameTypes
<1>3. IsSnapshot(frames, 1)
  BY <1>1, <1>2 DEF IsSnapshot
<1>4. fresh /\ answer = <<>> /\ request.kind = "none" /\ applied = 0
  <2>1. fresh /\ answer = <<>>
    BY <1>2, <1>3 DEF FrameInv, Phases
  <2>2. request.kind \notin {"snapshot", "catchup"}
    BY <1>2, <1>3, <2>1 DEF FrameInv, Phases
  <2>. QED
    BY <2>1, <2>2 DEF FrameInv, FrameTypes, Phases, NoRequest
<1>5. FrameTypes'
  BY <1>1, <1>2 DEF FrameInv, FrameTypes
<1>6. Numbers'
  BY <1>1 DEF FrameInv, Numbers
<1>7. \A i \in 1..Len(frames') : ~IsSnapshot(frames, i)'
  <2>. SUFFICES ASSUME NEW i \in 1..Len(frames'), IsSnapshot(frames, i)' PROVE FALSE
    OBVIOUS
  <2>1. IsSnapshot(frames, i + 1) /\ i + 1 \in 1..Len(frames) /\ i + 1 # 1
    BY <1>2 DEF IsSnapshot
  <2>2. 1 \in 1..Len(frames)
    BY <1>2
  <2>. QED
    BY <1>3, <2>1, <2>2 DEF FrameInv, Phases
<1>8. Phases'
  <2>1. phase \notin {"down", "dialed"}
    BY <1>1 DEF FrameInv, Phases
  <2>. QED
    BY <1>1, <1>4, <1>7, <2>1 DEF FrameInv, Phases
<1>9. Onward
  <2>1. ASSUME NEW x \in 1..Len(uploads), Sure(x) PROVE Sure(x)'
    BY <1>1, <1>2, <1>3, <1>4, <2>1 DEF Sure
  <2>. QED
    BY <1>1, <2>1 DEF FrameInv, FrameTypes, Onward
<1>10. Trimmable'
  BY <1>1, <1>4, <1>9, StillTrimmable DEF Handed
<1>11. Ops(frames)'
  BY <1>1, <1>2 DEF FrameInv, Ops
<1>12. InOrder(frames)'
  <2>. SUFFICES ASSUME NEW i \in 1..Len(frames'), frames'[i].kind = "op",
                       NEW n \in 1..(frames'[i].seq - 1)
                PROVE  \/ Sure(recorded[n])'
                       \/ \E j \in 1..(i - 1) : frames'[j].kind = "op"
                            /\ recorded'[frames'[j].seq] = recorded'[n]
    BY DEF InOrder
  <2>1. /\ frames[i + 1] = frames'[i] /\ i + 1 \in 1..Len(frames)
        /\ frames[i + 1].seq \in 1..Len(recorded) /\ n \in 1..Len(recorded)
        /\ n \in 1..(frames[i + 1].seq - 1)
    <3>1. i + 1 \in 1..Len(frames) /\ frames[i + 1] = frames'[i] /\ frames[i + 1].kind = "op"
      BY <1>2
    <3>2. frames[i + 1].seq \in 1..Len(recorded) /\ Len(recorded) \in Nat
      BY <3>1 DEF FrameInv, FrameTypes, Ops
    <3>3. n \in 1..(frames[i + 1].seq - 1)
      BY <3>1
    <3>. QED
      BY <3>1, <3>2, <3>3
  <2>2. CASE Sure(recorded[n])
    <3>1. PICK x \in 1..Len(uploads) : x = recorded[n] /\ x = recorded'[n]
      BY <1>1, <2>1 DEF FrameInv, Numbers
    <3>2. Sure(x)'
      BY <1>9, <2>2, <3>1 DEF Onward
    <3>. QED
      BY <3>1, <3>2 DEF Sure
  <2>3. CASE \E j \in 1..i : frames[j].kind = "op" /\ recorded[frames[j].seq] = recorded[n]
    <3>1. PICK j \in 1..i : frames[j].kind = "op" /\ recorded[frames[j].seq] = recorded[n]
      BY <2>3
    <3>2. j # 1
      BY <1>1, <1>2, <3>1
    <3>3. j - 1 \in 1..(i - 1) /\ frames'[j - 1] = frames[j]
      <4>1. j - 1 \in 1..(i - 1) /\ j - 1 \in 1..Len(frames') /\ (j - 1) + 1 = j
        BY <1>2, <3>2
      <4>. QED
        BY <1>2, <4>1
    <3>. QED
      BY <1>1, <3>1, <3>3
  <2>4. (i + 1) - 1 = i
    OBVIOUS
  <2>. QED
    BY <2>1, <2>2, <2>3, <2>4 DEF FrameInv, InOrder
<1>13. NoLoss'
  BY <1>1 DEF NoLoss
<1>. QED
  BY <1>1, <1>5, <1>6, <1>8, <1>9, <1>10, <1>11, <1>12, <1>13, StillOrdered DEF FrameInv

\* An operation that is read is sure from then on, with all before it.
LEMMA ReadOpInv == ASSUME FrameInv, ReadOp PROVE FrameInv'
<1>. PICK s \in 1..Len(recorded) : s = Head(frames).seq
  BY DEF ReadOp, FrameInv, FrameTypes, Ops
<1>1. /\ frames # <<>> /\ Head(frames).kind = "op" /\ frames' = Tail(frames)
      /\ replica' = (IF fresh THEN replica ELSE replica \cup {recorded[s]})
      /\ applied' = (IF ~fresh /\ s > applied THEN s ELSE applied)
      /\ acks' = (IF phase = "linked" THEN Append(acks, s) ELSE acks)
      /\ UNCHANGED <<uploads, uploader, recorded, trimmed, phase, request, answer, late>>
      /\ UNCHANGED <<fresh, overtaken>>
  BY DEF ReadOp, logVars
<1>2. /\ frames \in Seq(FrameRecord) /\ Len(frames) > 0 /\ Head(frames) = frames[1]
      /\ frames' \in Seq(FrameRecord) /\ Len(frames') = Len(frames) - 1
      /\ \A i \in 1..Len(frames') : frames'[i] = frames[i + 1] /\ i + 1 \in 1..Len(frames)
      /\ 1 \in 1..Len(frames)
  BY <1>1 DEF FrameInv, FrameTypes
<1>3. s \in 1..Len(recorded) /\ s = frames[1].seq /\ frames[1].kind = "op"
  BY <1>1, <1>2 DEF FrameInv, Ops
<1>4. /\ acks \in Seq(Nat) /\ acks' \in Seq(Nat) /\ Len(recorded) \in Nat /\ s \in Nat
      /\ \A i \in 1..Len(acks') : acks'[i] = s \/ \E j \in 1..Len(acks) : acks'[i] = acks[j]
  <2>1. acks \in Seq(Nat) /\ recorded \in Seq(Nat) /\ s \in Nat
    BY <1>3 DEF FrameInv, FrameTypes
  <2>2. CASE phase = "linked"
    <3>1. acks' = Append(acks, s)
      BY <1>1, <2>2
    <3>. QED
      BY <2>1, <3>1
  <2>3. CASE phase # "linked"
    BY <1>1, <2>1, <2>3
  <2>. QED
    BY <2>1, <2>2, <2>3
<1>5. applied' \in {applied, s} /\ (fresh => applied' = applied)
  BY <1>1
<1>6. FrameTypes'
  BY <1>1, <1>2, <1>4, <1>5 DEF FrameInv, FrameTypes
<1>7. Numbers'
  <2>1. applied' <= Len(recorded) /\ s <= Len(recorded)
    BY <1>3, <1>4, <1>5 DEF FrameInv, Numbers
  <2>2. \A i \in 1..Len(acks') : acks'[i] <= Len(recorded)
    BY <1>4, <2>1 DEF FrameInv, Numbers
  <2>. QED
    BY <1>1, <2>1, <2>2 DEF FrameInv, Numbers
<1>8. \A i \in 1..Len(frames') :
        IsSnapshot(frames, i)' => IsSnapshot(frames, i + 1) /\ i + 1 \in 1..Len(frames)
  BY <1>2 DEF IsSnapshot
<1>9. Phases'
  <2>1. \A i \in 1..Len(answer) : IsSnapshot(answer, i)' <=> IsSnapshot(answer, i)
    BY <1>1 DEF IsSnapshot
  <2>2. \A i, j \in 1..Len(frames') : IsSnapshot(frames, i)' /\ IsSnapshot(frames, j)' => i = j
    <3>. SUFFICES ASSUME NEW i \in 1..Len(frames'), NEW j \in 1..Len(frames'),
                         IsSnapshot(frames, i)', IsSnapshot(frames, j)'
                  PROVE  i = j
      OBVIOUS
    <3>1. i + 1 = j + 1
      BY <1>8 DEF FrameInv, Phases
    <3>. QED
      BY <1>2, <3>1
  <2>3. /\ request.kind = "snapshot" => \A i \in 1..Len(frames') : ~IsSnapshot(frames, i)'
        /\ ~fresh \/ answer # <<>> => \A i \in 1..Len(frames') : ~IsSnapshot(frames, i)'
    BY <1>8 DEF FrameInv, Phases
  <2>4. fresh => answer = <<>> \/ (Len(answer) = 1 /\ IsSnapshot(answer, 1)')
    BY <1>1 DEF FrameInv, Phases, IsSnapshot
  <2>5. phase \notin {"down", "dialed"}
    BY <1>1 DEF FrameInv, Phases
  <2>. QED
    BY <1>1, <1>5, <2>1, <2>2, <2>3, <2>4, <2>5 DEF FrameInv, Phases
<1>10. Onward
  <2>1. ASSUME NEW x \in 1..Len(uploads), Sure(x) PROVE Sure(x)'
    <3>1. CASE fresh
      <4>1. \A i \in 1..Len(frames') :
              IsSnapshot(frames, i)' => IsSnapshot(frames, i + 1) /\ i + 1 \in 1..Len(frames)
                                        /\ frames'[i] = frames[i + 1]
        BY <1>2, <1>8
      <4>. QED
        BY <1>1, <2>1, <3>1, <4>1 DEF Sure, IsSnapshot
    <3>2. CASE ~fresh
      BY <1>1, <2>1, <3>2 DEF Sure
    <3>. QED
      BY <3>1, <3>2
  <2>. QED
    BY <1>1, <2>1 DEF FrameInv, FrameTypes, Onward
<1>11. \A n \in 1..Len(recorded) : Sure(recorded[n]) => Sure(recorded[n])'
  <2>. SUFFICES ASSUME NEW n \in 1..Len(recorded), Sure(recorded[n]) PROVE Sure(recorded[n])'
    OBVIOUS
  <2>1. PICK x \in 1..Len(uploads) : x = recorded[n] /\ x = recorded'[n]
    BY <1>1 DEF FrameInv, Numbers
  <2>2. Sure(x)'
    BY <1>10, <2>1 DEF Onward
  <2>. QED
    BY <2>1, <2>2 DEF Sure
<1>12. Sure(recorded[s])'
  <2>1. CASE fresh
    <3>1. Sure(recorded[s]) \/ \E j \in 1..0 : frames[j].kind = "snapshot"
      BY <1>2, <1>3, <2>1 DEF FrameInv, NoLoss
    <3>. QED
      BY <1>3, <1>11, <3>1
  <2>2. CASE ~fresh
    BY <1>1, <2>2 DEF Sure
  <2>. QED
    BY <2>1, <2>2
<1>13. Covered(s)'
  <2>. SUFFICES ASSUME NEW n \in 1..s PROVE Sure(recorded[n])'
    BY DEF Covered
  <2>1. CASE n = s
    BY <1>12, <2>1, Zenon
  <2>2. CASE n # s
    <3>1. n \in 1..(frames[1].seq - 1) /\ n \in 1..Len(recorded)
      BY <1>3, <1>4, <2>2
    <3>2. Sure(recorded[n])
      BY <1>2, <1>3, <3>1 DEF FrameInv, InOrder
    <3>. QED
      BY <1>11, <3>1, <3>2
  <2>. QED
    BY <2>1, <2>2
<1>14. Trimmable'
  <2>1. \A m \in Nat : m <= Len(recorded) /\ Covered(m) => Covered(m)'
    BY <1>10, StillCovered
  <2>2. /\ trimmed \in Nat /\ applied \in Nat /\ late \subseteq Nat
        /\ trimmed <= Len(recorded) /\ applied <= Len(recorded)
        /\ \A i \in 1..Len(acks) : acks[i] \in Nat /\ acks[i] <= Len(recorded)
        /\ \A m \in late : m <= Len(recorded)
        /\ request.kind = "catchup" => request.after \in Nat /\ request.after <= Len(recorded)
    <3>1. acks \in Seq(Nat) /\ trimmed \in Nat /\ applied \in Nat /\ late \subseteq Nat
      BY DEF FrameInv, FrameTypes
    <3>2. \A i \in 1..Len(acks) : acks[i] \in Nat
      BY <3>1
    <3>. QED
      BY <3>1, <3>2, RequestFields DEF FrameInv, Numbers
  <2>3. Covered(trimmed)'
    <3>1. PICK m \in Nat : m = trimmed /\ m = trimmed' /\ m <= Len(recorded) /\ Covered(m)
      BY <1>1, <2>2 DEF FrameInv, Trimmable
    <3>. QED
      BY <2>1, <3>1 DEF Covered
  <2>4. ASSUME NEW i \in 1..Len(acks') PROVE Covered(acks[i])'
    <3>1. CASE acks'[i] = s
      BY <1>13, <3>1 DEF Covered
    <3>2. CASE \E j \in 1..Len(acks) : acks'[i] = acks[j]
      <4>1. PICK m \in Nat : m = acks'[i] /\ m <= Len(recorded) /\ Covered(m)
        BY <2>2, <3>2 DEF FrameInv, Trimmable
      <4>. QED
        BY <2>1, <4>1 DEF Covered
    <3>. QED
      BY <1>4, <3>1, <3>2
  <2>5. \A m \in late' : Covered(m)'
    BY <1>1, <2>1, <2>2 DEF FrameInv, Trimmable
  <2>6. ~fresh' => Covered(applied)'
    <3>1. CASE applied' = s
      BY <1>13, <3>1 DEF Covered
    <3>2. CASE applied' = applied /\ ~fresh
      <4>1. PICK m \in Nat : m = applied /\ m = applied' /\ m <= Len(recorded) /\ Covered(m)
        BY <2>2, <3>2 DEF FrameInv, Trimmable
      <4>. QED
        BY <2>1, <4>1 DEF Covered
    <3>. QED
      BY <1>1, <1>5, <3>1, <3>2
  <2>7. (request.kind = "catchup" => Covered(request.after))'
    <3>1. CASE request.kind = "catchup"
      <4>1. PICK m \in Nat : m = request'.after /\ m <= Len(recorded) /\ Covered(m)
        BY <1>1, <2>2, <3>1 DEF FrameInv, Trimmable
      <4>. QED
        BY <2>1, <4>1 DEF Covered
    <3>. QED
      BY <1>1, <3>1
  <2>. QED
    BY <2>3, <2>4, <2>5, <2>6, <2>7 DEF Trimmable
<1>15. Ops(frames)'
  BY <1>1, <1>2 DEF FrameInv, Ops
<1>16. InOrder(frames)'
  <2>. SUFFICES ASSUME NEW i \in 1..Len(frames'), frames'[i].kind = "op",
                       NEW n \in 1..(frames'[i].seq - 1)
                PROVE  \/ Sure(recorded[n])'
                       \/ \E j \in 1..(i - 1) : frames'[j].kind = "op"
                            /\ recorded'[frames'[j].seq] = recorded'[n]
    BY DEF InOrder
  <2>1. /\ frames[i + 1] = frames'[i] /\ i + 1 \in 1..Len(frames)
        /\ frames[i + 1].seq \in 1..Len(recorded) /\ n \in 1..Len(recorded)
        /\ n \in 1..(frames[i + 1].seq - 1)
    <3>1. i + 1 \in 1..Len(frames) /\ frames[i + 1] = frames'[i] /\ frames[i + 1].kind = "op"
      BY <1>2
    <3>2. frames[i + 1].seq \in 1..Len(recorded) /\ Len(recorded) \in Nat
      BY <3>1 DEF FrameInv, FrameTypes, Ops
    <3>3. n \in 1..(frames[i + 1].seq - 1)
      BY <3>1
    <3>. QED
      BY <3>1, <3>2, <3>3
  <2>2. CASE Sure(recorded[n])
    BY <1>11, <2>1, <2>2
  <2>3. CASE \E j \in 1..i : frames[j].kind = "op" /\ recorded[frames[j].seq] = recorded[n]
    <3>1. PICK j \in 1..i : frames[j].kind = "op" /\ recorded[frames[j].seq] = recorded[n]
      BY <2>3
    <3>2. CASE j = 1
      <4>1. recorded[s] = recorded[n]
        BY <1>3, <3>1, <3>2
      <4>2. recorded'[s] = recorded'[n]
        BY <1>1, <4>1
      <4>. QED
        BY <1>12, <4>2 DEF Sure
    <3>3. CASE j # 1
      <4>0. j - 1 \in 1..(i - 1) /\ j - 1 \in 1..Len(frames') /\ (j - 1) + 1 = j
        BY <1>2, <3>3
      <4>1. j - 1 \in 1..(i - 1) /\ frames'[j - 1] = frames[j]
        BY <1>2, <4>0
      <4>. QED
        BY <1>1, <3>1, <4>1
    <3>. QED
      BY <3>2, <3>3
  <2>4. (i + 1) - 1 = i
    OBVIOUS
  <2>. QED
    BY <2>1, <2>2, <2>3, <2>4 DEF FrameInv, InOrder
<1>17. NoLoss'
  <2>. SUFFICES ASSUME fresh, NEW i \in 1..Len(frames'), frames'[i].kind = "op"
                PROVE  \/ Sure(recorded[frames[i].seq])'
                       \/ \E j \in 1..(i - 1) : frames'[j].kind = "snapshot"
    BY <1>1 DEF NoLoss
  <2>1. /\ frames[i + 1] = frames'[i] /\ i + 1 \in 1..Len(frames) /\ (i + 1) - 1 = i
        /\ frames[i + 1].seq \in 1..Len(recorded)
    BY <1>2 DEF FrameInv, Ops
  <2>2. CASE Sure(recorded[frames[i + 1].seq])
    <3>1. PICK n \in 1..Len(recorded) : n = frames'[i].seq /\ Sure(recorded[n])
      BY <2>1, <2>2
    <3>2. Sure(recorded[n])'
      BY <1>11, <3>1
    <3>. QED
      BY <3>1, <3>2 DEF Sure
  <2>3. CASE \E j \in 1..i : frames[j].kind = "snapshot"
    <3>1. PICK j \in 1..i : frames[j].kind = "snapshot"
      BY <2>3
    <3>2. j # 1
      BY <1>3, <3>1
    <3>3. j - 1 \in 1..(i - 1) /\ frames'[j - 1] = frames[j]
      <4>1. j - 1 \in 1..(i - 1) /\ j - 1 \in 1..Len(frames') /\ (j - 1) + 1 = j
        BY <1>2, <3>2
      <4>. QED
        BY <1>2, <4>1
    <3>. QED
      BY <3>1, <3>3
  <2>. QED
    BY <2>1, <2>2, <2>3 DEF FrameInv, NoLoss
<1>. QED
  BY <1>1, <1>6, <1>7, <1>9, <1>10, <1>14, <1>15, <1>16, <1>17, StillOrdered DEF FrameInv

\* The snapshot that answers a request holds every upload; a catch-up goes on where
\* the log or the requester's numbers end.
LEMMA TakeAnswerInv == ASSUME FrameInv, TakeAnswer PROVE FrameInv'
<1>1. /\ phase = "linked" /\ request.kind # "none" /\ request' = NoRequest
      /\ UNCHANGED <<uploads, uploader, recorded, trimmed, phase, frames, acks, late>>
      /\ UNCHANGED <<replica, fresh, applied, overtaken>>
  BY DEF TakeAnswer, logVars, dialerVars
<1>2. answer = <<>> /\ NoRequest.kind = "none"
  BY <1>1 DEF FrameInv, Phases, NoRequest
<1>3. CASE request.kind = "snapshot"
  <2>1. /\ answer' = <<SnapshotFrame>> /\ Len(answer') = 1 /\ answer'[1] = SnapshotFrame
        /\ answer' \in Seq(FrameRecord)
    BY <1>3, SnapshotFrameFields DEF TakeAnswer
  <2>2. fresh /\ \A i \in 1..Len(frames) : ~IsSnapshot(frames, i)
    BY <1>3 DEF FrameInv, Phases
  <2>3. /\ SnapshotFrame.kind = "snapshot" /\ SnapshotFrame.holds = 1..Len(uploads)
        /\ IsSnapshot(answer, 1)'
    BY <2>1, SnapshotFrameFields DEF IsSnapshot
  <2>4. FrameTypes'
    BY <1>1, <2>1 DEF FrameInv, FrameTypes
  <2>5. Numbers'
    BY <1>1, <1>2 DEF FrameInv, Numbers
  <2>6. \A i \in 1..Len(frames') : ~IsSnapshot(frames, i)'
    BY <1>1, <2>2 DEF IsSnapshot
  <2>7. Phases'
    BY <1>1, <1>2, <2>1, <2>2, <2>3, <2>6 DEF FrameInv, Phases
  <2>8. Onward
    <3>1. ASSUME NEW x \in 1..Len(uploads), Sure(x) PROVE Sure(x)'
      <4>1. \A i \in 1..Len(answer') : x \in answer'[i].holds
        BY <2>1, <2>3
      <4>. QED
        BY <1>1, <2>2, <2>6, <3>1, <4>1 DEF Sure
    <3>. QED
      BY <1>1, <3>1 DEF FrameInv, FrameTypes, Onward
  <2>9. Trimmable'
    <3>1. Handed
      BY <1>1 DEF Handed
    <3>. QED
      BY <2>8, <3>1, StillTrimmable
  <2>10. Ops(answer)' /\ InOrder(answer)'
    BY <2>1, <2>3 DEF Ops, InOrder
  <2>. QED
    BY <1>1, <2>4, <2>5, <2>7, <2>8, <2>9, <2>10, StillOrdered DEF FrameInv
<1>4. CASE request.kind = "catchup"
  <2>. DEFINE top == IF request.after > trimmed THEN request.after ELSE trimmed
  <2>1. /\ trimmed \in Nat /\ request.after \in Nat /\ recorded \in Seq(Nat)
        /\ Len(recorded) \in Nat
        /\ trimmed <= Len(recorded) /\ request.after <= Len(recorded)
        /\ Covered(trimmed) /\ Covered(request.after)
    BY <1>4 DEF FrameInv, FrameTypes, Numbers, Trimmable, NoRequest
  <2>2. PICK last \in Nat : last = top /\ last <= Len(recorded) /\ Covered(last)
    BY <2>1
  <2>3. answer' = [i \in 1..(Len(recorded) - last) |-> OpFrame(last + i)]
    BY <1>4, <2>2 DEF TakeAnswer
  <2>4. PICK k \in Nat : k = Len(recorded) - last
    <3>1. Len(recorded) - last \in Nat
      BY <2>1, <2>2
    <3>. QED
      BY <3>1
  <2>. HIDE DEF top
  <2>5. \A i \in 1..k :
          /\ last + i \in 1..Len(recorded)
          /\ OpFrame(last + i) \in FrameRecord
          /\ OpFrame(last + i).kind = "op" /\ OpFrame(last + i).seq = last + i
    BY <2>1, <2>2, <2>4, OpFrameFields
  <2>6. /\ answer' \in Seq(FrameRecord) /\ Len(answer') = k
        /\ \A i \in 1..k : answer'[i].kind = "op" /\ answer'[i].seq = last + i
    <3>1. answer' = [i \in 1..k |-> OpFrame(last + i)]
      BY <2>3, <2>4
    <3>2. answer' \in [1..k -> FrameRecord] /\ DOMAIN answer' = 1..k
      BY <2>5, <3>1
    <3>3. answer' \in Seq(FrameRecord)
      BY <3>2
    <3>4. Len(answer') = k
      BY <3>2, <3>3, LenProperties
    <3>. QED
      BY <2>5, <3>1, <3>3, <3>4
  <2>7. FrameTypes'
    BY <1>1, <2>6 DEF FrameInv, FrameTypes
  <2>8. Numbers'
    BY <1>1, <1>2 DEF FrameInv, Numbers
  <2>9. Phases'
    <3>1. \A i \in 1..Len(answer') : ~IsSnapshot(answer, i)'
      BY <2>6 DEF IsSnapshot
    <3>2. ~fresh /\ \A i \in 1..Len(frames') : ~IsSnapshot(frames, i)'
      BY <1>1, <1>4 DEF FrameInv, Phases, IsSnapshot
    <3>. QED
      BY <1>1, <1>2, <3>1, <3>2 DEF FrameInv, Phases
  <2>10. ~fresh
    BY <1>4 DEF FrameInv, Phases
  <2>11. Onward
    BY <1>1, <2>10 DEF FrameInv, FrameTypes, Onward, Sure
  <2>12. Trimmable'
    <3>1. Handed
      BY <1>1 DEF Handed
    <3>. QED
      BY <2>11, <3>1, StillTrimmable
  <2>13. Ops(answer)'
    BY <1>1, <2>5, <2>6 DEF Ops
  <2>14. InOrder(answer)'
    <3>. SUFFICES ASSUME NEW i \in 1..k, NEW n \in 1..(last + i - 1)
                  PROVE  \/ Sure(recorded[n])'
                         \/ \E j \in 1..(i - 1) : answer'[j].kind = "op"
                              /\ recorded'[answer'[j].seq] = recorded'[n]
      <4>1. \A i \in 1..Len(answer') : i \in 1..k /\ answer'[i].seq - 1 = last + i - 1
        BY <2>2, <2>6
      <4>. QED
        BY <4>1 DEF InOrder
    <3>1. CASE n <= last
      <4>1. Sure(recorded[n])
        BY <2>2, <3>1 DEF Covered
      <4>. QED
        BY <1>1, <2>10, <4>1 DEF Sure
    <3>2. CASE n > last
      <4>1. /\ n - last \in 1..(i - 1) /\ n - last \in 1..k /\ last + (n - last) = n
        BY <2>2, <3>2
      <4>. QED
        BY <2>6, <4>1
    <3>3. n <= last \/ n > last
      BY <2>2
    <3>. QED
      BY <3>1, <3>2, <3>3
  <2>. QED
    BY <1>1, <2>7, <2>8, <2>9, <2>11, <2>12, <2>13, <2>14, StillOrdered DEF FrameInv
<1>5. request.kind \in {"none", "snapshot", "catchup"}
  BY DEF FrameInv, FrameTypes, NoRequest
<1>. QED
  BY <1>1, <1>3, <1>4, <1>5

\* Frames that are written come after those on the link.
LEMMA WriteAnswerInv == ASSUME FrameInv, WriteAnswer PROVE FrameInv'
<1>1. /\ answer # <<>> /\ frames' = frames \o answer /\ answer' = <<>>
      /\ UNCHANGED <<uploads, uploader, recorded, trimmed, phase, request, acks, late>>
      /\ UNCHANGED <<replica, fresh, applied, overtaken>>
  BY DEF WriteAnswer, logVars, dialerVars
<1>2. PICK k \in Nat : k = Len(frames)
  BY DEF FrameInv, FrameTypes
<1>3. /\ frames \in Seq(FrameRecord) /\ answer \in Seq(FrameRecord)
      /\ frames' \in Seq(FrameRecord) /\ Len(frames') = k + Len(answer) /\ Len(answer) \in Nat
      /\ \A i \in 1..k : frames'[i] = frames[i]
      /\ \A i \in 1..Len(frames') :
           i > k => frames'[i] = answer[i - k] /\ i - k \in 1..Len(answer)
      /\ \A i \in 1..Len(answer) : frames'[k + i] = answer[i] /\ k + i \in 1..Len(frames')
  <2>1. frames \in Seq(FrameRecord) /\ answer \in Seq(FrameRecord) /\ Len(answer) \in Nat
    BY DEF FrameInv, FrameTypes
  <2>2. /\ frames' \in Seq(FrameRecord) /\ Len(frames') = k + Len(answer)
        /\ \A i \in 1..Len(frames') :
             frames'[i] = IF i <= k THEN frames[i] ELSE answer[i - k]
    BY <1>1, <1>2, <2>1, ConcatProperties
  <2>3. /\ \A i \in 1..k : i \in 1..Len(frames') /\ i <= k
        /\ \A i \in 1..Len(frames') : i > k => ~(i <= k) /\ i - k \in 1..Len(answer)
        /\ \A i \in 1..Len(answer) :
             k + i \in 1..Len(frames') /\ ~(k + i <= k) /\ (k + i) - k = i
    BY <2>1, <2>2
  <2>. QED
    BY <2>1, <2>2, <2>3
<1>4. \A i \in 1..Len(frames) : ~IsSnapshot(frames, i)
  BY <1>1 DEF FrameInv, Phases
<1>5. FrameTypes' /\ Numbers'
  BY <1>1, <1>3 DEF FrameInv, FrameTypes, Numbers
<1>6. Ops(answer)' /\ InOrder(answer)'
  BY <1>1 DEF Ops, InOrder
<1>7. request.kind = "none" /\ phase \notin {"down", "dialed", "broken"}
  BY <1>1 DEF FrameInv, FrameTypes, Phases, NoRequest
<1>8. ASSUME NEW i \in 1..Len(frames'), IsSnapshot(frames, i)'
      PROVE  fresh /\ i = k + 1 /\ Len(answer) = 1 /\ frames'[i] = answer[1]
  <2>1. i > k
    <3>1. frames'[i].kind = "snapshot"
      BY <1>8 DEF IsSnapshot
    <3>2. CASE i <= k
      <4>1. i \in 1..Len(frames) /\ frames[i].kind = "snapshot"
        BY <1>2, <1>3, <3>1, <3>2
      <4>. QED
        BY <1>4, <4>1 DEF IsSnapshot
    <3>3. i \in Nat /\ k \in Nat
      BY <1>2, <1>3, <1>8
    <3>. QED
      BY <3>2, <3>3
  <2>2. i - k \in 1..Len(answer) /\ IsSnapshot(answer, i - k) /\ frames'[i] = answer[i - k]
    BY <1>3, <1>8, <2>1 DEF IsSnapshot
  <2>3. fresh /\ Len(answer) = 1
    BY <1>1, <2>2 DEF FrameInv, FrameTypes, Phases
  <2>4. i - k = 1
    BY <2>2, <2>3
  <2>. QED
    BY <2>1, <2>2, <2>3, <2>4
<1>9. Phases'
  BY <1>1, <1>7, <1>8 DEF FrameInv, Phases
<1>10. \A x : Sure(x) => Sure(x)'
  <2>. SUFFICES ASSUME NEW x, Sure(x) PROVE Sure(x)'
    OBVIOUS
  <2>1. CASE fresh /\ x \notin overtaken
    <3>1. ASSUME NEW i \in 1..Len(frames'), IsSnapshot(frames, i)' PROVE x \in frames'[i].holds
      <4>1. i = k + 1 /\ Len(answer) = 1 /\ frames'[i] = answer[1]
        BY <1>8, <3>1
      <4>2. IsSnapshot(answer, 1)
        BY <3>1, <4>1 DEF IsSnapshot
      <4>. QED
        BY <2>1, <4>1, <4>2 DEF Sure
    <3>. QED
      BY <1>1, <2>1, <3>1 DEF Sure
  <2>2. CASE ~fresh \/ x \in overtaken
    BY <1>1, <2>2 DEF Sure
  <2>. QED
    BY <2>1, <2>2
<1>11. Onward
  BY <1>1, <1>10 DEF FrameInv, FrameTypes, Onward
<1>12. Trimmable'
  <2>1. Handed
    BY <1>1 DEF Handed
  <2>. QED
    BY <1>11, <2>1, StillTrimmable
<1>13. \A n : Sure(recorded[n]) => Sure(recorded[n])'
  BY <1>1, <1>10 DEF Sure
<1>14. Ops(frames)'
  <2>. SUFFICES ASSUME NEW i \in 1..Len(frames'), frames'[i].kind = "op"
                PROVE  frames'[i].seq \in 1..Len(recorded)
    BY <1>1 DEF Ops
  <2>1. CASE i <= k
    BY <1>2, <1>3, <2>1 DEF FrameInv, Ops
  <2>2. CASE i > k
    BY <1>3, <2>2 DEF FrameInv, Ops
  <2>. QED
    BY <1>2, <1>3, <2>1, <2>2
<1>15. InOrder(frames)'
  <2>. SUFFICES ASSUME NEW i \in 1..Len(frames'), frames'[i].kind = "op",
                       NEW n \in 1..(frames'[i].seq - 1)
                PROVE  \/ Sure(recorded[n])'
                       \/ \E j \in 1..(i - 1) : frames'[j].kind = "op"
                            /\ recorded'[frames'[j].seq] = recorded'[n]
    BY DEF InOrder
  <2>1. CASE i <= k
    <3>1. i \in 1..Len(frames) /\ frames[i] = frames'[i] /\ \A j \in 1..(i - 1) : frames'[j] = frames[j]
      BY <1>2, <1>3, <2>1
    <3>2. \/ Sure(recorded[n])
          \/ \E j \in 1..(i - 1) : frames[j].kind = "op" /\ recorded[frames[j].seq] = recorded[n]
      BY <3>1 DEF FrameInv, InOrder
    <3>. QED
      BY <1>1, <1>13, <3>1, <3>2
  <2>2. CASE i > k
    <3>1. i - k \in 1..Len(answer) /\ answer[i - k] = frames'[i]
      BY <1>3, <2>2
    <3>2. \/ Sure(recorded[n])
          \/ \E j \in 1..(i - k - 1) : answer[j].kind = "op" /\ recorded[answer[j].seq] = recorded[n]
      BY <3>1 DEF FrameInv, InOrder
    <3>3. CASE \E j \in 1..(i - k - 1) :
                  answer[j].kind = "op" /\ recorded[answer[j].seq] = recorded[n]
      <4>1. PICK j \in 1..(i - k - 1) :
                  answer[j].kind = "op" /\ recorded[answer[j].seq] = recorded[n]
        BY <3>3
      <4>2. j \in 1..Len(answer) /\ k + j \in 1..(i - 1)
        BY <1>3, <3>1, <4>1
      <4>3. frames'[k + j] = answer[j]
        BY <1>3, <4>2
      <4>. QED
        BY <1>1, <4>1, <4>2, <4>3
    <3>. QED
      BY <1>13, <3>2, <3>3
  <2>. QED
    BY <1>2, <1>3, <2>1, <2>2
<1>16. NoLoss'
  <2>. SUFFICES ASSUME fresh, NEW i \in 1..Len(frames'), frames'[i].kind = "op"
                PROVE  \/ Sure(recorded[frames[i].seq])'
                       \/ \E j \in 1..(i - 1) : frames'[j].kind = "snapshot"
    BY <1>1 DEF NoLoss
  <2>1. Len(answer) = 1 /\ IsSnapshot(answer, 1)
    BY <1>1 DEF FrameInv, Phases
  <2>2. i <= k
    <3>1. i > k => i - k = 1 /\ frames'[i] = answer[1]
      BY <1>3, <2>1
    <3>. QED
      BY <1>2, <1>3, <2>1, <3>1 DEF IsSnapshot
  <2>3. /\ i \in 1..Len(frames) /\ frames[i] = frames'[i]
        /\ \A j \in 1..(i - 1) : frames'[j] = frames[j] /\ j \in 1..Len(frames)
    BY <1>2, <1>3, <2>2
  <2>4. Sure(recorded[frames[i].seq])
    BY <1>4, <2>3 DEF FrameInv, NoLoss, IsSnapshot
  <2>5. PICK n : n = frames[i].seq /\ n = frames'[i].seq
    BY <2>3
  <2>6. Sure(recorded[n])'
    BY <1>13, <2>4, <2>5
  <2>. QED
    BY <2>5, <2>6 DEF Sure
<1>. QED
  BY <1>5, <1>6, <1>9, <1>11, <1>12, <1>14, <1>15, <1>16 DEF FrameInv

\* What the model counts as known is sure.
LEMMA KnownSure ==
    ASSUME FrameInv, NEW x \in Known PROVE Sure(x)
<1>1. /\ answer \in Seq(FrameRecord) /\ frames \in Seq(FrameRecord)
      /\ DOMAIN answer = 1..Len(answer) /\ DOMAIN frames = 1..Len(frames)
  BY DEF FrameInv, FrameTypes
<1>2. CASE ~fresh
  BY <1>2 DEF Known, Sure
<1>3. CASE fresh /\ request.kind = "snapshot"
  <2>1. answer = <<>> /\ \A i \in 1..Len(frames) : ~IsSnapshot(frames, i)
    BY <1>3 DEF FrameInv, Phases
  <2>. QED
    BY <1>3, <2>1 DEF Sure
<1>4. CASE fresh /\ request.kind # "snapshot"
  <2>1. PICK f \in Snapshots(answer) \cup Snapshots(frames) : x \in f.holds
    BY <1>4 DEF Known
  <2>2. CASE f \in Snapshots(answer)
    <3>1. PICK j \in 1..Len(answer) : f = answer[j] /\ f.kind = "snapshot"
      BY <1>1, <2>2 DEF Snapshots
    <3>2. answer # <<>> /\ Len(answer) = 1
      BY <1>1, <1>4, <3>1 DEF FrameInv, Phases
    <3>3. \A i \in 1..Len(answer) : i = j
      BY <3>2
    <3>4. \A i \in 1..Len(frames) : ~IsSnapshot(frames, i)
      BY <3>2 DEF FrameInv, Phases
    <3>. QED
      BY <1>4, <2>1, <3>1, <3>3, <3>4 DEF Sure
  <2>3. CASE f \in Snapshots(frames)
    <3>1. PICK j \in 1..Len(frames) : f = frames[j] /\ IsSnapshot(frames, j)
      BY <1>1, <2>3 DEF Snapshots, IsSnapshot
    <3>2. answer = <<>> /\ \A i \in 1..Len(frames) : IsSnapshot(frames, i) => i = j
      BY <3>1 DEF FrameInv, Phases
    <3>. QED
      BY <1>4, <2>1, <3>1, <3>2 DEF Sure
  <2>. QED
    BY <2>1, <2>2, <2>3
<1>. QED
  BY <1>2, <1>3, <1>4

\* An operation comes after those with lower numbers, or these lost their place.
LEMMA PushUploadInv ==
    ASSUME FrameInv, NEW u \in Uploader, PushUpload(u)
    PROVE  FrameInv'
<1>1. PICK seq \in 1..Len(recorded) : seq = uploader[u].seq
  BY DEF PushUpload, FrameInv, Numbers
<1>2. /\ phase = "linked" /\ frames' = Append(frames, OpFrame(seq))
      /\ overtaken' = overtaken \cup
           ((({recorded[n] : n \in 1..(seq - 1)} \ Carried)
              \cup IF fresh /\ answer # <<>> THEN {recorded[seq]} ELSE {}) \ Known)
      /\ uploader' = [uploader EXCEPT ![u] = AtRest]
      /\ UNCHANGED <<uploads, recorded, trimmed, phase, request, answer, acks, late>>
      /\ UNCHANGED <<replica, fresh, applied>>
  BY <1>1 DEF PushUpload, FrameInv, Numbers, logVars, dialerVars
<1>3. PICK k \in Nat : k = Len(frames)
  BY DEF FrameInv, FrameTypes
<1>4. OpFrame(seq) \in FrameRecord /\ OpFrame(seq).kind = "op" /\ OpFrame(seq).seq = seq
  BY OpFrameFields
<1>5. /\ frames \in Seq(FrameRecord) /\ frames' \in Seq(FrameRecord) /\ Len(frames') = k + 1
      /\ \A i \in 1..k : frames'[i] = frames[i]
      /\ frames'[k + 1].kind = "op" /\ frames'[k + 1].seq = seq
  <2>1. frames \in Seq(FrameRecord)
    BY DEF FrameInv, FrameTypes
  <2>. QED
    BY <1>2, <1>3, <1>4, <2>1, AppendProperties
<1>6. FrameTypes'
  <2>1. uploader' \in [Uploader -> UploaderRecord]
    BY <1>2 DEF FrameInv, FrameTypes, UploaderRecord
  <2>. QED
    BY <1>2, <1>5, <2>1 DEF FrameInv, FrameTypes
<1>7. Numbers'
  <2>1. \A v \in Uploader : uploader'[v] = IF v = u THEN AtRest ELSE uploader[v]
    BY <1>2 DEF FrameInv, FrameTypes
  <2>2. AtRest.pc = "idle"
    BY DEF AtRest
  <2>. QED
    BY <1>2, <2>1, <2>2 DEF FrameInv, Numbers
<1>8. \A i : IsSnapshot(frames, i)' <=> IsSnapshot(frames, i)
  <2>. TAKE i
  <2>1. CASE i \in 1..k
    BY <1>3, <1>5, <2>1 DEF IsSnapshot
  <2>2. CASE i \notin 1..k
    <3>1. ~IsSnapshot(frames, i)
      BY <1>3, <2>2 DEF IsSnapshot
    <3>2. IsSnapshot(frames, i)' => i = k + 1
      BY <1>5, <2>2 DEF IsSnapshot
    <3>3. ~IsSnapshot(frames, i)'
      BY <1>5, <3>2 DEF IsSnapshot
    <3>. QED
      BY <3>1, <3>3
  <2>. QED
    BY <2>1, <2>2
<1>9. Phases'
  <2>1. \A i : IsSnapshot(answer, i)' <=> IsSnapshot(answer, i)
    BY <1>2 DEF IsSnapshot
  <2>2. \A i : IsSnapshot(frames, i)' => i \in 1..Len(frames)
    BY <1>8 DEF IsSnapshot
  <2>. QED
    BY <1>2, <1>8, <2>1, <2>2 DEF FrameInv, Phases
<1>10. \A x : Sure(x) => Sure(x)'
  <2>. SUFFICES ASSUME NEW x, Sure(x) PROVE Sure(x)'
    OBVIOUS
  <2>1. \A i : IsSnapshot(answer, i)' <=> IsSnapshot(answer, i)
    BY <1>2 DEF IsSnapshot
  <2>2. \A i : IsSnapshot(frames, i)' => i \in 1..k /\ frames'[i] = frames[i] /\ IsSnapshot(frames, i)
    BY <1>3, <1>5, <1>8 DEF IsSnapshot
  <2>. QED
    BY <1>2, <1>3, <2>1, <2>2 DEF Sure
<1>11. Onward
  BY <1>2, <1>10 DEF FrameInv, FrameTypes, Onward
<1>12. Trimmable'
  <2>1. Handed
    BY <1>2 DEF Handed
  <2>. QED
    BY <1>11, <2>1, StillTrimmable
<1>13. \A n : Sure(recorded[n]) => Sure(recorded[n])'
  BY <1>2, <1>10 DEF Sure
<1>14. Ops(frames)'
  <2>. SUFFICES ASSUME NEW i \in 1..Len(frames'), frames'[i].kind = "op"
                PROVE  frames'[i].seq \in 1..Len(recorded)
    BY <1>2 DEF Ops
  <2>1. CASE i \in 1..k
    BY <1>3, <1>5, <2>1 DEF FrameInv, Ops
  <2>2. CASE i = k + 1
    BY <1>5, <2>2
  <2>. QED
    BY <1>5, <2>1, <2>2
\* A lower number is sure, or on the link, or its upload loses its place now.
<1>15. ASSUME NEW n \in 1..(seq - 1)
       PROVE  \/ Sure(recorded[n])'
              \/ \E j \in 1..k : frames[j].kind = "op" /\ recorded[frames[j].seq] = recorded[n]
  <2>1. CASE recorded[n] \in Known
    BY <1>13, <2>1, KnownSure
  <2>2. CASE recorded[n] \in Carried
    <3>1. DOMAIN frames = 1..k
      BY <1>3, <1>5
    <3>. QED
      BY <2>2, <3>1 DEF Carried
  <2>3. CASE recorded[n] \notin Known /\ recorded[n] \notin Carried
    <3>1. recorded[n] \in overtaken'
      BY <1>2, <1>15, <2>3
    <3>. QED
      BY <1>2, <3>1 DEF Sure
  <2>. QED
    BY <2>1, <2>2, <2>3
<1>16. InOrder(frames)'
  <2>. SUFFICES ASSUME NEW i \in 1..Len(frames'), frames'[i].kind = "op",
                       NEW n \in 1..(frames'[i].seq - 1)
                PROVE  \/ Sure(recorded[n])'
                       \/ \E j \in 1..(i - 1) : frames'[j].kind = "op"
                            /\ recorded'[frames'[j].seq] = recorded'[n]
    BY DEF InOrder
  <2>1. CASE i \in 1..k
    <3>1. i \in 1..Len(frames) /\ frames[i] = frames'[i] /\ \A j \in 1..(i - 1) : frames'[j] = frames[j]
      BY <1>3, <1>5, <2>1
    <3>2. \/ Sure(recorded[n])
          \/ \E j \in 1..(i - 1) : frames[j].kind = "op" /\ recorded[frames[j].seq] = recorded[n]
      BY <3>1 DEF FrameInv, InOrder
    <3>. QED
      BY <1>2, <1>13, <3>1, <3>2
  <2>2. CASE i = k + 1
    <3>1. n \in 1..(seq - 1) /\ i - 1 = k
      BY <1>5, <2>2
    <3>. QED
      BY <1>2, <1>5, <1>15, <3>1
  <2>. QED
    BY <1>5, <2>1, <2>2
<1>17. NoLoss'
  <2>. SUFFICES ASSUME fresh, NEW i \in 1..Len(frames'), frames'[i].kind = "op"
                PROVE  \/ Sure(recorded[frames[i].seq])'
                       \/ \E j \in 1..(i - 1) : frames'[j].kind = "snapshot"
    BY <1>2 DEF NoLoss
  <2>1. PICK n : n = frames'[i].seq
    OBVIOUS
  <2>2. SUFFICES Sure(recorded[n])' \/ \E j \in 1..(i - 1) : frames'[j].kind = "snapshot"
    BY <2>1 DEF Sure
  <2>3. CASE i \in 1..k
    <3>1. /\ i \in 1..Len(frames) /\ frames[i] = frames'[i]
          /\ \A j \in 1..(i - 1) : frames'[j] = frames[j]
      BY <1>3, <1>5, <2>3
    <3>2. \/ Sure(recorded[n])
          \/ \E j \in 1..(i - 1) : frames[j].kind = "snapshot"
      BY <2>1, <3>1 DEF FrameInv, NoLoss
    <3>. QED
      BY <1>13, <3>1, <3>2
  <2>4. CASE i = k + 1
    <3>1. n = seq
      BY <1>5, <2>1, <2>4
    <3>2. CASE recorded[seq] \in Known
      BY <1>13, <3>1, <3>2, KnownSure
    <3>3. CASE recorded[seq] \notin Known /\ answer # <<>>
      <4>1. recorded[seq] \in overtaken'
        BY <1>2, <3>3
      <4>. QED
        BY <1>2, <3>1, <4>1 DEF Sure
    <3>4. CASE answer = <<>>
      <4>1. CASE \E j \in 1..k : frames[j].kind = "snapshot"
        <5>1. i - 1 = k
          BY <2>4
        <5>. QED
          BY <1>5, <4>1, <5>1
      <4>2. CASE ~\E j \in 1..k : frames[j].kind = "snapshot"
        <5>1. Sure(recorded[n])
          BY <1>3, <3>4, <4>2 DEF Sure, IsSnapshot
        <5>. QED
          BY <1>13, <5>1
      <4>. QED
        BY <4>1, <4>2
    <3>. QED
      BY <3>2, <3>3, <3>4
  <2>. QED
    BY <1>5, <2>3, <2>4
<1>. QED
  BY <1>2, <1>6, <1>7, <1>9, <1>11, <1>12, <1>14, <1>16, <1>17, StillOrdered DEF FrameInv

LEMMA FrameStepInv == FrameInv /\ [FrameNext]_frameVars => FrameInv'
<1>. SUFFICES ASSUME FrameInv, [FrameNext]_frameVars PROVE FrameInv'
  OBVIOUS
<1>1. CASE UNCHANGED frameVars
  <2>1. /\ UNCHANGED <<uploads, uploader, recorded, trimmed, phase, request, answer, frames>>
        /\ UNCHANGED <<acks, late, replica, fresh, applied, overtaken>>
    BY <1>1 DEF frameVars, logVars, linkVars, dialerVars
  <2>2. FrameTypes' /\ Numbers' /\ Phases'
    BY <2>1 DEF FrameInv, FrameTypes, Numbers, Phases, IsSnapshot
  <2>3. Onward
    BY <2>1 DEF FrameInv, FrameTypes, Onward, Sure, IsSnapshot
  <2>4. Handed
    BY <2>1 DEF Handed
  <2>. QED
    BY <2>1, <2>2, <2>3, <2>4, FramesKept
<1>2. ASSUME NEW u \in Uploader, UploaderGoesOn(u) PROVE FrameInv'
  BY <1>2, RecordUploadInv, PushUploadInv DEF UploaderGoesOn
<1>3. ASSUME NEW u \in Uploader, NEW len \in Length, Upload(u, len) PROVE FrameInv'
  BY <1>3, UploadInv
<1>4. CASE LinkReads
  BY <1>4, EndsInv, ReadSnapshotInv, ReadOpInv, HangUpInv DEF LinkReads
<1>5. CASE LinkAnswers
  BY <1>5, AcceptLinkInv, TakeAnswerInv, WriteAnswerInv, ReadAckInv DEF LinkAnswers
<1>. QED
  BY <1>1, <1>2, <1>3, <1>4, <1>5, DialInv, ReadLateAckInv, EndsInv DEF FrameNext

\* What tracker 1 trims a tracker 0 with state knows, for any uploads of any
\* lengths, any number of sessions and faults: but for the operations that lost
\* their place on the way to the link (record_and_replicate, recv_msg).
THEOREM NothingIsForgotten == FrameSpec => []NothingForgotten
<1>1. FrameInv => NothingForgotten
  BY DEF FrameInv, Trimmable, Covered, Sure, NothingForgotten
<1>. QED
  BY <1>1, FrameStart, FrameStepInv, PTL DEF FrameSpec

----------------------------------------------------------------------------
(* Descriptors: numbers and threads, as long as links do not overlap *)

FdTypes ==
    /\ table \in [Number -> Connection \cup {None}]
    /\ thread \in [Connection -> [pc: {"none", "start", "run", "end"},
                                  fd: Number \cup {None}]]
    /\ out_fd \in Number \cup {None}
    /\ \A c \in Connection : Running(c) => thread[c].fd \in Number
    /\ overlapped \in BOOLEAN

\* A number stands for the connection whose thread uses it.
Own ==
    /\ \A c \in Connection : Running(c) => table[thread[c].fd] = c
    /\ \A n \in Number : table[n] # None => Running(table[n]) /\ thread[table[n]].fd = n

\* There is one link at most, and __out_fd is its number once it started.
OneLink ==
    /\ \A l, k \in Link : Running(l) /\ Running(k) => l = k
    /\ out_fd # None => \E l \in Link : thread[l].pc = "run" /\ thread[l].fd = out_fd

FdInv == FdTypes /\ (~overlapped => Own /\ OneLink /\ cut = {})

LEMMA FdStart == FdInit => FdInv
<1>. SUFFICES ASSUME FdInit PROVE FdInv
  OBVIOUS
<1>1. FdTypes
  BY DEF FdInit, FdTypes, Running
<1>2. Own /\ OneLink
  BY DEF FdInit, Own, OneLink, Running, Connection
<1>. QED
  BY <1>1, <1>2 DEF FdInit, FdInv

LEMMA AcceptInv == ASSUME FdInv, NEW c \in Connection, Accept(c) PROVE FdInv'
<1>1. PICK n \in Number :
         /\ table[n] = None
         /\ table' = [table EXCEPT ![n] = c]
         /\ thread' = [thread EXCEPT ![c] =
                [pc |-> IF c \in Link THEN "start" ELSE "run", fd |-> n]]
  BY DEF Accept
<1>2. /\ table \in [Number -> Connection \cup {None}]
      /\ thread \in [Connection -> [pc: {"none", "start", "run", "end"},
                                    fd: Number \cup {None}]]
      /\ thread[c].pc = "none" /\ out_fd' = out_fd /\ cut' = cut
  BY DEF FdInv, FdTypes, Accept, harmVars
<1>3. /\ thread'[c].fd = n /\ thread'[c].pc \in {"start", "run"}
      /\ c \in Link => thread'[c].pc = "start"
      /\ \A d \in Connection \ {c} : thread'[d] = thread[d]
  BY <1>1, <1>2
<1>4. FdTypes'
  <2>1. overlapped' \in BOOLEAN
    BY DEF FdInv, FdTypes, Accept
  <2>2. \A d \in Connection : Running(d)' => thread'[d].fd \in Number
    BY <1>3 DEF FdInv, FdTypes, Running
  <2>. QED
    BY <1>1, <1>2, <2>1, <2>2 DEF FdInv, FdTypes
<1>5. ASSUME ~overlapped' PROVE Own' /\ OneLink' /\ cut' = {}
  <2>1. /\ Own /\ OneLink /\ cut = {}
        /\ c \in Link => \A l \in Link : ~Running(l)
    BY <1>5 DEF FdInv, FdTypes, Accept
  <2>2. \A d \in Connection : Running(d)' => table'[thread'[d].fd] = d
    BY <1>1, <1>2, <1>3, <2>1, KindAssumption DEF Own, Running, FdInv, FdTypes
  <2>3. \A k \in Number : table'[k] # None =>
           thread'[table'[k]].pc \in {"start", "run"} /\ thread'[table'[k]].fd = k
    BY <1>1, <1>2, <1>3, <2>1 DEF Own, Running
  <2>4. \A l, k \in Link : Running(l)' /\ Running(k)' => l = k
    BY <1>3, <2>1 DEF OneLink, Running, Connection
  <2>5. out_fd' # None => \E l \in Link : thread'[l].pc = "run" /\ thread'[l].fd = out_fd'
    BY <1>2, <1>3, <2>1 DEF OneLink, Connection
  <2>. QED
    BY <1>2, <2>1, <2>2, <2>3, <2>4, <2>5 DEF Own, OneLink, Running
<1>. QED
  BY <1>4, <1>5 DEF FdInv

\* A thread ends and closes its number, and takes __out_fd back if it is a link.
LEMMA ThreadEnds ==
    ASSUME FdInv, NEW c \in Connection, Running(c), Close(c, thread[c].fd),
           thread' = [thread EXCEPT ![c].pc = "end"], overlapped' = overlapped,
           out_fd' = IF c \in Link /\ out_fd = thread[c].fd THEN None ELSE out_fd
    PROVE  FdInv'
<1>. DEFINE n == thread[c].fd
<1>1. /\ table \in [Number -> Connection \cup {None}]
      /\ thread \in [Connection -> [pc: {"none", "start", "run", "end"},
                                    fd: Number \cup {None}]]
      /\ n \in Number /\ table' = [table EXCEPT ![n] = None]
  BY DEF FdInv, FdTypes, Close
<1>2. /\ thread'[c].pc = "end" /\ thread'[c].fd = n
      /\ \A d \in Connection \ {c} : thread'[d] = thread[d]
  BY <1>1
<1>3. FdTypes'
  <2>1. \A d \in Connection : Running(d)' => thread'[d].fd \in Number
    BY <1>2 DEF FdInv, FdTypes, Running
  <2>2. thread' \in [Connection -> [pc: {"none", "start", "run", "end"},
                                    fd: Number \cup {None}]]
    BY <1>1
  <2>. QED
    BY <1>1, <2>1, <2>2 DEF FdInv, FdTypes
<1>4. ASSUME ~overlapped' PROVE Own' /\ OneLink' /\ cut' = {}
  <2>1. Own /\ OneLink /\ cut = {} /\ table[n] = c
    BY <1>4 DEF FdInv, Own
  <2>2. cut' = {}
    BY <2>1 DEF Close
  <2>3. \A d \in Connection : Running(d)' => table'[thread'[d].fd] = d
    BY <1>1, <1>2, <2>1 DEF Own, Running, FdInv, FdTypes
  <2>4. \A k \in Number : table'[k] # None =>
           thread'[table'[k]].pc \in {"start", "run"} /\ thread'[table'[k]].fd = k
    BY <1>1, <1>2, <2>1 DEF Own, Running
  <2>5. \A l, k \in Link : Running(l)' /\ Running(k)' => l = k
    BY <1>2, <2>1 DEF OneLink, Running, Connection
  <2>6. out_fd' # None => \E l \in Link : thread'[l].pc = "run" /\ thread'[l].fd = out_fd'
    BY <1>2, <2>1 DEF OneLink, Running, Connection
  <2>. QED
    BY <2>2, <2>3, <2>4, <2>5, <2>6 DEF Own, OneLink, Running
<1>. QED
  BY <1>3, <1>4 DEF FdInv

LEMMA StartLinkInv == ASSUME FdInv, NEW l \in Connection, StartLink(l) PROVE FdInv'
<1>1. /\ table \in [Number -> Connection \cup {None}]
      /\ thread \in [Connection -> [pc: {"none", "start", "run", "end"},
                                    fd: Number \cup {None}]]
      /\ l \in Link /\ thread[l].pc = "start" /\ overlapped' = overlapped
      /\ out_fd' = thread[l].fd /\ thread[l].fd \in Number
      /\ thread' = [thread EXCEPT ![l].pc = "run"]
  BY DEF FdInv, FdTypes, StartLink, Running
<1>2. /\ thread'[l].pc = "run" /\ thread'[l].fd = thread[l].fd
      /\ \A d \in Connection \ {l} : thread'[d] = thread[d]
  BY <1>1
<1>3. FdTypes'
  <2>1. \A d \in Connection : Running(d)' => thread'[d].fd \in Number
    BY <1>1, <1>2 DEF FdInv, FdTypes, Running
  <2>2. table' \in [Number -> Connection \cup {None}]
    BY <1>1 DEF StartLink, Close
  <2>3. thread' \in [Connection -> [pc: {"none", "start", "run", "end"},
                                    fd: Number \cup {None}]]
    BY <1>1
  <2>. QED
    BY <1>1, <2>1, <2>2, <2>3 DEF FdInv, FdTypes
<1>4. ASSUME ~overlapped' PROVE Own' /\ OneLink' /\ cut' = {}
  <2>1. Own /\ OneLink /\ cut = {}
    BY <1>1, <1>4 DEF FdInv
  <2>2. out_fd = None
    BY <1>1, <2>1 DEF OneLink, Running
  <2>3. table' = table /\ cut' = cut
    BY <2>2 DEF StartLink
  <2>4. \A d \in Connection : Running(d)' => table'[thread'[d].fd] = d
    BY <1>1, <1>2, <2>1, <2>3 DEF Own, Running
  <2>5. \A k \in Number : table'[k] # None =>
           thread'[table'[k]].pc \in {"start", "run"} /\ thread'[table'[k]].fd = k
    BY <1>1, <1>2, <2>1, <2>3 DEF Own, Running
  <2>6. \A j, k \in Link : Running(j)' /\ Running(k)' => j = k
    BY <1>1, <1>2, <2>1 DEF OneLink, Running, Connection
  <2>. QED
    BY <1>1, <1>2, <2>1, <2>3, <2>4, <2>5, <2>6 DEF Own, OneLink, Running
<1>. QED
  BY <1>3, <1>4 DEF FdInv

\* Every step keeps the invariant.
LEMMA FdStepInv == FdInv /\ [FdNext]_fdVars => FdInv'
<1>. SUFFICES ASSUME FdInv, [FdNext]_fdVars PROVE FdInv'
  OBVIOUS
<1>1. ASSUME NEW c \in Connection, Accept(c) \/ StartLink(c) PROVE FdInv'
  BY <1>1, AcceptInv, StartLinkInv
<1>2. ASSUME NEW c \in Connection, EndLink(c) PROVE FdInv'
  BY <1>2, ThreadEnds DEF EndLink, Running
<1>3. ASSUME NEW c \in Connection, EndSession(c) PROVE FdInv'
  <2>1. c \notin Link
    BY <1>3, KindAssumption DEF EndSession
  <2>. QED
    BY <1>3, <2>1, ThreadEnds DEF EndSession, Running
<1>4. CASE UNCHANGED <<table, thread, out_fd, cut, overlapped>>
  BY <1>4 DEF FdInv, FdTypes, Own, OneLink, Running
<1>5. ASSUME NEW c \in Connection, Drop(c) PROVE FdInv'
  BY <1>4, <1>5 DEF Drop, harmVars
<1>6. ASSUME NEW w \in Pusher, Note(w) \/ Push(w) PROVE FdInv'
  BY <1>4, <1>6 DEF Note, Push, harmVars
<1>7. CASE UNCHANGED fdVars
  BY <1>4, <1>7 DEF fdVars, harmVars
<1>. QED
  BY <1>1, <1>2, <1>3, <1>5, <1>6, <1>7 DEF FdNext

LEMMA FdAlways == FdSpec => []FdInv
  BY FdStart, FdStepInv, PTL DEF FdSpec

\* No thread closes the connection of a client but its own, whatever numbers are
\* reused, as long as links do not overlap.
THEOREM ClientsAreUndisturbed == FdSpec => []ClientsUndisturbed
<1>1. FdInv => ClientsUndisturbed
  BY DEF FdInv, ClientsUndisturbed
<1>. QED
  BY <1>1, FdAlways, PTL

\* As long as links do not overlap, __out_fd stands for the link that runs.
THEOREM OutIsTheLink == FdSpec => []OutIsLink
<1>1. FdInv => OutIsLink
  BY DEF FdInv, Own, OneLink, OutIsLink, Running, Connection
<1>. QED
  BY <1>1, FdAlways, PTL

=============================================================================
