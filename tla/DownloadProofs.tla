--------------------------- MODULE DownloadProofs ---------------------------
(***************************************************************************)
(* The invariants of Download, for any number of downloads, pieces, peers, *)
(* connections, rounds and crashes.  Inv is inductive: besides the types   *)
(* and EachPieceOnce it says that workers run only during a round, which   *)
(* makes BeginRound start from a clean slate, and that a worker with work  *)
(* at hand holds a piece.                                                  *)
(***************************************************************************)
EXTENDS Download, TLAPS

Busy == {"fetch", "write", "mark"}

WorkerFn == [Job -> [Worker -> WorkerRecord]]

\* Rounds are counted from a fresh job on and never exceed their limit.
Counted ==
    \A j \in Job : /\ phase[j] \in {"new", "open"} => round[j] = 0
                   /\ phase[j] = "work" => round[j] < MaxRounds

\* Workers run during rounds only.
Calm == \A j \in Job : phase[j] # "work" => AllOff(j)

\* A busy worker holds a piece.
Laden == \A j \in Job, w \in Worker : worker[j][w].pc \in Busy => worker[j][w].piece \in Piece

Inv == TypeOK /\ Counted /\ Calm /\ Laden /\ EachPieceOnce

\* The workers with records W at piece p.
Flying(W, p) == {w \in Worker : W[w].piece = p /\ W[w].pc \in Busy}

\* A piece in exactly one of queue Q, bitmap H and the workers F.
Once(Q, H, F, p) ==
    /\ \A v, w \in F : v = w
    /\ F # {} => p \notin Q /\ p \notin H
    /\ F = {} => p \in Q \/ p \in H
    /\ ~(p \in Q /\ p \in H)

LEMMA OnceEach ==
    EachPieceOnce <=>
        \A i \in Job, q \in Piece :
            phase[i] = "work" => Once(queue[i], have[i], Flying(worker[i], q), q)
  BY DEF EachPieceOnce, Once, InFlight, Flying, Busy

LEMMA OnceEachPrimed ==
    EachPieceOnce' <=>
        \A i \in Job, q \in Piece :
            phase'[i] = "work" => Once(queue'[i], have'[i], Flying(worker'[i], q), q)
  BY DEF EachPieceOnce, Once, InFlight, Flying, Busy

----------------------------------------------------------------------------
(* The records of workers *)

LEMMA OffRecord ==
    /\ Off \in WorkerRecord
    /\ Off.pc = "off" /\ Off.piece = None /\ Off.failures = 0 /\ Off.bits = {}
    /\ \A c \in {"connect", "take", "announce", "send"} :
         /\ [Off EXCEPT !.pc = c] \in WorkerRecord
         /\ [Off EXCEPT !.pc = c].pc = c
         /\ [Off EXCEPT !.pc = c].piece = None
  BY DEF Off, WorkerRecord

\* What GiveBack makes of a worker.
Returned(rec) ==
    IF rec.failures + 1 >= MaxFailures THEN Off
    ELSE [Off EXCEPT !.pc = "take", !.failures = rec.failures + 1]

LEMMA ReturnedRecord ==
    ASSUME NEW rec \in WorkerRecord
    PROVE  Returned(rec) \in WorkerRecord /\ Returned(rec).pc \in {"off", "take"}
<1>1. rec.failures + 1 \in Nat
  BY DEF WorkerRecord
<1>2. Off \in WorkerRecord /\ Off.pc = "off"
  BY OffRecord
<1>3. \A n \in Nat : /\ [Off EXCEPT !.pc = "take", !.failures = n] \in WorkerRecord
                     /\ [Off EXCEPT !.pc = "take", !.failures = n].pc = "take"
  BY DEF Off, WorkerRecord
<1>. QED
  BY <1>1, <1>2, <1>3 DEF Returned

----------------------------------------------------------------------------
(* The steps of a worker *)

\* What a step of worker w of job j does to the records: the others keep
\* theirs, and w, which was not off, gets rec.
Steps(j, w, rec) ==
    /\ rec \in WorkerRecord
    /\ worker' = [worker EXCEPT ![j][w] = rec]
    /\ worker[j][w].pc # "off"
    /\ UNCHANGED <<phase, round, peers, share, crashes>>

LEMMA WorkerRuns ==
    ASSUME Inv, NEW j \in Job, NEW w \in Worker, worker[j][w].pc # "off"
    PROVE  phase[j] = "work"
  BY DEF Inv, Calm, AllOff

\* A step of one worker replaces its record and no other.
LEMMA StepRecords ==
    ASSUME Inv, NEW j \in Job, NEW w \in Worker, NEW rec, Steps(j, w, rec)
    PROVE  /\ worker' \in WorkerFn
           /\ worker'[j][w] = rec
           /\ \A i \in Job, v \in Worker :
                i # j \/ v # w => worker'[i][v] = worker[i][v]
           /\ phase[j] = "work"
           /\ Counted' /\ Calm'
<1>1. worker \in WorkerFn
  BY DEF Inv, TypeOK, WorkerFn
<1>2. rec \in WorkerRecord /\ worker' = [worker EXCEPT ![j][w] = rec]
  BY DEF Steps
<1>3. /\ worker' \in WorkerFn
      /\ worker'[j][w] = rec
      /\ \A i \in Job, v \in Worker :
           i # j \/ v # w => worker'[i][v] = worker[i][v]
  BY <1>1, <1>2 DEF WorkerFn
<1>4. phase[j] = "work"
  BY WorkerRuns DEF Steps
<1>5. Counted' /\ Calm'
  BY <1>3, <1>4 DEF Inv, Counted, Calm, AllOff, Steps
<1>. QED
  BY <1>3, <1>4, <1>5

\* A worker whose record changes, not its piece, and the sets with it, keeps
\* the invariant.
LEMMA QuietStep ==
    ASSUME Inv, NEW j \in Job, NEW w \in Worker, NEW rec, Steps(j, w, rec),
           rec.pc \in Busy <=> worker[j][w].pc \in Busy,
           rec.pc \in Busy => rec.piece = worker[j][w].piece,
           UNCHANGED <<queue, have>>,
           disk' \in [Path -> [Piece -> Content \cup {"hole", "torn"}]],
           listed' \in [Key -> SUBSET Piece]
    PROVE  Inv'
<1>1. TypeOK
  BY DEF Inv
<1>2. /\ worker' \in WorkerFn
      /\ worker'[j][w] = rec
      /\ \A i \in Job, v \in Worker :
           i # j \/ v # w => worker'[i][v] = worker[i][v]
      /\ Counted' /\ Calm'
  BY StepRecords
<1>3. TypeOK'
  BY <1>1, <1>2 DEF TypeOK, Steps, WorkerFn
<1>4. Laden'
  BY <1>2 DEF Inv, Laden
<1>5. \A i \in Job, q \in Piece : Flying(worker'[i], q) = Flying(worker[i], q)
  BY <1>2 DEF Flying
<1>6. EachPieceOnce'
  BY <1>5, OnceEach, OnceEachPrimed DEF Inv, Steps
<1>. QED
  BY <1>2, <1>3, <1>4, <1>6 DEF Inv

\* Taking a piece moves it from the queue to one worker.
LEMMA TakeInv ==
    ASSUME Inv, NEW j \in Job, NEW w \in Worker, Take(j, w)
    PROVE  Inv'
<1>. PICK p \in queue[j] :
       /\ queue' = [queue EXCEPT ![j] = @ \ {p}]
       /\ worker' = [worker EXCEPT ![j][w].pc = "fetch", ![j][w].piece = p]
  BY DEF Take
<1>. DEFINE rec == [worker[j][w] EXCEPT !.pc = "fetch", !.piece = p]
<1>1. TypeOK /\ worker[j][w] \in WorkerRecord /\ p \in Piece
  BY DEF Inv, TypeOK
<1>2. worker' = [worker EXCEPT ![j][w] = rec]
  BY <1>1 DEF TypeOK
<1>3. rec \in WorkerRecord /\ rec.pc = "fetch" /\ rec.piece = p
  BY <1>1 DEF WorkerRecord
<1>. HIDE DEF rec
<1>a. Steps(j, w, rec)
  BY <1>2, <1>3 DEF Take, Steps
<1>4. /\ worker' \in WorkerFn
      /\ worker'[j][w] = rec
      /\ \A i \in Job, v \in Worker :
           i # j \/ v # w => worker'[i][v] = worker[i][v]
      /\ phase[j] = "work"
      /\ Counted' /\ Calm'
  BY <1>a, StepRecords
<1>5. TypeOK'
  BY <1>1, <1>4 DEF TypeOK, Take, WorkerFn
<1>6. Laden'
  BY <1>1, <1>3, <1>4 DEF Inv, Laden
<1>7. worker[j][w].pc = "take"
  BY DEF Take
<1>8. /\ Flying(worker'[j], p) = Flying(worker[j], p) \cup {w}
      /\ \A q \in Piece : q # p => Flying(worker'[j], q) = Flying(worker[j], q)
      /\ \A i \in Job, q \in Piece : i # j => Flying(worker'[i], q) = Flying(worker[i], q)
  BY <1>3, <1>4, <1>7, ZenonT(40) DEF Flying, Busy
<1>9. Flying(worker[j], p) = {} /\ p \notin have[j]
  BY <1>1, <1>4, OnceEach DEF Inv, Once
<1>10. \A i \in Job : queue'[i] = IF i = j THEN queue[i] \ {p} ELSE queue[i]
  BY <1>1 DEF TypeOK
<1>11. UNCHANGED <<phase, have>>
  BY DEF Take
<1>12. \A i \in Job, q \in Piece :
         phase'[i] = "work" => Once(queue'[i], have'[i], Flying(worker'[i], q), q)
  <2>. SUFFICES ASSUME NEW i \in Job, NEW q \in Piece, phase'[i] = "work"
                PROVE  Once(queue'[i], have'[i], Flying(worker'[i], q), q)
    OBVIOUS
  <2>1. Once(queue[i], have[i], Flying(worker[i], q), q)
    BY <1>11, OnceEach DEF Inv
  <2>2. CASE i # j
    BY <2>1, <2>2, <1>8, <1>9, <1>10, <1>11
  <2>3. CASE i = j /\ q # p
    <3>1. have'[i] = have[i] /\ (q \in queue'[i] <=> q \in queue[i])
      BY <2>3, <1>10, <1>11
    <3>2. Flying(worker'[i], q) = Flying(worker[i], q)
      BY <2>3, <1>8
    <3>. QED
      BY <2>1, <3>1, <3>2 DEF Once
  <2>4. CASE i = j /\ q = p
    <3>1. q \notin have'[i] /\ q \notin queue'[i]
      BY <2>4, <1>9, <1>10, <1>11
    <3>2. Flying(worker'[i], q) = {w}
      BY <2>4, <1>8, <1>9
    <3>. QED
      BY <3>1, <3>2 DEF Once
  <2>. QED
    BY <2>2, <2>3, <2>4
<1>13. EachPieceOnce'
  BY <1>12, OnceEachPrimed
<1>. QED
  BY <1>4, <1>5, <1>6, <1>13 DEF Inv

\* Leaving off piece p: it is now with no worker.
LEMMA Unladen ==
    ASSUME Inv, NEW j \in Job, NEW w \in Worker, NEW rec, Steps(j, w, rec),
           worker[j][w].pc \in Busy, rec.pc \notin Busy,
           NEW p, p = worker[j][w].piece
    PROVE  /\ Flying(worker'[j], p) = {}
           /\ \A q \in Piece : q # p => Flying(worker'[j], q) = Flying(worker[j], q)
           /\ \A i \in Job, q \in Piece :
                i # j => Flying(worker'[i], q) = Flying(worker[i], q)
           /\ p \notin queue[j] /\ p \notin have[j]
           /\ p \in Piece
           /\ Laden'
<1>1. /\ worker'[j][w] = rec
      /\ \A i \in Job, v \in Worker :
           i # j \/ v # w => worker'[i][v] = worker[i][v]
      /\ phase[j] = "work"
  BY StepRecords
<1>2. p \in Piece
  BY DEF Inv, Laden
<1>3. w \in Flying(worker[j], p)
  BY DEF Flying
<1>4. Flying(worker[j], p) = {w} /\ p \notin queue[j] /\ p \notin have[j]
  BY <1>1, <1>2, <1>3, OnceEach DEF Inv, Once
<1>5. \A q \in Piece : Flying(worker'[j], q) = Flying(worker[j], q) \ {w}
  BY <1>1 DEF Flying
<1>6. \A q \in Piece : q # p => w \notin Flying(worker[j], q)
  BY DEF Flying
<1>7. \A i \in Job, q \in Piece : i # j => Flying(worker'[i], q) = Flying(worker[i], q)
  BY <1>1 DEF Flying
<1>8. Laden'
  BY <1>1 DEF Inv, Laden
<1>. QED
  BY <1>2, <1>4, <1>5, <1>6, <1>7, <1>8, SMTT(30)

\* Giving a piece back moves it from the worker to the queue.
LEMMA GiveBackInv ==
    ASSUME Inv, NEW j \in Job, NEW w \in Worker, GiveBack(j, w),
           worker[j][w].pc \in Busy,
           UNCHANGED <<phase, round, peers, have, disk, share, listed, crashes>>
    PROVE  Inv'
<1>. PICK p : p = worker[j][w].piece
  OBVIOUS
<1>. DEFINE rec == Returned(worker[j][w])
<1>1. TypeOK /\ worker[j][w] \in WorkerRecord
  BY DEF Inv, TypeOK
<1>2. rec \in WorkerRecord /\ rec.pc \in {"off", "take"}
  BY <1>1, ReturnedRecord
<1>3. worker' = [worker EXCEPT ![j][w] = rec]
  BY DEF GiveBack, Returned
<1>. HIDE DEF rec
<1>4. Steps(j, w, rec) /\ rec.pc \notin Busy
  BY <1>2, <1>3 DEF Steps, Busy
<1>5. /\ worker' \in WorkerFn
      /\ Counted' /\ Calm'
  BY <1>4, StepRecords
<1>6. /\ Flying(worker'[j], p) = {}
      /\ \A q \in Piece : q # p => Flying(worker'[j], q) = Flying(worker[j], q)
      /\ \A i \in Job, q \in Piece :
           i # j => Flying(worker'[i], q) = Flying(worker[i], q)
      /\ p \notin queue[j] /\ p \notin have[j]
      /\ p \in Piece
      /\ Laden'
  BY <1>4, Unladen
<1>7. \A i \in Job : queue'[i] = IF i = j THEN queue[i] \cup {p} ELSE queue[i]
  BY <1>1 DEF GiveBack, TypeOK
<1>8. queue' \in [Job -> SUBSET Piece]
  BY <1>1, <1>6 DEF GiveBack, TypeOK
<1>9. TypeOK'
  BY <1>1, <1>5, <1>8 DEF TypeOK, WorkerFn
<1>10. \A i \in Job, q \in Piece :
         phase'[i] = "work" => Once(queue'[i], have'[i], Flying(worker'[i], q), q)
  <2>. SUFFICES ASSUME NEW i \in Job, NEW q \in Piece, phase'[i] = "work"
                PROVE  Once(queue'[i], have'[i], Flying(worker'[i], q), q)
    OBVIOUS
  <2>1. Once(queue[i], have[i], Flying(worker[i], q), q)
    BY <1>7, OnceEach DEF Inv
  <2>2. CASE i # j
    BY <2>1, <2>2, <1>6, <1>7
  <2>3. CASE i = j /\ q # p
    BY <2>1, <2>3, <1>6, <1>7 DEF Once
  <2>4. CASE i = j /\ q = p
    BY <2>4, <1>6, <1>7 DEF Once
  <2>. QED
    BY <2>2, <2>3, <2>4
<1>11. EachPieceOnce'
  BY <1>10, OnceEachPrimed
<1>. QED
  BY <1>5, <1>6, <1>9, <1>11 DEF Inv

\* Marking a piece moves it from the worker to the bitmap.
LEMMA MarkInv ==
    ASSUME Inv, NEW j \in Job, NEW w \in Worker, Mark(j, w)
    PROVE  Inv'
<1>. PICK p : p = worker[j][w].piece
  OBVIOUS
<1>. PICK c \in {"announce", "take"} : worker' = [worker EXCEPT ![j][w] = [Off EXCEPT !.pc = c]]
  BY DEF Mark
<1>. DEFINE rec == [Off EXCEPT !.pc = c]
<1>1. TypeOK
  BY DEF Inv
<1>2. rec \in WorkerRecord /\ rec.pc = c
  BY OffRecord
<1>3. worker' = [worker EXCEPT ![j][w] = rec]
  OBVIOUS
<1>. HIDE DEF rec
<1>4. worker[j][w].pc \in Busy /\ Steps(j, w, rec) /\ rec.pc \notin Busy
  BY <1>2, <1>3 DEF Steps, Busy, Mark
<1>5. /\ worker' \in WorkerFn
      /\ Counted' /\ Calm'
  BY <1>4, StepRecords
<1>6. /\ Flying(worker'[j], p) = {}
      /\ \A q \in Piece : q # p => Flying(worker'[j], q) = Flying(worker[j], q)
      /\ \A i \in Job, q \in Piece :
           i # j => Flying(worker'[i], q) = Flying(worker[i], q)
      /\ p \notin queue[j] /\ p \notin have[j]
      /\ p \in Piece
      /\ Laden'
  BY <1>4, Unladen
<1>7. \A i \in Job : have'[i] = IF i = j THEN have[i] \cup {p} ELSE have[i]
  BY <1>1 DEF Mark, TypeOK
<1>8. have' \in [Job -> SUBSET Piece]
  BY <1>1, <1>6 DEF Mark, TypeOK
<1>9. TypeOK'
  BY <1>1, <1>5, <1>8 DEF TypeOK, WorkerFn, Mark
<1>10. UNCHANGED <<phase, queue>>
  BY DEF Mark
<1>11. \A i \in Job, q \in Piece :
         phase'[i] = "work" => Once(queue'[i], have'[i], Flying(worker'[i], q), q)
  <2>. SUFFICES ASSUME NEW i \in Job, NEW q \in Piece, phase'[i] = "work"
                PROVE  Once(queue'[i], have'[i], Flying(worker'[i], q), q)
    OBVIOUS
  <2>1. Once(queue[i], have[i], Flying(worker[i], q), q)
    BY <1>10, OnceEach DEF Inv
  <2>2. CASE i # j
    BY <2>1, <2>2, <1>6, <1>7, <1>10
  <2>3. CASE i = j /\ q # p
    BY <2>1, <2>3, <1>6, <1>7, <1>10, ZenonT(40) DEF Once
  <2>4. CASE i = j /\ q = p
    BY <2>4, <1>6, <1>7, <1>10 DEF Once
  <2>. QED
    BY <2>2, <2>3, <2>4
<1>12. EachPieceOnce'
  BY <1>11, OnceEachPrimed
<1>. QED
  BY <1>5, <1>6, <1>9, <1>12 DEF Inv

\* The six other steps of a worker change no piece's place.
LEMMA PeerWorkerInv ==
    ASSUME Inv, NEW j \in Job, NEW w \in Worker, PeerWorker(j, w)
    PROVE  Inv'
<1>1. TypeOK /\ worker[j][w] \in WorkerRecord /\ Laden
  BY DEF Inv, TypeOK
<1>2. CASE Connect(j, w)
  <2>1. PICK ok \in BOOLEAN :
          worker' = [worker EXCEPT ![j][w] = IF ok THEN [Off EXCEPT !.pc = "take"] ELSE Off]
    BY <1>2 DEF Connect
  <2>. DEFINE rec == IF ok THEN [Off EXCEPT !.pc = "take"] ELSE Off
  <2>2. rec \in WorkerRecord /\ rec.pc \notin Busy
    BY OffRecord DEF Busy
  <2>3. worker' = [worker EXCEPT ![j][w] = rec]
    BY <2>1
  <2>. HIDE DEF rec
  <2>4. Steps(j, w, rec) /\ worker[j][w].pc \notin Busy
    BY <1>2, <2>2, <2>3 DEF Connect, Steps, Busy, jobVars
  <2>. QED
    BY <1>1, <1>2, <2>2, <2>4, QuietStep DEF Connect, TypeOK, jobVars
<1>3. CASE Retire(j, w)
  <2>1. Steps(j, w, Off) /\ worker[j][w].pc \notin Busy
    BY <1>3, OffRecord DEF Retire, Steps, Busy, jobVars
  <2>. QED
    BY <1>1, <1>3, <2>1, OffRecord, QuietStep DEF Retire, TypeOK, jobVars, Busy
<1>4. CASE Fetched(j, w)
  <2>. DEFINE rec == [worker[j][w] EXCEPT !.pc = "write"]
  <2>1. rec \in WorkerRecord /\ rec.pc = "write" /\ rec.piece = worker[j][w].piece
    BY <1>1 DEF WorkerRecord
  <2>2. worker' = [worker EXCEPT ![j][w] = rec]
    BY <1>1, <1>4 DEF Fetched, TypeOK
  <2>. HIDE DEF rec
  <2>3. Steps(j, w, rec) /\ worker[j][w].pc \in Busy /\ rec.pc \in Busy
    BY <1>4, <2>1, <2>2 DEF Fetched, Steps, Busy, jobVars
  <2>4. j.dest \in Path /\ worker[j][w].piece \in Piece
    BY <1>1, <2>3 DEF Path, Laden
  <2>5. disk' \in [Path -> [Piece -> Content \cup {"hole", "torn"}]]
    BY <1>1, <1>4, <2>4 DEF Fetched, TypeOK
  <2>. QED
    BY <1>1, <1>4, <2>1, <2>3, <2>5, QuietStep DEF Fetched, TypeOK, jobVars
<1>5. CASE Written(j, w)
  <2>. DEFINE rec == [worker[j][w] EXCEPT !.pc = "mark"]
  <2>1. rec \in WorkerRecord /\ rec.pc = "mark" /\ rec.piece = worker[j][w].piece
    BY <1>1 DEF WorkerRecord
  <2>2. worker' = [worker EXCEPT ![j][w] = rec]
    BY <1>1, <1>5 DEF Written, TypeOK
  <2>. HIDE DEF rec
  <2>3. Steps(j, w, rec) /\ worker[j][w].pc \in Busy /\ rec.pc \in Busy
    BY <1>5, <2>1, <2>2 DEF Written, Steps, Busy, jobVars
  <2>4. j.dest \in Path /\ worker[j][w].piece \in Piece /\ j.content \in Content
    BY <1>1, <2>3 DEF Path, Laden, Content
  <2>5. disk' \in [Path -> [Piece -> Content \cup {"hole", "torn"}]]
    BY <1>1, <1>5, <2>4 DEF Written, TypeOK
  <2>. QED
    BY <1>1, <1>5, <2>1, <2>3, <2>5, QuietStep DEF Written, TypeOK, jobVars
<1>6. CASE Announce(j, w)
  <2>. DEFINE rec == [worker[j][w] EXCEPT !.pc = "send", !.bits = have[j]]
  <2>1. rec \in WorkerRecord /\ rec.pc = "send"
    BY <1>1 DEF WorkerRecord, TypeOK
  <2>2. worker' = [worker EXCEPT ![j][w] = rec]
    BY <1>1, <1>6 DEF Announce, TypeOK
  <2>. HIDE DEF rec
  <2>3. Steps(j, w, rec) /\ worker[j][w].pc \notin Busy /\ rec.pc \notin Busy
    BY <1>6, <2>1, <2>2 DEF Announce, Steps, Busy, jobVars
  <2>. QED
    BY <1>1, <1>6, <2>3, QuietStep DEF Announce, TypeOK, jobVars
<1>7. CASE Send(j, w)
  <2>. DEFINE rec == [Off EXCEPT !.pc = "take"]
  <2>1. rec \in WorkerRecord /\ rec.pc = "take"
    BY OffRecord
  <2>2. worker' = [worker EXCEPT ![j][w] = rec]
    BY <1>7 DEF Send
  <2>. HIDE DEF rec
  <2>3. Steps(j, w, rec) /\ worker[j][w].pc \notin Busy /\ rec.pc \notin Busy
    BY <1>7, <2>1, <2>2 DEF Send, Steps, Busy, jobVars
  <2>4. worker[j][w].bits \in SUBSET Piece /\ j.key \in Key
    BY <1>1 DEF WorkerRecord, Key
  <2>5. listed' \in [Key -> SUBSET Piece]
    BY <1>1, <1>7, <2>4 DEF Send, TypeOK
  <2>. QED
    BY <1>1, <1>7, <2>3, <2>5, QuietStep DEF Send, TypeOK, jobVars
<1>8. CASE FetchFails(j, w)
  BY <1>8, GiveBackInv DEF FetchFails, Busy
<1>9. CASE WriteFails(j, w)
  BY <1>9, GiveBackInv DEF WriteFails, Busy
<1>. QED
  BY <1>2, <1>3, <1>4, <1>5, <1>6, <1>7, <1>8, <1>9, TakeInv, MarkInv DEF PeerWorker

----------------------------------------------------------------------------
(* The steps of run_job *)

LEMMA RunJobInv ==
    ASSUME Inv, NEW j \in Job, Start(j) \/ Open(j) \/ EndRound(j) \/ Finish(j)
    PROVE  Inv'
<1>1. TypeOK /\ j.key \in Key
  BY DEF Inv, Key
<1>2. \A i \in Job : phase'[i] = "work" => phase[i] = "work" /\ i # j
  BY <1>1 DEF Start, Open, EndRound, Finish, TypeOK
<1>3. \A i \in Job : i # j => /\ phase'[i] = phase[i] /\ round'[i] = round[i]
                              /\ queue'[i] = queue[i] /\ have'[i] = have[i]
  BY <1>1 DEF Start, Open, EndRound, Finish, TypeOK
<1>4. worker' = worker
  BY DEF Start, Open, EndRound, Finish
<1>5. Calm' /\ Laden'
  BY <1>2, <1>3, <1>4 DEF Inv, Calm, Laden, AllOff, Start, Open, EndRound, Finish
<1>6. EachPieceOnce'
  BY <1>2, <1>3, <1>4, OnceEach, OnceEachPrimed DEF Inv
<1>7. TypeOK' /\ Counted'
  <2>1. CASE Start(j)
    <3>1. phase' \in [Job -> Phase] /\ peers' \in [Job -> SUBSET Peer]
      BY <1>1, <2>1 DEF Start, TypeOK, Phase
    <3>2. Counted'
      BY <1>1, <2>1 DEF Inv, Start, TypeOK, Counted
    <3>. QED
      BY <1>1, <2>1, <3>1, <3>2 DEF Start, TypeOK
  <2>2. CASE Open(j)
    <3>a. SUBSET OnDisk(j) \subseteq SUBSET Piece /\ OnDisk(j) \in SUBSET Piece
      BY DEF OnDisk
    <3>b. PICK ok \in DiskWorks :
            /\ phase' = [phase EXCEPT ![j] = IF ok THEN "loop" ELSE "failed"]
            /\ \E found \in IF FALSE \in DiskWorks THEN SUBSET OnDisk(j) ELSE {OnDisk(j)} :
                 have' = [have EXCEPT ![j] = IF ok THEN found ELSE @]
      BY <2>2 DEF Open
    <3>c. PICK found \in SUBSET Piece : have' = [have EXCEPT ![j] = IF ok THEN found ELSE @]
      BY <3>a, <3>b
    <3>1. phase' \in [Job -> Phase] /\ have' \in [Job -> SUBSET Piece]
      BY <1>1, <3>b, <3>c DEF TypeOK, Phase
    <3>2. Counted'
      BY <1>1, <2>2 DEF Inv, Open, TypeOK, Counted
    <3>. QED
      BY <1>1, <2>2, <3>1, <3>2 DEF Open, TypeOK
  <2>3. CASE EndRound(j)
    <3>1. round[j] < MaxRounds /\ phase[j] = "work"
      BY <2>3 DEF EndRound, Inv, Counted
    <3>2. phase' \in [Job -> Phase] /\ round' \in [Job -> 0..MaxRounds]
      BY <1>1, <2>3, <3>1, LimitAssumption DEF EndRound, TypeOK, Phase
    <3>3. listed' \in [Key -> SUBSET Piece]
      BY <1>1, <2>3 DEF EndRound, TypeOK
    <3>4. Counted'
      BY <1>1, <2>3 DEF Inv, EndRound, TypeOK, Counted
    <3>. QED
      BY <1>1, <2>3, <3>2, <3>3, <3>4 DEF EndRound, TypeOK
  <2>4. CASE Finish(j)
    <3>1. phase' \in [Job -> Phase] /\ share' \in [Key -> Job \cup {None}]
      BY <1>1, <2>4 DEF Finish, TypeOK, Phase
    <3>2. Counted'
      BY <1>1, <2>4 DEF Inv, Finish, TypeOK, Counted
    <3>. QED
      BY <1>1, <2>4, <3>1, <3>2 DEF Finish, TypeOK
  <2>. QED
    BY <2>1, <2>2, <2>3, <2>4
<1>. QED
  BY <1>5, <1>6, <1>7 DEF Inv

\* A round begins with every missing piece queued and no piece with a worker.
LEMMA BeginRoundInv ==
    ASSUME Inv, NEW j \in Job, BeginRound(j)
    PROVE  Inv'
<1>1. TypeOK /\ phase[j] = "loop" /\ round[j] < MaxRounds /\ round[j] \in 0..MaxRounds
  BY DEF Inv, BeginRound, RoundsLeft, TypeOK
<1>a. (IF round[j] = 0 THEN {peers[j]} ELSE SUBSET Peer) \subseteq SUBSET Peer
  BY <1>1 DEF TypeOK
<1>2. PICK P \in SUBSET Peer :
        /\ peers' = [peers EXCEPT ![j] = P]
        /\ IF P = {}
           THEN /\ round' = [round EXCEPT ![j] = @ + 1]
                /\ UNCHANGED <<phase, queue, worker>>
           ELSE /\ phase' = [phase EXCEPT ![j] = "work"]
                /\ queue' = [queue EXCEPT ![j] = Piece \ have[j]]
                /\ worker' = [worker EXCEPT ![j] =
                       [w \in Worker |->
                           IF w \in Pool(P) THEN [Off EXCEPT !.pc = "connect"]
                           ELSE Off]]
                /\ UNCHANGED round
  BY <1>a DEF BeginRound
<1>3. UNCHANGED <<have, disk, share, listed, crashes>>
  BY DEF BeginRound
<1>4. CASE P = {}
  <2>1. round' \in [Job -> 0..MaxRounds] /\ peers' \in [Job -> SUBSET Peer]
    BY <1>1, <1>2, <1>4, LimitAssumption DEF TypeOK
  <2>2. TypeOK'
    BY <1>1, <1>2, <1>3, <1>4, <2>1 DEF TypeOK
  <2>3. Counted'
    BY <1>1, <1>2, <1>4 DEF Inv, Counted, TypeOK
  <2>4. Calm' /\ Laden'
    BY <1>2, <1>4 DEF Inv, Calm, Laden, AllOff
  <2>5. EachPieceOnce'
    BY <1>2, <1>3, <1>4, OnceEach, OnceEachPrimed DEF Inv
  <2>. QED
    BY <2>2, <2>3, <2>4, <2>5 DEF Inv
<1>5. CASE P # {}
  <2>. DEFINE W == [w \in Worker |-> IF w \in Pool(P) THEN [Off EXCEPT !.pc = "connect"]
                                     ELSE Off]
  <2>1. W \in [Worker -> WorkerRecord] /\ \A w \in Worker : W[w].pc \notin Busy
    BY OffRecord DEF Busy
  <2>2. worker' = [worker EXCEPT ![j] = W]
    BY <1>2, <1>5
  <2>. HIDE DEF W
  <2>3. worker' \in [Job -> [Worker -> WorkerRecord]] /\ worker'[j] = W
        /\ \A i \in Job : i # j => worker'[i] = worker[i]
    BY <1>1, <2>1, <2>2 DEF TypeOK
  <2>4. /\ phase' \in [Job -> Phase] /\ queue' \in [Job -> SUBSET Piece]
        /\ peers' \in [Job -> SUBSET Peer]
    <3>1. phase' \in [Job -> Phase]
      BY <1>1, <1>2, <1>5 DEF TypeOK, Phase
    <3>2. Piece \ have[j] \in SUBSET Piece
      OBVIOUS
    <3>3. queue' \in [Job -> SUBSET Piece]
      BY <1>1, <1>2, <1>5, <3>2 DEF TypeOK
    <3>4. peers' \in [Job -> SUBSET Peer]
      BY <1>1, <1>2 DEF TypeOK
    <3>. QED
      BY <3>1, <3>3, <3>4
  <2>5. TypeOK'
    BY <1>1, <1>2, <1>3, <1>5, <2>3, <2>4 DEF TypeOK
  <2>6. Counted'
    BY <1>1, <1>2, <1>5 DEF Inv, Counted, TypeOK
  <2>7. \A i \in Job : /\ phase'[i] = IF i = j THEN "work" ELSE phase[i]
                       /\ queue'[i] = IF i = j THEN Piece \ have[i] ELSE queue[i]
    BY <1>1, <1>2, <1>5 DEF TypeOK
  <2>8. Calm' /\ Laden'
    BY <2>1, <2>3, <2>7 DEF Inv, Calm, Laden, AllOff
  <2>9. \A q \in Piece : Flying(worker'[j], q) = {}
    BY <2>1, <2>3 DEF Flying
  <2>10. \A i \in Job, q \in Piece :
          phase'[i] = "work" => Once(queue'[i], have'[i], Flying(worker'[i], q), q)
    <3>. SUFFICES ASSUME NEW i \in Job, NEW q \in Piece, phase'[i] = "work"
                  PROVE  Once(queue'[i], have'[i], Flying(worker'[i], q), q)
      OBVIOUS
    <3>1. CASE i = j
      BY <3>1, <1>3, <2>7, <2>9 DEF Once
    <3>2. CASE i # j
      BY <3>2, <1>3, <2>3, <2>7, OnceEach DEF Inv
    <3>. QED
      BY <3>1, <3>2
  <2>11. EachPieceOnce'
    BY <2>10, OnceEachPrimed
  <2>. QED
    BY <2>5, <2>6, <2>8, <2>11 DEF Inv
<1>. QED
  BY <1>4, <1>5

LEMMA CrashInv ==
    ASSUME Inv, Crash
    PROVE  Inv'
<1>1. TypeOK
  BY DEF Inv
<1>2. worker' = [i \in Job |-> [w \in Worker |-> Off]] /\ \A i \in Job : phase'[i] \in {"new", "killed"}
  BY DEF Crash
<1>3. worker' \in [Job -> [Worker -> WorkerRecord]] /\ \A i \in Job, w \in Worker : worker'[i][w].pc = "off"
  BY <1>2, OffRecord
<1>4. phase' \in [Job -> Phase] /\ crashes' \in 0..MaxCrashes
  BY <1>1, LimitAssumption DEF Crash, TypeOK, Phase
<1>5. TypeOK'
  BY <1>1, <1>3, <1>4 DEF Crash, TypeOK
<1>6. Counted'
  BY <1>1 DEF Inv, Counted, Crash, TypeOK
<1>7. Calm' /\ Laden'
  BY <1>3 DEF Calm, Laden, AllOff, Busy
<1>8. EachPieceOnce'
  BY <1>2, OnceEachPrimed
<1>. QED
  BY <1>5, <1>6, <1>7, <1>8 DEF Inv

----------------------------------------------------------------------------
(* The theorems about the pieces of a round *)

LEMMA InitInv == Init => Inv
<1>. SUFFICES ASSUME Init PROVE Inv
  OBVIOUS
<1>1. worker \in [Job -> [Worker -> WorkerRecord]] /\ \A i \in Job, w \in Worker : worker[i][w].pc = "off"
  BY OffRecord DEF Init
<1>2. TypeOK
  BY <1>1, LimitAssumption DEF Init, TypeOK, Phase
<1>3. Counted /\ Calm /\ Laden /\ EachPieceOnce
  BY <1>1, OnceEach DEF Init, Counted, Calm, Laden, AllOff, Busy
<1>. QED
  BY <1>2, <1>3 DEF Inv

LEMMA NextInv == Inv /\ [Next]_vars => Inv'
<1>. SUFFICES ASSUME Inv, [Next]_vars PROVE Inv'
  OBVIOUS
<1>1. CASE UNCHANGED vars
  <2>1. TypeOK'
    BY <1>1 DEF vars, jobVars, Inv, TypeOK
  <2>2. Counted' /\ Calm' /\ Laden'
    BY <1>1 DEF vars, jobVars, Inv, Counted, Calm, Laden, AllOff
  <2>3. EachPieceOnce'
    BY <1>1, OnceEach, OnceEachPrimed DEF vars, jobVars, Inv
  <2>. QED
    BY <2>1, <2>2, <2>3 DEF Inv
<1>2. CASE \E j \in Job : Start(j) \/ RunJob(j)
  BY <1>2, RunJobInv, BeginRoundInv DEF RunJob
<1>3. CASE \E j \in Job, w \in Worker : PeerWorker(j, w)
  BY <1>3, PeerWorkerInv
<1>4. CASE Crash
  BY <1>4, CrashInv
<1>. QED
  BY <1>1, <1>2, <1>3, <1>4 DEF Next

LEMMA AlwaysInv == Spec => []Inv
  BY InitInv, NextInv, PTL DEF Spec

\* The state of the downloads has its type; rounds never exceed kMaxRounds.
THEOREM TypeCorrect == Spec => []TypeOK
<1>1. Inv => TypeOK
  BY DEF Inv
<1>. QED
  BY <1>1, AlwaysInv, PTL

\* However many workers share the queue and however they fail, retire and give
\* pieces back, each piece is in one place (peer_worker's use of __queue).
THEOREM PiecesInOnePlace == Spec => []EachPieceOnce
<1>1. Inv => EachPieceOnce
  BY DEF Inv
<1>. QED
  BY <1>1, AlwaysInv, PTL

----------------------------------------------------------------------------
(* The bytes on disk *)

\* No two downloads write different files to one destination.  The console
\* does not see to it: the README says what follows.
OneContentPerPath == \A i, j \in Job : i.dest = j.dest => i.content = j.content

\* What a worker's record may become.
Becomes(j, w, rec) ==
    /\ rec \in WorkerRecord
    /\ worker' = [worker EXCEPT ![j][w] = rec]
    /\ worker[j][w].pc # "off"
    /\ rec.pc = "mark" => Written(j, w) /\ rec.piece = worker[j][w].piece
    /\ rec.pc = "send" => Announce(j, w) /\ rec.bits = have[j]

LEMMA NextRecord ==
    ASSUME Inv, NEW j \in Job, NEW w \in Worker, PeerWorker(j, w)
    PROVE  \E rec : Becomes(j, w, rec)
<1>1. TypeOK /\ worker[j][w] \in WorkerRecord
  BY DEF Inv, TypeOK
<1>2. ASSUME NEW rec \in WorkerRecord, rec.pc \notin {"mark", "send"}, worker[j][w].pc # "off",
             worker' = [worker EXCEPT ![j][w] = rec]
      PROVE  Becomes(j, w, rec)
  BY <1>2 DEF Becomes
<1>3. Off \in WorkerRecord /\ Off.pc = "off" /\ [Off EXCEPT !.pc = "take"] \in WorkerRecord
      /\ [Off EXCEPT !.pc = "take"].pc = "take"
  BY OffRecord
<1>4. CASE Connect(j, w)
  <2>1. PICK ok \in BOOLEAN :
          worker' = [worker EXCEPT ![j][w] = IF ok THEN [Off EXCEPT !.pc = "take"] ELSE Off]
    BY <1>4 DEF Connect
  <2>2. worker[j][w].pc # "off"
    BY <1>4 DEF Connect
  <2>3. CASE ok
    BY <1>2, <1>3, <2>1, <2>2, <2>3
  <2>4. CASE ~ok
    BY <1>2, <1>3, <2>1, <2>2, <2>4
  <2>. QED
    BY <2>3, <2>4
<1>5. CASE Take(j, w)
  <2>1. PICK p \in queue[j] :
          worker' = [worker EXCEPT ![j][w].pc = "fetch", ![j][w].piece = p]
    BY <1>5 DEF Take
  <2>. DEFINE rec == [worker[j][w] EXCEPT !.pc = "fetch", !.piece = p]
  <2>2. p \in Piece
    BY <1>1 DEF TypeOK
  <2>3. rec \in WorkerRecord /\ rec.pc = "fetch"
    BY <1>1, <2>2 DEF WorkerRecord
  <2>4. worker' = [worker EXCEPT ![j][w] = rec]
    BY <1>1, <2>1 DEF TypeOK
  <2>5. worker[j][w].pc # "off"
    BY <1>5 DEF Take
  <2>. QED
    BY <1>2, <2>3, <2>4, <2>5
<1>6. CASE Retire(j, w)
  BY <1>2, <1>3, <1>6 DEF Retire
<1>7. CASE FetchFails(j, w) \/ WriteFails(j, w)
  <2>1. worker' = [worker EXCEPT ![j][w] = Returned(worker[j][w])] /\ worker[j][w].pc # "off"
    BY <1>7 DEF FetchFails, WriteFails, GiveBack, Returned
  <2>. QED
    BY <1>1, <1>2, <2>1, ReturnedRecord
<1>8. CASE Fetched(j, w)
  <2>. DEFINE rec == [worker[j][w] EXCEPT !.pc = "write"]
  <2>1. rec \in WorkerRecord /\ rec.pc = "write"
    BY <1>1 DEF WorkerRecord
  <2>2. worker' = [worker EXCEPT ![j][w] = rec] /\ worker[j][w].pc # "off"
    BY <1>1, <1>8 DEF Fetched, TypeOK
  <2>. QED
    BY <1>2, <2>1, <2>2
<1>9. CASE Written(j, w)
  <2>. DEFINE rec == [worker[j][w] EXCEPT !.pc = "mark"]
  <2>1. rec \in WorkerRecord /\ rec.pc = "mark" /\ rec.piece = worker[j][w].piece
    BY <1>1 DEF WorkerRecord
  <2>2. worker' = [worker EXCEPT ![j][w] = rec] /\ worker[j][w].pc # "off"
    BY <1>1, <1>9 DEF Written, TypeOK
  <2>. HIDE DEF rec
  <2>. QED
    BY <1>9, <2>1, <2>2 DEF Becomes
<1>10. CASE Mark(j, w)
  <2>1. PICK c \in {"announce", "take"} : worker' = [worker EXCEPT ![j][w] = [Off EXCEPT !.pc = c]]
    BY <1>10 DEF Mark
  <2>2. [Off EXCEPT !.pc = c] \in WorkerRecord /\ [Off EXCEPT !.pc = c].pc = c
    BY OffRecord
  <2>. QED
    BY <1>2, <1>10, <2>1, <2>2 DEF Mark
<1>11. CASE Announce(j, w)
  <2>. DEFINE rec == [worker[j][w] EXCEPT !.pc = "send", !.bits = have[j]]
  <2>1. rec \in WorkerRecord /\ rec.pc = "send" /\ rec.bits = have[j]
    BY <1>1 DEF WorkerRecord, TypeOK
  <2>2. worker' = [worker EXCEPT ![j][w] = rec] /\ worker[j][w].pc # "off"
    BY <1>1, <1>11 DEF Announce, TypeOK
  <2>. HIDE DEF rec
  <2>. QED
    BY <1>11, <2>1, <2>2 DEF Becomes
<1>12. CASE Send(j, w)
  BY <1>2, <1>3, <1>12 DEF Send
<1>. QED
  BY <1>4, <1>5, <1>6, <1>7, <1>8, <1>9, <1>10, <1>11, <1>12 DEF PeerWorker

\* No step takes a piece away from the disk: bytes that are right are written
\* over by the same bytes only.
LEMMA DiskKeeps ==
    ASSUME Inv, [Next]_vars, OneContentPerPath, NEW i \in Job
    PROVE  OnDisk(i) \subseteq OnDisk(i)'
<1>1. TypeOK /\ Laden
  BY DEF Inv
<1>2. ASSUME disk' = disk PROVE OnDisk(i) \subseteq OnDisk(i)'
  BY <1>2 DEF OnDisk
<1>3. ASSUME NEW j \in Job, NEW p \in Piece, NEW x,
             disk' = [disk EXCEPT ![j.dest][p] = x],
             disk[j.dest][p] = j.content => x = j.content
      PROVE  OnDisk(i) \subseteq OnDisk(i)'
  <2>. SUFFICES ASSUME NEW q \in Piece, disk[i.dest][q] = i.content
                PROVE  disk'[i.dest][q] = i.content
    BY DEF OnDisk
  <2>1. i.dest \in Path /\ j.dest \in Path
    BY DEF Path
  <2>2. CASE i.dest = j.dest /\ q = p
    BY <1>1, <1>3, <2>1, <2>2 DEF TypeOK, OneContentPerPath
  <2>3. CASE i.dest # j.dest \/ q # p
    BY <1>1, <1>3, <2>1, <2>3 DEF TypeOK
  <2>. QED
    BY <2>2, <2>3
<1>4. ASSUME NEW j \in Job, NEW w \in Worker, Fetched(j, w)
      PROVE  OnDisk(i) \subseteq OnDisk(i)'
  <2>1. PICK p : p = worker[j][w].piece
    OBVIOUS
  <2>2. p \in Piece
    BY <1>1, <1>4, <2>1 DEF Fetched, Laden, Busy
  <2>3. disk' = [disk EXCEPT ![j.dest][p] = IF @ = j.content THEN @ ELSE "torn"]
    BY <1>4, <2>1 DEF Fetched
  <2>4. disk' = [disk EXCEPT ![j.dest][p] =
                   IF disk[j.dest][p] = j.content THEN disk[j.dest][p] ELSE "torn"]
    BY <2>3
  <2>. QED
    BY <1>3, <2>2, <2>4
<1>5. ASSUME NEW j \in Job, NEW w \in Worker, Written(j, w)
      PROVE  OnDisk(i) \subseteq OnDisk(i)'
  <2>1. PICK p : p = worker[j][w].piece
    OBVIOUS
  <2>2. p \in Piece
    BY <1>1, <1>5, <2>1 DEF Written, Laden, Busy
  <2>3. disk' = [disk EXCEPT ![j.dest][p] = j.content]
    BY <1>5, <2>1 DEF Written
  <2>. QED
    BY <1>3, <2>2, <2>3
<1>6. ASSUME NEW j \in Job, NEW w \in Worker, PeerWorker(j, w)
      PROVE  disk' = disk \/ Fetched(j, w) \/ Written(j, w)
  BY <1>6 DEF PeerWorker, Connect, Take, Retire, FetchFails, WriteFails, Mark, Announce, Send
<1>7. ASSUME NEW j \in Job, Start(j) \/ RunJob(j)
      PROVE  disk' = disk
  BY <1>7 DEF Start, RunJob, Open, BeginRound, EndRound, Finish
<1>8. Crash \/ UNCHANGED vars => disk' = disk
  BY DEF Crash, vars
<1>. QED
  BY <1>2, <1>4, <1>5, <1>6, <1>7, <1>8 DEF Next

\* The piece a worker is about to mark is whole.
AboutToMark ==
    \A j \in Job, w \in Worker :
        worker[j][w].pc = "mark" => worker[j][w].piece \in OnDisk(j)

\* What a worker is about to send to the tracker is whole.
AboutToSend ==
    \A j \in Job, w \in Worker :
        worker[j][w].pc = "send" => worker[j][w].bits \subseteq OnDisk(j)

LEMMA MarkedInit == Init => MarkedIsWhole /\ AboutToMark /\ AboutToSend
<1>. SUFFICES ASSUME Init PROVE MarkedIsWhole /\ AboutToMark /\ AboutToSend
  OBVIOUS
<1>1. MarkedIsWhole
  BY DEF Init, MarkedIsWhole
<1>2. \A i \in Job, w \in Worker : worker[i][w].pc = "off"
  BY OffRecord DEF Init
<1>. QED
  BY <1>1, <1>2 DEF AboutToMark, AboutToSend

\* How the bitmap of a job can grow.
LEMMA HaveGrows ==
    ASSUME Inv, AboutToMark, MarkedIsWhole, [Next]_vars, NEW i \in Job
    PROVE  have'[i] \subseteq OnDisk(i)
<1>1. TypeOK /\ have[i] \subseteq OnDisk(i)
  BY DEF Inv, MarkedIsWhole
<1>2. ASSUME NEW j \in Job, Open(j) PROVE have'[i] \subseteq OnDisk(i)
  <2>1. PICK ok \in DiskWorks, found \in SUBSET OnDisk(j) :
          have' = [have EXCEPT ![j] = IF ok THEN found ELSE @]
    BY <1>2 DEF Open
  <2>. QED
    BY <1>1, <2>1 DEF TypeOK
<1>3. ASSUME NEW j \in Job, NEW w \in Worker, Mark(j, w) PROVE have'[i] \subseteq OnDisk(i)
  <2>1. worker[j][w].piece \in OnDisk(j)
    BY <1>3 DEF Mark, AboutToMark
  <2>2. have' = [have EXCEPT ![j] = @ \cup {worker[j][w].piece}]
    BY <1>3 DEF Mark
  <2>3. have'[i] = IF i = j THEN have[i] \cup {worker[j][w].piece} ELSE have[i]
    BY <1>1, <2>2 DEF TypeOK
  <2>. QED
    BY <1>1, <2>1, <2>3
<1>4. Crash => have'[i] = {}
  BY DEF Crash
<1>5. ASSUME NEW j \in Job, NEW w \in Worker, PeerWorker(j, w)
      PROVE  have' = have \/ Mark(j, w)
  BY <1>5 DEF PeerWorker, Connect, Take, Retire, FetchFails, Fetched, WriteFails, Written,
              Announce, Send, jobVars
<1>6. ASSUME NEW j \in Job, Start(j) \/ RunJob(j)
      PROVE  have' = have \/ Open(j)
  BY <1>6 DEF Start, RunJob, BeginRound, EndRound, Finish
<1>7. UNCHANGED vars => have' = have
  BY DEF vars, jobVars
<1>. QED
  BY <1>1, <1>2, <1>3, <1>4, <1>5, <1>6, <1>7 DEF Next

LEMMA MarkedNext ==
    ASSUME OneContentPerPath, Inv, MarkedIsWhole, AboutToMark, AboutToSend, [Next]_vars
    PROVE  MarkedIsWhole' /\ AboutToMark' /\ AboutToSend'
<1>1. \A i \in Job : OnDisk(i) \subseteq OnDisk(i)'
  BY DiskKeeps
<1>2. MarkedIsWhole'
  BY <1>1, HaveGrows DEF MarkedIsWhole
<1>3. ASSUME NEW j \in Job, NEW w \in Worker, PeerWorker(j, w)
      PROVE  AboutToMark' /\ AboutToSend'
  <2>1. PICK rec : Becomes(j, w, rec)
    BY <1>3, NextRecord
  <2>2. worker \in WorkerFn /\ worker' = [worker EXCEPT ![j][w] = rec]
    BY <2>1 DEF Inv, TypeOK, WorkerFn, Becomes
  <2>3. /\ worker'[j][w] = rec
        /\ \A i \in Job, v \in Worker :
             i # j \/ v # w => worker'[i][v] = worker[i][v]
    BY <2>2 DEF WorkerFn
  <2>4. ASSUME rec.pc = "mark" PROVE rec.piece \in OnDisk(j)'
    <3>1. Written(j, w) /\ rec.piece = worker[j][w].piece
      BY <2>1, <2>4 DEF Becomes
    <3>2. rec.piece \in Piece /\ j.dest \in Path
      BY <3>1 DEF Inv, Laden, Written, Busy, Path
    <3>3. disk'[j.dest][rec.piece] = j.content
      BY <3>1, <3>2 DEF Written, Inv, TypeOK
    <3>. QED
      BY <3>2, <3>3 DEF OnDisk
  <2>5. ASSUME rec.pc = "send" PROVE rec.bits \subseteq OnDisk(j)'
    BY <1>1, <2>1, <2>5 DEF Becomes, MarkedIsWhole
  <2>6. AboutToMark'
    BY <1>1, <2>3, <2>4 DEF AboutToMark
  <2>7. AboutToSend'
    BY <1>1, <2>3, <2>5 DEF AboutToSend
  <2>. QED
    BY <2>6, <2>7
<1>4. ASSUME worker' = worker PROVE AboutToMark' /\ AboutToSend'
  BY <1>1, <1>4 DEF AboutToMark, AboutToSend
<1>5. ASSUME NEW j \in Job, BeginRound(j) PROVE AboutToMark' /\ AboutToSend'
  <2>1. PICK P : worker' = worker \/
          worker' = [worker EXCEPT ![j] =
                       [w \in Worker |->
                           IF w \in Pool(P) THEN [Off EXCEPT !.pc = "connect"]
                           ELSE Off]]
    BY <1>5 DEF BeginRound
  <2>. DEFINE W == [w \in Worker |-> IF w \in Pool(P) THEN [Off EXCEPT !.pc = "connect"]
                                     ELSE Off]
  <2>2. \A w \in Worker : W[w].pc \notin {"mark", "send"}
    BY OffRecord
  <2>3. worker' = worker \/ worker' = [worker EXCEPT ![j] = W]
    BY <2>1
  <2>. HIDE DEF W
  <2>4. \A i \in Job : worker'[i] = worker[i] \/ worker'[i] = W
    BY <2>3 DEF Inv, TypeOK
  <2>. QED
    BY <1>1, <2>2, <2>4 DEF AboutToMark, AboutToSend
<1>6. ASSUME NEW j \in Job, Start(j) \/ RunJob(j)
      PROVE  worker' = worker \/ BeginRound(j)
  BY <1>6 DEF Start, RunJob, Open, EndRound, Finish
<1>7. ASSUME Crash PROVE AboutToMark' /\ AboutToSend'
  <2>1. \A i \in Job, w \in Worker : worker'[i][w].pc = "off"
    BY <1>7, OffRecord DEF Crash
  <2>. QED
    BY <2>1 DEF AboutToMark, AboutToSend
<1>8. UNCHANGED vars => worker' = worker
  BY DEF vars
<1>. QED
  BY <1>2, <1>3, <1>4, <1>5, <1>6, <1>7, <1>8 DEF Next

\* A piece is marked only when its verified bytes are on disk, and they stay
\* there, through failed writes, crashes and repeated downloads
\* (PieceStore::write_piece, resume_scan), if downloads to one path agree on
\* the file.
THEOREM MarkedIsWholeAlways ==
    ASSUME OneContentPerPath
    PROVE  Spec => []MarkedIsWhole
<1>1. Inv /\ MarkedIsWhole /\ AboutToMark /\ AboutToSend /\ [Next]_vars
      => MarkedIsWhole' /\ AboutToMark' /\ AboutToSend'
  BY MarkedNext
<1>. QED
  BY <1>1, MarkedInit, AlwaysInv, PTL DEF Spec

----------------------------------------------------------------------------
(* What is served and listed *)

\* Only a step of a running job changes its bitmap.
LEMMA HaveChanges ==
    ASSUME Inv, Next, ~Crash, NEW i \in Job, phase[i] = "done"
    PROVE  have'[i] = have[i] /\ phase'[i] = "done"
<1>1. TypeOK
  BY DEF Inv
<1>2. ASSUME NEW j \in Job, Start(j) \/ RunJob(j)
      PROVE  j # i /\ phase'[i] = phase[i] /\ have'[i] = have[i]
  <2>1. j # i
    BY <1>2 DEF Start, RunJob, Open, BeginRound, EndRound, Finish
  <2>. QED
    BY <1>1, <1>2, <2>1 DEF Start, RunJob, Open, BeginRound, EndRound, Finish, TypeOK
<1>3. ASSUME NEW j \in Job, NEW w \in Worker, PeerWorker(j, w)
      PROVE  phase' = phase /\ have'[i] = have[i]
  <2>1. phase' = phase
    BY <1>3 DEF PeerWorker, Connect, Take, Retire, FetchFails, Fetched, WriteFails, Written,
                Mark, Announce, Send, jobVars
  <2>2. have' = have \/ Mark(j, w)
    BY <1>3 DEF PeerWorker, Connect, Take, Retire, FetchFails, Fetched, WriteFails, Written,
                Announce, Send, jobVars
  <2>3. ASSUME Mark(j, w) PROVE have'[i] = have[i]
    <3>1. j # i
      BY <2>3, WorkerRuns DEF Mark
    <3>. QED
      BY <1>1, <2>3, <3>1 DEF Mark, TypeOK
  <2>. QED
    BY <2>1, <2>2, <2>3
<1>. QED
  BY <1>2, <1>3 DEF Next

LEMMA SharedNext ==
    ASSUME Inv, SharedIsWhole, [Next]_vars
    PROVE  SharedIsWhole'
<1>1. TypeOK
  BY DEF Inv
<1>2. CASE UNCHANGED vars
  BY <1>2 DEF vars, jobVars, SharedIsWhole
<1>3. CASE Crash
  BY <1>3 DEF Crash, SharedIsWhole
<1>4. CASE Next /\ ~Crash
  <2>. SUFFICES ASSUME NEW k \in Key, share'[k] # None
                PROVE  /\ phase'[share'[k]] = "done" /\ share'[k].key = k
                       /\ have'[share'[k]] = Piece
    BY DEF SharedIsWhole
  <2>1. ASSUME share'[k] = share[k]
        PROVE  /\ phase'[share'[k]] = "done" /\ share'[k].key = k
               /\ have'[share'[k]] = Piece
    <3>1. share[k] \in Job /\ phase[share[k]] = "done" /\ share[k].key = k /\ have[share[k]] = Piece
      BY <1>1, <2>1 DEF TypeOK, SharedIsWhole
    <3>. QED
      BY <1>4, <2>1, <3>1, HaveChanges
  <2>2. ASSUME NEW j \in Job, Finish(j), share'[k] # share[k]
        PROVE  /\ phase'[share'[k]] = "done" /\ share'[k].key = k
               /\ have'[share'[k]] = Piece
    <3>1. k = j.key /\ Complete(j) /\ share'[k] = j
      BY <1>1, <2>2 DEF Finish, TypeOK
    <3>. QED
      BY <1>1, <2>2, <3>1 DEF Finish, TypeOK, Complete
  <2>3. share' = share \/ \E j \in Job : Finish(j)
    <3>1. ASSUME NEW j \in Job, Start(j) \/ RunJob(j) PROVE share' = share \/ Finish(j)
      BY <3>1 DEF Start, RunJob, Open, BeginRound, EndRound
    <3>2. ASSUME NEW j \in Job, NEW w \in Worker, PeerWorker(j, w) PROVE share' = share
      BY <3>2 DEF PeerWorker, Connect, Take, Retire, FetchFails, Fetched, WriteFails,
                  Written, Mark, Announce, Send
    <3>. QED
      BY <1>4, <3>1, <3>2 DEF Next
  <2>. QED
    BY <2>1, <2>2, <2>3
<1>. QED
  BY <1>2, <1>3, <1>4

\* The Seeder serves only whole files of downloads that ended well (the
\* add_share at the end of run_job).
THEOREM SharedIsWholeAlways == Spec => []SharedIsWhole
<1>1. Init => SharedIsWhole
  BY DEF Init, SharedIsWhole
<1>2. Inv /\ SharedIsWhole /\ [Next]_vars => SharedIsWhole'
  BY SharedNext
<1>. QED
  BY <1>1, <1>2, AlwaysInv, PTL DEF Spec

\* Downloads of one file all go to one destination.
OneFilePerKey ==
    \A i, j \in Job : i.key = j.key => i.dest = j.dest /\ i.content = j.content

LEMMA ListedNext ==
    ASSUME OneContentPerPath, OneFilePerKey,
           Inv, MarkedIsWhole, AboutToSend, ListedIsOnDisk, [Next]_vars
    PROVE  ListedIsOnDisk'
<1>. SUFFICES ASSUME NEW i \in Job
              PROVE  listed'[i.key] \subseteq OnDisk(i)'
  BY DEF ListedIsOnDisk
<1>1. TypeOK /\ OnDisk(i) \subseteq OnDisk(i)' /\ i.key \in Key
  BY DiskKeeps DEF Inv, Key
<1>2. listed[i.key] \subseteq OnDisk(i)
  BY DEF ListedIsOnDisk
<1>3. ASSUME NEW j \in Job, NEW b, b \subseteq OnDisk(j),
             listed' = [listed EXCEPT ![j.key] = b] \/ listed' = listed
      PROVE  listed'[i.key] \subseteq OnDisk(i)
  <2>1. i.key = j.key => OnDisk(i) = OnDisk(j)
    BY DEF OneFilePerKey, OnDisk
  <2>. QED
    BY <1>1, <1>2, <1>3, <2>1 DEF TypeOK
<1>4. ASSUME NEW j \in Job, EndRound(j) PROVE listed'[i.key] \subseteq OnDisk(i)
  <2>1. have[j] \subseteq OnDisk(j)
    BY DEF MarkedIsWhole
  <2>2. listed' = [listed EXCEPT ![j.key] = have[j]] \/ listed' = listed
    BY <1>1, <1>4 DEF EndRound, TypeOK
  <2>. QED
    BY <1>3, <2>1, <2>2
<1>5. ASSUME NEW j \in Job, NEW w \in Worker, Send(j, w)
      PROVE  listed'[i.key] \subseteq OnDisk(i)
  <2>1. worker[j][w].bits \subseteq OnDisk(j)
    BY <1>5 DEF Send, AboutToSend
  <2>2. listed' = [listed EXCEPT ![j.key] = worker[j][w].bits] \/ listed' = listed
    BY <1>1, <1>5 DEF Send, TypeOK
  <2>. QED
    BY <1>3, <2>1, <2>2
<1>6. Crash => listed'[i.key] = {}
  BY <1>1 DEF Crash
<1>7. \/ listed' = listed \/ Crash
      \/ \E j \in Job : EndRound(j)
      \/ \E j \in Job, w \in Worker : Send(j, w)
  <2>1. ASSUME NEW j \in Job, Start(j) \/ RunJob(j) PROVE listed' = listed \/ EndRound(j)
    BY <2>1 DEF Start, RunJob, Open, BeginRound, Finish
  <2>2. ASSUME NEW j \in Job, NEW w \in Worker, PeerWorker(j, w)
        PROVE  listed' = listed \/ Send(j, w)
    BY <2>2 DEF PeerWorker, Connect, Take, Retire, FetchFails, Fetched, WriteFails,
                Written, Mark, Announce
  <2>3. UNCHANGED vars => listed' = listed
    BY DEF vars
  <2>. QED
    BY <2>1, <2>2, <2>3 DEF Next
<1>. QED
  BY <1>1, <1>2, <1>4, <1>5, <1>6, <1>7

\* What the tracker lists for this client is on its disk, also when an older
\* announcement arrives after a newer one (announce), if a file is always
\* downloaded to the same place.
THEOREM ListedIsOnDiskAlways ==
    ASSUME OneContentPerPath, OneFilePerKey
    PROVE  Spec => []ListedIsOnDisk
<1>1. Init => ListedIsOnDisk
  BY DEF Init, ListedIsOnDisk, Key
<1>2. Inv /\ MarkedIsWhole /\ AboutToMark /\ AboutToSend /\ [Next]_vars
      => MarkedIsWhole' /\ AboutToMark' /\ AboutToSend'
  BY MarkedNext
<1>3. Inv /\ MarkedIsWhole /\ AboutToSend /\ ListedIsOnDisk /\ [Next]_vars => ListedIsOnDisk'
  BY ListedNext
<1>. QED
  BY <1>1, <1>2, <1>3, MarkedInit, AlwaysInv, PTL DEF Spec

----------------------------------------------------------------------------
(* The last announcement of a job *)

\* A fresh job has peers, and of the jobs for one file at most one runs.  A job
\* between rounds has told the tracker all it has, if the tracker answers.
Told ==
    /\ \A j \in Job : phase[j] \in {"open", "loop"} /\ round[j] = 0 => peers[j] # {}
    /\ \A i, j \in Job : i.key = j.key /\ Running(i) /\ Running(j) => i = j
    /\ \A j \in Job : phase[j] = "loop" /\ round[j] > 0 => listed[j.key] = have[j]

LEMMA ToldNext ==
    ASSUME TrackerAnswers = {TRUE}, Inv, Told, [Next]_vars
    PROVE  Told'
<1>1. TypeOK /\ Counted
  BY DEF Inv
<1>2. CASE UNCHANGED vars
  BY <1>2 DEF vars, jobVars, Told, Running
<1>3. CASE Crash
  <2>1. \A i \in Job : phase'[i] \in {"new", "killed"}
    BY <1>3 DEF Crash
  <2>. QED
    BY <2>1 DEF Told, Running
<1>4. ASSUME NEW j \in Job, NEW w \in Worker, PeerWorker(j, w) PROVE Told'
  <2>1. phase[j] = "work"
    BY <1>4, WorkerRuns DEF PeerWorker, Connect, Take, Retire, FetchFails, Fetched,
            WriteFails, Written, Mark, Announce, Send
  <2>2. UNCHANGED <<phase, round, peers>>
    BY <1>4 DEF PeerWorker, Connect, Take, Retire, FetchFails, Fetched, WriteFails,
                Written, Mark, Announce, Send, GiveBack, jobVars
  <2>3. \A i \in Job : i # j => have'[i] = have[i]
    BY <1>1, <1>4 DEF PeerWorker, Connect, Take, Retire, FetchFails, Fetched, WriteFails,
                Written, Mark, Announce, Send, jobVars, TypeOK
  <2>4. \A k \in Key : k # j.key => listed'[k] = listed[k]
    BY <1>1, <1>4 DEF PeerWorker, Connect, Take, Retire, FetchFails, Fetched, WriteFails,
                Written, Mark, Announce, Send, TypeOK
  <2>5. \A i \in Job : phase[i] = "loop" => i.key \in Key /\ i.key # j.key
    BY <2>1 DEF Told, Running, Key
  <2>6. \A i \in Job : phase'[i] = "loop" /\ round'[i] > 0 => listed'[i.key] = have'[i]
    BY <2>1, <2>2, <2>3, <2>4, <2>5 DEF Told
  <2>. QED
    BY <2>2, <2>6 DEF Told, Running
<1>5. ASSUME NEW j \in Job, Start(j) PROVE Told'
  <2>1. PICK P \in SUBSET Peer : P # {} /\ peers' = [peers EXCEPT ![j] = P]
    BY <1>5 DEF Start
  <2>2. /\ phase' = [phase EXCEPT ![j] = "open"]
        /\ UNCHANGED <<round, have, listed>>
        /\ \A i \in Job : i.key = j.key => ~Running(i)
    BY <1>5 DEF Start
  <2>3. \A i \in Job : /\ phase'[i] = IF i = j THEN "open" ELSE phase[i]
                       /\ peers'[i] = IF i = j THEN P ELSE peers[i]
    BY <1>1, <2>1, <2>2 DEF TypeOK
  <2>4. \A i \in Job : phase'[i] \in {"open", "loop"} /\ round'[i] = 0 => peers'[i] # {}
    BY <2>1, <2>2, <2>3 DEF Told
  <2>5. \A i \in Job : i # j => (Running(i)' <=> Running(i))
    BY <2>3 DEF Running
  <2>6. \A h, i \in Job : h.key = i.key /\ Running(h)' /\ Running(i)' => h = i
    BY <2>2, <2>5 DEF Told
  <2>7. \A i \in Job : phase'[i] = "loop" /\ round'[i] > 0 => listed'[i.key] = have'[i]
    BY <2>2, <2>3 DEF Told
  <2>. QED
    BY <2>4, <2>6, <2>7 DEF Told
<1>6. ASSUME NEW j \in Job, RunJob(j) PROVE Told'
  <2>1. Running(j) /\ \A i \in Job : i # j => phase'[i] = phase[i] /\ round'[i] = round[i]
                                          /\ peers'[i] = peers[i] /\ have'[i] = have[i]
    BY <1>1, <1>6 DEF RunJob, Open, BeginRound, EndRound, Finish, TypeOK, Running
  <2>2. \A i \in Job : i # j => (Running(i)' <=> Running(i))
    BY <2>1 DEF Running
  <2>3. \A h, i \in Job : h.key = i.key /\ Running(h)' /\ Running(i)' => h = i
    BY <2>1, <2>2 DEF Told
  <2>4. \A k \in Key : k # j.key => listed'[k] = listed[k]
    BY <1>1, <1>6 DEF RunJob, Open, BeginRound, EndRound, Finish, TypeOK
  <2>5. \A i \in Job : i # j /\ phase[i] = "loop" => i.key \in Key /\ i.key # j.key
    BY <2>1 DEF Told, Running, Key
  <2>6. \A i \in Job : i # j => /\ phase'[i] \in {"open", "loop"} /\ round'[i] = 0 => peers'[i] # {}
                                /\ phase'[i] = "loop" /\ round'[i] > 0 => listed'[i.key] = have'[i]
    BY <2>1, <2>4, <2>5 DEF Told
  <2>7. /\ phase'[j] \in {"open", "loop"} /\ round'[j] = 0 => peers'[j] # {}
        /\ phase'[j] = "loop" /\ round'[j] > 0 => listed'[j.key] = have'[j]
    <3>. j.key \in Key /\ round[j] \in Nat
      BY <1>1, LimitAssumption DEF Key, TypeOK
    <3>1. CASE Open(j)
      BY <1>1, <3>1 DEF Open, TypeOK, Told, Counted
    <3>2. CASE BeginRound(j)
      <4>1. PICK P : /\ round[j] = 0 => P = peers[j]
                     /\ peers' = [peers EXCEPT ![j] = P]
                     /\ IF P = {} THEN round' = [round EXCEPT ![j] = @ + 1] /\ UNCHANGED phase
                        ELSE phase' = [phase EXCEPT ![j] = "work"]
        BY <3>2 DEF BeginRound
      <4>2. phase[j] = "loop" /\ UNCHANGED <<have, listed>>
        BY <3>2 DEF BeginRound
      <4>3. CASE P = {}
        <5>1. round[j] # 0
          BY <4>1, <4>2, <4>3 DEF Told
        <5>. QED
          BY <1>1, <4>1, <4>2, <4>3, <5>1 DEF Told, TypeOK
      <4>4. CASE P # {}
        BY <1>1, <4>1, <4>4 DEF TypeOK
      <4>. QED
        BY <4>3, <4>4
    <3>3. CASE EndRound(j)
      <4>1. listed' = [listed EXCEPT ![j.key] = have[j]]
        BY <3>3 DEF EndRound
      <4>2. round'[j] = round[j] + 1 /\ have' = have
        BY <1>1, <3>3 DEF EndRound, TypeOK
      <4>. QED
        BY <1>1, <4>1, <4>2 DEF TypeOK
    <3>4. CASE Finish(j)
      BY <1>1, <3>4 DEF Finish, TypeOK
    <3>. QED
      BY <1>6, <3>1, <3>2, <3>3, <3>4 DEF RunJob
  <2>. QED
    BY <2>3, <2>6, <2>7 DEF Told
<1>. QED
  BY <1>2, <1>3, <1>4, <1>5, <1>6 DEF Next

\* A download that fetched anything is reported done only after the tracker
\* was told of every piece: the announcement after the join has the last word
\* (run_job, announce), when the tracker answers.
THEOREM DoneIsAnnouncedAlways == Spec => DoneIsAnnounced
<1>1. CASE TrackerAnswers = {TRUE}
  <2>1. Init => Told
    BY DEF Init, Told, Running
  <2>2. Inv /\ Told /\ [Next]_vars => Told'
    BY <1>1, ToldNext
  <2>3. ASSUME Inv, Told, [Next]_vars, NEW j \in Job,
               phase[j] # "done", phase'[j] = "done", round[j] > 0
        PROVE  listed'[j.key] = Piece
    <3>1. TypeOK
      BY <2>3 DEF Inv
    <3>2. Finish(j)
      <4>1. ~Crash /\ ~UNCHANGED vars
        BY <2>3 DEF Crash, vars, jobVars
      <4>2. ASSUME NEW i \in Job, NEW w \in Worker, PeerWorker(i, w) PROVE FALSE
        <5>1. phase' = phase
          BY <4>2 DEF PeerWorker, Connect, Take, Retire, FetchFails, Fetched, WriteFails,
                  Written, Mark, Announce, Send, jobVars
        <5>. QED
          BY <2>3, <5>1
      <4>3. ASSUME NEW i \in Job, Start(i) \/ RunJob(i) PROVE Finish(j)
        <5>1. i = j
          BY <2>3, <3>1, <4>3 DEF Start, RunJob, Open, BeginRound, EndRound, Finish, TypeOK
        <5>. QED
          BY <2>3, <3>1, <4>3, <5>1, ZenonT(40) DEF Start, RunJob, Open, BeginRound, EndRound, TypeOK
      <4>. QED
        BY <2>3, <4>1, <4>2, <4>3 DEF Next
    <3>3. Complete(j) /\ phase[j] = "loop" /\ listed' = listed
      BY <2>3, <3>1, <3>2 DEF Finish, TypeOK
    <3>. QED
      BY <2>3, <3>3 DEF Told, Complete
  <2>4. Inv /\ Told /\ [Next]_vars
        => [\A j \in Job :
              /\ phase[j] # "done" /\ phase'[j] = "done" /\ round[j] > 0
              /\ TrackerAnswers = {TRUE}
              => listed'[j.key] = Piece]_vars
    BY <2>3
  <2>. QED
    BY <2>1, <2>2, <2>4, AlwaysInv, PTL DEF Spec, DoneIsAnnounced
<1>2. CASE TrackerAnswers # {TRUE}
  <2>1. [Next]_vars
        => [\A j \in Job :
              /\ phase[j] # "done" /\ phase'[j] = "done" /\ round[j] > 0
              /\ TrackerAnswers = {TRUE}
              => listed'[j.key] = Piece]_vars
    BY <1>2
  <2>. QED
    BY <2>1, PTL DEF Spec, DoneIsAnnounced
<1>. QED
  BY <1>1, <1>2

----------------------------------------------------------------------------
(* Refinement *)

\* The status of job j in VerifiedFiles.
Status(j) == IF Running(j) THEN "running" ELSE phase[j]

LEMMA FilesInit == Init => Files!Init
<1>. SUFFICES ASSUME Init PROVE Files!Init
  OBVIOUS
<1>1. ASSUME NEW j \in Job PROVE OnDisk(j) = {} /\ ~Running(j) /\ phase[j] = "new"
  <2>1. j.dest \in Path /\ j.content # "hole"
    BY NoneAssumption DEF Path, Content
  <2>. QED
    BY <2>1 DEF Init, OnDisk, Running
<1>. QED
  BY <1>1 DEF Files!Init

\* A step that turns the status of one job, and touches no disk.
LEMMA FilesTurn ==
    ASSUME disk' = disk, TypeOK, NEW j \in Job, NEW x, phase' = [phase EXCEPT ![j] = x],
           NEW to, to = Status(j)'
    PROVE  Files!Turn(j, Status(j), to)
<1>1. \A i \in Job : OnDisk(i)' = OnDisk(i)
  BY DEF OnDisk
<1>2. \A i \in Job : Status(i)' = IF i = j THEN to ELSE Status(i)
  BY DEF Status, Running, TypeOK
<1>3. [i \in Job |-> Status(i)'] = [[i \in Job |-> Status(i)] EXCEPT ![j] = to]
  BY <1>2
<1>. QED
  BY <1>1, <1>3 DEF Files!Turn, Status

\* Any other step that keeps the status of all jobs.
LEMMA FilesGain ==
    ASSUME \A i \in Job : OnDisk(i) \subseteq OnDisk(i)', phase' = phase
    PROVE  Files!Gain
<1>1. \A i \in Job : OnDisk(i)' \in SUBSET Piece
  BY DEF OnDisk
<1>. QED
  BY <1>1 DEF Files!Gain, Running

LEMMA FilesNext ==
    ASSUME OneContentPerPath, Inv, MarkedIsWhole, [Next]_vars
    PROVE  [Files!Next]_(Files!vars)
<1>1. TypeOK
  BY DEF Inv
<1>2. \A i \in Job : OnDisk(i) \subseteq OnDisk(i)'
  BY DiskKeeps
<1>3. CASE phase' = phase
  BY <1>2, <1>3, FilesGain DEF Files!Next
<1>4. CASE Crash
  <2>1. \A i \in Job : OnDisk(i)' = OnDisk(i)
    BY <1>4 DEF Crash, OnDisk
  <2>2. \A i \in Job : Status(i)' = IF Status(i) = "new" THEN "new" ELSE "killed"
    BY <1>4 DEF Crash, Status, Running
  <2>3. Files!Crash
    BY <2>1, <2>2 DEF Files!Crash, Status
  <2>. QED
    BY <2>3 DEF Files!Next
<1>5. ASSUME NEW j \in Job, Start(j) PROVE Files!Begin(j)
  <2>1. disk' = disk /\ phase' = [phase EXCEPT ![j] = "open"] /\ phase[j] = "new"
    BY <1>5 DEF Start
  <2>2. Status(j) = "new" /\ Status(j)' = "running"
    BY <1>1, <2>1 DEF Status, Running, TypeOK
  <2>. QED
    BY <1>1, <2>1, <2>2, FilesTurn DEF Files!Begin
<1>6. ASSUME NEW j \in Job, Open(j) \/ BeginRound(j) \/ EndRound(j)
      PROVE  Files!Gain \/ Files!GiveUp(j)
  <2>1. PICK x \in {"loop", "work", "failed"} :
          phase' = phase \/ phase' = [phase EXCEPT ![j] = x]
    BY <1>6 DEF Open, BeginRound, EndRound
  <2>2. disk' = disk /\ Running(j)
    BY <1>6 DEF Open, BeginRound, EndRound, Running
  <2>3. CASE phase' = phase
    BY <1>2, <2>3, FilesGain
  <2>4. CASE phase' = [phase EXCEPT ![j] = x] /\ x # "failed"
    <3>1. \A i \in Job : Status(i)' = Status(i)
      BY <1>1, <2>1, <2>2, <2>4 DEF Status, Running, TypeOK
    <3>2. \A i \in Job : OnDisk(i)' \in SUBSET Piece
      BY DEF OnDisk
    <3>. QED
      BY <1>2, <3>1, <3>2 DEF Files!Gain, Status
  <2>5. CASE phase' = [phase EXCEPT ![j] = x] /\ x = "failed"
    <3>1. Status(j) = "running" /\ Status(j)' = "failed"
      BY <1>1, <2>2, <2>5 DEF Status, Running, TypeOK
    <3>. QED
      BY <1>1, <2>2, <2>5, <3>1, FilesTurn DEF Files!GiveUp
  <2>. QED
    BY <2>1, <2>3, <2>4, <2>5
<1>7. ASSUME NEW j \in Job, Finish(j) PROVE Files!Complete(j) \/ Files!GiveUp(j)
  <2>1. /\ disk' = disk /\ phase[j] = "loop"
        /\ phase' = [phase EXCEPT ![j] = IF Complete(j) THEN "done" ELSE "failed"]
    BY <1>7 DEF Finish
  <2>2. CASE Complete(j)
    <3>1. Status(j) = "running" /\ Status(j)' = "done"
      BY <1>1, <2>1, <2>2 DEF Status, Running, TypeOK
    <3>2. OnDisk(j) = Piece
      BY <2>2 DEF Complete, MarkedIsWhole, OnDisk
    <3>3. Files!Turn(j, "running", "done")
      BY <1>1, <2>1, <3>1, FilesTurn
    <3>. QED
      BY <3>2, <3>3 DEF Files!Complete
  <2>3. CASE ~Complete(j)
    <3>1. Status(j) = "running" /\ Status(j)' = "failed"
      BY <1>1, <2>1, <2>3 DEF Status, Running, TypeOK
    <3>. QED
      BY <1>1, <2>1, <2>3, <3>1, FilesTurn DEF Files!GiveUp
  <2>. QED
    BY <2>2, <2>3
<1>8. ASSUME NEW j \in Job, NEW w \in Worker, PeerWorker(j, w) PROVE phase' = phase
  BY <1>8 DEF PeerWorker, Connect, Take, Retire, FetchFails, Fetched, WriteFails, Written,
              Mark, Announce, Send, jobVars
<1>9. UNCHANGED vars => phase' = phase
  BY DEF vars, jobVars
<1>10. CASE \E j \in Job : Start(j) \/ RunJob(j)
  BY <1>5, <1>6, <1>7, <1>10 DEF RunJob, Files!Next
<1>. QED
  BY <1>3, <1>4, <1>8, <1>9, <1>10 DEF Next

\* The downloads implement VerifiedFiles, if downloads to one path agree on the
\* file: pieces verified on disk are never lost again, and a download is
\* reported done only with all of them.
THEOREM ImplementsVerifiedFiles ==
    ASSUME OneContentPerPath
    PROVE  Spec => KeepsItsProgress
<1>1. Inv /\ MarkedIsWhole /\ [Next]_vars => [Files!Next]_(Files!vars)
  BY FilesNext
<1>. QED
  BY <1>1, FilesInit, AlwaysInv, MarkedIsWholeAlways, PTL DEF Spec, KeepsItsProgress, Files!Spec

=============================================================================
