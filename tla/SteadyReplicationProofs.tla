---------------------- MODULE SteadyReplicationProofs ----------------------
(***************************************************************************)
(* With one session on one tracker and a link that stays up, Replication   *)
(* is the asynchronous replica of AsyncReplica: every step is one of its   *)
(* steps or changes nothing it knows of.  The replica refuses none of the  *)
(* operations, and agrees with the primary whenever it has caught up.      *)
(***************************************************************************)
EXTENDS SteadyReplication, ReplicationProofs

----------------------------------------------------------------------------
(* The end of a log *)

\* The entries above a number from which on the log is complete.
LEMMA AfterLog ==
    ASSUME NEW log \in Seq(Entry), NEW next \in Nat, NEW seq \in Nat,
           Numbering(log, next), next - 1 - Len(log) <= seq, seq < next
    PROVE  /\ After(log, seq) \in Seq(Entry)
           /\ Len(After(log, seq)) = next - 1 - seq
           /\ \A i \in 1..(next - 1 - seq) :
                /\ After(log, seq)[i] = log[Len(log) - (next - 1 - seq) + i]
                /\ After(log, seq)[i].seq = seq + i
<1>. DEFINE n == Len(log)
            k == next - 1 - seq
            later == {i \in 1..(n + 1) : i > n \/ log[i].seq > seq}
            start == n - k + 1
<1>1. n \in Nat /\ k \in 0..n
  BY LenProperties
<1>2. \A i \in 1..n : log[i].seq = next - 1 - (n - i)
  BY DEF Numbering
<1>3. start \in 1..(n + 1)
  BY <1>1
<1>4. \A i \in 1..(n + 1) : i \in later <=> i >= start
  <2>. SUFFICES ASSUME NEW i \in 1..(n + 1) PROVE i \in later <=> i >= start
    OBVIOUS
  <2>1. CASE i = n + 1
    BY <1>1, <2>1
  <2>2. CASE i \in 1..n
    <3>1. log[i].seq > seq <=> i >= start
      BY <1>1, <1>2, <2>2
    <3>. HIDE DEF n, start
    <3>. QED
      BY <1>1, <2>2, <3>1
  <2>. QED
    BY <1>1, <2>1, <2>2
<1>. HIDE DEF later
<1>5. later \subseteq Nat /\ later # {}
  BY <1>1, <1>3, <1>4 DEF later
<1>6. Smallest(later) \in later /\ \A x \in later : Smallest(later) <= x
  BY <1>5, SmallestIsLeast
<1>7. Smallest(later) = start
  <2>1. start \in later
    BY <1>3, <1>4
  <2>2. Smallest(later) \in 1..(n + 1)
    BY <1>6 DEF later
  <2>3. Smallest(later) >= start /\ Smallest(later) <= start
    BY <1>4, <1>6, <2>1, <2>2
  <2>. QED
    BY <1>1, <1>3, <2>2, <2>3
<1>8. After(log, seq) = SubSeq(log, start, n)
  BY <1>7 DEF After, later
<1>. DEFINE rest == SubSeq(log, start, n)
<1>9. /\ rest \in Seq(Entry) /\ Len(rest) = n + 1 - start
      /\ \A i \in 1..Len(rest) : rest[i] = log[start + i - 1]
  BY <1>1, <1>3, SubSeqProperties
<1>. HIDE DEF rest
<1>10. Len(rest) = k
  BY <1>1, <1>9
<1>11. ASSUME NEW i \in 1..k
       PROVE  rest[i] = log[n - k + i] /\ rest[i].seq = seq + i
  <2>1. start + i - 1 = n - k + i /\ n - k + i \in 1..n
    BY <1>1
  <2>2. rest[i] = log[n - k + i]
    BY <1>9, <1>10, <2>1
  <2>3. log[n - k + i].seq = next - 1 - (n - (n - k + i))
    BY <1>2, <2>1
  <2>4. next - 1 - (n - (n - k + i)) = seq + i
    BY <1>1
  <2>. QED
    BY <2>2, <2>3, <2>4
<1>. QED
  BY <1>8, <1>9, <1>10, <1>11 DEF rest

\* Two sequences with the same elements.
LEMMA SameSeq ==
    ASSUME NEW S, NEW s \in Seq(S), NEW t \in Seq(S), Len(s) = Len(t),
           \A i \in 1..Len(s) : s[i] = t[i]
    PROVE  s = t
  BY SeqEqual

\* A new entry is at the end.
LEMMA AfterAppend ==
    ASSUME NEW log \in Seq(Entry), NEW next \in Nat, NEW seq \in Nat,
           Numbering(log, next), next - 1 - Len(log) <= seq, seq < next,
           NEW entry \in Entry, entry.seq = next
    PROVE  After(Append(log, entry), seq) = Append(After(log, seq), entry)
<1>. DEFINE longer == Append(log, entry)
            n == Len(log)
            k == next - 1 - seq
<1>1. /\ longer \in Seq(Entry) /\ Len(longer) = n + 1 /\ n \in Nat /\ k \in 0..n
      /\ longer[n + 1] = entry /\ \A i \in 1..n : longer[i] = log[i]
  BY LenProperties, AppendProperties
<1>2. Numbering(longer, next + 1)
  BY NumberingAppend
<1>. HIDE DEF longer
<1>3. /\ After(log, seq) \in Seq(Entry) /\ Len(After(log, seq)) = k
      /\ \A i \in 1..k : After(log, seq)[i] = log[n - k + i]
  BY AfterLog
<1>4. /\ After(longer, seq) \in Seq(Entry) /\ Len(After(longer, seq)) = k + 1
      /\ \A i \in 1..(k + 1) : After(longer, seq)[i] = longer[n - k + i]
  <2>1. next + 1 - 1 - Len(longer) <= seq /\ seq < next + 1 /\ next + 1 \in Nat
        /\ next + 1 - 1 - seq = k + 1 /\ Len(longer) - (k + 1) = n - k
    BY <1>1
  <2>. DEFINE up == next + 1
  <2>2. up \in Nat /\ Numbering(longer, up) /\ up - 1 - Len(longer) <= seq /\ seq < up
    BY <1>2, <2>1
  <2>. HIDE DEF n, k, up
  <2>3. /\ After(longer, seq) \in Seq(Entry)
        /\ Len(After(longer, seq)) = up - 1 - seq
        /\ \A i \in 1..(up - 1 - seq) :
             After(longer, seq)[i] = longer[Len(longer) - (up - 1 - seq) + i]
    BY <1>1, <2>2, AfterLog
  <2>. QED
    BY <2>1, <2>3 DEF up
<1>. DEFINE rest == Append(After(log, seq), entry)
<1>5. /\ rest \in Seq(Entry) /\ Len(rest) = k + 1 /\ rest[k + 1] = entry
      /\ \A i \in 1..k : rest[i] = log[n - k + i]
  BY <1>1, <1>3, AppendProperties
<1>. HIDE DEF rest
<1>6. ASSUME NEW i \in 1..(k + 1) PROVE After(longer, seq)[i] = rest[i]
  <2>1. CASE i \in 1..k
    <3>1. n - k + i \in 1..n
      BY <1>1, <2>1
    <3>. QED
      BY <1>1, <1>4, <1>5, <2>1, <3>1
  <2>2. CASE i = k + 1
    <3>1. n - k + i = n + 1
      BY <1>1, <2>2
    <3>. QED
      BY <1>1, <1>4, <1>5, <2>2, <3>1
  <2>. QED
    BY <1>1, <2>1, <2>2
<1>7. After(longer, seq) = rest
  BY <1>4, <1>5, <1>6, SameSeq
<1>. QED
  BY <1>7 DEF longer, rest

\* The first one is gone when it has been applied.
LEMMA AfterTail ==
    ASSUME NEW log \in Seq(Entry), NEW next \in Nat, NEW seq \in Nat,
           Numbering(log, next), next - 1 - Len(log) <= seq, seq + 1 < next
    PROVE  /\ After(log, seq) # <<>>
           /\ Head(After(log, seq)).seq = seq + 1
           /\ After(log, seq + 1) = Tail(After(log, seq))
<1>. DEFINE n == Len(log)
            k == next - 1 - seq
            all == After(log, seq)
            rest == After(log, seq + 1)
<1>1. n \in Nat /\ k \in 1..n
  BY LenProperties
<1>2. /\ all \in Seq(Entry) /\ Len(all) = k
      /\ \A i \in 1..k : all[i] = log[n - k + i] /\ all[i].seq = seq + i
  BY AfterLog
<1>3. /\ rest \in Seq(Entry) /\ Len(rest) = k - 1
      /\ \A i \in 1..(k - 1) : rest[i] = log[n - (k - 1) + i]
  <2>1. next - 1 - Len(log) <= seq + 1 /\ next - 1 - (seq + 1) = k - 1 /\ seq + 1 \in Nat
    BY <1>1
  <2>. HIDE DEF n, k
  <2>. QED
    BY <2>1, AfterLog DEF n
<1>. HIDE DEF all, rest
<1>4. all # <<>> /\ Head(all) = all[1]
  BY <1>1, <1>2
<1>5. Tail(all) \in Seq(Entry) /\ Len(Tail(all)) = k - 1
      /\ \A i \in 1..(k - 1) : Tail(all)[i] = all[i + 1]
  BY <1>1, <1>2, <1>4, HeadTailProperties
<1>6. ASSUME NEW i \in 1..(k - 1) PROVE rest[i] = Tail(all)[i]
  <2>1. i + 1 \in 1..k /\ n - k + (i + 1) = n - (k - 1) + i
    BY <1>1
  <2>2. all[i + 1] = log[n - k + (i + 1)]
    BY <1>2, <2>1
  <2>. QED
    BY <1>3, <1>5, <2>1, <2>2
<1>7. rest = Tail(all)
  BY <1>3, <1>5, <1>6, SameSeq
<1>8. all[1].seq = seq + 1
  BY <1>1, <1>2
<1>. QED
  BY <1>4, <1>7, <1>8 DEF all, rest

\* An ACK trims nothing that has not been applied.
LEMMA AfterAfter ==
    ASSUME NEW log \in Seq(Entry), NEW next \in Nat, NEW seq \in Nat, NEW ack \in Nat,
           Numbering(log, next), next - 1 - Len(log) <= seq, seq < next, ack <= seq
    PROVE  /\ After(After(log, ack), seq) = After(log, seq)
           /\ next - 1 - Len(After(log, ack)) <= seq
<1>. DEFINE rest == After(log, ack)
            n == Len(log)
            m == Len(rest)
            k == next - 1 - seq
<1>1. rest \in Seq(Entry) /\ Numbering(rest, next)
  BY AfterSeq, NumberingAfter
<1>2. PICK first \in 1..(n + 1) : rest = SubSeq(log, first, n)
  BY AfterType
<1>3. n \in Nat /\ m = n + 1 - first /\ \A i \in 1..m : rest[i] = log[first + i - 1]
  BY <1>2, LenProperties, SubSeqProperties
<1>4. next - 1 - m <= seq
  <2>1. m = n \/ next - 1 - m = ack
    BY TrimmedUpTo
  <2>2. m \in Nat
    BY <1>3
  <2>. HIDE DEF m
  <2>. QED
    BY <2>1, <2>2
<1>. HIDE DEF rest
<1>5. /\ After(log, seq) \in Seq(Entry) /\ Len(After(log, seq)) = k
      /\ \A i \in 1..k : After(log, seq)[i] = log[n - k + i]
  BY AfterLog
<1>6. /\ After(rest, seq) \in Seq(Entry) /\ Len(After(rest, seq)) = k
      /\ \A i \in 1..k : After(rest, seq)[i] = rest[m - k + i]
  BY <1>1, <1>4, AfterLog
<1>7. ASSUME NEW i \in 1..k PROVE After(rest, seq)[i] = After(log, seq)[i]
  <2>1. m - k + i \in 1..m /\ first + (m - k + i) - 1 = n - k + i
    BY <1>3, <1>4
  <2>2. rest[m - k + i] = log[first + (m - k + i) - 1]
    BY <1>3, <2>1
  <2>. QED
    BY <1>5, <1>6, <2>1, <2>2
<1>8. After(rest, seq) = After(log, seq)
  BY <1>5, <1>6, <1>7, SameSeq
<1>. QED
  BY <1>4, <1>8 DEF rest

----------------------------------------------------------------------------
(* The operations of a log *)

Ops(s) == [i \in DOMAIN s |-> s[i].op]

\* They are as many, in the same order.
LEMMA OpsType ==
    ASSUME NEW s \in Seq(Entry)
    PROVE  /\ Ops(s) \in Seq(Op) /\ Len(Ops(s)) = Len(s)
           /\ \A i \in 1..Len(s) : Ops(s)[i] = s[i].op
<1>1. Len(s) \in Nat /\ DOMAIN s = 1..Len(s)
  BY LenProperties
<1>2. \A i \in 1..Len(s) : s[i].op \in Op
  <2>1. \A entry \in Entry : entry.op \in Op
    BY DEF Entry
  <2>2. \A i \in 1..Len(s) : s[i] \in Entry
    BY ElementOfSeq
  <2>. QED
    BY <2>1, <2>2
<1>3. Ops(s) \in [1..Len(s) -> Op]
  BY <1>1, <1>2 DEF Ops
<1>4. Ops(s) \in Seq(Op)
  BY <1>1, <1>3, SeqDef
<1>5. Len(Ops(s)) = Len(s)
  BY <1>1, <1>3, <1>4, LenProperties
<1>. QED
  BY <1>1, <1>4, <1>5 DEF Ops

\* One more entry, one more operation.
LEMMA OpsAppend ==
    ASSUME NEW s \in Seq(Entry), NEW entry \in Entry
    PROVE  Ops(Append(s, entry)) = Append(Ops(s), entry.op)
<1>. DEFINE longer == Append(s, entry)
            ops == Append(Ops(s), entry.op)
            n == Len(s)
<1>1. /\ longer \in Seq(Entry) /\ Len(longer) = n + 1 /\ n \in Nat
      /\ longer[n + 1] = entry /\ \A i \in 1..n : longer[i] = s[i]
  BY LenProperties, AppendProperties
<1>2. Ops(s) \in Seq(Op) /\ Len(Ops(s)) = n /\ \A i \in 1..n : Ops(s)[i] = s[i].op
  BY OpsType
<1>3. entry.op \in Op
  BY DEF Entry
<1>4. /\ ops \in Seq(Op) /\ Len(ops) = n + 1 /\ ops[n + 1] = entry.op
      /\ \A i \in 1..n : ops[i] = s[i].op
  BY <1>2, <1>3, AppendProperties
<1>. HIDE DEF longer, ops, n
<1>5. /\ Ops(longer) \in Seq(Op) /\ Len(Ops(longer)) = n + 1
      /\ \A i \in 1..(n + 1) : Ops(longer)[i] = longer[i].op
  BY <1>1, OpsType
<1>6. ASSUME NEW i \in 1..(n + 1) PROVE Ops(longer)[i] = ops[i]
  <2>1. CASE i = n + 1
    BY <1>1, <1>4, <1>5, <2>1
  <2>2. CASE i \in 1..n
    BY <1>1, <1>4, <1>5, <2>2
  <2>. QED
    BY <1>1, <2>1, <2>2
<1>7. Ops(longer) = ops
  BY <1>4, <1>5, <1>6, SameSeq
<1>. QED
  BY <1>7 DEF longer, ops

\* One entry less, from the front.
LEMMA OpsTail ==
    ASSUME NEW s \in Seq(Entry), s # <<>>
    PROVE  Ops(s) # <<>> /\ Head(Ops(s)) = Head(s).op /\ Ops(Tail(s)) = Tail(Ops(s))
<1>. DEFINE rest == Tail(s)
            n == Len(s)
<1>1. /\ n \in Nat /\ n # 0 /\ Head(s) = s[1]
      /\ rest \in Seq(Entry) /\ Len(rest) = n - 1
      /\ \A i \in 1..(n - 1) : rest[i] = s[i + 1]
  BY LenProperties, EmptySeq, HeadTailProperties
<1>2. Ops(s) \in Seq(Op) /\ Len(Ops(s)) = n /\ \A i \in 1..n : Ops(s)[i] = s[i].op
  BY OpsType
<1>3. Ops(s) # <<>>
  BY <1>1, <1>2
<1>4. /\ Head(Ops(s)) = Ops(s)[1]
      /\ Tail(Ops(s)) \in Seq(Op) /\ Len(Tail(Ops(s))) = n - 1
      /\ \A i \in 1..(n - 1) : Tail(Ops(s))[i] = Ops(s)[i + 1]
  BY <1>2, <1>3, HeadTailProperties
<1>. HIDE DEF rest, n
<1>5. /\ Ops(rest) \in Seq(Op) /\ Len(Ops(rest)) = n - 1
      /\ \A i \in 1..(n - 1) : Ops(rest)[i] = rest[i].op
  BY <1>1, OpsType
<1>6. ASSUME NEW i \in 1..(n - 1) PROVE Ops(rest)[i] = Tail(Ops(s))[i]
  <2>1. i + 1 \in 1..n
    BY <1>1
  <2>. QED
    BY <1>1, <1>2, <1>4, <1>5, <2>1
<1>7. Ops(rest) = Tail(Ops(s))
  BY <1>4, <1>5, <1>6, SameSeq
<1>8. Head(Ops(s)) = Head(s).op
  BY <1>1, <1>2, <1>4
<1>. QED
  BY <1>3, <1>7, <1>8 DEF rest

----------------------------------------------------------------------------
(* The promise *)

GoodState == {S \in State : Consistent(S)}

\* The replica accepts the operations of the backlog one by one, and agrees with
\* the primary after the last.
Chain(primary, backlog, replica) ==
    \E stage \in [0..Len(backlog) -> GoodState] :
        /\ stage[0] = replica
        /\ Agree(primary, stage[Len(backlog)])
        /\ \A i \in 1..Len(backlog) :
             /\ apply_remote(stage[i - 1], backlog[i]).ok
             /\ stage[i] = apply_remote(stage[i - 1], backlog[i]).state

\* With nothing to replay, they agree.
LEMMA ChainEnd ==
    ASSUME NEW primary, NEW replica
    PROVE  Chain(primary, <<>>, replica) <=> replica \in GoodState /\ Agree(primary, replica)
<1>1. Len(<<>>) = 0 /\ 0..0 = {0} /\ 1..0 = {}
  OBVIOUS
<1>2. ASSUME Chain(primary, <<>>, replica)
      PROVE  replica \in GoodState /\ Agree(primary, replica)
  BY <1>1, <1>2 DEF Chain
<1>3. ASSUME replica \in GoodState, Agree(primary, replica)
      PROVE  Chain(primary, <<>>, replica)
  <2>. DEFINE stage == [i \in {0} |-> replica]
  <2>1. stage \in [{0} -> GoodState] /\ stage[0] = replica
    BY <1>3
  <2>. HIDE DEF stage
  <2>. QED
    BY <1>1, <1>3, <2>1 DEF Chain
<1>. QED
  BY <1>2, <1>3

\* The primary executes an operation.
LEMMA ChainApply ==
    ASSUME NEW primary \in GoodState, NEW backlog \in Seq(Op), NEW replica,
           Chain(primary, backlog, replica),
           NEW op \in Op, Execute(primary, op).status = "OK"
    PROVE  Chain(Execute(primary, op).state, Append(backlog, op), replica)
<1>. DEFINE n == Len(backlog)
            longer == Append(backlog, op)
<1>1. /\ n \in Nat /\ longer \in Seq(Op) /\ Len(longer) = n + 1
      /\ longer[n + 1] = op /\ \A i \in 1..n : longer[i] = backlog[i]
  BY LenProperties, AppendProperties
<1>2. PICK stage \in [0..n -> GoodState] :
        /\ stage[0] = replica
        /\ Agree(primary, stage[n])
        /\ \A i \in 1..n : /\ apply_remote(stage[i - 1], backlog[i]).ok
                           /\ stage[i] = apply_remote(stage[i - 1], backlog[i]).state
  BY DEF Chain
<1>. DEFINE last == apply_remote(stage[n], op)
<1>3. stage[n] \in GoodState
  BY <1>1, <1>2
<1>4. last.ok /\ Agree(Execute(primary, op).state, last.state)
  BY <1>2, <1>3, ExecuteReplays DEF GoodState
<1>5. last.state \in GoodState
  BY <1>3, apply_remoteGood DEF GoodState, Good, Preserves
<1>. DEFINE next == [i \in 0..(n + 1) |-> IF i = n + 1 THEN last.state ELSE stage[i]]
<1>. HIDE DEF longer, last, n
<1>6. /\ next \in [0..(n + 1) -> GoodState] /\ next[n + 1] = last.state
      /\ \A i \in 0..n : next[i] = stage[i]
  BY <1>1, <1>2, <1>5
<1>. HIDE DEF next
<1>7. ASSUME NEW i \in 1..(n + 1)
      PROVE  /\ apply_remote(next[i - 1], longer[i]).ok
             /\ next[i] = apply_remote(next[i - 1], longer[i]).state
  <2>1. CASE i = n + 1
    <3>1. next[i - 1] = stage[n] /\ longer[i] = op /\ next[i] = last.state
      BY <1>1, <1>6, <2>1
    <3>. QED
      BY <1>4, <3>1 DEF last
  <2>2. CASE i \in 1..n
    <3>1. next[i - 1] = stage[i - 1] /\ longer[i] = backlog[i] /\ next[i] = stage[i]
      BY <1>1, <1>6, <2>2
    <3>. QED
      BY <1>2, <2>2, <3>1
  <2>. QED
    BY <1>1, <2>1, <2>2
<1>8. next[0] = replica
  BY <1>1, <1>2, <1>6
<1>9. Agree(Execute(primary, op).state, next[n + 1])
  BY <1>4, <1>6
<1>10. Chain(Execute(primary, op).state, longer, replica)
  BY <1>1, <1>6, <1>7, <1>8, <1>9 DEF Chain
<1>. QED
  BY <1>10 DEF longer

\* The replica replays one.
LEMMA ChainReplay ==
    ASSUME NEW primary, NEW backlog \in Seq(Op), NEW replica,
           Chain(primary, backlog, replica), backlog # <<>>
    PROVE  LET result == apply_remote(replica, Head(backlog))
           IN  result.ok /\ Chain(primary, Tail(backlog), result.state)
<1>. DEFINE n == Len(backlog)
            rest == Tail(backlog)
            result == apply_remote(replica, Head(backlog))
<1>1. /\ n \in Nat /\ n # 0 /\ Head(backlog) = backlog[1]
      /\ rest \in Seq(Op) /\ Len(rest) = n - 1
      /\ \A i \in 1..(n - 1) : rest[i] = backlog[i + 1]
  BY LenProperties, EmptySeq, HeadTailProperties
<1>2. PICK stage \in [0..n -> GoodState] :
        /\ stage[0] = replica
        /\ Agree(primary, stage[n])
        /\ \A i \in 1..n : /\ apply_remote(stage[i - 1], backlog[i]).ok
                           /\ stage[i] = apply_remote(stage[i - 1], backlog[i]).state
  BY DEF Chain
<1>3. result.ok /\ stage[1] = result.state
  <2>1. 1 \in 1..n /\ 1 - 1 = 0
    BY <1>1
  <2>. QED
    BY <1>1, <1>2, <2>1
<1>. DEFINE next == [i \in 0..(n - 1) |-> stage[i + 1]]
<1>. HIDE DEF rest, n, result
<1>4. /\ next \in [0..(n - 1) -> GoodState]
      /\ \A i \in 0..(n - 1) : next[i] = stage[i + 1]
  BY <1>1, <1>2
<1>. HIDE DEF next
<1>5. ASSUME NEW i \in 1..(n - 1)
      PROVE  /\ apply_remote(next[i - 1], rest[i]).ok
             /\ next[i] = apply_remote(next[i - 1], rest[i]).state
  <2>1. i + 1 \in 1..n /\ (i + 1) - 1 = i
    BY <1>1
  <2>2. next[i - 1] = stage[i] /\ rest[i] = backlog[i + 1] /\ next[i] = stage[i + 1]
    <3>1. i - 1 \in 0..(n - 1) /\ (i - 1) + 1 = i /\ i \in 0..(n - 1)
      BY <1>1
    <3>. QED
      BY <1>1, <1>4, <3>1
  <2>. QED
    BY <1>2, <2>1, <2>2
<1>6. next[0] = stage[1] /\ next[n - 1] = stage[n]
  BY <1>1, <1>4
<1>7. Chain(primary, rest, result.state)
  <2>1. /\ next \in [0..Len(rest) -> GoodState]
        /\ next[0] = result.state
        /\ Agree(primary, next[Len(rest)])
    BY <1>1, <1>2, <1>3, <1>4, <1>6
  <2>2. \A i \in 1..Len(rest) :
           /\ apply_remote(next[i - 1], rest[i]).ok
           /\ next[i] = apply_remote(next[i - 1], rest[i]).state
    BY <1>1, <1>5
  <2>. QED
    BY <2>1, <2>2 DEF Chain
<1>. QED
  BY <1>3, <1>7 DEF rest, result

----------------------------------------------------------------------------
(* The invariant *)

\* Clients use one tracker, over one session, and there is a link.
OneClient ==
    /\ \E t \in Tracker : Active = {t}
    /\ \E w : Worker = {w}
    /\ 1 \in Link

There == Other(Primary)
Client == CHOOSE w \in Worker : TRUE

\* Where the session is, what it has sent and not been read, and the entries the
\* other tracker has not applied.
Serving == worker[Primary][Client]
Sent == link[1].chan[Primary]
Pending == After(node[Primary].log, node[There].applied_peer_seq)

\* The link is as it was in the beginning, and there is no other.
Linked ==
    /\ dialer = [pc |-> "read", fd |-> 1]
    /\ link[1].up /\ link[1].server = "peer"
    /\ \A l \in Link : l # 1 => link[l] = UnusedLink
    /\ \A t \in Tracker : node[t].out_fd = 1

Acks(seq) == [type: {"ACK"}, seq: 1..seq]

\* The other tracker does nothing but acknowledge what it has applied.
OneSided ==
    /\ worker[There][Client] = Idle
    /\ link[1].outbox[Primary] = <<>>
    /\ link[1].chan[There] \in Seq(Acks(node[There].applied_peer_seq))
    /\ link[1].outbox[There] \in Seq(Acks(node[There].applied_peer_seq))

\* Nothing has been trimmed that has not been applied.
Kept(log, next, applied) == next - 1 - Len(log) <= applied /\ applied < next

\* What is pending is on the link in the order of the log, but for the entry the
\* session is about to send.
InFlight(pending, sent, rec) ==
    /\ rec.pc = "send" =>
         /\ Len(sent) = Len(pending) - 1
         /\ rec.fd = 1
         /\ rec.entry = pending[Len(pending)]
    /\ rec.pc # "send" => Len(sent) = Len(pending)
    /\ \A i \in 1..Len(sent) : sent[i] = OpMessage(pending[i])

LinkInv ==
    /\ Linked
    /\ OneSided
    /\ Kept(node[Primary].log, node[Primary].next_seq, node[There].applied_peer_seq)
    /\ InFlight(Pending, Sent, Serving)

SteadyInv ==
    /\ SafeInv
    /\ LogIsSuffix
    /\ LinkInv
    /\ Chain(node[Primary].state, Backlog, node[There].state)

\* Who is who.
LEMMA Parties ==
    ASSUME OneClient
    PROVE  /\ Primary \in Tracker /\ There \in Tracker /\ There # Primary
           /\ Other(There) = Primary /\ Other(Primary) = There
           /\ \A t \in Tracker : t = Primary \/ t = There
           /\ Active = {Primary} /\ Worker = {Client} /\ 1 \in Link
<1>1. PICK t \in Tracker : Active = {t}
  BY DEF OneClient
<1>2. Primary = t
  BY <1>1 DEF Primary
<1>3. PICK w : Worker = {w}
  BY DEF OneClient
<1>4. Client = w
  BY <1>3 DEF Client
<1>. QED
  BY <1>1, <1>2, <1>3, <1>4 DEF OneClient, There, Other, Tracker, Dialer, Acceptor

\* The backlog, with the one session there is.
BacklogOf(pending, rec) ==
    IF rec.pc = "record" THEN Append(Ops(pending), rec.op) ELSE Ops(pending)

\* It is what is pending, and the operation the session is about to record.
LEMMA BacklogIs ==
    ASSUME OneClient, Pending \in Seq(Entry)
    PROVE  Backlog = BacklogOf(Pending, Serving)
<1>. DEFINE late == {w \in Worker : worker[Primary][w].pc = "record"}
<1>1. Worker = {Client} /\ Other(Primary) = There
  BY Parties
<1>2. Ops(Pending) \in Seq(Op)
  BY OpsType
<1>3. Backlog = Ops(Pending) \o (IF late = {} THEN <<>>
                                 ELSE <<worker[Primary][CHOOSE w \in late : TRUE].op>>)
  BY <1>1 DEF Backlog, Ops, Pending
<1>4. CASE Serving.pc = "record"
  <2>1. late = {Client}
    BY <1>1, <1>4 DEF Serving
  <2>2. (CHOOSE w \in late : TRUE) = Client
    BY <2>1
  <2>3. Backlog = Ops(Pending) \o <<Serving.op>>
    BY <1>3, <2>1, <2>2 DEF Serving
  <2>. QED
    BY <1>2, <1>4, <2>3, AppendIsConcat DEF BacklogOf
<1>5. CASE Serving.pc # "record"
  <2>1. late = {}
    BY <1>1, <1>5 DEF Serving
  <2>2. Backlog = Ops(Pending) \o <<>>
    BY <1>3, <2>1
  <2>. QED
    BY <1>2, <1>5, <2>2, ConcatEmptySeq DEF BacklogOf
<1>. QED
  BY <1>4, <1>5

\* The same of the state after a step.
LEMMA BacklogIsNext ==
    ASSUME OneClient, Pending' \in Seq(Entry)
    PROVE  Backlog' = BacklogOf(Pending', Serving')
<1>. DEFINE late == {w \in Worker : worker'[Primary][w].pc = "record"}
<1>1. Worker = {Client} /\ Other(Primary) = There
  BY Parties
<1>2. Ops(Pending') \in Seq(Op)
  BY OpsType
<1>3. Backlog' = Ops(Pending') \o (IF late = {} THEN <<>>
                                   ELSE <<worker'[Primary][CHOOSE w \in late : TRUE].op>>)
  BY <1>1 DEF Backlog, Ops, Pending
<1>4. CASE Serving'.pc = "record"
  <2>1. late = {Client}
    BY <1>1, <1>4 DEF Serving
  <2>2. (CHOOSE w \in late : TRUE) = Client
    BY <2>1
  <2>3. Backlog' = Ops(Pending') \o <<Serving'.op>>
    BY <1>3, <2>1, <2>2 DEF Serving
  <2>. QED
    BY <1>2, <1>4, <2>3, AppendIsConcat DEF BacklogOf
<1>5. CASE Serving'.pc # "record"
  <2>1. late = {}
    BY <1>1, <1>5 DEF Serving
  <2>2. Backlog' = Ops(Pending') \o <<>>
    BY <1>3, <2>1
  <2>. QED
    BY <1>2, <1>5, <2>2, ConcatEmptySeq DEF BacklogOf
<1>. QED
  BY <1>4, <1>5

\* What the invariant says of the two trackers and of the log.
LEMMA Here ==
    ASSUME OneClient, SteadyInv
    PROVE  /\ node[Primary].log \in Seq(Entry)
           /\ node[Primary].next_seq \in Nat \ {0}
           /\ node[There].applied_peer_seq \in Nat
           /\ Numbering(node[Primary].log, node[Primary].next_seq)
           /\ node[Primary].state \in GoodState /\ node[There].state \in GoodState
           /\ Pending \in Seq(Entry)
           /\ Len(Pending) = node[Primary].next_seq - 1 - node[There].applied_peer_seq
           /\ \A i \in 1..Len(Pending) :
                Pending[i].seq = node[There].applied_peer_seq + i
           /\ Sent \in Seq(SafeMessage) /\ Serving \in WorkerRecord
<1>1. Primary \in Tracker /\ There \in Tracker /\ 1 \in Link /\ Client \in Worker
  BY Parties
<1>2. SafeInv /\ LogIsSuffix
      /\ Kept(node[Primary].log, node[Primary].next_seq, node[There].applied_peer_seq)
  BY DEF SteadyInv, LinkInv
<1>3. /\ node[Primary].log \in Seq(Entry)
      /\ node[Primary].next_seq \in Nat \ {0}
      /\ node[There].applied_peer_seq \in Nat
      /\ node[Primary].state \in GoodState /\ node[There].state \in GoodState
  BY <1>1, <1>2, NodeState DEF GoodState, Good
<1>4. Numbering(node[Primary].log, node[Primary].next_seq)
  BY <1>1, <1>2, LogSplit
<1>5. /\ Pending \in Seq(Entry)
      /\ Len(Pending) = node[Primary].next_seq - 1 - node[There].applied_peer_seq
      /\ \A i \in 1..Len(Pending) : Pending[i].seq = node[There].applied_peer_seq + i
  <2>. DEFINE log == node[Primary].log
              next == node[Primary].next_seq
              seq == node[There].applied_peer_seq
  <2>1. /\ log \in Seq(Entry) /\ next \in Nat /\ seq \in Nat
        /\ Numbering(log, next) /\ next - 1 - Len(log) <= seq /\ seq < next
    BY <1>2, <1>3, <1>4 DEF Kept
  <2>. HIDE DEF log, next, seq
  <2>2. /\ After(log, seq) \in Seq(Entry)
        /\ Len(After(log, seq)) = next - 1 - seq
        /\ \A i \in 1..(next - 1 - seq) : After(log, seq)[i].seq = seq + i
    BY <2>1, AfterLog
  <2>3. After(log, seq) = Pending
    BY DEF log, seq, Pending
  <2>. QED
    BY <2>2, <2>3 DEF next, seq
<1>6. Sent \in Seq(SafeMessage) /\ Serving \in WorkerRecord
  BY <1>1, <1>2 DEF SafeInv, SafeLink, Sent, Serving
<1>. QED
  BY <1>3, <1>4, <1>5, <1>6

\* A step of a thread is one of the session, of the tracker that applies what
\* comes in, or of the one that reads its ACKs.
LEMMA StepKinds ==
    ASSUME OneClient, SteadyInv, Threads
    PROVE  \/ ClientRequest(Primary, Client)
           \/ RecordOp(Primary, Client)
           \/ SendOp(Primary, Client)
           \/ Flush(1, There)
           \/ ReceiveOp(1, There)
           \/ ReceiveAck(1, Primary)
<1>1. /\ Primary \in Tracker /\ There \in Tracker /\ There # Primary
      /\ Other(There) = Primary /\ Other(Primary) = There
      /\ \A t \in Tracker : t = Primary \/ t = There
      /\ Active = {Primary} /\ Worker = {Client} /\ 1 \in Link
  BY Parties
<1>2. Linked /\ OneSided /\ InFlight(Pending, Sent, Serving) /\ Sent \in Seq(SafeMessage)
  BY Here DEF SteadyInv, LinkInv
<1>3. ASSUME NEW t \in Tracker, NEW w \in Worker, Session(t, w)
      PROVE  \/ ClientRequest(Primary, Client)
             \/ RecordOp(Primary, Client)
             \/ SendOp(Primary, Client)
  <2>1. w = Client
    BY <1>1
  <2>2. t # There
    <3>1. ~ClientRequest(There, Client)
      BY <1>1 DEF ClientRequest
    <3>2. worker[There][Client].pc = "idle"
      BY <1>2 DEF OneSided, Idle
    <3>. QED
      BY <1>3, <2>1, <3>1, <3>2 DEF Session, RecordOp, SendOp
  <2>. QED
    BY <1>1, <1>3, <2>1, <2>2 DEF Session
<1>4. ~ConnectLoop
  <2>1. dialer.pc = "read" /\ dialer.fd = 1
    BY <1>2 DEF Linked
  <2>2. ASSUME NEW l \in Link, DialerHangup(l) PROVE FALSE
    <3>1. dialer = [pc |-> "read", fd |-> l]
      BY <2>2 DEF DialerHangup, Reading
    <3>2. l = 1
      BY <2>1, <3>1
    <3>. QED
      BY <1>2, <2>2, <3>2 DEF DialerHangup, Linked
  <2>. QED
    BY <2>1, <2>2 DEF ConnectLoop, SendHello, Ask, Dial
<1>5. ASSUME NEW l \in Link, Listener(l) PROVE FALSE
  <2>1. CASE l = 1
    BY <1>2, <1>5, <2>1
    DEF Listener, AcceptPeer, LastReceive, TakenForClient, ServePeer, ServerHangup, Linked
  <2>2. CASE l # 1
    <3>1. link[l].server = "none"
      BY <1>2, <2>2 DEF Linked, UnusedLink
    <3>2. ~Reading(l, Acceptor)
      BY <3>1 DEF Reading, Dialer, Acceptor
    <3>. QED
      BY <1>5, <3>1, <3>2 DEF Listener, AcceptPeer, LastReceive, TakenForClient, ServePeer, ServerHangup
  <2>. QED
    BY <2>1, <2>2
<1>6. ASSUME NEW l \in Link, NEW t \in Tracker, ProcessPeerMessage(l, t)
      PROVE  Flush(1, There) \/ ReceiveOp(1, There) \/ ReceiveAck(1, Primary)
  <2>1. l = 1
    <3>. SUFFICES ASSUME l # 1 PROVE FALSE
      OBVIOUS
    <3>1. link[l].outbox[t] = <<>> /\ link[l].chan[Other(t)] = <<>>
      BY <1>2, OtherTracker DEF Linked, UnusedLink, Empty
    <3>. QED
      BY <1>6, <3>1 DEF ProcessPeerMessage, Flush, ReceiveCatchup, ReceiveOp, ReceiveAck,
                        ReceiveSnapshotRequest, ReceiveSnapshot, Incoming
  <2>2. CASE t = Primary
    <3>1. ~Flush(1, Primary)
      BY <1>2 DEF Flush, OneSided
    <3>2. ASSUME NEW type, Incoming(1, Primary, type) PROVE type = "ACK"
      <4>1. link[1].chan[There] # <<>> /\ Head(link[1].chan[There]).type = type
        BY <1>1, <3>2 DEF Incoming
      <4>2. Head(link[1].chan[There]) \in Acks(node[There].applied_peer_seq)
        BY <1>2, <4>1, HeadTailProperties DEF OneSided
      <4>. QED
        BY <4>1, <4>2 DEF Acks
    <3>3. /\ ~Incoming(1, Primary, "CATCHUP") /\ ~Incoming(1, Primary, "OP")
          /\ ~Incoming(1, Primary, "SNAPSHOT_REQUEST")
          /\ ~Incoming(1, Primary, "SNAPSHOT_DATA")
      BY <3>2
    <3>. QED
      BY <1>6, <2>1, <2>2, <3>1, <3>3
      DEF ProcessPeerMessage, ReceiveCatchup, ReceiveOp, ReceiveSnapshotRequest,
          ReceiveSnapshot
  <2>3. CASE t = There
    <3>1. ASSUME NEW type, Incoming(1, There, type) PROVE type = "OP"
      <4>1. Sent # <<>> /\ Head(Sent).type = type
        BY <1>1, <3>1 DEF Incoming, Sent
      <4>2. Head(Sent) = Sent[1] /\ Len(Sent) \in Nat /\ Len(Sent) # 0
        BY <1>2, <4>1, HeadTailProperties, LenProperties, EmptySeq
      <4>3. Sent[1] = OpMessage(Pending[1])
        BY <1>2, <4>2 DEF InFlight
      <4>. QED
        BY <4>1, <4>2, <4>3 DEF OpMessage
    <3>2. /\ ~Incoming(1, There, "CATCHUP") /\ ~Incoming(1, There, "ACK")
          /\ ~Incoming(1, There, "SNAPSHOT_REQUEST")
          /\ ~Incoming(1, There, "SNAPSHOT_DATA")
      BY <3>1
    <3>. QED
      BY <1>6, <2>1, <2>3, <3>2
      DEF ProcessPeerMessage, ReceiveCatchup, ReceiveAck, ReceiveSnapshotRequest,
          ReceiveSnapshot
  <2>. QED
    BY <1>1, <2>2, <2>3
<1>. QED
  BY <1>3, <1>4, <1>5, <1>6 DEF Threads

----------------------------------------------------------------------------
(* One step of a thread, and what it is of the promise *)

\* The session executes a request: the backlog is one operation longer.
LEMMA RequestStep ==
    ASSUME OneClient, SteadyInv, ClientRequest(Primary, Client)
    PROVE  LinkInv' /\ Promise!Apply
<1>1. /\ Primary \in Tracker /\ There \in Tracker /\ There # Primary
      /\ Client \in Worker /\ Other(Primary) = There
      /\ \A t \in Tracker : t = Primary \/ t = There
  BY Parties
<1>2. PICK op \in Op :
        /\ Execute(node[Primary].state, op).status = "OK"
        /\ node' = [node EXCEPT ![Primary].state = Execute(node[Primary].state, op).state]
        /\ worker' = [worker EXCEPT ![Primary][Client] = [pc |-> "record", op |-> op]]
  BY Zenon DEF ClientRequest
<1>3. /\ worker[Primary][Client] = Idle /\ dialer' = dialer /\ link' = link
  BY DEF ClientRequest
<1>4. SafeInv /\ LinkInv
  BY DEF SteadyInv
<1>. DEFINE S == Execute(node[Primary].state, op).state
<1>5. /\ node'[Primary].state = S
      /\ node'[Primary].log = node[Primary].log
      /\ node'[Primary].next_seq = node[Primary].next_seq
      /\ node'[Primary].out_fd = node[Primary].out_fd
      /\ node'[There] = node[There]
  <2>. HIDE DEF S
  <2>1. node' = [node EXCEPT ![Primary].state = S]
    BY <1>2 DEF S
  <2>. QED
    BY <1>1, <1>4, <2>1 DEF SafeInv, SafeNode, Node
<1>6. /\ Serving' = [pc |-> "record", op |-> op]
      /\ worker'[There] = worker[There]
  BY <1>1, <1>2, <1>4 DEF SafeInv, Serving
<1>. HIDE DEF S
<1>7. Pending' = Pending /\ Sent' = Sent
  BY <1>3, <1>5 DEF Pending, Sent
<1>8. Linked'
  <2>1. Linked
    BY <1>4 DEF LinkInv
  <2>2. \A t \in Tracker : node'[t].out_fd = 1
    BY <1>1, <1>5, <2>1 DEF Linked
  <2>. QED
    BY <1>3, <2>1, <2>2 DEF Linked
<1>9. OneSided'
  BY <1>3, <1>4, <1>5, <1>6 DEF OneSided, LinkInv
<1>10. InFlight(Pending', Sent', Serving')
  <2>1. Serving.pc = "idle" /\ Serving'.pc = "record"
    BY <1>3, <1>6 DEF Serving, Idle
  <2>. QED
    BY <1>4, <1>7, <2>1 DEF InFlight, LinkInv
<1>11. LinkInv'
  BY <1>4, <1>5, <1>8, <1>9, <1>10 DEF LinkInv, Kept
<1>12. Backlog' = Append(Backlog, op)
  <2>1. Pending \in Seq(Entry)
    BY Here
  <2>2. Backlog = Ops(Pending)
    BY <1>3, <2>1, BacklogIs DEF BacklogOf, Serving, Idle
  <2>3. Backlog' = Append(Ops(Pending), op)
    BY <1>6, <1>7, <2>1, BacklogIsNext DEF BacklogOf
  <2>. QED
    BY <2>2, <2>3
<1>13. Promise!Apply
  BY <1>1, <1>2, <1>5, <1>12 DEF Promise!Apply, S
<1>. QED
  BY <1>11, <1>13

\* What the promise knows of does not change.
Stutters == UNCHANGED <<node[Primary].state, Backlog, node[There].state>>

\* The operation is numbered and logged, and is as much in the backlog as before.
LEMMA RecordStep ==
    ASSUME OneClient, SteadyInv, RecordOp(Primary, Client)
    PROVE  LinkInv' /\ Stutters
<1>1. /\ Primary \in Tracker /\ There \in Tracker /\ There # Primary
      /\ Client \in Worker
      /\ \A t \in Tracker : t = Primary \/ t = There
  BY Parties
<1>2. SafeInv /\ LinkInv
  BY DEF SteadyInv
<1>. DEFINE entry == [seq |-> node[Primary].next_seq, op |-> Serving.op,
                      born |-> restarts[Primary]]
<1>3. Serving.pc = "record"
  BY DEF RecordOp, Serving
<1>4. entry \in Entry /\ entry.seq = node[Primary].next_seq /\ entry.op = Serving.op
  <2>1. Serving.op \in Op
    BY <1>3, Here DEF WorkerRecord
  <2>2. restarts[Primary] \in Nat
    BY <1>1, <1>2 DEF SafeInv
  <2>. QED
    BY <2>1, <2>2, Here DEF Entry
<1>5. node[Primary].out_fd = 1 /\ 1 # NoLink
  BY <1>1, <1>2 DEF LinkInv, Linked, NoLink
<1>6. /\ node' = [node EXCEPT ![Primary].next_seq = @ + 1,
                              ![Primary].log = Append(@, entry)]
      /\ worker' = [worker EXCEPT ![Primary][Client] =
                      [pc |-> "send", entry |-> entry, fd |-> 1]]
      /\ dialer' = dialer /\ link' = link
  BY <1>5 DEF RecordOp, Serving
<1>. HIDE DEF entry
<1>7. /\ node'[Primary].state = node[Primary].state
      /\ node'[Primary].log = Append(node[Primary].log, entry)
      /\ node'[Primary].next_seq = node[Primary].next_seq + 1
      /\ node'[Primary].out_fd = node[Primary].out_fd
      /\ node'[There] = node[There]
  BY <1>1, <1>2, <1>6 DEF SafeInv, SafeNode, Node
<1>8. /\ Serving' = [pc |-> "send", entry |-> entry, fd |-> 1]
      /\ worker'[There] = worker[There]
  BY <1>1, <1>2, <1>6 DEF SafeInv, Serving
<1>9. Sent' = Sent /\ Pending' = Append(Pending, entry)
  <2>. DEFINE log == node[Primary].log
              next == node[Primary].next_seq
              seq == node[There].applied_peer_seq
  <2>1. /\ log \in Seq(Entry) /\ next \in Nat /\ seq \in Nat
        /\ Numbering(log, next) /\ next - 1 - Len(log) <= seq /\ seq < next
    BY <1>2, Here DEF LinkInv, Kept
  <2>2. entry.seq = next
    BY <1>4
  <2>3. Pending' = After(Append(log, entry), seq) /\ Pending = After(log, seq)
    BY <1>7 DEF Pending
  <2>. HIDE DEF log, next, seq
  <2>4. After(Append(log, entry), seq) = Append(After(log, seq), entry)
    BY <1>4, <2>1, <2>2, AfterAppend
  <2>. QED
    BY <1>6, <2>3, <2>4 DEF Sent
<1>10. Linked'
  <2>1. Linked
    BY <1>2 DEF LinkInv
  <2>2. \A t \in Tracker : node'[t].out_fd = 1
    BY <1>1, <1>7, <2>1 DEF Linked
  <2>. QED
    BY <1>6, <2>1, <2>2 DEF Linked
<1>11. OneSided'
  BY <1>2, <1>6, <1>7, <1>8 DEF OneSided, LinkInv
<1>12. Kept(node'[Primary].log, node'[Primary].next_seq, node'[There].applied_peer_seq)
  <2>1. Len(node'[Primary].log) = Len(node[Primary].log) + 1
        /\ Len(node[Primary].log) \in Nat
    BY <1>4, <1>7, Here, AppendProperties, LenProperties
  <2>. DEFINE n == Len(node[Primary].log)
              next == node[Primary].next_seq
              seq == node[There].applied_peer_seq
  <2>2. next - 1 - n <= seq /\ seq < next /\ n \in Nat /\ next \in Nat /\ seq \in Nat
    BY <1>2, <2>1, Here DEF Kept, LinkInv
  <2>3. /\ Len(node'[Primary].log) = n + 1 /\ node'[Primary].next_seq = next + 1
        /\ node'[There].applied_peer_seq = seq
    BY <1>7, <2>1
  <2>. HIDE DEF n, next, seq
  <2>. QED
    BY <2>2, <2>3 DEF Kept
<1>13. InFlight(Pending', Sent', Serving')
  <2>1. /\ Pending \in Seq(Entry) /\ Len(Pending) \in Nat
        /\ Len(Pending') = Len(Pending) + 1 /\ Pending'[Len(Pending) + 1] = entry
        /\ \A i \in 1..Len(Pending) : Pending'[i] = Pending[i]
    BY <1>4, <1>9, Here, AppendProperties, LenProperties
  <2>2. Len(Sent) = Len(Pending) /\ \A i \in 1..Len(Sent) : Sent[i] = OpMessage(Pending[i])
    BY <1>2, <1>3 DEF LinkInv, InFlight
  <2>3. \A i \in 1..Len(Sent') : Sent'[i] = OpMessage(Pending'[i])
    BY <1>9, <2>1, <2>2
  <2>. QED
    BY <1>8, <1>9, <2>1, <2>2, <2>3 DEF InFlight
<1>14. LinkInv'
  BY <1>10, <1>11, <1>12, <1>13 DEF LinkInv
<1>15. Backlog' = Backlog
  <2>1. Pending \in Seq(Entry) /\ Pending' \in Seq(Entry)
    BY <1>4, <1>9, Here, AppendProperties
  <2>2. Backlog = Append(Ops(Pending), Serving.op)
    BY <1>3, <2>1, BacklogIs DEF BacklogOf
  <2>3. Backlog' = Ops(Pending')
    BY <1>8, <2>1, BacklogIsNext DEF BacklogOf
  <2>4. Ops(Pending') = Append(Ops(Pending), entry.op)
    BY <1>4, <1>9, <2>1, OpsAppend
  <2>. QED
    BY <1>4, <2>2, <2>3, <2>4
<1>. QED
  BY <1>7, <1>14, <1>15 DEF Stutters

\* It is sent: on the link, after what was sent before.
LEMMA SendStep ==
    ASSUME OneClient, SteadyInv, SendOp(Primary, Client)
    PROVE  LinkInv' /\ Stutters
<1>1. /\ Primary \in Tracker /\ There \in Tracker /\ There # Primary
      /\ Client \in Worker /\ 1 \in Link
      /\ \A t \in Tracker : t = Primary \/ t = There
  BY Parties
<1>2. SafeInv /\ LinkInv
  BY DEF SteadyInv
<1>. DEFINE message == OpMessage(Serving.entry)
<1>3. /\ Serving.pc = "send" /\ node' = node /\ dialer' = dialer
      /\ link' = Written(link, Serving.fd, Primary, <<message>>)
      /\ worker' = [worker EXCEPT ![Primary][Client] = Idle]
  BY DEF SendOp, Serving
<1>4. Serving.fd = 1 /\ Writable(link[1], Primary) /\ message \in SafeMessage
  <2>1. Serving.entry \in Entry
    BY <1>3, Here DEF WorkerRecord
  <2>. QED
    BY <1>2, <1>3, <2>1, SafeMessages DEF LinkInv, InFlight, Linked, Writable
<1>. HIDE DEF message
<1>5. /\ link'[1].up = link[1].up /\ link'[1].server = link[1].server
      /\ link'[1].outbox = link[1].outbox
      /\ link'[1].chan[There] = link[1].chan[There]
      /\ Sent' = Sent \o <<message>>
      /\ \A l \in Link : l # 1 => link'[l] = link[l]
  <2>1. link' = [link EXCEPT ![1].chan[Primary] = @ \o <<message>>]
    BY <1>1, <1>3, <1>4 DEF Written
  <2>. QED
    BY <1>1, <1>2, <2>1 DEF SafeInv, SafeLink, Sent
<1>6. Serving' = Idle /\ worker'[There] = worker[There]
  BY <1>1, <1>2, <1>3 DEF SafeInv, Serving
<1>7. Pending' = Pending
  BY <1>3 DEF Pending
<1>8. Linked'
  BY <1>2, <1>3, <1>5 DEF Linked, LinkInv
<1>9. OneSided'
  BY <1>2, <1>3, <1>5, <1>6 DEF OneSided, LinkInv
<1>10. InFlight(Pending', Sent', Serving')
  <2>1. /\ Len(Sent) = Len(Pending) - 1 /\ Serving.entry = Pending[Len(Pending)]
        /\ \A i \in 1..Len(Sent) : Sent[i] = OpMessage(Pending[i])
    BY <1>2, <1>3 DEF LinkInv, InFlight
  <2>2. /\ Len(Sent) \in Nat /\ Len(Sent') = Len(Sent) + 1
        /\ Sent'[Len(Sent) + 1] = message
        /\ \A i \in 1..Len(Sent) : Sent'[i] = Sent[i]
    <3>1. Sent' = Append(Sent, message) /\ Sent \in Seq(SafeMessage)
      BY <1>4, <1>5, Here, AppendIsConcat
    <3>. QED
      BY <1>4, <3>1, AppendProperties, LenProperties
  <2>3. Len(Pending) \in Nat
    BY Here, LenProperties
  <2>4. ASSUME NEW i \in 1..Len(Sent') PROVE Sent'[i] = OpMessage(Pending[i])
    <3>1. CASE i = Len(Sent) + 1
      <4>1. i = Len(Pending)
        BY <2>1, <2>2, <2>3, <3>1
      <4>. QED
        BY <2>1, <2>2, <3>1, <4>1 DEF message
    <3>2. CASE i \in 1..Len(Sent)
      BY <2>1, <2>2, <3>2
    <3>. QED
      BY <2>2, <3>1, <3>2
  <2>5. Len(Sent') = Len(Pending) /\ Serving'.pc = "idle"
    BY <1>6, <2>1, <2>2, <2>3 DEF Idle
  <2>. QED
    BY <1>7, <2>4, <2>5 DEF InFlight
<1>11. LinkInv'
  BY <1>2, <1>3, <1>8, <1>9, <1>10 DEF LinkInv
<1>12. Backlog' = Backlog
  <2>1. Pending \in Seq(Entry)
    BY Here
  <2>2. Backlog = Ops(Pending)
    BY <1>3, <2>1, BacklogIs DEF BacklogOf
  <2>3. Backlog' = Ops(Pending)
    BY <1>6, <1>7, <2>1, BacklogIsNext DEF BacklogOf, Idle
  <2>. QED
    BY <2>2, <2>3
<1>. QED
  BY <1>3, <1>11, <1>12 DEF Stutters

\* The ACKs of a growing number of operations.
LEMMA MoreAcks ==
    ASSUME NEW seq \in Nat, NEW more \in Nat, seq <= more
    PROVE  Seq(Acks(seq)) \subseteq Seq(Acks(more))
<1>1. Acks(seq) \subseteq Acks(more)
  BY DEF Acks
<1>2. ASSUME NEW s \in Seq(Acks(seq)) PROVE s \in Seq(Acks(more))
  <2>1. Len(s) \in Nat /\ DOMAIN s = 1..Len(s) /\ \A i \in 1..Len(s) : s[i] \in Acks(seq)
    BY LenProperties, ElementOfSeq
  <2>2. s \in [1..Len(s) -> Acks(more)]
    BY <1>1, <2>1, SeqDef
  <2>. QED
    BY <2>1, <2>2, SeqDef
<1>. QED
  BY <1>2

\* The ACK of the last operation goes on the link.
LEMMA FlushStep ==
    ASSUME OneClient, SteadyInv, Flush(1, There)
    PROVE  LinkInv' /\ Stutters
<1>1. /\ Primary \in Tracker /\ There \in Tracker /\ There # Primary
      /\ Client \in Worker /\ 1 \in Link
      /\ \A t \in Tracker : t = Primary \/ t = There
  BY Parties
<1>2. SafeInv /\ LinkInv
  BY DEF SteadyInv
<1>3. /\ node' = node /\ dialer' = dialer /\ worker' = worker
      /\ link' = Written([link EXCEPT ![1].outbox[There] = <<>>], 1, There,
                         link[1].outbox[There])
  BY DEF Flush
<1>. DEFINE acks == Acks(node[There].applied_peer_seq)
            all == link[1].chan[There] \o link[1].outbox[There]
<1>4. all \in Seq(acks) /\ <<>> \in Seq(acks)
  BY <1>2, ConcatProperties, EmptySeq DEF LinkInv, OneSided
<1>5. /\ link'[1].up = link[1].up /\ link'[1].server = link[1].server
      /\ link'[1].outbox[There] = <<>>
      /\ link'[1].outbox[Primary] = link[1].outbox[Primary]
      /\ link'[1].chan[There] = all
      /\ link'[1].chan[Primary] = link[1].chan[Primary]
      /\ \A l \in Link : l # 1 => link'[l] = link[l]
  <2>. DEFINE links == [link EXCEPT ![1].outbox[There] = <<>>]
  <2>1. link \in [Link -> SafeLink] /\ <<>> \in Seq(SafeMessage)
    BY <1>2, EmptySeq DEF SafeInv
  <2>2. /\ links \in [Link -> SafeLink]
        /\ links[1].up = link[1].up /\ links[1].server = link[1].server
        /\ links[1].chan = link[1].chan
        /\ links[1].outbox = [link[1].outbox EXCEPT ![There] = <<>>]
        /\ \A l \in Link : l # 1 => links[l] = link[l]
    BY <1>1, <2>1 DEF SafeLink
  <2>3. /\ links[1].outbox[There] = <<>>
        /\ links[1].outbox[Primary] = link[1].outbox[Primary]
    BY <1>1, <2>1, <2>2 DEF SafeLink
  <2>4. link' = [links EXCEPT ![1].chan[There] = @ \o link[1].outbox[There]]
    BY <1>1, <1>2, <1>3, <2>2 DEF Written, Writable, LinkInv, Linked
  <2>. HIDE DEF links
  <2>5. /\ link'[1] = [links[1] EXCEPT !.chan[There] = all]
        /\ \A l \in Link : l # 1 => link'[l] = links[l]
    BY <1>1, <2>2, <2>4
  <2>6. links[1] \in SafeLink
    BY <1>1, <2>2
  <2>. HIDE DEF all
  <2>7. /\ link'[1].up = links[1].up /\ link'[1].server = links[1].server
        /\ link'[1].outbox = links[1].outbox
        /\ link'[1].chan[There] = all
        /\ link'[1].chan[Primary] = links[1].chan[Primary]
    BY <1>1, <2>5, <2>6 DEF SafeLink
  <2>. QED
    BY <2>2, <2>3, <2>5, <2>7
<1>. HIDE DEF acks, all
<1>6. Pending' = Pending /\ Sent' = Sent /\ Serving' = Serving
  BY <1>3, <1>5 DEF Pending, Sent, Serving
<1>7. Linked'
  BY <1>2, <1>3, <1>5 DEF Linked, LinkInv
<1>8. OneSided'
  BY <1>2, <1>3, <1>4, <1>5 DEF OneSided, LinkInv, acks
<1>9. LinkInv'
  BY <1>2, <1>3, <1>6, <1>7, <1>8 DEF LinkInv
<1>10. Backlog' = Backlog
  BY <1>6, Here, BacklogIs, BacklogIsNext
<1>. QED
  BY <1>3, <1>9, <1>10 DEF Stutters

\* An ACK trims what the other tracker has applied, and nothing that is pending.
LEMMA AckStep ==
    ASSUME OneClient, SteadyInv, ReceiveAck(1, Primary)
    PROVE  LinkInv' /\ Stutters
<1>1. /\ Primary \in Tracker /\ There \in Tracker /\ There # Primary
      /\ Client \in Worker /\ 1 \in Link /\ Other(Primary) = There
      /\ \A t \in Tracker : t = Primary \/ t = There
  BY Parties
<1>2. SafeInv /\ LinkInv
  BY DEF SteadyInv
<1>. DEFINE acks == Acks(node[There].applied_peer_seq)
            ack == Head(link[1].chan[There]).seq
            rest == Tail(link[1].chan[There])
<1>3. /\ node' = [node EXCEPT ![Primary].log = After(@, ack)]
      /\ link' = Answered(1, Primary, <<>>)
      /\ dialer' = dialer /\ worker' = worker
  BY <1>1 DEF ReceiveAck
<1>4. Head(link[1].chan[There]) \in acks /\ rest \in Seq(acks)
  <2>1. link[1].chan[There] # <<>> /\ link[1].chan[There] \in Seq(acks)
    BY <1>1, <1>2 DEF ReceiveAck, Incoming, LinkInv, OneSided
  <2>. QED
    BY <2>1, HeadTailProperties
<1>5. ack \in Nat /\ ack <= node[There].applied_peer_seq
  <2>1. \A n \in Nat : \A m \in Acks(n) : m.seq \in 1..n
    BY DEF Acks
  <2>2. node[There].applied_peer_seq \in Nat
    BY Here
  <2>. HIDE DEF acks
  <2>3. ack \in 1..node[There].applied_peer_seq
    BY <1>4, <2>1, <2>2 DEF acks
  <2>. QED
    BY <2>2, <2>3
<1>. HIDE DEF acks, ack, rest
<1>6. /\ node'[Primary].state = node[Primary].state
      /\ node'[Primary].log = After(node[Primary].log, ack)
      /\ node'[Primary].next_seq = node[Primary].next_seq
      /\ node'[Primary].out_fd = node[Primary].out_fd
      /\ node'[There] = node[There]
  BY <1>1, <1>2, <1>3 DEF SafeInv, SafeNode, Node
<1>7. /\ link'[1].up = link[1].up /\ link'[1].server = link[1].server
      /\ link'[1].outbox[Primary] = <<>>
      /\ link'[1].outbox[There] = link[1].outbox[There]
      /\ link'[1].chan[There] = rest
      /\ link'[1].chan[Primary] = link[1].chan[Primary]
      /\ \A l \in Link : l # 1 => link'[l] = link[l]
  <2>1. link' = [link EXCEPT ![1].chan[There] = Tail(@), ![1].outbox[Primary] = <<>>]
    BY <1>1, <1>3 DEF Answered
  <2>. QED
    BY <1>1, <1>2, <2>1 DEF SafeInv, SafeLink, rest
<1>8. /\ Pending' = Pending
      /\ Kept(node'[Primary].log, node'[Primary].next_seq, node'[There].applied_peer_seq)
  <2>. DEFINE log == node[Primary].log
              next == node[Primary].next_seq
              seq == node[There].applied_peer_seq
  <2>1. /\ log \in Seq(Entry) /\ next \in Nat /\ seq \in Nat
        /\ Numbering(log, next) /\ next - 1 - Len(log) <= seq /\ seq < next
    BY <1>2, Here DEF LinkInv, Kept
  <2>2. /\ Pending' = After(After(log, ack), seq) /\ Pending = After(log, seq)
        /\ node'[Primary].log = After(log, ack)
        /\ node'[Primary].next_seq = next /\ node'[There].applied_peer_seq = seq
    BY <1>6 DEF Pending
  <2>3. ack <= seq
    BY <1>5
  <2>. HIDE DEF log, next, seq
  <2>4. /\ After(After(log, ack), seq) = After(log, seq)
        /\ next - 1 - Len(After(log, ack)) <= seq
    BY <1>5, <2>1, <2>3, AfterAfter
  <2>. QED
    BY <2>1, <2>2, <2>4 DEF Kept
<1>9. Sent' = Sent /\ Serving' = Serving
  BY <1>3, <1>7 DEF Sent, Serving
<1>10. Linked'
  <2>1. Linked
    BY <1>2 DEF LinkInv
  <2>2. \A t \in Tracker : node'[t].out_fd = 1
    BY <1>1, <1>6, <2>1 DEF Linked
  <2>. QED
    BY <1>3, <1>7, <2>1, <2>2 DEF Linked
<1>11. OneSided'
  BY <1>2, <1>3, <1>4, <1>6, <1>7 DEF OneSided, LinkInv, acks
<1>12. LinkInv'
  BY <1>2, <1>8, <1>9, <1>10, <1>11 DEF LinkInv
<1>13. Backlog' = Backlog
  BY <1>8, <1>9, Here, BacklogIs, BacklogIsNext
<1>. QED
  BY <1>6, <1>12, <1>13 DEF Stutters

\* The head and the rest of the backlog are those of what is pending.
LEMMA BacklogHead ==
    ASSUME NEW pending \in Seq(Entry), pending # <<>>, NEW rec \in WorkerRecord
    PROVE  /\ BacklogOf(pending, rec) \in Seq(Op) /\ BacklogOf(pending, rec) # <<>>
           /\ Head(BacklogOf(pending, rec)) = Head(pending).op
           /\ Tail(BacklogOf(pending, rec)) = BacklogOf(Tail(pending), rec)
<1>1. /\ Ops(pending) \in Seq(Op) /\ Ops(pending) # <<>>
      /\ Head(Ops(pending)) = Head(pending).op
      /\ Ops(Tail(pending)) = Tail(Ops(pending))
  BY OpsType, OpsTail
<1>2. CASE rec.pc = "record"
  <2>1. rec.op \in Op
    BY <1>2 DEF WorkerRecord
  <2>2. /\ Append(Ops(pending), rec.op) \in Seq(Op)
        /\ Append(Ops(pending), rec.op) # <<>>
    BY <1>1, <2>1, AppendProperties
  <2>3. /\ Head(Append(Ops(pending), rec.op)) = Head(Ops(pending))
        /\ Tail(Append(Ops(pending), rec.op)) = Append(Tail(Ops(pending)), rec.op)
    BY <1>1, <2>1, HeadTailAppend
  <2>. QED
    BY <1>1, <1>2, <2>2, <2>3 DEF BacklogOf
<1>3. CASE rec.pc # "record"
  BY <1>1, <1>3 DEF BacklogOf
<1>. QED
  BY <1>2, <1>3

\* The other tracker replays the first operation of the backlog.
LEMMA OpStep ==
    ASSUME OneClient, SteadyInv, ReceiveOp(1, There)
    PROVE  LinkInv' /\ Promise!Replay
<1>1. /\ Primary \in Tracker /\ There \in Tracker /\ There # Primary
      /\ Client \in Worker /\ 1 \in Link
      /\ Other(Primary) = There /\ Other(There) = Primary
      /\ \A t \in Tracker : t = Primary \/ t = There
  BY Parties
<1>2. SafeInv /\ LinkInv
  BY DEF SteadyInv
<1>. DEFINE seq == node[There].applied_peer_seq
            entry == Pending[1]
            result == apply_remote(node[There].state, entry.op)
            ack == [type |-> "ACK", seq |-> seq + 1]
<1>3. /\ Sent # <<>> /\ Sent \in Seq(SafeMessage) /\ Serving \in WorkerRecord
      /\ Pending \in Seq(Entry) /\ seq \in Nat
      /\ Len(Pending) = node[Primary].next_seq - 1 - seq
  BY <1>1, Here DEF ReceiveOp, Incoming, Sent
<1>4. Len(Sent) \in Nat /\ Len(Pending) \in Nat /\ Len(Sent) >= 1 /\ Len(Pending) >= Len(Sent)
  <2>1. Len(Sent) \in Nat /\ Len(Sent) # 0 /\ Len(Pending) \in Nat
    BY <1>3, LenProperties, EmptySeq
  <2>2. Len(Sent) = Len(Pending) - 1 \/ Len(Sent) = Len(Pending)
    BY <1>2 DEF LinkInv, InFlight
  <2>. QED
    BY <2>1, <2>2
<1>5. Pending # <<>> /\ Head(Pending) = entry /\ Head(Sent) = OpMessage(entry)
  <2>1. Pending # <<>>
    BY <1>3, <1>4, EmptySeq
  <2>2. Head(Pending) = Pending[1] /\ Head(Sent) = Sent[1]
    BY <1>3, <2>1, HeadTailProperties
  <2>3. Sent[1] = OpMessage(Pending[1])
    BY <1>2, <1>4 DEF LinkInv, InFlight
  <2>. QED
    BY <2>1, <2>2, <2>3
<1>6. entry.seq = seq + 1
  BY <1>3, <1>4, Here
<1>7. /\ Backlog # <<>> /\ Head(Backlog) = entry.op
      /\ Tail(Backlog) = BacklogOf(Tail(Pending), Serving)
      /\ Backlog \in Seq(Op)
  BY <1>3, <1>5, BacklogIs, BacklogHead
<1>8. result.ok
  <2>1. Chain(node[Primary].state, Backlog, node[There].state)
    BY DEF SteadyInv
  <2>. QED
    BY <1>7, <2>1, ChainReplay
<1>9. /\ node' = [node EXCEPT ![There].state = result.state,
                              ![There].applied_peer_seq = seq + 1]
      /\ link' = Answered(1, There, <<ack>>)
      /\ dialer' = dialer /\ worker' = worker
  <2>1. Head(link[1].chan[Other(There)]).entry = entry
    BY <1>1, <1>5 DEF Sent, OpMessage
  <2>2. /\ node' = [node EXCEPT ![There].state = result.state,
                                ![There].applied_peer_seq =
                                    IF result.ok /\ entry.seq > @ THEN entry.seq ELSE @]
        /\ link' = Answered(1, There, <<[type |-> "ACK", seq |-> entry.seq]>>)
        /\ dialer' = dialer /\ worker' = worker
    BY <2>1 DEF ReceiveOp
  <2>3. entry.seq > seq
    BY <1>3, <1>6
  <2>. HIDE DEF entry, result
  <2>. QED
    BY <1>6, <1>8, <2>2, <2>3
<1>. HIDE DEF entry, result, ack
<1>10. /\ node'[There].state = result.state
       /\ node'[There].applied_peer_seq = seq + 1
       /\ node'[There].out_fd = node[There].out_fd
       /\ node'[Primary] = node[Primary]
  BY <1>1, <1>2, <1>9 DEF SafeInv, SafeNode, Node
<1>11. /\ link'[1].up = link[1].up /\ link'[1].server = link[1].server
       /\ link'[1].outbox[Primary] = link[1].outbox[Primary]
       /\ link'[1].outbox[There] = <<ack>>
       /\ link'[1].chan[There] = link[1].chan[There]
       /\ Sent' = Tail(Sent)
       /\ \A l \in Link : l # 1 => link'[l] = link[l]
  <2>1. link' = [link EXCEPT ![1].chan[Primary] = Tail(@), ![1].outbox[There] = <<ack>>]
    BY <1>1, <1>9 DEF Answered
  <2>. QED
    BY <1>1, <1>2, <2>1 DEF SafeInv, SafeLink, Sent
<1>12. Serving' = Serving
  BY <1>9 DEF Serving
<1>13. Pending' = Tail(Pending)
  <2>. DEFINE log == node[Primary].log
              next == node[Primary].next_seq
  <2>1. /\ log \in Seq(Entry) /\ next \in Nat
        /\ Numbering(log, next) /\ next - 1 - Len(log) <= seq /\ seq + 1 < next
    BY <1>2, <1>3, <1>4, Here DEF LinkInv, Kept
  <2>2. Pending' = After(log, seq + 1) /\ Pending = After(log, seq)
    BY <1>10 DEF Pending
  <2>. HIDE DEF log, next, seq
  <2>3. After(log, seq + 1) = Tail(After(log, seq))
    BY <1>3, <2>1, AfterTail
  <2>. QED
    BY <2>2, <2>3
<1>14. Linked'
  <2>1. Linked
    BY <1>2 DEF LinkInv
  <2>2. \A t \in Tracker : node'[t].out_fd = 1
    BY <1>1, <1>10, <2>1 DEF Linked
  <2>. QED
    BY <1>9, <1>11, <2>1, <2>2 DEF Linked
<1>15. OneSided'
  <2>1. Seq(Acks(seq)) \subseteq Seq(Acks(seq + 1))
    BY <1>3, MoreAcks
  <2>2. ack \in Acks(seq + 1)
    BY <1>3 DEF ack, Acks
  <2>3. <<ack>> \in Seq(Acks(seq + 1))
    BY <2>2
  <2>. QED
    BY <1>2, <1>9, <1>10, <1>11, <2>1, <2>3 DEF OneSided, LinkInv
<1>16. Kept(node'[Primary].log, node'[Primary].next_seq, node'[There].applied_peer_seq)
  <2>. DEFINE n == Len(node[Primary].log)
              next == node[Primary].next_seq
  <2>1. n \in Nat /\ next \in Nat
    BY Here, LenProperties
  <2>2. next - 1 - n <= seq
    BY <1>2 DEF LinkInv, Kept
  <2>3. next - 1 - seq >= 1
    BY <1>3, <1>4
  <2>4. /\ Len(node'[Primary].log) = n /\ node'[Primary].next_seq = next
        /\ node'[There].applied_peer_seq = seq + 1
    BY <1>10
  <2>. HIDE DEF n, next, seq
  <2>. QED
    BY <1>3, <2>1, <2>2, <2>3, <2>4 DEF Kept
<1>17. InFlight(Pending', Sent', Serving')
  <2>1. /\ Len(Tail(Pending)) = Len(Pending) - 1 /\ Len(Tail(Sent)) = Len(Sent) - 1
        /\ \A i \in 1..(Len(Pending) - 1) : Tail(Pending)[i] = Pending[i + 1]
        /\ \A i \in 1..(Len(Sent) - 1) : Tail(Sent)[i] = Sent[i + 1]
    BY <1>3, <1>5, HeadTailProperties
  <2>2. \A i \in 1..Len(Sent) : Sent[i] = OpMessage(Pending[i])
    BY <1>2 DEF LinkInv, InFlight
  <2>3. ASSUME NEW i \in 1..Len(Tail(Sent))
        PROVE  Tail(Sent)[i] = OpMessage(Tail(Pending)[i])
    <3>1. i + 1 \in 1..Len(Sent) /\ i \in 1..(Len(Pending) - 1) /\ i \in 1..(Len(Sent) - 1)
      BY <1>4, <2>1
    <3>2. Sent[i + 1] = OpMessage(Pending[i + 1])
      BY <2>2, <3>1
    <3>. QED
      BY <2>1, <3>1, <3>2
  <2>4. ASSUME Serving.pc = "send"
        PROVE  /\ Len(Tail(Sent)) = Len(Tail(Pending)) - 1 /\ Serving.fd = 1
               /\ Serving.entry = Tail(Pending)[Len(Tail(Pending))]
    <3>1. /\ Len(Sent) = Len(Pending) - 1 /\ Serving.fd = 1
          /\ Serving.entry = Pending[Len(Pending)]
      BY <1>2, <2>4 DEF LinkInv, InFlight
    <3>2. Len(Tail(Pending)) \in 1..(Len(Pending) - 1)
          /\ Len(Tail(Pending)) + 1 = Len(Pending)
      BY <1>4, <2>1, <3>1
    <3>. QED
      BY <1>4, <2>1, <3>1, <3>2
  <2>5. ASSUME Serving.pc # "send" PROVE Len(Tail(Sent)) = Len(Tail(Pending))
    BY <1>2, <2>1, <2>5 DEF LinkInv, InFlight
  <2>. QED
    BY <1>11, <1>12, <1>13, <2>3, <2>4, <2>5 DEF InFlight
<1>18. LinkInv'
  BY <1>14, <1>15, <1>16, <1>17 DEF LinkInv
<1>19. Backlog' = Tail(Backlog)
  <2>1. Pending' \in Seq(Entry)
    BY <1>3, <1>5, <1>13, HeadTailProperties
  <2>2. Backlog' = BacklogOf(Pending', Serving')
    BY <2>1, BacklogIsNext
  <2>. QED
    BY <1>7, <1>12, <1>13, <2>2
<1>20. Promise!Replay
  BY <1>1, <1>7, <1>10, <1>19 DEF Promise!Replay, result
<1>. QED
  BY <1>18, <1>20

----------------------------------------------------------------------------
(* All steps *)

\* A link that has just come up, between trackers with nothing.
LEMMA SteadyStarts ==
    ASSUME OneClient, LinkedInit
    PROVE  SteadyInv /\ Promise!Init
<1>1. /\ Primary \in Tracker /\ There \in Tracker /\ There # Primary
      /\ Client \in Worker /\ 1 \in Link /\ Other(Primary) = There
  BY Parties
<1>2. \A t \in Tracker : node[t] = [FreshNode EXCEPT !.out_fd = 1]
  BY DEF LinkedInit
<1>3. \A t \in Tracker :
        /\ node[t].state = EmptyState /\ node[t].next_seq = 1
        /\ node[t].applied_peer_seq = 0 /\ node[t].log = <<>> /\ node[t].out_fd = 1
  BY <1>2 DEF FreshNode
<1>4. \A t \in Tracker : worker[t][Client] = Idle
  BY <1>1 DEF LinkedInit
<1>5. link[1] = [UnusedLink EXCEPT !.up = TRUE, !.server = "peer"]
      /\ \A l \in Link : l # 1 => link[l] = UnusedLink
  BY <1>1 DEF LinkedInit
<1>6. /\ link[1].up /\ link[1].server = "peer"
      /\ \A t \in Tracker : link[1].chan[t] = <<>> /\ link[1].outbox[t] = <<>>
  BY <1>5 DEF UnusedLink, Empty
<1>7. After(<<>>, 0) = <<>>
  <2>. DEFINE log == <<>>
              next == 1
              seq == 0
  <2>1. /\ log \in Seq(Entry) /\ next \in Nat /\ seq \in Nat
        /\ Numbering(log, next) /\ next - 1 - Len(log) <= seq /\ seq < next
        /\ next - 1 - seq = 0
    BY EmptySeq DEF Numbering
  <2>. HIDE DEF log, next, seq
  <2>2. After(log, seq) \in Seq(Entry) /\ Len(After(log, seq)) = 0
    BY <2>1, AfterLog
  <2>. QED
    BY <2>2, EmptySeq DEF log, seq
<1>8. Pending = <<>> /\ Sent = <<>> /\ Serving = Idle
  BY <1>1, <1>3, <1>4, <1>6, <1>7 DEF Pending, Sent, Serving
<1>9. SafeInv
  <2>1. <<>> \in Seq(Entry) /\ <<>> \in Seq(SafeMessage)
    BY EmptySeq
  <2>2. EmptyState \in State /\ Consistent(EmptyState)
    BY EmptyStateGood DEF Good
  <2>3. \A t \in Tracker : node[t] \in SafeNode
    <3>1. \A t \in Tracker :
             node[t] = [state |-> EmptyState, next_seq |-> 1, applied_peer_seq |-> 0,
                        log |-> <<>>, out_fd |-> 1]
      BY <1>2 DEF FreshNode
    <3>. SUFFICES ASSUME NEW t \in Tracker PROVE node[t] \in SafeNode
      OBVIOUS
    <3>2. node[t] \in Node
      <4>1. 1 \in Link \cup {NoLink} /\ 1 \in Nat \ {0} /\ 0 \in Nat
        BY <1>1
      <4>2. EmptyState \in State /\ <<>> \in Seq(Entry)
        BY <2>1, <2>2
      <4>3. node[t] = [state |-> EmptyState, next_seq |-> 1, applied_peer_seq |-> 0,
                       log |-> <<>>, out_fd |-> 1]
        BY <3>1
      <4>. QED
        BY <4>1, <4>2, <4>3 DEF Node
    <3>. QED
      BY <1>3, <2>2, <3>2 DEF SafeNode
  <2>4. \A l \in Link : link[l] \in SafeLink
    <3>1. \A l \in Link :
             \E up \in BOOLEAN, server \in {"none", "peer"} :
                link[l] = [up |-> up, server |-> server, chan |-> Empty, outbox |-> Empty]
      BY <1>5 DEF UnusedLink
    <3>2. Empty \in [Tracker -> Seq(SafeMessage)]
      BY <2>1 DEF Empty
    <3>. SUFFICES ASSUME NEW l \in Link PROVE link[l] \in SafeLink
      OBVIOUS
    <3>3. PICK up \in BOOLEAN, server \in {"none", "peer"} :
             link[l] = [up |-> up, server |-> server, chan |-> Empty, outbox |-> Empty]
      BY <3>1
    <3>. QED
      BY <3>2, <3>3 DEF SafeLink
  <2>. QED
    BY <1>1, <2>3, <2>4
    DEF LinkedInit, SafeInv, WorkerRecord, Idle, DialerRecord
<1>10. LogIsSuffix
  BY <1>3 DEF LogIsSuffix
<1>11. Linked
  BY <1>3, <1>5, <1>6 DEF LinkedInit, Linked
<1>12. OneSided
  BY <1>1, <1>4, <1>6, EmptySeq DEF OneSided
<1>13. Kept(node[Primary].log, node[Primary].next_seq, node[There].applied_peer_seq)
  BY <1>1, <1>3, EmptySeq DEF Kept
<1>14. InFlight(Pending, Sent, Serving)
  BY <1>8, EmptySeq DEF InFlight, Idle
<1>15. Backlog = <<>>
  <2>1. Pending \in Seq(Entry) /\ Ops(Pending) = <<>>
    BY <1>8, EmptySeq, OpsType
  <2>. QED
    BY <1>8, <2>1, BacklogIs DEF BacklogOf, Idle
<1>16. Chain(node[Primary].state, Backlog, node[There].state)
  <2>1. EmptyState \in GoodState
    BY EmptyStateGood DEF GoodState, Good
  <2>2. Agree(EmptyState, EmptyState)
    BY DEF Agree, SameAccounts, SameGroups, EmptyState, EmptyMap
  <2>. QED
    BY <1>1, <1>3, <1>15, <2>1, <2>2, ChainEnd
<1>17. Promise!Init
  BY <1>1, <1>3, <1>15 DEF Promise!Init
<1>. QED
  BY <1>9, <1>10, <1>11, <1>12, <1>13, <1>14, <1>16, <1>17 DEF SteadyInv, LinkInv

\* The backlog is a sequence of operations.
LEMMA BacklogType ==
    ASSUME OneClient, SteadyInv
    PROVE  Backlog \in Seq(Op)
<1>1. Pending \in Seq(Entry) /\ Serving \in WorkerRecord
  BY Here
<1>2. Ops(Pending) \in Seq(Op)
  BY <1>1, OpsType
<1>3. Serving.pc = "record" => Serving.op \in Op
  BY <1>1 DEF WorkerRecord
<1>. QED
  BY <1>1, <1>2, <1>3, BacklogIs, AppendProperties DEF BacklogOf

\* A step of a thread is a step of the promise, or changes nothing it knows of.
LEMMA SteadyNext ==
    ASSUME OneClient, SteadyInv, [Threads]_vars
    PROVE  SteadyInv' /\ (Promise!Next \/ Stutters)
<1>1. CASE UNCHANGED vars
  <2>1. Pending' = Pending /\ Sent' = Sent /\ Serving' = Serving
    BY <1>1 DEF vars, Pending, Sent, Serving
  <2>2. Backlog' = Backlog
    BY <2>1, Here, BacklogIs, BacklogIsNext
  <2>3. SafeInv' /\ LogIsSuffix'
    BY <1>1, NextSafe, NextLog DEF SteadyInv
  <2>4. Linked' /\ OneSided'
    BY <1>1 DEF SteadyInv, LinkInv, Linked, OneSided, vars
  <2>. QED
    BY <1>1, <2>1, <2>2, <2>3, <2>4 DEF SteadyInv, LinkInv, Stutters, vars
<1>2. CASE Threads
  <2>1. SafeInv' /\ LogIsSuffix'
    BY <1>2, NextSafe, NextLog DEF SteadyInv, Next
  <2>2. LinkInv' /\ (Promise!Apply \/ Promise!Replay \/ Stutters)
    BY <1>2, StepKinds, RequestStep, RecordStep, SendStep, FlushStep, OpStep, AckStep
  <2>3. /\ node[Primary].state \in GoodState /\ Other(Primary) = There
        /\ Backlog \in Seq(Op)
        /\ Chain(node[Primary].state, Backlog, node[There].state)
    BY Here, Parties, BacklogType DEF SteadyInv
  <2>4. Chain(node'[Primary].state, Backlog', node'[There].state)
    <3>1. CASE Promise!Apply
      <4>1. PICK op \in Op :
              /\ Execute(node[Primary].state, op).status = "OK"
              /\ node'[Primary].state = Execute(node[Primary].state, op).state
              /\ Backlog' = Append(Backlog, op)
              /\ node'[There].state = node[There].state
        BY <2>3, <3>1 DEF Promise!Apply
      <4>. QED
        BY <2>3, <4>1, ChainApply
    <3>2. CASE Promise!Replay
      <4>1. /\ Backlog # <<>>
            /\ node'[There].state = apply_remote(node[There].state, Head(Backlog)).state
            /\ Backlog' = Tail(Backlog)
            /\ node'[Primary].state = node[Primary].state
        BY <2>3, <3>2 DEF Promise!Replay
      <4>. QED
        BY <2>3, <4>1, ChainReplay
    <3>3. CASE Stutters
      BY <2>3, <3>3 DEF Stutters
    <3>. QED
      BY <2>2, <3>1, <3>2, <3>3
  <2>. QED
    BY <2>1, <2>2, <2>4 DEF SteadyInv, Promise!Next
<1>. QED
  BY <1>1, <1>2

\* With one session, a link that stays up and whatever order the threads run in,
\* replication is the asynchronous replica of AsyncReplica: the other tracker
\* replays the operations one by one, each once, in the order of their execution
\* (the safety part of ImplementsAsyncReplica).
THEOREM SteadyImplements ==
    ASSUME OneClient
    PROVE  LinkedInit /\ [][Threads]_vars => Promise!Init /\ [][Promise!Next]_(Promise!vars)
<1>1. LinkedInit => SteadyInv /\ Promise!Init
  BY SteadyStarts
<1>2. SteadyInv /\ [Threads]_vars => SteadyInv' /\ [Promise!Next]_(Promise!vars)
  <2>. SUFFICES ASSUME SteadyInv, [Threads]_vars
                PROVE  SteadyInv' /\ [Promise!Next]_(Promise!vars)
    OBVIOUS
  <2>1. SteadyInv' /\ (Promise!Next \/ Stutters)
    BY SteadyNext
  <2>2. Other(Primary) = There
    BY Parties
  <2>. QED
    BY <2>1, <2>2 DEF Stutters, Promise!vars
<1>. QED
  BY <1>1, <1>2, PTL

\* Nothing left to replay and agreement, or a first operation that is not refused.
CaughtUpAgrees ==
    /\ Backlog = <<>> => Agree(node[Primary].state, node[There].state)
    /\ Backlog # <<>> => apply_remote(node[There].state, Head(Backlog)).ok

\* The trackers agree whenever the other one has caught up, and it refuses no
\* operation: applied_peer_seq follows every one (apply_remote, sync.cpp).
THEOREM SteadyAgrees ==
    ASSUME OneClient
    PROVE  LinkedInit /\ [][Threads]_vars => []CaughtUpAgrees
<1>1. LinkedInit => SteadyInv
  BY SteadyStarts
<1>2. SteadyInv /\ [Threads]_vars => SteadyInv'
  BY SteadyNext
<1>3. SteadyInv => CaughtUpAgrees
  <2>. SUFFICES ASSUME SteadyInv PROVE CaughtUpAgrees
    OBVIOUS
  <2>1. Chain(node[Primary].state, Backlog, node[There].state)
    BY DEF SteadyInv
  <2>2. CASE Backlog = <<>>
    BY <2>1, <2>2, ChainEnd DEF CaughtUpAgrees
  <2>3. CASE Backlog # <<>>
    BY <2>1, <2>3, BacklogType, ChainReplay DEF CaughtUpAgrees
  <2>. QED
    BY <2>2, <2>3
<1>. QED
  BY <1>1, <1>2, <1>3, PTL

=============================================================================
