---------------------------- MODULE PiecesProofs ----------------------------
(***************************************************************************)
(* What a client does with single pieces, proved for every size of file    *)
(* and piece, any number of threads and pieces, and any number of          *)
(* timeouts: the cutting of a file and the bitmap of a store (PieceStore), *)
(* the pool that hashes (HashPool), and the connection over which pieces   *)
(* are fetched (PieceFetch).                                               *)
(***************************************************************************)
EXTENDS PieceStore, HashPool, PieceFetch, SequenceTheorems, FiniteSetTheorems, TLAPS

----------------------------------------------------------------------------
(* The cutting of a file: the number of pieces is the size over PIECE_SIZE, *)
(* rounded up, so only the last piece can be short, and it is never empty.  *)

LEMMA RoundedUp ==
    ASSUME NEW n \in Nat
    PROVE  /\ PieceCount(n) \in Nat
           /\ n <= PieceCount(n) * PIECE_SIZE
           /\ PieceCount(n) * PIECE_SIZE < n + PIECE_SIZE
<1>1. PIECE_SIZE \in Nat /\ PIECE_SIZE > 0
  BY SizeAssumption
<1>. DEFINE m == n + PIECE_SIZE - 1
<1>2. m \in Nat
  BY <1>1
<1>3. /\ m \div PIECE_SIZE \in Int
      /\ m = PIECE_SIZE * (m \div PIECE_SIZE) + (m % PIECE_SIZE)
      /\ 0 <= m % PIECE_SIZE /\ m % PIECE_SIZE < PIECE_SIZE
  BY <1>1, <1>2
<1>. QED
  BY <1>1, <1>2, <1>3 DEF PieceCount

\* Where piece i of n bytes begins and how much is left there.
LEMMA WhereItBegins ==
    ASSUME NEW n \in Nat, NEW i \in 0..(PieceCount(n) - 1)
    PROVE  /\ i * PIECE_SIZE \in Nat
           /\ i * PIECE_SIZE < n
           /\ i + 1 < PieceCount(n) => PIECE_SIZE < n - i * PIECE_SIZE
           /\ i + 1 = PieceCount(n) => n - i * PIECE_SIZE <= PIECE_SIZE
<1>. DEFINE c == PieceCount(n)
<1>1. PIECE_SIZE \in Nat /\ PIECE_SIZE > 0 /\ c \in Nat /\ i \in Nat /\ i <= c - 1
  BY SizeAssumption, RoundedUp
<1>2. n <= c * PIECE_SIZE /\ c * PIECE_SIZE < n + PIECE_SIZE
  BY RoundedUp
<1>. HIDE DEF c
<1>3. i * PIECE_SIZE \in Nat
  BY <1>1
<1>4. i * PIECE_SIZE <= (c - 1) * PIECE_SIZE /\ (c - 1) * PIECE_SIZE = c * PIECE_SIZE - PIECE_SIZE
  BY <1>1
<1>5. i * PIECE_SIZE < n
  BY <1>1, <1>2, <1>3, <1>4
<1>6. ASSUME i + 1 < c PROVE PIECE_SIZE < n - i * PIECE_SIZE
  <2>1. i <= c - 2
    BY <1>1, <1>6
  <2>2. i * PIECE_SIZE <= (c - 2) * PIECE_SIZE /\ (c - 2) * PIECE_SIZE = c * PIECE_SIZE - 2 * PIECE_SIZE
    BY <1>1, <2>1
  <2>. QED
    BY <1>1, <1>2, <1>3, <2>2
<1>7. ASSUME i + 1 = c PROVE n - i * PIECE_SIZE <= PIECE_SIZE
  <2>1. c * PIECE_SIZE = i * PIECE_SIZE + PIECE_SIZE
    BY <1>1, <1>7
  <2>. QED
    BY <1>1, <1>2, <1>3, <2>1
<1>. QED
  BY <1>3, <1>5, <1>6, <1>7 DEF c

Counted == size \in Nat /\ piece_count = PieceCount(size)

LEMMA CountedCovers == Counted => PiecesCover
<1>. SUFFICES ASSUME Counted PROVE PiecesCover
  OBVIOUS
<1>1. /\ PIECE_SIZE \in Nat /\ PIECE_SIZE > 0 /\ size \in Nat
      /\ piece_count = PieceCount(size) /\ piece_count \in Nat
  BY SizeAssumption, RoundedUp DEF Counted
<1>2. ASSUME NEW i \in 0..(piece_count - 1)
      PROVE  PieceLen(i) \in 1..PIECE_SIZE /\ PieceLen(i) = HashedLen(size, i)
  <2>1. /\ i * PIECE_SIZE \in Nat
        /\ i * PIECE_SIZE < size
        /\ i + 1 < piece_count => PIECE_SIZE < size - i * PIECE_SIZE
        /\ i + 1 = piece_count => size - i * PIECE_SIZE <= PIECE_SIZE
    BY <1>1, WhereItBegins
  <2>. DEFINE b == i * PIECE_SIZE
  <2>2. b \in Nat /\ b < size /\ (i + 1 < piece_count => PIECE_SIZE < size - b)
        /\ (i + 1 = piece_count => size - b <= PIECE_SIZE)
    BY <2>1
  <2>3. /\ PieceLen(i) = IF i + 1 < piece_count THEN PIECE_SIZE ELSE size - b
        /\ HashedLen(size, i) = IF PIECE_SIZE < size - b THEN PIECE_SIZE ELSE size - b
    BY DEF PieceLen, HashedLen
  <2>. HIDE DEF b
  <2>4. i + 1 < piece_count \/ i + 1 = piece_count
    BY <1>1
  <2>. QED
    BY <1>1, <2>2, <2>3, <2>4
<1>3. piece_count = 0 => size = 0
  <2>. SUFFICES ASSUME piece_count = 0 PROVE size = 0
    OBVIOUS
  <2>1. size <= piece_count * PIECE_SIZE
    BY <1>1, RoundedUp
  <2>2. piece_count * PIECE_SIZE = 0
    BY <1>1
  <2>. QED
    BY <1>1, <2>1, <2>2
<1>4. ASSUME piece_count > 0
      PROVE  (piece_count - 1) * PIECE_SIZE + PieceLen(piece_count - 1) = size
  <2>1. PieceLen(piece_count - 1) = size - (piece_count - 1) * PIECE_SIZE
    BY <1>1, <1>4 DEF PieceLen
  <2>2. (piece_count - 1) * PIECE_SIZE \in Nat
    BY <1>1, <1>4
  <2>. QED
    BY <1>1, <2>1, <2>2
<1>. QED
  BY <1>2, <1>3, <1>4 DEF PiecesCover

\* The pieces a store reads and writes are those hash_file hashed, cover the
\* file and are never empty, whatever the size of file and piece (piece_len,
\* open_for_seed, open_for_download).
THEOREM PiecesCoverAlways == Spec => []PiecesCover
<1>1. Init => Counted
  <2>. SUFFICES ASSUME Init PROVE Counted
    OBVIOUS
  <2>1. PieceCount(0) \in Nat /\ PieceCount(0) * PIECE_SIZE < 0 + PIECE_SIZE
    BY RoundedUp
  <2>2. ASSUME PieceCount(0) >= 1 PROVE FALSE
    <3>1. PieceCount(0) * PIECE_SIZE >= PIECE_SIZE
      BY <2>1, <2>2, SizeAssumption
    <3>. QED
      BY <2>1, <3>1, SizeAssumption
  <2>. QED
    BY <2>1, <2>2 DEF Init, Counted
<1>2. Counted /\ [Next]_vars => Counted'
  <2>. SUFFICES ASSUME Counted, [Next]_vars PROVE size' \in Nat /\ piece_count' = PieceCount(size')
    BY DEF Counted
  <2>1. ASSUME NEW n \in 0..MaxSize, OpenForSeed(n) \/ OpenForDownload(n)
        PROVE  size' \in Nat /\ piece_count' = PieceCount(size')
    <3>1. size' = n /\ piece_count' = PieceCount(n)
      BY <2>1 DEF OpenForSeed, OpenForDownload, Opened
    <3>. QED
      BY <3>1, SizeAssumption
  <2>2. ASSUME NEW i, MarkPiece(i) PROVE UNCHANGED <<size, piece_count>>
    BY <2>2 DEF MarkPiece
  <2>3. UNCHANGED vars => UNCHANGED <<size, piece_count>>
    BY DEF vars
  <2>4. UNCHANGED <<size, piece_count>> => size' \in Nat /\ piece_count' = PieceCount(size')
    BY DEF Counted
  <2>. QED
    BY <2>1, <2>2, <2>3, <2>4 DEF Next
<1>. QED
  BY <1>1, <1>2, CountedCovers, PTL DEF Spec

----------------------------------------------------------------------------
(* The bitmap.  Marking a piece changes the bit of no other: the bits of a  *)
(* byte are sums of different powers of two, and a bit that is not set can  *)
(* be added without a carry.                                                *)

Byte == 0..255

LEMMA MaskValue ==
    ASSUME NEW i \in Nat
    PROVE  /\ Mask(i) \in {1, 2, 4, 8, 16, 32, 64, 128}
           /\ Mask(i) = 1 => i % 8 = 7
           /\ Mask(i) = 2 => i % 8 = 6
           /\ Mask(i) = 4 => i % 8 = 5
           /\ Mask(i) = 8 => i % 8 = 4
           /\ Mask(i) = 16 => i % 8 = 3
           /\ Mask(i) = 32 => i % 8 = 2
           /\ Mask(i) = 64 => i % 8 = 1
           /\ Mask(i) = 128 => i % 8 = 0
<1>1. /\ 2^0 = 1 /\ 2^1 = 2 /\ 2^2 = 4 /\ 2^3 = 8
      /\ 2^4 = 16 /\ 2^5 = 32 /\ 2^6 = 64 /\ 2^7 = 128
  OBVIOUS
<1>2. PICK r \in 0..7 : r = i % 8
  OBVIOUS
<1>3. PICK e \in 0..7 : e = 7 - (i % 8) /\ e = 7 - r
  BY <1>2
<1>4. Mask(i) = 2^e
  BY <1>3, Zenon DEF Mask
<1>5. /\ e = 0 => Mask(i) = 1
      /\ e = 1 => Mask(i) = 2
      /\ e = 2 => Mask(i) = 4
      /\ e = 3 => Mask(i) = 8
      /\ e = 4 => Mask(i) = 16
      /\ e = 5 => Mask(i) = 32
      /\ e = 6 => Mask(i) = 64
      /\ e = 7 => Mask(i) = 128
  BY <1>1, <1>4, ZenonT(40)
<1>6. /\ i % 8 = 7 - e
      /\ e = 0 \/ e = 1 \/ e = 2 \/ e = 3 \/ e = 4 \/ e = 5 \/ e = 6 \/ e = 7
  BY <1>2, <1>3
<1>. QED
  BY <1>5, <1>6

\* Adding one bit that is not set.
LEMMA NoCarry ==
    ASSUME NEW b \in Byte, NEW m \in {1, 2, 4, 8, 16, 32, 64, 128},
           NEW n \in {1, 2, 4, 8, 16, 32, 64, 128}, (b \div m) % 2 # 1
    PROVE  /\ b + m \in Byte
           /\ ((b + m) \div m) % 2 = 1
           /\ m # n => ((b + m) \div n) % 2 = (b \div n) % 2
<1>1. b + m \in Byte /\ ((b + m) \div m) % 2 = 1
  BY SMTT(60) DEF Byte
<1>2. ASSUME m # n PROVE ((b + m) \div n) % 2 = (b \div n) % 2
  <2>1. CASE m = 1
    BY <1>2, <2>1, SMTT(60) DEF Byte
  <2>2. CASE m = 2
    BY <1>2, <2>2, SMTT(60) DEF Byte
  <2>3. CASE m = 4
    BY <1>2, <2>3, SMTT(60) DEF Byte
  <2>4. CASE m = 8
    BY <1>2, <2>4, SMTT(60) DEF Byte
  <2>5. CASE m = 16
    BY <1>2, <2>5, SMTT(60) DEF Byte
  <2>6. CASE m = 32
    BY <1>2, <2>6, SMTT(60) DEF Byte
  <2>7. CASE m = 64
    BY <1>2, <2>7, SMTT(60) DEF Byte
  <2>8. CASE m = 128
    BY <1>2, <2>8, SMTT(60) DEF Byte
  <2>. QED
    BY <2>1, <2>2, <2>3, <2>4, <2>5, <2>6, <2>7, <2>8
<1>. QED
  BY <1>1, <1>2

\* A byte of a seeder has every bit, one of a new download none.
LEMMA FullAndEmpty ==
    ASSUME NEW m \in {1, 2, 4, 8, 16, 32, 64, 128}
    PROVE  (255 \div m) % 2 = 1 /\ (0 \div m) % 2 = 0
  BY SMTT(60)

LEMMA DivMod == ASSUME NEW i \in Nat PROVE i = 8 * (i \div 8) + (i % 8)
  OBVIOUS

\* Different pieces differ in their byte or in their mask.
LEMMA DifferentBits ==
    ASSUME NEW i \in Nat, NEW j \in Nat, i \div 8 = j \div 8, Mask(i) = Mask(j)
    PROVE  i = j
<1>1. i % 8 = j % 8
  BY MaskValue
<1>2. i = 8 * (i \div 8) + (i % 8) /\ j = 8 * (j \div 8) + (j % 8)
  BY DivMod
<1>. QED
  BY <1>1, <1>2

\* Where the bits of n pieces are.
LEMMA BitmapLength ==
    ASSUME NEW n \in Nat
    PROVE  /\ BitmapBytes(n) \in Nat /\ n <= 8 * BitmapBytes(n)
           /\ \A i \in 0..(n - 1) : i \div 8 + 1 \in 1..BitmapBytes(n)
  BY DEF BitmapBytes

\* SetBit sets the bit of its piece and of no other.
LEMMA SetBitExact ==
    ASSUME NEW b \in Seq(Byte), NEW i \in Nat, NEW j \in Nat,
           i \div 8 + 1 \in 1..Len(b), j \div 8 + 1 \in 1..Len(b)
    PROVE  /\ SetBit(b, i) \in Seq(Byte) /\ Len(SetBit(b, i)) = Len(b)
           /\ HasBit(SetBit(b, i), j) <=> HasBit(b, j) \/ j = i
<1>1. CASE HasBit(b, i)
  BY <1>1 DEF SetBit
<1>2. CASE ~HasBit(b, i)
  <2>. DEFINE k == i \div 8 + 1
              l == j \div 8 + 1
              c == [b EXCEPT ![k] = @ + Mask(i)]
  <2>1. /\ b[k] \in Byte /\ b[l] \in Byte /\ DOMAIN b = 1..Len(b)
        /\ k \in 1..Len(b) /\ l \in 1..Len(b)
    BY ElementOfSeq, LenProperties
  <2>2. /\ Mask(i) \in {1, 2, 4, 8, 16, 32, 64, 128}
        /\ Mask(j) \in {1, 2, 4, 8, 16, 32, 64, 128}
    BY MaskValue
  <2>3. (b[k] \div Mask(i)) % 2 # 1
    BY <1>2 DEF HasBit
  <2>4. /\ b[k] + Mask(i) \in Byte
        /\ ((b[k] + Mask(i)) \div Mask(i)) % 2 = 1
        /\ Mask(i) # Mask(j) =>
             ((b[k] + Mask(i)) \div Mask(j)) % 2 = (b[k] \div Mask(j)) % 2
    BY <2>1, <2>2, <2>3, NoCarry
  <2>5. SetBit(b, i) = c
    BY <1>2 DEF SetBit
  <2>6. c \in Seq(Byte) /\ Len(c) = Len(b) /\ c[k] = b[k] + Mask(i) /\ (l # k => c[l] = b[l])
    BY <2>1, <2>4, ExceptSeq
  <2>7. HasBit(c, j) <=> (c[l] \div Mask(j)) % 2 = 1
    BY DEF HasBit
  <2>8. HasBit(b, j) <=> (b[l] \div Mask(j)) % 2 = 1
    BY DEF HasBit
  <2>. HIDE DEF c
  <2>9. CASE j = i
    BY <2>4, <2>5, <2>6, <2>7, <2>9
  <2>10. CASE l # k
    BY <2>5, <2>6, <2>7, <2>8, <2>10
  <2>11. CASE l = k /\ j # i
    <3>1. i \div 8 = j \div 8 /\ i \div 8 \in Int
      BY <2>11
    <3>2. Mask(i) # Mask(j)
      BY <2>11, <3>1, DifferentBits
    <3>. QED
      BY <2>4, <2>5, <2>6, <2>7, <2>8, <2>11, <3>2
  <2>. QED
    BY <2>5, <2>6, <2>9, <2>10, <2>11
<1>. QED
  BY <1>1, <1>2

\* The bits of the pieces of the file are what the store was told, and there is
\* a byte for each of them.
BitmapInv ==
    /\ piece_count \in Nat
    /\ bits \in Seq(Byte) /\ Len(bits) = BitmapBytes(piece_count)
    /\ told \subseteq 0..(piece_count - 1)
    /\ \A i \in 0..(piece_count - 1) : HasBit(bits, i) <=> i \in told

LEMMA BitmapStarts == Init => BitmapInv
<1>. SUFFICES ASSUME Init PROVE BitmapInv
  OBVIOUS
<1>1. piece_count = 0 /\ bits = <<>> /\ told = {}
  BY DEF Init
<1>2. BitmapBytes(0) = 0
  BY DEF BitmapBytes
<1>. QED
  BY <1>1, <1>2 DEF BitmapInv

\* A bitmap of equal bytes.
LEMMA OpenedBitmap ==
    ASSUME NEW m, NEW n \in 0..MaxSize, NEW byte \in {0, 255}, Opened(m, n, byte),
           told' = IF byte = 255 THEN 0..(PieceCount(n) - 1) ELSE {}
    PROVE  BitmapInv'
<1>. DEFINE c == PieceCount(n)
<1>1. c \in Nat
  BY SizeAssumption, RoundedUp
<1>2. /\ BitmapBytes(c) \in Nat
      /\ \A i \in 0..(c - 1) : i \div 8 + 1 \in 1..BitmapBytes(c)
  BY <1>1, BitmapLength
<1>3. piece_count' = c /\ bits' = [k \in 1..BitmapBytes(c) |-> byte]
  BY DEF Opened
<1>. HIDE DEF c
<1>4. bits' \in Seq(Byte) /\ Len(bits') = BitmapBytes(c)
  <2>1. PICK n0 \in Nat : n0 = BitmapBytes(c)
    BY <1>2
  <2>2. bits' \in [1..n0 -> Byte] /\ DOMAIN bits' = 1..n0
    BY <1>3, <2>1 DEF Byte
  <2>3. bits' \in Seq(Byte)
    BY <2>1, <2>2, SeqDef
  <2>4. Len(bits') \in Nat /\ DOMAIN bits' = 1..Len(bits')
    BY <2>3, LenProperties
  <2>5. Len(bits') = n0
    BY <2>1, <2>2, <2>4
  <2>. QED
    BY <2>1, <2>3, <2>5
<1>5. \A i \in 0..(c - 1) : HasBit(bits', i) <=> byte = 255
  <2>. SUFFICES ASSUME NEW i \in 0..(c - 1) PROVE HasBit(bits', i) <=> byte = 255
    OBVIOUS
  <2>1. bits'[i \div 8 + 1] = byte
    BY <1>2, <1>3
  <2>2. Mask(i) \in {1, 2, 4, 8, 16, 32, 64, 128}
    BY <1>1, MaskValue
  <2>3. (255 \div Mask(i)) % 2 = 1 /\ (0 \div Mask(i)) % 2 = 0
    BY <2>2, FullAndEmpty
  <2>. QED
    BY <2>1, <2>3 DEF HasBit
<1>. QED
  BY <1>1, <1>3, <1>4, <1>5 DEF BitmapInv, c

LEMMA MarkBitmap ==
    ASSUME BitmapInv, NEW i \in 0..(piece_count - 1), MarkPiece(i)
    PROVE  BitmapInv'
<1>1. bits' = SetBit(bits, i) /\ told' = told \cup {i} /\ piece_count' = piece_count
  BY DEF MarkPiece
<1>2. /\ piece_count \in Nat /\ bits \in Seq(Byte) /\ Len(bits) = BitmapBytes(piece_count)
      /\ i \in Nat
      /\ \A j \in 0..(piece_count - 1) : j \in Nat /\ j \div 8 + 1 \in 1..Len(bits)
  <2>1. piece_count \in Nat /\ bits \in Seq(Byte) /\ Len(bits) = BitmapBytes(piece_count)
    BY DEF BitmapInv
  <2>2. \A j \in 0..(piece_count - 1) : j \in Nat
    BY <2>1
  <2>. QED
    BY <2>1, <2>2, BitmapLength
<1>3. bits' \in Seq(Byte) /\ Len(bits') = Len(bits)
  BY <1>1, <1>2, SetBitExact
<1>4. \A j \in 0..(piece_count - 1) : HasBit(bits', j) <=> HasBit(bits, j) \/ j = i
  BY <1>1, <1>2, SetBitExact
<1>. QED
  BY <1>1, <1>2, <1>3, <1>4 DEF BitmapInv

\* The bitmap of a store says which pieces it was told it has, for every size of
\* file, order and repetition, with the padding of a seeder; and the store is
\* complete exactly when it has all (have, have_count, complete, write_piece).
THEOREM BitmapExactAlways == Spec => []BitmapExact
<1>1. BitmapInv /\ [Next]_vars => BitmapInv'
  <2>. SUFFICES ASSUME BitmapInv, [Next]_vars PROVE BitmapInv'
    OBVIOUS
  <2>1. ASSUME NEW n \in 0..MaxSize, OpenForSeed(n) PROVE BitmapInv'
    BY <2>1, OpenedBitmap DEF OpenForSeed
  <2>2. ASSUME NEW n \in 0..MaxSize, OpenForDownload(n) PROVE BitmapInv'
    BY <2>2, OpenedBitmap DEF OpenForDownload
  <2>3. CASE UNCHANGED vars
    BY <2>3 DEF vars, BitmapInv
  <2>. QED
    BY <2>1, <2>2, <2>3, MarkBitmap DEF Next
<1>2. BitmapInv => BitmapExact
  <2>. SUFFICES ASSUME BitmapInv PROVE BitmapExact
    OBVIOUS
  <2>. DEFINE all == 0..(piece_count - 1)
  <2>1. /\ piece_count \in Nat /\ told \subseteq all /\ piece_count <= 8 * Len(bits)
        /\ Len(bits) \in Nat
    BY BitmapLength DEF BitmapInv
  <2>2. {i \in 0..(8 * Len(bits) + 8) : Have(i)} = told
    <3>1. \A i : i \in 0..(8 * Len(bits) + 8) /\ Have(i) => i \in told
      BY <2>1 DEF BitmapInv, Have
    <3>2. \A i \in told : i \in 0..(8 * Len(bits) + 8) /\ Have(i)
      <4>1. \A i \in told : i \in all /\ HasBit(bits, i)
        BY <2>1 DEF BitmapInv
      <4>. QED
        BY <2>1, <4>1 DEF Have
    <3>. QED
      BY <3>1, <3>2
  <2>3. HaveCount = Cardinality(told)
    <3>1. {i \in all : HasBit(bits, i)} = told
      BY <2>1 DEF BitmapInv
    <3>. QED
      BY <3>1 DEF HaveCount
  <2>4. IsFiniteSet(all) /\ Cardinality(all) = piece_count
    <3>1. piece_count - 1 \in Int /\ 0 \in Int
      BY <2>1
    <3>2. /\ IsFiniteSet(all)
          /\ Cardinality(all) = IF 0 > piece_count - 1 THEN 0 ELSE (piece_count - 1) - 0 + 1
      BY <3>1, FS_Interval
    <3>. QED
      BY <2>1, <3>2
  <2>5. Cardinality(told) = Cardinality(all) => told = all
    BY <2>1, <2>4, FS_Subset
  <2>. QED
    BY <2>2, <2>3, <2>4, <2>5 DEF BitmapExact, Complete
<1>. QED
  BY <1>1, <1>2, BitmapStarts, PTL DEF Spec

----------------------------------------------------------------------------
(* The thread pool of hash_file and resume_scan.  PoolInv follows the pieces *)
(* below the counter: each is hashed, with a thread, or unreadable, and then *)
(* the pool of hash_file failed.  A thread ends only when the counter ran    *)
(* out or the pool failed.                                                   *)

At(t) == pc[t] \in {"read", "store"}

PoolTypes ==
    /\ stops \in BOOLEAN /\ failed \in BOOLEAN
    /\ readable \in SUBSET Slot
    /\ pc \in [Thread -> {"test", "draw", "read", "store", "end"}]
    /\ index \in [Thread -> Nat]
    /\ next \in Nat
    /\ hashes \in [Slot -> {"none", "hash"}]

\* A thread at a piece drew it.
Drawn == \A t \in Thread : At(t) => index[t] \in Slot /\ index[t] < next

\* Every piece drawn is done, with a thread, or a failure.
Covered ==
    \A i \in Slot : i < next =>
        \/ hashes[i] = "hash"
        \/ \E t \in Thread : At(t) /\ index[t] = i
        \/ i \notin readable /\ (stops => failed)

\* A hash is that of a piece that was read.
Genuine ==
    /\ \A i \in Slot : hashes[i] = "hash" => i \in readable
    /\ \A t \in Thread : pc[t] = "store" => index[t] \in readable

\* Why a thread ends, and the caller returns.
PoolEnded ==
    /\ \A t \in Thread : pc[t] = "end" => failed \/ next >= SlotCount
    /\ result = "hashes" => Joined /\ ~failed

PoolInv == PoolTypes /\ Drawn /\ Covered /\ Genuine /\ PoolEnded /\ OwnSlot

LEMMA PoolStarts == PoolInit => PoolInv
<1>. SUFFICES ASSUME PoolInit PROVE PoolInv
  OBVIOUS
<1>1. PoolTypes
  BY DEF PoolInit, PoolTypes
<1>2. \A t \in Thread : ~At(t) /\ pc[t] # "end"
  BY DEF PoolInit, At
<1>3. Covered
  BY SlotAssumption DEF PoolInit, Covered, Slot
<1>4. PoolEnded /\ Drawn /\ OwnSlot /\ Genuine
  BY <1>2 DEF PoolInit, PoolEnded, Drawn, OwnSlot, At, Genuine
<1>. QED
  BY <1>1, <1>3, <1>4 DEF PoolInv

LEMMA TestInv == ASSUME PoolInv, NEW t \in Thread, Test(t) PROVE PoolInv'
<1>1. PoolTypes /\ Drawn /\ Covered /\ Genuine /\ PoolEnded /\ OwnSlot
  BY DEF PoolInv
<1>2. PoolTypes'
  BY <1>1 DEF PoolTypes, Test
<1>3. \A u \in Thread : At(u)' <=> At(u)
  BY <1>1 DEF At, Test, PoolTypes
<1>4. UNCHANGED <<stops, readable, index, next, failed, hashes, result>> /\ pc[t] = "test"
  BY DEF Test
<1>5. Drawn' /\ Covered'
  BY <1>1, <1>3, <1>4 DEF Drawn, Covered
<1>6. OwnSlot'
  BY <1>1, <1>3, <1>4 DEF OwnSlot, At
<1>7. PoolEnded'
  BY <1>1, <1>4 DEF PoolEnded, Test, PoolTypes, Joined
<1>8. Genuine'
  BY <1>1, <1>4 DEF Genuine, Test, PoolTypes
<1>. QED
  BY <1>2, <1>5, <1>6, <1>7, <1>8 DEF PoolInv

LEMMA DrawInv == ASSUME PoolInv, NEW t \in Thread, Draw(t) PROVE PoolInv'
<1>1. PoolTypes /\ Drawn /\ Covered /\ Genuine /\ PoolEnded /\ OwnSlot
  BY DEF PoolInv
<1>2. /\ UNCHANGED <<stops, readable, failed, hashes, result>> /\ pc[t] = "draw"
      /\ next' = next + 1
  BY DEF Draw
<1>3. PoolTypes'
  BY <1>1 DEF PoolTypes, Draw
<1>4. /\ \A u \in Thread : u # t => (At(u)' <=> At(u)) /\ index'[u] = index[u]
      /\ index'[t] = next
      /\ At(t)' <=> next < SlotCount
  BY <1>1, SlotAssumption DEF At, Draw, PoolTypes
<1>5. Drawn'
  BY <1>1, <1>2, <1>4, SlotAssumption DEF Drawn, PoolTypes, Slot
<1>6. Covered'
  <2>. SUFFICES ASSUME NEW i \in Slot, i < next + 1
                PROVE  \/ hashes[i] = "hash"
                       \/ \E u \in Thread : At(u)' /\ index'[u] = i
                       \/ i \notin readable /\ (stops => failed)
    BY <1>2 DEF Covered
  <2>1. CASE i = next
    BY <1>4, <2>1, SlotAssumption DEF Slot
  <2>2. CASE i < next
    <3>1. ~At(t)
      BY <1>2 DEF At
    <3>. QED
      BY <1>1, <1>4, <2>2, <3>1 DEF Covered
  <2>. QED
    BY <1>1, <2>1, <2>2, SlotAssumption DEF PoolTypes, Slot
<1>7. OwnSlot'
  <2>1. \A u \in Thread : u # t /\ At(u)' => index'[u] < next
    BY <1>1, <1>4 DEF Drawn
  <2>. QED
    BY <1>1, <1>4, <2>1 DEF OwnSlot, At, PoolTypes
<1>8. PoolEnded'
  BY <1>1, <1>2, SlotAssumption DEF PoolEnded, Draw, PoolTypes, Joined
<1>9. Genuine'
  BY <1>1, <1>2, <1>4 DEF Genuine, Draw, PoolTypes
<1>. QED
  BY <1>3, <1>5, <1>6, <1>7, <1>8, <1>9 DEF PoolInv

LEMMA ReadInv == ASSUME PoolInv, NEW t \in Thread, Read(t) PROVE PoolInv'
<1>1. PoolTypes /\ Drawn /\ Covered /\ Genuine /\ PoolEnded /\ OwnSlot
  BY DEF PoolInv
<1>2. PoolTypes'
  BY <1>1 DEF PoolTypes, Read
<1>3. \A u \in Thread : At(u)' <=> At(u)
  BY <1>1 DEF At, Read, PoolTypes
<1>4. UNCHANGED <<stops, readable, index, next, failed, hashes, result>> /\ pc[t] = "read"
  BY DEF Read
<1>5. Drawn' /\ Covered'
  BY <1>1, <1>3, <1>4 DEF Drawn, Covered
<1>6. OwnSlot'
  BY <1>1, <1>3, <1>4 DEF OwnSlot, At
<1>7. PoolEnded'
  BY <1>1, <1>4 DEF PoolEnded, Read, PoolTypes, Joined
<1>8. Genuine'
  BY <1>1, <1>4 DEF Genuine, Read, PoolTypes
<1>. QED
  BY <1>2, <1>5, <1>6, <1>7, <1>8 DEF PoolInv

\* A thread leaves its piece: the piece is accounted for otherwise.
LEMMA LeaveInv ==
    ASSUME PoolInv, NEW t \in Thread, At(t), NEW p, p = index[t],
           NEW c \in {"test", "end"}, pc' = [pc EXCEPT ![t] = c],
           UNCHANGED <<stops, readable, index, next, result>>,
           failed' \in BOOLEAN, failed => failed',
           hashes' \in [Slot -> {"none", "hash"}],
           \A i \in Slot : hashes[i] = "hash" => hashes'[i] = "hash",
           hashes'[p] = "hash" \/ (p \notin readable /\ (stops => failed')),
           \A i \in Slot : hashes'[i] = "hash" => i \in readable,
           c = "end" => failed'
    PROVE  PoolInv'
<1>1. PoolTypes /\ Drawn /\ Covered /\ Genuine /\ PoolEnded /\ OwnSlot
  BY DEF PoolInv
<1>2. PoolTypes'
  BY <1>1 DEF PoolTypes
<1>3. ~At(t)' /\ \A u \in Thread : u # t => (At(u)' <=> At(u))
  BY <1>1 DEF At, PoolTypes
<1>4. Drawn' /\ OwnSlot'
  BY <1>1, <1>3 DEF Drawn, OwnSlot, At
<1>5. Covered'
  <2>. SUFFICES ASSUME NEW i \in Slot, i < next
                PROVE  \/ hashes'[i] = "hash"
                       \/ \E u \in Thread : At(u)' /\ index[u] = i
                       \/ i \notin readable /\ (stops => failed')
    BY DEF Covered
  <2>1. CASE i = p
    BY <2>1
  <2>2. CASE i # p
    BY <1>1, <1>3, <2>2 DEF Covered
  <2>. QED
    BY <2>1, <2>2
<1>6. PoolEnded'
  <2>1. result # "hashes"
    BY <1>1 DEF PoolEnded, Joined, At
  <2>. QED
    BY <1>1, <2>1 DEF PoolEnded, PoolTypes
<1>7. Genuine'
  BY <1>1 DEF Genuine, PoolTypes
<1>. QED
  BY <1>2, <1>4, <1>5, <1>6, <1>7 DEF PoolInv

LEMMA ReadFailsInv == ASSUME PoolInv, NEW t \in Thread, ReadFails(t) PROVE PoolInv'
<1>1. PICK p : p = index[t]
  OBVIOUS
<1>2. PICK c \in {"test", "end"} : pc' = [pc EXCEPT ![t] = c] /\ (c = "end" <=> stops)
  BY DEF ReadFails, PoolInv, PoolTypes
<1>3. /\ At(t) /\ p \notin readable /\ failed' = (failed \/ stops)
      /\ UNCHANGED <<stops, readable, index, next, hashes, result>>
  BY <1>1 DEF ReadFails, At
<1>4. /\ stops \in BOOLEAN /\ failed \in BOOLEAN /\ hashes \in [Slot -> {"none", "hash"}]
      /\ \A i \in Slot : hashes[i] = "hash" => i \in readable
  BY DEF PoolInv, PoolTypes, Genuine
<1>. QED
  BY <1>1, <1>2, <1>3, <1>4, LeaveInv

LEMMA StoreInv == ASSUME PoolInv, NEW t \in Thread, Store(t) PROVE PoolInv'
<1>1. PICK p : p = index[t]
  OBVIOUS
<1>2. At(t) /\ PoolTypes /\ Drawn
  BY DEF Store, At, PoolInv
<1>3. p \in Slot
  BY <1>1, <1>2 DEF Drawn
<1>4. /\ hashes' = [hashes EXCEPT ![p] = "hash"]
      /\ pc' = [pc EXCEPT ![t] = "test"]
      /\ UNCHANGED <<stops, readable, index, next, failed, result>>
  BY <1>1 DEF Store
<1>5. /\ hashes' \in [Slot -> {"none", "hash"}] /\ hashes'[p] = "hash"
      /\ \A i \in Slot : hashes[i] = "hash" => hashes'[i] = "hash"
  BY <1>2, <1>3, <1>4 DEF PoolTypes
<1>6. failed' \in BOOLEAN /\ (failed => failed')
  BY <1>2, <1>4 DEF PoolTypes
<1>7. \A i \in Slot : hashes'[i] = "hash" => i \in readable
  BY <1>1, <1>2, <1>4 DEF PoolInv, Genuine, PoolTypes, Store
<1>. QED
  BY <1>1, <1>2, <1>4, <1>5, <1>6, <1>7, LeaveInv

LEMMA PoolStepInv == PoolInv /\ [PoolNext]_poolVars => PoolInv'
<1>. SUFFICES ASSUME PoolInv, [PoolNext]_poolVars PROVE PoolInv'
  OBVIOUS
<1>1. CASE Return
  BY <1>1 DEF Return, PoolInv, PoolTypes, Drawn, Covered, Genuine, PoolEnded, OwnSlot, At,
              Joined
<1>2. CASE UNCHANGED poolVars
  BY <1>2 DEF poolVars, PoolInv, PoolTypes, Drawn, Covered, Genuine, PoolEnded, OwnSlot, At,
              Joined
<1>. QED
  BY <1>1, <1>2, TestInv, DrawInv, ReadInv, ReadFailsInv, StoreInv DEF PoolNext, Step

LEMMA PoolAlways == PoolSpec => []PoolInv
  BY PoolStarts, PoolStepInv, PTL DEF PoolSpec

\* The vector of hashes needs no lock (sha1.cpp:100): no two threads are at the
\* same slot.
THEOREM OwnSlotAlways == PoolSpec => []OwnSlot
<1>1. PoolInv => OwnSlot
  BY DEF PoolInv
<1>. QED
  BY <1>1, PoolAlways, PTL

\* hash_file hands back the hash of every piece or nothing, and resume_scan
\* looks at every piece.
THEOREM HandsBackAllAlways == PoolSpec => []HandsBackAll
<1>1. PoolInv => HandsBackAll
  <2>. SUFFICES ASSUME PoolInv, result = "hashes"
                PROVE  /\ \A i \in readable : hashes[i] = "hash"
                       /\ stops => readable = Slot
    BY DEF HandsBackAll
  <2>1. \A t \in Thread : pc[t] = "end"
    BY DEF PoolInv, PoolEnded, Joined
  <2>2. ~failed /\ next >= SlotCount
    BY <2>1, ThreadAssumption DEF PoolInv, PoolEnded
  <2>3. \A t \in Thread : ~At(t)
    BY <2>1 DEF At
  <2>4. \A i \in Slot : i < next
    BY <2>2, SlotAssumption DEF Slot, PoolInv, PoolTypes
  <2>5. \A i \in Slot : hashes[i] = "hash" \/ (i \notin readable /\ ~stops)
    BY <2>2, <2>3, <2>4 DEF PoolInv, Covered
  <2>6. readable \subseteq Slot /\ \A i \in readable : hashes[i] = "hash"
    BY <2>5 DEF PoolInv, PoolTypes
  <2>7. stops => readable = Slot
    BY <2>5, <2>6 DEF PoolInv, Genuine
  <2>. QED
    BY <2>6, <2>7
<1>. QED
  BY <1>1, PoolAlways, PTL

----------------------------------------------------------------------------
(* The connection over which pieces are fetched.  Why stale replies never   *)
(* add up: of what is still on its way back, at most the first k replies    *)
(* are to requests for other pieces than the wanted one, and for each of    *)
(* them, and each failure already counted, the peer missed a request or the *)
(* disk of this client failed.  The wanted piece is stable because a failed *)
(* one is taken again: the queue is a stack.                                *)

\* The piece of the next request is p: in hand, or on top of the queue.
Wanted(p) ==
    IF at \in {"send", "receive"} THEN p = piece
    ELSE queue # <<>> => p = queue[Len(queue)]

Busy == IF serving = None THEN 0 ELSE 1

\* No more is under way than what was missed, and what is waited for.
Pending ==
    Len(replies) + Busy + Len(requests) <= misses + (IF at = "receive" THEN 1 ELSE 0)

\* Only the first k replies to come can be stale, and misses, with the failures of the
\* disk, excuse them.
Excused(k) ==
    /\ failures + k <= misses + badWrites
    /\ \A i \in 1..Len(replies) :
         i > k => replies[i].from # "file" \/ Wanted(replies[i].index)
    /\ serving # None /\ Len(replies) + 1 > k => Wanted(serving.index)
    /\ \A i \in 1..Len(requests) : Len(replies) + Busy + i > k => Wanted(requests[i])

\* No other worker has met this one, and the stream never lost its place.
Undisturbed == rivals = 0 /\ torn = 0

FetchControl ==
    /\ torn = 0 => ~garbled
    /\ rivals = 0 => rival = {}
    /\ at # "off" => failures < MaxFailures

FetchExcuses == Undisturbed => Pending /\ \E k \in Nat : Excused(k)

FetchInv == FetchTypeOK /\ FetchControl /\ FetchExcuses

LEMMA FetchBounds ==
    /\ MaxFailures \in Nat /\ MaxFailures > 0
    /\ MaxRivals \in Nat /\ MaxTimeouts \in Nat /\ MaxTorn \in Nat /\ MaxReshares \in Nat
    /\ MaxBadWrites \in Nat
    /\ None # "file" /\ None # "other" /\ None \notin Piece
  BY FetchAssumption

LEMMA FetchStarts == FetchInit => FetchInv
<1>. SUFFICES ASSUME FetchInit PROVE FetchInv
  OBVIOUS
<1>1. queue \in Seq(Piece)
  BY FetchAssumption DEF FetchInit, Piece
<1>2. requests \in Seq(Piece) /\ replies \in Seq(Answer)
  BY DEF FetchInit
<1>3. FetchTypeOK
  <2>1. /\ at = "take" /\ piece = None /\ failures = 0 /\ written = {} /\ rival = {}
        /\ rivals = 0 /\ serving = None /\ garbled = FALSE /\ store = "file" /\ alive = TRUE
        /\ misses = 0 /\ badWrites = 0 /\ timeouts = 0 /\ torn = 0 /\ reshares = 0
    BY DEF FetchInit
  <2>2. written \subseteq Piece /\ rival \subseteq Piece
    BY <2>1
  <2>3. /\ failures \in 0..MaxFailures /\ rivals \in 0..MaxRivals /\ misses \in Nat
        /\ badWrites \in 0..MaxBadWrites
        /\ timeouts \in 0..MaxTimeouts /\ torn \in 0..MaxTorn /\ reshares \in 0..MaxReshares
    BY <2>1, FetchBounds
  <2>4. garbled \in BOOLEAN /\ alive \in BOOLEAN
    BY <2>1
  <2>5. /\ store \in Shared /\ serving \in [index: Piece, store: Shared] \cup {None}
        /\ at \in {"take", "send", "receive", "off"} /\ piece \in Piece \cup {None}
        /\ at \in {"send", "receive"} => piece \in Piece
    BY <2>1 DEF Shared
  <2>. QED
    BY <1>1, <1>2, <2>2, <2>3, <2>4, <2>5 DEF FetchTypeOK
<1>4. FetchControl
  BY FetchBounds DEF FetchInit, FetchControl
<1>5. Len(replies) = 0 /\ Len(requests) = 0 /\ Busy = 0
  BY DEF FetchInit, Busy
<1>6. Pending
  BY <1>5 DEF FetchInit, Pending
<1>7. Excused(0)
  BY <1>5 DEF FetchInit, Excused
<1>. QED
  BY <1>3, <1>4, <1>6, <1>7 DEF FetchInv, FetchExcuses

\* What the pieces of the queue do when one is taken or given back.
LEMMA QueueTop ==
    ASSUME NEW q \in Seq(Piece), q # <<>>
    PROVE  q[Len(q)] \in Piece /\ Front(q) \in Seq(Piece)
<1>1. Len(q) \in Nat /\ Len(q) > 0
  BY LenProperties, EmptySeq
<1>2. \A i \in 1..Len(q) : q[i] \in Piece
  BY ElementOfSeq
<1>3. SubSeq(q, 1, Len(q) - 1) \in Seq(Piece)
  BY <1>1, <1>2, SubSeqProperties
<1>. QED
  BY <1>1, <1>2, <1>3 DEF Front

LEMMA TakeInv == ASSUME FetchInv, Take PROVE FetchInv'
<1>1. /\ at = "take" /\ queue # <<>> /\ piece' = queue[Len(queue)] /\ queue' = Front(queue)
      /\ at' = "send"
      /\ UNCHANGED <<failures, written, rival, rivals, replies, garbled, misses, badWrites, timeouts, torn>>
      /\ UNCHANGED <<requests, serving, store, alive, reshares>>
  BY DEF Take, rivalVars, peerVars
<1>2. piece' \in Piece /\ queue' \in Seq(Piece)
  BY <1>1, QueueTop DEF FetchInv, FetchTypeOK
<1>3. FetchTypeOK'
  BY <1>1, <1>2 DEF FetchInv, FetchTypeOK
<1>4. FetchControl'
  BY <1>1 DEF FetchInv, FetchControl
<1>5. \A p : Wanted(p)' <=> Wanted(p)
  BY <1>1 DEF Wanted
<1>6. FetchExcuses'
  <2>1. Undisturbed' <=> Undisturbed
    BY <1>1 DEF Undisturbed
  <2>2. Pending' <=> Pending
    BY <1>1 DEF Pending, Busy
  <2>3. \A k \in Nat : Excused(k)' <=> Excused(k)
    BY <1>1, <1>5 DEF Excused, Busy
  <2>. QED
    BY <2>1, <2>2, <2>3 DEF FetchInv, FetchExcuses
<1>. QED
  BY <1>3, <1>4, <1>6 DEF FetchInv

LEMMA RetireInv == ASSUME FetchInv, Retire PROVE FetchInv'
<1>1. /\ at = "take" /\ queue = <<>> /\ at' = "off"
      /\ UNCHANGED <<queue, piece, failures, written, rival, rivals, replies, garbled>>
      /\ UNCHANGED <<misses, badWrites, timeouts, torn, requests, serving, store, alive, reshares>>
  BY DEF Retire, rivalVars, peerVars
<1>2. FetchTypeOK'
  BY <1>1 DEF FetchInv, FetchTypeOK
<1>3. FetchControl'
  BY <1>1 DEF FetchInv, FetchControl
<1>4. \A p : Wanted(p)' <=> Wanted(p)
  BY <1>1 DEF Wanted
<1>5. FetchExcuses'
  <2>1. Undisturbed' <=> Undisturbed
    BY <1>1 DEF Undisturbed
  <2>2. Pending' <=> Pending
    BY <1>1 DEF Pending, Busy
  <2>3. \A k \in Nat : Excused(k)' <=> Excused(k)
    BY <1>1, <1>4 DEF Excused, Busy
  <2>. QED
    BY <2>1, <2>2, <2>3 DEF FetchInv, FetchExcuses
<1>. QED
  BY <1>2, <1>3, <1>5 DEF FetchInv

\* What is asked for is what is wanted.
LEMMA SendInv == ASSUME FetchInv, Send PROVE FetchInv'
<1>1. /\ at = "send" /\ at' = "receive"
      /\ requests' = (IF alive THEN Append(requests, piece) ELSE requests)
      /\ UNCHANGED <<queue, piece, failures, written, rival, rivals, replies, garbled>>
      /\ UNCHANGED <<misses, badWrites, timeouts, torn, serving, store, alive, reshares>>
  BY DEF Send, rivalVars
<1>2. piece \in Piece /\ requests \in Seq(Piece) /\ replies \in Seq(Answer) /\ misses \in Nat
  BY <1>1 DEF FetchInv, FetchTypeOK
<1>3. Len(requests) \in Nat /\ Len(replies) \in Nat /\ Busy \in 0..1 /\ Busy' = Busy
  BY <1>1, <1>2, LenProperties DEF Busy
<1>4. /\ requests' \in Seq(Piece) /\ Len(requests') \in {Len(requests), Len(requests) + 1}
      /\ \A i \in 1..Len(requests') :
           requests'[i] = piece \/ (i <= Len(requests) /\ requests'[i] = requests[i])
  <2>1. CASE alive
    BY <1>1, <1>2, <1>3, <2>1, AppendProperties
  <2>2. CASE ~alive
    BY <1>1, <1>2, <1>3, <2>2
  <2>. QED
    BY <2>1, <2>2
<1>5. FetchTypeOK'
  BY <1>1, <1>2, <1>4 DEF FetchInv, FetchTypeOK
<1>6. FetchControl'
  BY <1>1 DEF FetchInv, FetchControl
<1>7. \A p : (Wanted(p)' <=> Wanted(p)) /\ (Wanted(p) <=> p = piece)
  BY <1>1 DEF Wanted
<1>8. ASSUME Undisturbed' PROVE Pending' /\ \E k \in Nat : Excused(k)'
  <2>1. Pending /\ \E k \in Nat : Excused(k)
    BY <1>1, <1>8 DEF FetchInv, FetchExcuses, Undisturbed
  <2>2. Pending'
    <3>1. Len(replies) + Busy + Len(requests) <= misses
      BY <1>1, <1>2, <2>1 DEF Pending
    <3>2. Len(replies') + Busy' + Len(requests') <= misses' + 1
      <4>1. replies' = replies /\ misses' = misses
        BY <1>1
      <4>. QED
        BY <1>2, <1>3, <1>4, <3>1, <4>1
    <3>. QED
      BY <1>1, <3>2 DEF Pending
  <2>3. PICK k \in Nat : Excused(k)
    BY <2>1
  <2>4. \A i \in 1..Len(requests') : Len(replies) + Busy + i > k => requests'[i] = piece
    BY <1>3, <1>4, <1>7, <2>3 DEF Excused
  <2>5. Excused(k)'
    BY <1>1, <1>3, <1>7, <2>3, <2>4 DEF Excused
  <2>. QED
    BY <2>2, <2>5
<1>. QED
  BY <1>5, <1>6, <1>8 DEF FetchInv, FetchExcuses

\* Fail: the piece stays wanted, and the types hold.
LEMMA FailKeeps ==
    ASSUME FetchTypeOK, FetchControl, at = "receive", Fail
    PROVE  /\ queue' \in Seq(Piece) /\ at' \in {"take", "off"} /\ piece' = None
           /\ failures' = failures + 1 /\ failures' \in 0..MaxFailures
           /\ at' # "off" => failures' < MaxFailures
           /\ written' = written
           /\ \A p : (Wanted(p)' <=> Wanted(p)) /\ (Wanted(p) <=> p = piece)
<1>1. /\ piece \in Piece /\ queue \in Seq(Piece) /\ failures \in 0..MaxFailures
      /\ failures < MaxFailures /\ MaxFailures \in Nat
  BY FetchBounds DEF FetchTypeOK, FetchControl
<1>2. /\ queue' = Append(queue, piece) /\ failures' = failures + 1 /\ piece' = None
      /\ at' = (IF failures + 1 >= MaxFailures THEN "off" ELSE "take")
      /\ written' = written
  BY DEF Fail, PushBack, TooMany
<1>3. /\ queue' \in Seq(Piece) /\ queue' # <<>> /\ Len(queue') = Len(queue) + 1
      /\ queue'[Len(queue) + 1] = piece
  BY <1>1, <1>2, AppendProperties
<1>4. \A p : (Wanted(p)' <=> Wanted(p)) /\ (Wanted(p) <=> p = piece)
  BY <1>2, <1>3 DEF Wanted
<1>. QED
  BY <1>1, <1>2, <1>3, <1>4

\* A failure the peer is to blame for, with nothing of its replies read.
LEMMA BlamedInv ==
    ASSUME FetchInv, at = "receive", Fail, misses' = misses + 1,
           timeouts' \in 0..MaxTimeouts,
           UNCHANGED <<rival, rivals, replies, garbled, badWrites, torn>>,
           UNCHANGED <<requests, serving, store, alive, reshares>>
    PROVE  FetchInv'
<1>1. FetchTypeOK /\ FetchControl
  BY DEF FetchInv
<1>2. /\ queue' \in Seq(Piece) /\ at' \in {"take", "off"} /\ piece' = None
      /\ failures' = failures + 1 /\ failures' \in 0..MaxFailures
      /\ at' # "off" => failures' < MaxFailures
      /\ written' = written
      /\ \A p : Wanted(p)' <=> Wanted(p)
  BY <1>1, FailKeeps
<1>3. FetchTypeOK'
  BY <1>1, <1>2 DEF FetchTypeOK
<1>4. FetchControl'
  BY <1>1, <1>2 DEF FetchControl
<1>5. /\ misses \in Nat /\ badWrites \in Nat /\ failures \in Nat
      /\ Len(replies) \in Nat /\ Len(requests) \in Nat
      /\ Busy \in 0..1 /\ Busy' = Busy
  BY <1>1, FetchBounds, LenProperties DEF FetchTypeOK, Busy
<1>6. ASSUME Undisturbed' PROVE Pending' /\ \E k \in Nat : Excused(k)'
  <2>1. Pending /\ \E k \in Nat : Excused(k)
    BY <1>6 DEF FetchInv, FetchExcuses, Undisturbed
  <2>2. Pending'
    BY <1>2, <1>5, <2>1 DEF Pending
  <2>3. PICK k \in Nat : Excused(k)
    BY <2>1
  <2>4. Excused(k)'
    BY <1>2, <1>5, <2>3 DEF Excused
  <2>. QED
    BY <2>2, <2>4
<1>. QED
  BY <1>3, <1>4, <1>6 DEF FetchInv, FetchExcuses

LEMMA ReceiveEndInv == ASSUME FetchInv, ReceiveEnd PROVE FetchInv'
<1>1. /\ at = "receive" /\ Fail /\ misses' = misses + 1
      /\ UNCHANGED <<rival, rivals, replies, garbled, badWrites, torn>> /\ timeouts' = timeouts
      /\ UNCHANGED <<requests, serving, store, alive, reshares>>
  BY DEF ReceiveEnd, rivalVars, peerVars
<1>2. timeouts' \in 0..MaxTimeouts
  BY <1>1 DEF FetchInv, FetchTypeOK
<1>. QED
  BY <1>1, <1>2, BlamedInv

LEMMA TimeoutInv == ASSUME FetchInv, Timeout PROVE FetchInv'
<1>1. /\ at = "receive" /\ Fail /\ misses' = misses + 1
      /\ timeouts < MaxTimeouts /\ timeouts' = timeouts + 1
      /\ UNCHANGED <<rival, rivals, replies, garbled, badWrites, torn>>
      /\ UNCHANGED <<requests, serving, store, alive, reshares>>
  BY DEF Timeout, rivalVars, peerVars
<1>2. timeouts' \in 0..MaxTimeouts
  BY <1>1, FetchBounds DEF FetchInv, FetchTypeOK
<1>. QED
  BY <1>1, <1>2, BlamedInv

LEMMA TornTimeoutInv == ASSUME FetchInv, TornTimeout PROVE FetchInv'
<1>1. /\ at = "receive" /\ Fail /\ torn < MaxTorn /\ torn' = torn + 1
      /\ serving' = None /\ garbled' = TRUE /\ misses' = misses + 1
      /\ UNCHANGED <<rival, rivals, replies, badWrites, timeouts, requests, store, alive, reshares>>
  BY DEF TornTimeout, rivalVars
<1>2. FetchTypeOK /\ FetchControl
  BY DEF FetchInv
<1>3. /\ queue' \in Seq(Piece) /\ at' \in {"take", "off"} /\ piece' = None
      /\ failures' = failures + 1 /\ failures' \in 0..MaxFailures
      /\ at' # "off" => failures' < MaxFailures
      /\ written' = written
  BY <1>1, <1>2, FailKeeps
<1>4. torn' \in 0..MaxTorn /\ torn' # 0 /\ misses' \in Nat
  BY <1>1, <1>2, FetchBounds DEF FetchTypeOK
<1>5. FetchTypeOK'
  BY <1>1, <1>2, <1>3, <1>4 DEF FetchTypeOK
<1>6. FetchControl' /\ FetchExcuses'
  BY <1>1, <1>2, <1>3, <1>4 DEF FetchControl, FetchExcuses, Undisturbed
<1>. QED
  BY <1>5, <1>6 DEF FetchInv

\* Garbage is read only after a receive that ended inside a message.
LEMMA ReceiveGarbageInv == ASSUME FetchInv, ReceiveGarbage PROVE FetchInv'
<1>1. /\ at = "receive" /\ garbled /\ Fail /\ garbled' \in BOOLEAN
      /\ UNCHANGED <<rival, rivals, replies, misses, badWrites, timeouts, torn>>
      /\ UNCHANGED <<requests, serving, store, alive, reshares>>
  BY DEF ReceiveGarbage, rivalVars, peerVars
<1>2. FetchTypeOK /\ FetchControl
  BY DEF FetchInv
<1>3. /\ queue' \in Seq(Piece) /\ at' \in {"take", "off"} /\ piece' = None
      /\ failures' = failures + 1 /\ failures' \in 0..MaxFailures
      /\ at' # "off" => failures' < MaxFailures
      /\ written' = written
  BY <1>1, <1>2, FailKeeps
<1>4. torn # 0
  BY <1>1, <1>2 DEF FetchControl
<1>5. FetchTypeOK'
  BY <1>1, <1>2, <1>3 DEF FetchTypeOK
<1>6. FetchControl' /\ FetchExcuses'
  BY <1>1, <1>2, <1>3, <1>4 DEF FetchControl, FetchExcuses, Undisturbed
<1>. QED
  BY <1>5, <1>6 DEF FetchInv

\* What is left when the first reply is read.
LEMMA FirstRead ==
    ASSUME FetchTypeOK, replies # <<>>, replies' = Tail(replies)
    PROVE  /\ Head(replies) = replies[1] /\ Head(replies) \in Answer
           /\ replies' \in Seq(Answer) /\ Len(replies) \in Nat /\ Len(replies) > 0
           /\ Len(replies') = Len(replies) - 1
           /\ \A i \in 1..Len(replies') : replies'[i] = replies[i + 1]
<1>1. replies \in Seq(Answer)
  BY DEF FetchTypeOK
<1>2. Head(replies) = replies[1] /\ Len(replies) \in Nat /\ Len(replies) > 0
  BY <1>1, LenProperties, EmptySeq
<1>. QED
  BY <1>1, <1>2, HeadTailProperties

\* A right piece is welcome, whichever request it answers: from then on all that
\* is under way may be stale, and each of these was missed.
LEMMA GoodInv ==
    ASSUME FetchInv, at = "receive", replies # <<>>,
           misses' = misses, written' = written \cup {piece},
           failures' = 0, at' = "take", piece' = None, queue' = queue,
           replies' = Tail(replies),
           UNCHANGED <<rival, rivals, garbled, badWrites, timeouts, torn>>,
           UNCHANGED <<requests, serving, store, alive, reshares>>
    PROVE  FetchInv'
<1>1. FetchTypeOK /\ FetchControl
  BY DEF FetchInv
<1>2. /\ replies' \in Seq(Answer) /\ Len(replies) \in Nat /\ Len(replies') = Len(replies) - 1
      /\ Len(replies) > 0
  BY <1>1, FirstRead
<1>3. piece \in Piece
  BY <1>1 DEF FetchTypeOK
<1>4. FetchTypeOK'
  BY <1>1, <1>2, <1>3, FetchBounds DEF FetchTypeOK
<1>6. FetchControl'
  BY <1>1, FetchBounds DEF FetchControl
<1>7. /\ misses \in Nat /\ badWrites \in Nat
      /\ Len(requests) \in Nat /\ Busy \in 0..1 /\ Busy' = Busy
  BY <1>1, FetchBounds, LenProperties DEF FetchTypeOK, Busy
<1>8. ASSUME Undisturbed' PROVE Pending' /\ \E k \in Nat : Excused(k)'
  <2>1. Len(replies) + Busy + Len(requests) <= misses + 1
    BY <1>8 DEF FetchInv, FetchExcuses, Undisturbed, Pending
  <2>2. PICK k \in Nat : k = Len(replies') + Busy + Len(requests) /\ k <= misses
    BY <1>2, <1>7, <2>1
  <2>3. Pending'
    BY <1>7, <2>2 DEF Pending
  <2>4. Excused(k)'
    <3>1. /\ \A i \in 1..Len(replies') : ~(i > k)
          /\ serving # None => ~(Len(replies') + 1 > k)
          /\ \A i \in 1..Len(requests) : ~(Len(replies') + Busy + i > k)
      BY <1>2, <1>7, <2>2 DEF Busy
    <3>2. 0 + k <= misses + badWrites
      BY <1>7, <2>2
    <3>. QED
      BY <1>7, <3>1, <3>2 DEF Excused
  <2>. QED
    BY <2>2, <2>3, <2>4
<1>. QED
  BY <1>4, <1>6, <1>8 DEF FetchInv, FetchExcuses

\* One more failure is excused by one more miss, by one more write that failed, or by
\* one stale reply fewer.
LEMMA OneMoreExcused ==
    ASSUME NEW f \in Nat, NEW k \in Nat, NEW m \in Nat, NEW b \in Nat, NEW m1 \in Nat, NEW b1 \in Nat,
           f + k <= m + b, m <= m1, b <= b1, k = 0 => m1 = m + 1 \/ b1 = b + 1
    PROVE  \E j \in Nat : j + 1 >= k /\ f + 1 + j <= m1 + b1
<1>1. CASE k = 0
  <2>1. 0 + 1 >= k /\ f + 1 + 0 <= m1 + b1
    BY <1>1
  <2>. QED
    BY <2>1
<1>2. CASE k > 0
  <2>1. k - 1 \in Nat /\ (k - 1) + 1 >= k /\ f + 1 + (k - 1) <= m1 + b1
    BY <1>2
  <2>. QED
    BY <2>1
<1>. QED
  BY <1>1, <1>2

\* A reply that fails the request is without the piece, a miss; or its piece is not
\* taken by the disk; or it is stale, and then one stale reply fewer is to come.
LEMMA WrongInv ==
    ASSUME FetchInv, at = "receive", replies # <<>>, Fail,
           misses' = (IF Head(replies).from # "file" THEN misses + 1 ELSE misses),
           badWrites' \in 0..MaxBadWrites,
           \/ badWrites' = badWrites + 1
           \/ badWrites' = badWrites /\ ~(Fetched(Head(replies)) /\ Verified(Head(replies))),
           replies' = Tail(replies),
           UNCHANGED <<rival, rivals, garbled, timeouts, torn>>,
           UNCHANGED <<requests, serving, store, alive, reshares>>
    PROVE  FetchInv'
<1>1. FetchTypeOK /\ FetchControl
  BY DEF FetchInv
<1>2. /\ Head(replies) = replies[1]
      /\ replies' \in Seq(Answer) /\ Len(replies) \in Nat /\ Len(replies') = Len(replies) - 1
      /\ Len(replies) > 0
      /\ \A i \in 1..Len(replies') : replies'[i] = replies[i + 1]
  BY <1>1, FirstRead
<1>3. /\ queue' \in Seq(Piece) /\ at' \in {"take", "off"} /\ piece' = None
      /\ failures' = failures + 1 /\ failures' \in 0..MaxFailures
      /\ at' # "off" => failures' < MaxFailures
      /\ written' = written
      /\ \A p : (Wanted(p)' <=> Wanted(p)) /\ (Wanted(p) <=> p = piece)
  BY <1>1, FailKeeps
<1>4. misses \in Nat /\ misses' \in Nat /\ misses <= misses'
  BY <1>1 DEF FetchTypeOK
<1>9. badWrites \in Nat /\ badWrites' \in Nat /\ badWrites <= badWrites'
  BY <1>1, FetchBounds DEF FetchTypeOK
<1>5. FetchTypeOK'
  BY <1>1, <1>2, <1>3, <1>4 DEF FetchTypeOK
<1>6. FetchControl'
  BY <1>1, <1>3 DEF FetchControl
<1>7. failures \in Nat /\ Len(requests) \in Nat /\ Busy \in 0..1 /\ Busy' = Busy
  BY <1>1, FetchBounds, LenProperties DEF FetchTypeOK, Busy
<1>8. ASSUME Undisturbed' PROVE Pending' /\ \E k \in Nat : Excused(k)'
  <2>1. Pending /\ \E k \in Nat : Excused(k)
    BY <1>8 DEF FetchInv, FetchExcuses, Undisturbed
  <2>2. Len(replies) + Busy + Len(requests) <= misses + 1
    BY <2>1 DEF Pending
  <2>3. Pending'
    <3>1. Len(replies') + Busy' + Len(requests') <= misses'
      BY <1>2, <1>4, <1>7, <2>2
    <3>. QED
      BY <1>3, <3>1 DEF Pending
  <2>4. PICK k \in Nat : Excused(k)
    BY <2>1
  <2>5. /\ failures + k <= misses + badWrites
        /\ \A i \in 1..Len(replies) :
             i > k => replies[i].from # "file" \/ replies[i].index = piece
        /\ serving # None /\ Len(replies) + 1 > k => serving.index = piece
        /\ \A i \in 1..Len(requests) : Len(replies) + Busy + i > k => requests[i] = piece
    BY <1>3, <2>4 DEF Excused
  <2>6. k = 0 => replies[1].from # "file" \/ badWrites' = badWrites + 1
    BY <1>2, <2>5 DEF Fetched, Verified
  <2>7. PICK j \in Nat : j + 1 >= k /\ failures + 1 + j <= misses' + badWrites'
    <3>1. k = 0 => misses' = misses + 1 \/ badWrites' = badWrites + 1
      BY <1>2, <2>6
    <3>. QED
      BY <1>4, <1>7, <1>9, <2>5, <3>1, OneMoreExcused
  <2>8. \A i \in 1..Len(replies') :
          i > j => replies'[i].from # "file" \/ replies'[i].index = piece
    <3>. SUFFICES ASSUME NEW i \in 1..Len(replies'), i > j
                  PROVE  replies'[i].from # "file" \/ replies'[i].index = piece
      OBVIOUS
    <3>1. i + 1 \in 1..Len(replies) /\ i + 1 > k /\ replies'[i] = replies[i + 1]
      BY <1>2, <2>7
    <3>. QED
      BY <2>5, <3>1
  <2>9. serving # None /\ Len(replies') + 1 > j => serving.index = piece
    BY <1>2, <2>5, <2>7
  <2>10. \A i \in 1..Len(requests) : Len(replies') + Busy + i > j => requests[i] = piece
    BY <1>2, <1>7, <2>5, <2>7
  <2>11. Excused(j)'
    BY <1>3, <1>7, <2>7, <2>8, <2>9, <2>10 DEF Excused
  <2>. QED
    BY <2>3, <2>11
<1>. QED
  BY <1>5, <1>6, <1>8 DEF FetchInv, FetchExcuses

LEMMA ReceiveInv == ASSUME FetchInv, Receive PROVE FetchInv'
<1>. DEFINE r == Head(replies)
<1>1. /\ at = "receive" /\ replies # <<>> /\ replies' = Tail(replies)
      /\ misses' = (IF r.from # "file" THEN misses + 1 ELSE misses)
      /\ UNCHANGED <<rival, rivals, garbled, timeouts, torn>>
      /\ UNCHANGED <<requests, serving, store, alive, reshares>>
  BY DEF Receive, rivalVars, peerVars
<1>2. \/ /\ Fetched(r) /\ Verified(r) /\ written' = written \cup {piece}
         /\ failures' = 0 /\ at' = "take" /\ piece' = None /\ UNCHANGED <<queue, badWrites>>
      \/ badWrites < MaxBadWrites /\ badWrites' = badWrites + 1 /\ Fail
      \/ ~(Fetched(r) /\ Verified(r)) /\ Fail /\ badWrites' = badWrites
  BY DEF Receive, WritePiece
<1>3. badWrites \in 0..MaxBadWrites /\ MaxBadWrites \in Nat
  BY FetchBounds DEF FetchInv, FetchTypeOK
<1>4. Verified(r) => misses' = misses
  BY <1>1 DEF Verified
<1>5. CASE Fail /\ badWrites' = badWrites + 1 /\ badWrites < MaxBadWrites
  <2>1. badWrites' \in 0..MaxBadWrites
    BY <1>3, <1>5
  <2>. QED
    BY <1>1, <1>5, <2>1, WrongInv
<1>6. CASE ~(Fetched(r) /\ Verified(r)) /\ Fail /\ badWrites' = badWrites
  BY <1>1, <1>3, <1>6, WrongInv
<1>7. CASE /\ Verified(r) /\ written' = written \cup {piece}
           /\ failures' = 0 /\ at' = "take" /\ piece' = None /\ UNCHANGED <<queue, badWrites>>
  BY <1>1, <1>4, <1>7, GoodInv
<1>. QED
  BY <1>2, <1>5, <1>6, <1>7

\* The first request moves into the hand of serve_peer.
LEMMA FindInv == ASSUME FetchInv, Find PROVE FetchInv'
<1>1. /\ serving = None /\ requests # <<>> /\ requests' = Tail(requests)
      /\ serving' = [index |-> Head(requests), store |-> store]
      /\ UNCHANGED <<queue, at, piece, failures, written, rival, rivals, replies>>
      /\ UNCHANGED <<garbled, misses, badWrites, timeouts, torn, store, alive, reshares>>
  BY DEF Find, workerVars, rivalVars
<1>2. FetchTypeOK /\ FetchControl
  BY DEF FetchInv
<1>3. requests \in Seq(Piece) /\ replies \in Seq(Answer) /\ misses \in Nat /\ store \in Shared
  BY <1>2 DEF FetchTypeOK
<1>4. /\ Head(requests) = requests[1] /\ Len(requests) \in Nat /\ Len(requests) > 0
      /\ Len(replies) \in Nat
  BY <1>1, <1>3, LenProperties, EmptySeq
<1>5. /\ Head(requests) \in Piece /\ requests' \in Seq(Piece)
      /\ Len(requests') = Len(requests) - 1
      /\ \A i \in 1..Len(requests') : requests'[i] = requests[i + 1]
  BY <1>1, <1>3, HeadTailProperties
<1>6. FetchTypeOK'
  BY <1>1, <1>2, <1>3, <1>5 DEF FetchTypeOK
<1>7. FetchControl'
  BY <1>1, <1>2 DEF FetchControl
<1>8. \A p : Wanted(p)' <=> Wanted(p)
  BY <1>1 DEF Wanted
<1>9. Busy = 0 /\ Busy' \in 0..1
  BY <1>1 DEF Busy
<1>10. ASSUME Undisturbed' PROVE Pending' /\ \E k \in Nat : Excused(k)'
  <2>1. Pending /\ \E k \in Nat : Excused(k)
    BY <1>1, <1>10 DEF FetchInv, FetchExcuses, Undisturbed
  <2>2. Pending'
    <3>1. Len(replies') + Busy' + Len(requests') <= Len(replies) + Busy + Len(requests)
      BY <1>1, <1>4, <1>5, <1>9
    <3>. QED
      BY <1>1, <1>3, <1>4, <1>5, <1>9, <2>1, <3>1 DEF Pending
  <2>3. PICK k \in Nat : Excused(k)
    BY <2>1
  <2>4. \A i \in 1..Len(requests) : Len(replies) + i > k => Wanted(requests[i])
    BY <1>4, <1>9, <2>3 DEF Excused
  <2>5. Len(replies) + 1 > k => Wanted(serving'.index)
    BY <1>1, <1>4, <2>4
  <2>6. \A i \in 1..Len(requests') : Len(replies) + Busy' + i > k => Wanted(requests'[i])
    <3>. SUFFICES ASSUME NEW i \in 1..Len(requests'), Len(replies) + Busy' + i > k
                  PROVE  Wanted(requests'[i])
      OBVIOUS
    <3>1. i + 1 \in 1..Len(requests) /\ Len(replies) + (i + 1) > k
      BY <1>4, <1>5, <1>9
    <3>. QED
      BY <1>5, <2>4, <3>1
  <2>7. Excused(k)'
    BY <1>1, <1>8, <2>3, <2>5, <2>6 DEF Excused
  <2>. QED
    BY <2>2, <2>7
<1>. QED
  BY <1>6, <1>7, <1>10 DEF FetchInv, FetchExcuses

\* A reply is to the request it is made for, or without the piece.
LEMMA ReplyInv == ASSUME FetchInv, Reply PROVE FetchInv'
<1>. DEFINE a == IF serving.store = None THEN [index |-> None, from |-> None]
                 ELSE [index |-> serving.index, from |-> serving.store]
<1>1. /\ serving # None /\ replies' = Append(replies, a) /\ serving' = None
      /\ UNCHANGED <<queue, at, piece, failures, written, rival, rivals>>
      /\ UNCHANGED <<garbled, misses, badWrites, timeouts, torn, requests, store, alive, reshares>>
  BY DEF Reply, workerVars, rivalVars
<1>2. FetchTypeOK /\ FetchControl
  BY DEF FetchInv
<1>3. /\ serving \in [index: Piece, store: Shared] /\ replies \in Seq(Answer)
      /\ requests \in Seq(Piece) /\ misses \in Nat
  BY <1>1, <1>2 DEF FetchTypeOK
<1>4. a \in Answer /\ (a.from # "file" \/ a.index = serving.index)
  BY <1>3, FetchBounds DEF Answer, Shared
<1>. HIDE DEF a
<1>5. /\ replies' \in Seq(Answer) /\ Len(replies') = Len(replies) + 1
      /\ \A i \in 1..Len(replies) : replies'[i] = replies[i]
      /\ replies'[Len(replies) + 1] = a
  BY <1>1, <1>3, <1>4, AppendProperties
<1>6. FetchTypeOK'
  BY <1>1, <1>2, <1>5 DEF FetchTypeOK
<1>7. FetchControl'
  BY <1>1, <1>2 DEF FetchControl
<1>8. \A p : Wanted(p)' <=> Wanted(p)
  BY <1>1 DEF Wanted
<1>9. Busy = 1 /\ Busy' = 0 /\ Len(replies) \in Nat /\ Len(requests) \in Nat
  BY <1>1, <1>3, LenProperties DEF Busy
<1>10. ASSUME Undisturbed' PROVE Pending' /\ \E k \in Nat : Excused(k)'
  <2>1. Pending /\ \E k \in Nat : Excused(k)
    BY <1>1, <1>10 DEF FetchInv, FetchExcuses, Undisturbed
  <2>2. Pending'
    <3>1. Len(replies') + Busy' + Len(requests') = Len(replies) + Busy + Len(requests)
      BY <1>1, <1>5, <1>9
    <3>. QED
      BY <1>1, <2>1, <3>1 DEF Pending
  <2>3. PICK k \in Nat : Excused(k)
    BY <2>1
  <2>4. \A i \in 1..Len(replies') :
          i > k => replies'[i].from # "file" \/ Wanted(replies'[i].index)
    <3>. SUFFICES ASSUME NEW i \in 1..Len(replies'), i > k
                  PROVE  replies'[i].from # "file" \/ Wanted(replies'[i].index)
      OBVIOUS
    <3>1. CASE i <= Len(replies)
      BY <1>5, <1>9, <2>3, <3>1 DEF Excused
    <3>2. CASE i = Len(replies) + 1
      BY <1>1, <1>4, <1>5, <2>3, <3>2 DEF Excused
    <3>. QED
      BY <1>5, <1>9, <3>1, <3>2
  <2>5. \A i \in 1..Len(requests) : Len(replies') + Busy' + i > k => Wanted(requests[i])
    BY <1>5, <1>9, <2>3 DEF Excused
  <2>6. Excused(k)'
    BY <1>1, <1>8, <2>3, <2>4, <2>5 DEF Excused
  <2>. QED
    BY <2>2, <2>6
<1>. QED
  BY <1>6, <1>7, <1>10 DEF FetchInv, FetchExcuses

LEMMA RivalTakesInv == ASSUME FetchInv, RivalTakes PROVE FetchInv'
<1>1. /\ rivals < MaxRivals /\ queue # <<>> /\ rivals' = rivals + 1
      /\ rival' = rival \cup {queue[Len(queue)]} /\ queue' = Front(queue)
      /\ UNCHANGED <<at, piece, failures, written, replies, garbled, misses, badWrites, timeouts, torn>>
      /\ UNCHANGED <<requests, serving, store, alive, reshares>>
  BY DEF RivalTakes, peerVars
<1>2. FetchTypeOK /\ FetchControl
  BY DEF FetchInv
<1>3. queue[Len(queue)] \in Piece /\ queue' \in Seq(Piece)
  BY <1>1, <1>2, QueueTop DEF FetchTypeOK
<1>4. rivals' \in 0..MaxRivals /\ rivals' # 0
  BY <1>1, <1>2, FetchBounds DEF FetchTypeOK
<1>5. FetchTypeOK'
  BY <1>1, <1>2, <1>3, <1>4 DEF FetchTypeOK
<1>6. FetchControl' /\ FetchExcuses'
  BY <1>1, <1>2, <1>4 DEF FetchControl, FetchExcuses, Undisturbed
<1>. QED
  BY <1>5, <1>6 DEF FetchInv

LEMMA RivalEndsInv == ASSUME FetchInv, RivalEnds PROVE FetchInv'
<1>1. PICK p \in rival :
        /\ rival' = rival \ {p}
        /\ \/ queue' = Append(queue, p) /\ UNCHANGED written
           \/ written' = written \cup {p} /\ UNCHANGED queue
        /\ UNCHANGED <<rivals, at, piece, failures, replies, garbled, misses, badWrites, timeouts, torn>>
        /\ UNCHANGED <<requests, serving, store, alive, reshares>>
  BY DEF RivalEnds, peerVars
<1>2. FetchTypeOK /\ FetchControl
  BY DEF FetchInv
<1>3. p \in Piece /\ queue' \in Seq(Piece)
  <2>1. p \in Piece /\ queue \in Seq(Piece)
    BY <1>2 DEF FetchTypeOK
  <2>2. queue' = queue \/ queue' = Append(queue, p)
    BY <1>1
  <2>. QED
    BY <2>1, <2>2, AppendProperties
<1>4. rivals # 0
  BY <1>1, <1>2 DEF FetchControl
<1>5. FetchTypeOK'
  BY <1>1, <1>2, <1>3 DEF FetchTypeOK
<1>6. FetchControl' /\ FetchExcuses'
  BY <1>1, <1>2, <1>4 DEF FetchControl, FetchExcuses, Undisturbed
<1>. QED
  BY <1>5, <1>6 DEF FetchInv

LEMMA ReshareInv == ASSUME FetchInv, Reshare PROVE FetchInv'
<1>1. /\ reshares < MaxReshares /\ reshares' = reshares + 1 /\ store' \in Shared
      /\ UNCHANGED <<queue, at, piece, failures, written, rival, rivals, replies, garbled>>
      /\ UNCHANGED <<misses, badWrites, timeouts, torn, requests, serving, alive>>
  BY DEF Reshare, workerVars, rivalVars
<1>2. reshares' \in 0..MaxReshares
  BY <1>1, FetchBounds DEF FetchInv, FetchTypeOK
<1>3. FetchTypeOK'
  BY <1>1, <1>2 DEF FetchInv, FetchTypeOK
<1>4. \A p : Wanted(p)' <=> Wanted(p)
  BY <1>1 DEF Wanted
<1>5. /\ Undisturbed' <=> Undisturbed
      /\ Pending' <=> Pending
      /\ \A k \in Nat : Excused(k)' <=> Excused(k)
  BY <1>1, <1>4 DEF Undisturbed, Pending, Excused, Busy
<1>. QED
  BY <1>1, <1>3, <1>5 DEF FetchInv, FetchControl, FetchExcuses

\* A peer that dies takes what is under way with it: less is pending.
LEMMA DieInv == ASSUME FetchInv, Die PROVE FetchInv'
<1>1. /\ alive' = FALSE /\ requests' = <<>> /\ serving' = None /\ replies' \in {replies, <<>>}
      /\ UNCHANGED <<queue, at, piece, failures, written, rival, rivals>>
      /\ UNCHANGED <<garbled, misses, badWrites, timeouts, torn, store, reshares>>
  BY DEF Die, workerVars, rivalVars
<1>2. FetchTypeOK /\ FetchControl
  BY DEF FetchInv
<1>3. /\ requests' \in Seq(Piece) /\ Len(requests') = 0 /\ Busy' = 0 /\ Busy \in 0..1
      /\ Len(requests) \in Nat /\ Len(replies) \in Nat /\ misses \in Nat
  BY <1>1, <1>2, LenProperties DEF FetchTypeOK, Busy
<1>4. replies' \in Seq(Answer) /\ (replies' = replies \/ Len(replies') = 0)
  <2>1. replies \in Seq(Answer) /\ <<>> \in Seq(Answer) /\ Len(<<>>) = 0
    BY <1>2 DEF FetchTypeOK
  <2>. QED
    BY <1>1, <2>1
<1>5. FetchTypeOK'
  BY <1>1, <1>2, <1>3, <1>4 DEF FetchTypeOK
<1>6. FetchControl'
  BY <1>1, <1>2 DEF FetchControl
<1>7. \A p : Wanted(p)' <=> Wanted(p)
  BY <1>1 DEF Wanted
<1>8. ASSUME Undisturbed' PROVE Pending' /\ \E k \in Nat : Excused(k)'
  <2>1. Pending /\ \E k \in Nat : Excused(k)
    BY <1>1, <1>8 DEF FetchInv, FetchExcuses, Undisturbed
  <2>2. Pending'
    <3>1. Len(replies') + Busy' + Len(requests') <= Len(replies) + Busy + Len(requests)
      BY <1>3, <1>4
    <3>2. Len(replies') \in Nat
      BY <1>3, <1>4
    <3>. QED
      BY <1>1, <1>3, <2>1, <3>1, <3>2 DEF Pending
  <2>3. PICK k \in Nat : Excused(k)
    BY <2>1
  <2>4. \A i \in 1..Len(replies') :
          i > k => replies'[i].from # "file" \/ Wanted(replies'[i].index)
    BY <1>4, <2>3 DEF Excused
  <2>5. Excused(k)'
    BY <1>1, <1>3, <1>7, <2>3, <2>4 DEF Excused
  <2>. QED
    BY <2>2, <2>5
<1>. QED
  BY <1>5, <1>6, <1>8 DEF FetchInv, FetchExcuses

LEMMA FetchStepInv == FetchInv /\ [FetchNext]_fetchVars => FetchInv'
<1>. SUFFICES ASSUME FetchInv, [FetchNext]_fetchVars PROVE FetchInv'
  OBVIOUS
<1>1. CASE UNCHANGED fetchVars
  <2>1. /\ UNCHANGED <<queue, at, piece, failures, written, rival, rivals, replies, garbled>>
        /\ UNCHANGED <<misses, badWrites, timeouts, torn, requests, serving, store, alive, reshares>>
    BY <1>1 DEF fetchVars, workerVars, rivalVars, peerVars
  <2>2. FetchTypeOK' /\ FetchControl'
    BY <2>1 DEF FetchInv, FetchTypeOK, FetchControl
  <2>3. \A p : Wanted(p)' <=> Wanted(p)
    BY <2>1 DEF Wanted
  <2>4. /\ Undisturbed' <=> Undisturbed
        /\ Pending' <=> Pending
        /\ \A k \in Nat : Excused(k)' <=> Excused(k)
    BY <2>1, <2>3 DEF Undisturbed, Pending, Excused, Busy
  <2>. QED
    BY <2>2, <2>4 DEF FetchInv, FetchExcuses
<1>2. CASE PeerWorker
  BY <1>2, TakeInv, RetireInv, SendInv, ReceiveInv, ReceiveGarbageInv, ReceiveEndInv,
     TimeoutInv, TornTimeoutInv DEF PeerWorker, WorkerGoesOn
<1>3. CASE ServePeer
  BY <1>3, FindInv, ReplyInv DEF ServePeer
<1>. QED
  BY <1>1, <1>2, <1>3, RivalTakesInv, RivalEndsInv, ReshareInv, DieInv DEF FetchNext

LEMMA FetchAlways == FetchSpec => []FetchInv
  BY FetchStarts, FetchStepInv, PTL DEF FetchSpec

\* The state of a connection between peers has its types, however often it
\* times out (peer_worker, serve_peer).
THEOREM FetchTypes == FetchSpec => []FetchTypeOK
<1>1. FetchInv => FetchTypeOK
  BY DEF FetchInv
<1>. QED
  BY <1>1, FetchAlways, PTL

\* Without rivals a peer is given up only after maxConsecutiveFailures requests
\* that it missed or whose piece the disk did not take, for every number of pieces,
\* of forgiven failures, of timeouts and of failed writes
\* (download_manager.cpp:128-131, 156-169).
THEOREM RetiredOnlyForCause == FetchSpec => []RetiredForCause
<1>1. FetchInv => RetiredForCause
  <2>. SUFFICES ASSUME FetchInv, rivals = 0, failures = MaxFailures, ~(torn > 0)
                PROVE  misses + badWrites >= MaxFailures
    BY DEF RetiredForCause
  <2>1. torn = 0 /\ misses \in Nat /\ badWrites \in Nat /\ MaxFailures \in Nat
    BY FetchBounds DEF FetchInv, FetchTypeOK
  <2>2. PICK k \in Nat : Excused(k)
    BY <2>1 DEF FetchInv, FetchExcuses, Undisturbed
  <2>. QED
    BY <2>1, <2>2 DEF Excused
<1>. QED
  BY <1>1, FetchAlways, PTL

=============================================================================
