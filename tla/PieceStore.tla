----------------------------- MODULE PieceStore -----------------------------
(***************************************************************************)
(* Class PieceStore (client/piece_store) as it keeps its bitmap and cuts   *)
(* its file: one bit per piece, most significant first, in whole bytes,    *)
(* whose padding a seeder fills too; and the way hash_file                 *)
(* (common/sha1.cpp) cuts the file it publishes, which must be the same.   *)
(*                                                                         *)
(* Bytes are numbers of 0..255 and the bit operators of the code are the   *)
(* arithmetic they perform.  Pieces are numbered from 0.  The order and    *)
(* the failures of disk I/O are the subject of Download.                   *)
(***************************************************************************)
EXTENDS Integers, Sequences, FiniteSets

CONSTANTS
    PIECE_SIZE,     \* bytes in a piece
    MaxSize         \* bound on the size of a file

ASSUME SizeAssumption == PIECE_SIZE \in Nat \ {0} /\ MaxSize \in Nat

VARIABLES
    mode,           \* "closed", "seed" or "download"
    size,           \* size_
    piece_count,    \* piece_count_
    bits,           \* have_
    told            \* the pieces the store was told it has

vars == <<mode, size, piece_count, bits, told>>

----------------------------------------------------------------------------

\* hash_file: how many pieces a file of n bytes has.
PieceCount(n) == (n + PIECE_SIZE - 1) \div PIECE_SIZE

\* hash_file: the bytes hashed for piece i of a file of n bytes.
HashedLen(n, i) ==
    IF PIECE_SIZE < n - i * PIECE_SIZE THEN PIECE_SIZE ELSE n - i * PIECE_SIZE

\* Slip: the last piece is the rest after the full ones, which may be empty.
PieceLenRest(i) ==
    IF i + 1 < piece_count THEN PIECE_SIZE ELSE size % PIECE_SIZE

\* piece_len
PieceLen(i) ==
    IF i + 1 < piece_count THEN PIECE_SIZE ELSE size - i * PIECE_SIZE

\* bitmap_bytes
BitmapBytes(n) == (n + 7) \div 8

\* 0x80 >> (i % 8)
Mask(i) == 2^(7 - (i % 8))

\* have_[i / 8] & Mask(i)
HasBit(b, i) == (b[i \div 8 + 1] \div Mask(i)) % 2 = 1

\* Slip: the bit is added, not or-ed.
AddBit(b, i) == [b EXCEPT ![i \div 8 + 1] = (@ + Mask(i)) % 256]

\* have_[i / 8] |= Mask(i)
SetBit(b, i) == IF HasBit(b, i) THEN b ELSE [b EXCEPT ![i \div 8 + 1] = @ + Mask(i)]

\* Slip: every bit of the bitmap is counted.
HaveCountAll ==
    Cardinality({i \in 0..(8 * Len(bits) - 1) : HasBit(bits, i)})

\* have_count
HaveCount == Cardinality({i \in 0..(piece_count - 1) : HasBit(bits, i)})

\* complete
Complete == HaveCount = piece_count

\* have
Have(i) == i < piece_count /\ HasBit(bits, i)

----------------------------------------------------------------------------

Init ==
    /\ mode = "closed" /\ size = 0 /\ piece_count = 0
    /\ bits = <<>> /\ told = {}

\* The file was published by hash_file, here or by another client.
Opened(m, n, byte) ==
    /\ mode = "closed"
    /\ mode' = m
    /\ size' = n /\ piece_count' = PieceCount(n)
    /\ bits' = [k \in 1..BitmapBytes(PieceCount(n)) |-> byte]

\* A seeder has everything.
OpenForSeed(n) ==
    /\ Opened("seed", n, 255)
    /\ told' = 0..(PieceCount(n) - 1)

OpenForDownload(n) ==
    /\ Opened("download", n, 0)
    /\ told' = {}

\* The mark at the end of write_piece and resume_scan; a piece may be marked
\* again by a second download of it.
MarkPiece(i) ==
    /\ mode # "closed"
    /\ bits' = SetBit(bits, i)
    /\ told' = told \cup {i}
    /\ UNCHANGED <<mode, size, piece_count>>

Next ==
    \/ \E n \in 0..MaxSize : OpenForSeed(n) \/ OpenForDownload(n)
    \/ \E i \in 0..(piece_count - 1) : MarkPiece(i)

Spec == Init /\ [][Next]_vars

----------------------------------------------------------------------------
(* Properties *)

TypeOK ==
    /\ mode \in {"closed", "seed", "download"}
    /\ size \in 0..MaxSize
    /\ piece_count \in 0..MaxSize
    /\ bits \in Seq(0..255)
    /\ told \subseteq 0..(piece_count - 1)

\* The bitmap is exact: a piece is had iff the store was told so, whatever the
\* order, the repetitions and the padding; marking one disturbs no other.  And the
\* store is complete exactly when it was told of every piece, also for an empty
\* file and in the padded bitmap of a seeder (have, complete, have_count).
BitmapExact ==
    /\ {i \in 0..(8 * Len(bits) + 8) : Have(i)} = told
    /\ Complete <=> told = 0..(piece_count - 1)

\* The pieces cover the file: each has between one and PIECE_SIZE bytes, as many
\* as hash_file hashed for it, and the last ends where the file ends; also when
\* the size is a multiple of PIECE_SIZE (piece_len, hash_file).
PiecesCover ==
    /\ \A i \in 0..(piece_count - 1) :
         PieceLen(i) \in 1..PIECE_SIZE /\ PieceLen(i) = HashedLen(size, i)
    /\ piece_count = 0 => size = 0
    /\ piece_count > 0 =>
         (piece_count - 1) * PIECE_SIZE + PieceLen(piece_count - 1) = size

=============================================================================
