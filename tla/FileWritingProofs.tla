-------------------------- MODULE FileWritingProofs --------------------------
(***************************************************************************)
(* Proofs about FileWriting, for torrents of any number of files of any    *)
(* lengths, any length of pieces and blocks, and any order of the pieces:  *)
(* but for the two layouts that FileWriting names, every byte of a file is *)
(* written at its place, once, and no byte of another file is.             *)
(*                                                                         *)
(* The sums of PieceGeometry are recursive functions: what they compute is *)
(* proved by the principle of the least number (LeastNumber).              *)
(***************************************************************************)
EXTENDS FileWriting, LeastNumber, FiniteSetTheorems, TLAPS

-----------------------------------------------------------------------------
(* Partial sums of the first n numbers.                                    *)
IsSums(s, n, f) == f = [i \in 0 .. n |-> IF i = 0 THEN 0 ELSE f[i - 1] + s[i]]

LEMMA SumsExist == ASSUME NEW s PROVE \A n \in Nat : \E f : IsSums(s, n, f)
<1> DEFINE bad == {n \in Nat : ~ \E f : IsSums(s, n, f)}
<1> SUFFICES ASSUME bad # {} PROVE FALSE
  OBVIOUS
<1>1. PICK n \in bad : \A m \in bad : n <= m
  BY LeastElement
<1>2. CASE n = 0
  <2> DEFINE g == [i \in 0 .. 0 |-> 0]
  <2>1. g = [i \in 0 .. 0 |-> IF i = 0 THEN 0 ELSE g[i - 1] + s[i]]
    OBVIOUS
  <2> QED
    BY <1>2, <2>1 DEF IsSums
<1>3. CASE n # 0
  <2>1. n \in Nat \ {0} /\ n - 1 \in Nat /\ n - 1 \notin bad
    BY <1>1, <1>3
  <2>2. PICK f : IsSums(s, n - 1, f)
    BY <2>1
  <2> DEFINE g == [i \in 0 .. n |-> IF i = n THEN f[n - 1] + s[n] ELSE f[i]]
  <2>3. \A i \in 0 .. n - 1 : f[i] = IF i = 0 THEN 0 ELSE f[i - 1] + s[i]
    BY <2>2 DEF IsSums
  <2>4. ASSUME NEW i \in 0 .. n PROVE g[i] = IF i = 0 THEN 0 ELSE g[i - 1] + s[i]
    BY <2>1, <2>3
  <2>5. g = [i \in 0 .. n |-> IF i = 0 THEN 0 ELSE g[i - 1] + s[i]]
    BY <2>4
  <2> HIDE DEF g
  <2>6. IsSums(s, n, g)
    BY <2>5 DEF IsSums
  <2> QED
    BY <2>6
<1> QED
  BY <1>2, <1>3

(* Sums is well-defined.                                                   *)
LEMMA SumsDef ==
  ASSUME NEW s, Len(s) \in Nat
  PROVE  /\ Sums(s)[0] = 0
         /\ \A i \in 1 .. Len(s) : Sums(s)[i] = Sums(s)[i - 1] + s[i]
<1>1. PICK f : IsSums(s, Len(s), f)
  BY SumsExist
<1>2. Sums(s) = [i \in 0 .. Len(s) |-> IF i = 0 THEN 0 ELSE Sums(s)[i - 1] + s[i]]
  BY <1>1, Zenon DEF Sums, IsSums
<1>3. \A i \in 0 .. Len(s) : Sums(s)[i] = IF i = 0 THEN 0 ELSE Sums(s)[i - 1] + s[i]
  BY <1>2, Zenon
<1> QED
  BY <1>3

(* What grows by natural numbers from 0 is a natural number, and does not  *)
(* go down.                                                                *)
LEMMA NeverDown ==
  ASSUME NEW n \in Nat, NEW s, NEW sum,
         sum[0] = 0,
         \A i \in 1 .. n : s[i] \in Nat /\ sum[i] = sum[i - 1] + s[i]
  PROVE  /\ \A i \in 0 .. n : sum[i] \in Nat
         /\ \A i \in 0 .. n : sum[i] <= sum[n]
<1>1. ASSUME NEW bad \in SUBSET Nat, bad = {i \in 0 .. n : sum[i] \notin Nat}, bad # {}
      PROVE  FALSE
  <2>1. PICK i \in bad : \A j \in bad : i <= j
    BY <1>1, LeastElement
  <2>2. i \in 1 .. n /\ i - 1 \in 0 .. n /\ i - 1 \notin bad
    BY <1>1, <2>1
  <2>3. sum[i - 1] \in Nat /\ sum[i] = sum[i - 1] + s[i] /\ s[i] \in Nat
    BY <1>1, <2>2
  <2> QED
    BY <1>1, <2>1, <2>3
<1>2. \A i \in 0 .. n : sum[i] \in Nat
  <2> DEFINE bad == {i \in 0 .. n : sum[i] \notin Nat}
  <2>1. bad \in SUBSET Nat
    OBVIOUS
  <2>2. bad = {}
    BY <1>1, <2>1
  <2> QED
    BY <2>2
<1>3. ASSUME NEW bad \in SUBSET Nat,
             bad = {k \in 0 .. n : ~ (sum[n - k] <= sum[n])}, bad # {}
      PROVE  FALSE
  <2>1. PICK k \in bad : \A j \in bad : k <= j
    BY <1>3, LeastElement
  <2>2. k \in 0 .. n /\ ~ (sum[n - k] <= sum[n])
    BY <1>3, <2>1
  <2>3. n \in 0 .. n /\ sum[n] \in Nat
    BY <1>2
  <2>4. k \in 1 .. n /\ k - 1 \in 0 .. n /\ k - 1 \notin bad
    BY <2>1, <2>2, <2>3
  <2>5. sum[n - (k - 1)] <= sum[n]
    BY <1>3, <2>4
  <2>6. n - (k - 1) \in 1 .. n /\ n - (k - 1) - 1 = n - k /\ n - k \in 0 .. n
    BY <2>4
  <2>7. sum[n - (k - 1)] = sum[n - k] + s[n - (k - 1)] /\ s[n - (k - 1)] \in Nat
    BY <2>6
  <2>8. sum[n - k] \in Nat
    BY <1>2, <2>6
  <2> QED
    BY <2>2, <2>3, <2>5, <2>7, <2>8
<1>4. \A k \in 0 .. n : sum[n - k] <= sum[n]
  <2> DEFINE bad == {k \in 0 .. n : ~ (sum[n - k] <= sum[n])}
  <2>1. bad \in SUBSET Nat
    OBVIOUS
  <2>2. bad = {}
    BY <1>3, <2>1
  <2> QED
    BY <2>2
<1>5. ASSUME NEW i \in 0 .. n PROVE sum[i] <= sum[n]
  <2>1. n - i \in 0 .. n /\ n - (n - i) = i
    OBVIOUS
  <2> QED
    BY <1>4, <2>1
<1> QED
  BY <1>2, <1>5

(* Sums of natural numbers are natural numbers, and do not go down: the    *)
(* files before a file and the file itself are part of the torrent.        *)
LEMMA SumsGrow ==
  ASSUME NEW s \in Seq(Nat)
  PROVE  /\ \A i \in 0 .. Len(s) : Sums(s)[i] \in Nat
         /\ \A i \in 1 .. Len(s) : Sums(s)[i - 1] + s[i] <= SumOf(s)
         /\ SumOf(s) \in Nat
<1>1. /\ Len(s) \in Nat /\ \A i \in 1 .. Len(s) : s[i] \in Nat
      /\ Sums(s)[0] = 0
      /\ \A i \in 1 .. Len(s) : Sums(s)[i] = Sums(s)[i - 1] + s[i]
  BY SumsDef
<1>2. /\ \A i \in 0 .. Len(s) : Sums(s)[i] \in Nat
      /\ \A i \in 0 .. Len(s) : Sums(s)[i] <= Sums(s)[Len(s)]
  BY <1>1, NeverDown
<1> QED
  BY <1>1, <1>2 DEF SumOf

(* The sum of n equal numbers.                                             *)
LEMMA Multiples ==
  ASSUME NEW n \in Nat, NEW c \in Nat, NEW sum,
         sum[0] = 0, \A i \in 1 .. n : sum[i] = sum[i - 1] + c
  PROVE  sum[n] = n * c
<1>1. ASSUME NEW bad \in SUBSET Nat, bad = {i \in 0 .. n : sum[i] # i * c}, bad # {}
      PROVE  FALSE
  <2>1. PICK i \in bad : \A j \in bad : i <= j
    BY <1>1, LeastElement
  <2>2. i # 0
    <3>1. 0 * c = 0
      OBVIOUS
    <3> QED
      BY <1>1, <2>1, <3>1
  <2>3. i \in 1 .. n /\ i - 1 \in 0 .. n /\ i - 1 \notin bad
    BY <1>1, <2>1, <2>2
  <2>4. sum[i - 1] = (i - 1) * c /\ sum[i] = sum[i - 1] + c
    BY <1>1, <2>3
  <2>5. (i - 1) * c + c = i * c
    BY <2>3
  <2> QED
    BY <1>1, <2>1, <2>4, <2>5
<1> DEFINE bad == {i \in 0 .. n : sum[i] # i * c}
<1>2. bad \in SUBSET Nat
  OBVIOUS
<1>3. bad = {}
  BY <1>1, <1>2
<1> QED
  BY <1>3

LEMMA SumOfEqual ==
  ASSUME NEW n \in Nat, NEW c \in Nat, NEW s, s = [i \in 1 .. n |-> c]
  PROVE  SumOf(s) = n * c
<1>1. Len(s) = n /\ \A i \in 1 .. n : s[i] = c
  OBVIOUS
<1>2. /\ Sums(s)[0] = 0
      /\ \A i \in 1 .. n : Sums(s)[i] = Sums(s)[i - 1] + c
  BY <1>1, SumsDef
<1>3. Sums(s)[n] = n * c
  BY <1>2, Multiples
<1> QED
  BY <1>1, <1>3 DEF SumOf

-----------------------------------------------------------------------------
(* Quotient and remainder of a position by the length of a piece.          *)
LEMMA Division ==
  ASSUME NEW a \in Nat, NEW L \in Nat \ {0}
  PROVE  /\ a \div L \in Nat /\ a % L \in Nat /\ a % L < L
         /\ a = (a \div L) * L + (a % L)
OBVIOUS

(* A piece ends where the next one begins, and not later.                  *)
LEMMA Consecutive ==
  ASSUME NEW i \in Nat, NEW j \in Nat, NEW L \in Nat, i < j
  PROVE  i * L + L <= j * L
<1>1. j - (i + 1) \in Nat
  OBVIOUS
<1>2. (j - (i + 1)) * L >= 0
  BY <1>1
<1>3. j * L = (j - (i + 1)) * L + (i * L + L)
  BY <1>1
<1>4. i * L \in Nat /\ j * L \in Nat /\ (j - (i + 1)) * L \in Nat
  BY <1>1
<1> QED
  BY <1>2, <1>3, <1>4

(* The piece num holds the byte x.                                         *)
Holds(num, x, L) == num * L <= x /\ x < num * L + L

LEMMA HeldBy ==
  ASSUME NEW x \in Nat, NEW L \in Nat \ {0}
  PROVE  Holds(x \div L, x, L)
BY Division, SMT DEF Holds

LEMMA HeldByOne ==
  ASSUME NEW x \in Nat, NEW L \in Nat \ {0}, NEW i \in Nat, NEW j \in Nat,
         Holds(i, x, L), Holds(j, x, L)
  PROVE  i = j
<1>1. CASE i < j
  BY <1>1, Consecutive DEF Holds
<1>2. CASE j < i
  BY <1>2, Consecutive DEF Holds
<1> QED
  BY <1>1, <1>2

(* The pieces are in the order of the bytes they hold.                     *)
LEMMA HeldInOrder ==
  ASSUME NEW x \in Nat, NEW y \in Nat, x <= y, NEW L \in Nat \ {0},
         NEW i \in Nat, NEW j \in Nat, Holds(i, x, L), Holds(j, y, L)
  PROVE  i <= j
<1>1. CASE j < i
  BY <1>1, Consecutive DEF Holds
<1> QED
  BY <1>1

-----------------------------------------------------------------------------
(* The numbers of a layout.                                                *)
LEMMA LayoutFacts ==
  ASSUME NEW l \in Layouts
  PROVE  /\ l.piece_len \in Nat \ {0} /\ TorrentSize(l) \in Nat /\ FileStart(l) \in Nat
         /\ l.lengths[l.file] \in Nat
         /\ FileStart(l) + l.lengths[l.file] <= TorrentSize(l)
         /\ FileOf(l) = File(l.lengths[l.file], FileStart(l), l.piece_len)
<1>1. /\ l.piece_len \in Nat \ {0} /\ l.lengths \in Seq(Nat)
      /\ l.file \in 1 .. Len(l.lengths)
  BY LayoutsAssumption
<1>2. l.lengths[l.file] \in Nat /\ l.file - 1 \in 0 .. Len(l.lengths)
  BY <1>1
<1>3. /\ Sums(l.lengths)[l.file - 1] \in Nat /\ SumOf(l.lengths) \in Nat
      /\ Sums(l.lengths)[l.file - 1] + l.lengths[l.file] <= SumOf(l.lengths)
  BY <1>1, <1>2, SumsGrow
<1>4. FileOf(l) = File(l.lengths[l.file], Counted(l.lengths, l.file), l.piece_len)
  BY <1>1 DEF FileOf, FileTree
<1> QED
  BY <1>1, <1>2, <1>3, <1>4 DEF TorrentSize, FileStart, Counted

(* Pieces that hold a byte of the torrent are numbered up to total_pieces, *)
(* and those before it are whole.                                          *)
LEMMA LastPieceFacts ==
  ASSUME NEW l \in Layouts, NEW num \in Nat, num * l.piece_len < TorrentSize(l)
  PROVE  /\ LastPiece(l) \in Int /\ num <= LastPiece(l)
         /\ num < LastPiece(l) =>
              num * l.piece_len + l.piece_len <= TorrentSize(l)
<1> DEFINE L == l.piece_len
           T == TorrentSize(l)
           q == T \div L
           r == T % L
<1>1. L \in Nat \ {0} /\ T \in Nat /\ num * L < T /\ num * L \in Nat
  BY LayoutFacts
<1>2. LastPiece(l) = q + (IF r > 0 THEN 1 ELSE 0) - 1
  BY DEF LastPiece, InfoOf, PieceInfo
<1> HIDE DEF L, T
<1>3. q \in Nat /\ r \in Nat /\ r < L /\ T = q * L + r /\ q * L \in Nat
  BY <1>1, Division
<1> HIDE DEF q, r
<1>4. num <= q /\ (r = 0 => num < q)
  <2>1. CASE q < num
    BY <1>1, <1>3, <2>1, Consecutive
  <2>2. CASE num = q
    BY <1>1, <1>3, <2>2
  <2> QED
    BY <1>3, <2>1, <2>2
<1>5. num < q => num * L + L <= T
  BY <1>1, <1>3, Consecutive
<1>6. LastPiece(l) = IF r = 0 THEN q - 1 ELSE q
  BY <1>2, <1>3
<1> QED
  BY <1>3, <1>4, <1>5, <1>6 DEF L, T

(* The blocks of a piece that is not the last one, put together: as many   *)
(* as total_blocks, all of the full size.                                  *)
LEMMA WholePieceData ==
  ASSUME NEW l \in Layouts, NEW num \in Nat, num # LastPiece(l)
  PROVE  LET n == InfoOf(l).total_blocks
             L == l.piece_len
         IN /\ n \in Nat /\ n * BlockSize \in Nat /\ num * L \in Nat
            /\ n = L \div BlockSize + (IF L % BlockSize > 0 THEN 1 ELSE 0)
            /\ Piece(num, InfoOf(l)).piece_size = n * BlockSize
            /\ PieceData(Piece(num, InfoOf(l)), L)
                  = [from |-> num * L, to |-> num * L + n * BlockSize]
<1> DEFINE L == l.piece_len
           n == InfoOf(l).total_blocks
           p == Piece(num, InfoOf(l))
<1>1. L \in Nat \ {0} /\ num * L \in Nat
  BY LayoutFacts
<1>2. n = L \div BlockSize + (IF L % BlockSize > 0 THEN 1 ELSE 0)
  BY DEF InfoOf, PieceInfo
<1>3. n \in Nat /\ BlockSize \in Nat /\ n * BlockSize \in Nat
  <2>1. BlockSize \in Nat \ {0}
    BY GeometryAssumption
  <2>2. L \div BlockSize \in Nat
    BY <1>1, <2>1, Division
  <2>3. n \in Nat
    BY <1>2, <2>2
  <2> QED
    BY <2>1, <2>3
<1>4. /\ p.piece_size = n * BlockSize /\ p.total_blocks = n /\ p.num = num
      /\ p.is_last = FALSE
  BY DEF Piece, LastPiece
<1> HIDE DEF n, p
<1>5. SumOf([b \in 1 .. n |-> RequestLength(p, b - 1)]) = n * BlockSize
  <2>1. [b \in 1 .. n |-> RequestLength(p, b - 1)] = [b \in 1 .. n |-> BlockSize]
    BY <1>4 DEF RequestLength
  <2> QED
    BY <1>3, <2>1, SumOfEqual
<1>6. PieceData(p, L) = [from |-> num * L, to |-> num * L + n * BlockSize]
  <2>1. ~ (num * L + n * BlockSize < num * L)
    BY <1>1, <1>3
  <2> QED
    BY <1>4, <1>5, <2>1, Zenon DEF PieceData, Bytes
<1> QED
  BY <1>1, <1>2, <1>3, <1>4, <1>6 DEF n, p

(* The size of a whole piece that can be had is the length of the pieces   *)
(* of the torrent, although the code takes it from the number of blocks.   *)
LEMMA RegularSize ==
  ASSUME NEW l \in Layouts, NEW num \in Nat, Obtainable(l, num), num # LastPiece(l)
  PROVE  Piece(num, InfoOf(l)).piece_size = l.piece_len
<1> DEFINE L == l.piece_len
           n == InfoOf(l).total_blocks
           p == Piece(num, InfoOf(l))
<1>1. /\ L \in Nat \ {0} /\ TorrentSize(l) \in Nat /\ num * L < TorrentSize(l)
      /\ num * L \in Nat /\ (num + 1) * L = num * L + L
  BY LayoutFacts DEF Obtainable
<1>2. num * L + L <= TorrentSize(l)
  BY <1>1, LastPieceFacts
<1>3. /\ n * BlockSize \in Nat /\ p.piece_size = n * BlockSize
      /\ PieceData(p, L).to = num * L + n * BlockSize
  <2>1. /\ n * BlockSize \in Nat /\ p.piece_size = n * BlockSize
        /\ PieceData(p, L) = [from |-> num * L, to |-> num * L + n * BlockSize]
    BY WholePieceData, Zenon
  <2> QED
    BY <2>1
<1>4. PieceBytes(l, num).to = num * L + L
  BY <1>1, <1>2 DEF PieceBytes, Bytes
<1>5. PieceData(p, L) = PieceBytes(l, num)
  BY DEF Obtainable
<1> HIDE DEF n, p
<1> QED
  BY <1>1, <1>3, <1>4, <1>5 DEF p

(* data[n:] and data[:n].                                                  *)
LEMMA SliceTail ==
  ASSUME NEW d, d.from \in Nat, d.to \in Nat, d.from <= d.to, NEW n \in Nat
  PROVE  /\ Slice(d, n, Length(d)).from =
              IF d.from + n < d.to THEN d.from + n ELSE d.to
         /\ Slice(d, n, Length(d)).to = d.to
<1> DEFINE cut == IF d.from + n < d.to THEN d.from + n ELSE d.to
<1>1. Length(d) \in Nat /\ d.from + Length(d) = d.to
  BY DEF Length
<1>2. ~ (d.from + Length(d) < d.to)
  BY <1>1
<1>3. Slice(d, n, Length(d)) = Bytes(cut, d.to)
  BY <1>2, Zenon DEF Slice
<1>4. cut \in Nat /\ cut <= d.to
  OBVIOUS
<1> HIDE DEF cut
<1>5. Slice(d, n, Length(d)).from = cut /\ Slice(d, n, Length(d)).to = d.to
  BY <1>3, <1>4 DEF Bytes
<1> QED
  BY <1>5 DEF cut

LEMMA SliceHead ==
  ASSUME NEW d, d.from \in Nat, d.to \in Nat, d.from <= d.to, NEW n \in Nat
  PROVE  /\ Slice(d, 0, n).from = d.from
         /\ Slice(d, 0, n).to = IF d.from + n < d.to THEN d.from + n ELSE d.to
<1> DEFINE cut == IF d.from + n < d.to THEN d.from + n ELSE d.to
<1>1. (IF d.from + 0 < d.to THEN d.from + 0 ELSE d.to) = d.from
  OBVIOUS
<1>2. Slice(d, 0, n) = Bytes(d.from, cut)
  BY <1>1, Zenon DEF Slice
<1>3. cut \in Nat /\ d.from <= cut
  OBVIOUS
<1> HIDE DEF cut
<1>4. Slice(d, 0, n).from = d.from /\ Slice(d, 0, n).to = cut
  BY <1>2, <1>3 DEF Bytes
<1> QED
  BY <1>4 DEF cut

(* What the code keeps of a piece of the file: from the first byte of the  *)
(* file on, in its first piece, and up to the last one, unless the file    *)
(* lies inside the piece. No byte of the file is cut off.                  *)
KeepsFile(L, T, c, z, f, num, kept) ==
  /\ kept.from \in Nat /\ kept.to \in Nat /\ kept.from <= kept.to
  /\ kept.from = IF num = f.start_piece THEN c ELSE num * L
  /\ c <= kept.from /\ num * L <= kept.from
  /\ kept.to <= num * L + L /\ kept.to <= T
  /\ ~ (f.start_piece = f.end_piece /\ f.start_byte > 0) => kept.to <= c + z
  /\ \A x \in c .. c + z - 1 : Holds(num, x, L) => kept.from <= x /\ x < kept.to

LEMMA TrimBounds ==
  ASSUME NEW L \in Nat \ {0}, NEW T \in Nat, NEW c \in Nat, NEW z \in Nat, c + z <= T,
         NEW f, f = File(z, c, L),
         NEW num \in f.start_piece .. f.end_piece, num * L < T,
         NEW d, d = Bytes(num * L, IF (num + 1) * L < T THEN (num + 1) * L ELSE T),
         NEW kept, kept = Trim(f, num, d)
  PROVE  KeepsFile(L, T, c, z, f, num, kept)
<1> DEFINE F == num * L
           E == d.to
<1>1. /\ f.start_piece = c \div L /\ f.start_byte = c % L
      /\ f.end_piece = (c + z) \div L /\ f.end_byte = (c + z) % L
  BY DEF File
<1>2. /\ f.start_piece \in Nat /\ f.start_byte \in Nat /\ f.start_byte < L
      /\ c = f.start_piece * L + f.start_byte
  BY <1>1, Division
<1>3. /\ f.end_piece \in Nat /\ f.end_byte \in Nat /\ f.end_byte < L
      /\ c + z = f.end_piece * L + f.end_byte
  BY <1>1, Division
<1>range. /\ f.start_piece \in Nat /\ f.end_piece \in Nat /\ num \in Nat /\ L \in Nat
          /\ f.start_piece <= num /\ num <= f.end_piece
  BY <1>2, <1>3
<1>4. num \in Nat /\ F \in Nat /\ (num + 1) * L = F + L
  BY <1>range
<1>5. /\ d.from = F /\ E \in Nat /\ F < E /\ E <= F + L /\ E <= T
      /\ E = F + L \/ E = T
  BY <1>4 DEF Bytes
<1>6. /\ num = f.start_piece => F + f.start_byte = c
      /\ num # f.start_piece => c <= F
      /\ num = f.end_piece => F + f.end_byte = c + z
      /\ num # f.end_piece => F + L <= c + z
      /\ f.start_piece * L \in Nat /\ f.end_piece * L \in Nat
  <2>1. f.start_piece * L \in Nat /\ f.end_piece * L \in Nat
    BY <1>2, <1>3
  <2>2. ASSUME num # f.start_piece PROVE f.start_piece * L + L <= F
    <3>1. f.start_piece < num /\ f.start_piece \in Nat /\ num \in Nat /\ L \in Nat
      BY <1>range, <2>2
    <3> QED
      BY <3>1, Consecutive, Zenon
  <2>3. ASSUME num # f.end_piece PROVE F + L <= f.end_piece * L
    <3>1. num < f.end_piece /\ f.end_piece \in Nat /\ num \in Nat /\ L \in Nat
      BY <1>range, <2>3
    <3> QED
      BY <3>1, Consecutive, Zenon
  <2> QED
    BY <1>2, <1>3, <1>4, <2>1, <2>2, <2>3
<1> DEFINE front == IF num = f.start_piece THEN Slice(d, f.start_byte, Length(d)) ELSE d
           a == IF num = f.start_piece THEN c ELSE F
<1> HIDE DEF F, E
<1>7. front.from = a /\ front.to = E /\ a \in Nat /\ c <= a /\ F <= a /\ a <= E
  <2>1. CASE num = f.start_piece
    <3>1. front = Slice(d, f.start_byte, Length(d)) /\ a = c
      BY <2>1 DEF front
    <3>2. d.from \in Nat /\ d.to \in Nat /\ d.from <= d.to
      BY <1>4, <1>5 DEF E
    <3>3. front.from = (IF F + f.start_byte < E THEN F + f.start_byte ELSE E) /\ front.to = E
      BY <1>2, <1>5, <3>1, <3>2, SliceTail DEF E
    <3>4. F + f.start_byte = c /\ F <= c /\ c < F + L /\ c <= T
      <4>1. F + f.start_byte = c
        BY <1>6, <2>1
      <4> HIDE <1>6
      <4> QED
        BY <1>2, <1>4, <4>1
    <3>5. c < E \/ c = E
      BY <1>5, <3>4
    <3> QED
      BY <1>5, <3>1, <3>3, <3>4, <3>5
  <2>2. CASE num # f.start_piece
    BY <1>4, <1>5, <1>6, <2>2 DEF E, front
  <2> QED
    BY <2>1, <2>2
<1>8. kept = IF num = f.end_piece THEN Slice(front, 0, f.end_byte) ELSE front
  BY DEF Trim
<1> HIDE DEF front
<1>9. CASE num = f.end_piece
  <2>1. kept = Slice(front, 0, f.end_byte)
    BY <1>8, <1>9
  <2>2. /\ kept.from = a
        /\ kept.to = IF a + f.end_byte < E THEN a + f.end_byte ELSE E
    BY <1>3, <1>5, <1>7, <2>1, SliceHead
  <2>3. F + f.end_byte = c + z /\ c + z <= E
    BY <1>3, <1>4, <1>5, <1>6, <1>9
  <2>4. c + z <= kept.to
    BY <1>3, <1>4, <1>5, <1>7, <2>2, <2>3
  <2>5. ASSUME ~ (f.start_piece = f.end_piece /\ f.start_byte > 0) PROVE kept.to <= c + z
    <3>1. CASE num = f.start_piece
      <4>1. f.start_byte = 0
        BY <1>2, <1>9, <2>5, <3>1
      <4>2. a = F
        BY <1>4, <1>6, <3>1, <4>1
      <4> QED
        BY <1>3, <1>4, <1>5, <2>2, <2>3, <4>2
    <3>2. CASE num # f.start_piece
      <4>1. a = F
        BY <3>2
      <4> QED
        BY <1>3, <1>4, <1>5, <2>2, <2>3, <4>1
    <3> QED
      BY <3>1, <3>2
  <2>6. kept.to \in Nat /\ a <= kept.to /\ kept.to <= E
    BY <1>3, <1>5, <1>7, <2>2
  <2>7. ASSUME NEW x \in c .. c + z - 1, Holds(num, x, L) PROVE a <= x /\ x < kept.to
    BY <1>4, <2>4, <2>6, <2>7 DEF Holds, F
  <2> QED
    BY <1>4, <1>5, <1>7, <2>2, <2>5, <2>6, <2>7 DEF F, KeepsFile
<1>10. CASE num # f.end_piece
  <2>1. kept.from = a /\ kept.to = E
    BY <1>7, <1>8, <1>10
  <2>2. E <= c + z
    BY <1>4, <1>5, <1>6, <1>10
  <2>3. ASSUME NEW x \in c .. c + z - 1, Holds(num, x, L) PROVE a <= x /\ x < E
    BY <1>4, <1>5, <2>3 DEF Holds, F
  <2> QED
    BY <1>4, <1>5, <1>7, <2>1, <2>2, <2>3 DEF F, KeepsFile
<1> QED
  BY <1>9, <1>10

-----------------------------------------------------------------------------
(* What is left of a piece of the file that can be had.                    *)
Kept(l, num) == Trim(FileOf(l), num, PieceData(Piece(num, InfoOf(l)), l.piece_len))

(* The places in the file for which it is meant.                           *)
Places(l, num) == Kept(l, num).from - FileStart(l) .. Kept(l, num).to - 1 - FileStart(l)

FilePieces(l) == FileOf(l).start_piece .. FileOf(l).end_piece

LEMMA KeptBounds ==
  ASSUME NEW l \in Layouts, NEW num \in FilePieces(l), Obtainable(l, num)
  PROVE  /\ num \in Nat /\ FileOf(l).start_piece \in Nat
         /\ Kept(l, num).from \in Nat /\ Kept(l, num).to \in Nat
         /\ Kept(l, num).from <= Kept(l, num).to
         /\ Kept(l, num).from =
              IF num = FileOf(l).start_piece THEN FileStart(l) ELSE num * l.piece_len
         /\ FileStart(l) <= Kept(l, num).from /\ num * l.piece_len <= Kept(l, num).from
         /\ Kept(l, num).to <= num * l.piece_len + l.piece_len
         /\ Kept(l, num).to <= TorrentSize(l)
         /\ ~ InsidePiece(l) => Kept(l, num).to <= FileStart(l) + FileOf(l).size
         /\ \A x \in FileStart(l) .. FileStart(l) + FileOf(l).size - 1 :
              Holds(num, x, l.piece_len) => Kept(l, num).from <= x /\ x < Kept(l, num).to
<1> DEFINE L == l.piece_len
           z == l.lengths[l.file]
           c == FileStart(l)
           T == TorrentSize(l)
<1>1. /\ L \in Nat \ {0} /\ T \in Nat /\ c \in Nat /\ z \in Nat /\ c + z <= T
      /\ FileOf(l) = File(z, c, L)
  BY LayoutFacts
<1>2. FileOf(l).size = z
  BY <1>1 DEF File
<1>3. num * L < T /\ PieceData(Piece(num, InfoOf(l)), L) = PieceBytes(l, num)
  BY DEF Obtainable
<1>4. Kept(l, num) = Trim(FileOf(l), num, PieceBytes(l, num))
  BY <1>3 DEF Kept
<1>5. PieceBytes(l, num) = Bytes(num * L, IF (num + 1) * L < T THEN (num + 1) * L ELSE T)
  BY DEF PieceBytes
<1>6. num \in Nat /\ FileOf(l).start_piece \in Nat
  <2>1. /\ FileOf(l).start_piece = c \div L
        /\ FileOf(l).end_piece = (c + z) \div L
    BY <1>1 DEF File
  <2>2. c \div L \in Nat /\ (c + z) \div L \in Nat
    BY <1>1, Division
  <2> QED
    BY <2>1, <2>2 DEF FilePieces
<1>7. num \in FileOf(l).start_piece .. FileOf(l).end_piece
  BY DEF FilePieces
<1> HIDE DEF L, z, c, T
<1> DEFINE f == FileOf(l)
           d == PieceBytes(l, num)
           kept == Kept(l, num)
<1> HIDE DEF f, d, kept
<1>8. /\ L \in Nat \ {0} /\ T \in Nat /\ c \in Nat /\ z \in Nat /\ c + z <= T
      /\ f = File(z, c, L) /\ num \in f.start_piece .. f.end_piece /\ num * L < T
      /\ d = Bytes(num * L, IF (num + 1) * L < T THEN (num + 1) * L ELSE T)
      /\ kept = Trim(f, num, d)
  BY <1>1, <1>3, <1>4, <1>5, <1>7 DEF f, d, kept
<1>9. KeepsFile(L, T, c, z, f, num, kept)
  BY <1>8, TrimBounds
<1>10. ~ InsidePiece(l) => kept.to <= c + f.size
  <2>1. f.size = z
    BY <1>2 DEF f
  <2>2. ~ InsidePiece(l) => ~ (f.start_piece = f.end_piece /\ f.start_byte > 0)
    BY DEF InsidePiece, f
  <2> QED
    BY <1>9, <2>1, <2>2, Zenon DEF KeepsFile
<1>11. c + z - 1 = c + FileOf(l).size - 1
  BY <1>2
<1> QED
  BY <1>6, <1>9, <1>10, <1>11, Zenon DEF KeepsFile, f, kept, L, c, T

(* Pieces of a file do not share a place.                                  *)
LEMMA PlacesDisjoint ==
  ASSUME NEW l \in Layouts,
         NEW i \in FilePieces(l), Obtainable(l, i),
         NEW j \in FilePieces(l), Obtainable(l, j), i # j
  PROVE  Places(l, i) \cap Places(l, j) = {}
<1> SUFFICES ASSUME NEW o \in Places(l, i), o \in Places(l, j) PROVE FALSE
  OBVIOUS
<1> DEFINE x == o + FileStart(l)
<1>1. FileStart(l) \in Nat /\ l.piece_len \in Nat \ {0}
  BY LayoutFacts
<1>2. i \in Nat /\ x \in Nat /\ Holds(i, x, l.piece_len)
  <2>1. /\ i \in Nat /\ Kept(l, i).from \in Nat /\ Kept(l, i).to \in Nat
        /\ i * l.piece_len <= Kept(l, i).from
        /\ Kept(l, i).to <= i * l.piece_len + l.piece_len
    BY KeptBounds
  <2>2. o \in Int /\ Kept(l, i).from <= x /\ x < Kept(l, i).to
    BY <1>1, <2>1 DEF Places
  <2>3. i * l.piece_len \in Nat
    BY <1>1, <2>1
  <2> QED
    BY <1>1, <2>1, <2>2, <2>3 DEF Holds
<1>3. j \in Nat /\ Holds(j, x, l.piece_len)
  <2>1. /\ j \in Nat /\ Kept(l, j).from \in Nat /\ Kept(l, j).to \in Nat
        /\ j * l.piece_len <= Kept(l, j).from
        /\ Kept(l, j).to <= j * l.piece_len + l.piece_len
    BY KeptBounds
  <2>2. o \in Int /\ Kept(l, j).from <= x /\ x < Kept(l, j).to
    BY <1>1, <2>1 DEF Places
  <2>3. j * l.piece_len \in Nat
    BY <1>1, <2>1
  <2> QED
    BY <1>1, <2>1, <2>2, <2>3 DEF Holds
<1> HIDE DEF x
<1> QED
  BY <1>1, <1>2, <1>3, HeldByOne

(* Every byte of the file has a place in one of its pieces.                *)
LEMMA PlacesCover ==
  ASSUME NEW l \in Layouts, NEW o \in 0 .. FileOf(l).size - 1,
         \A num \in FilePieces(l) : Obtainable(l, num)
  PROVE  \E num \in FilePieces(l) : o \in Places(l, num)
<1> DEFINE L == l.piece_len
           z == l.lengths[l.file]
           c == FileStart(l)
           x == c + o
           num == x \div L
<1>1. /\ L \in Nat \ {0} /\ c \in Nat /\ z \in Nat
      /\ FileOf(l) = File(z, c, L)
  BY LayoutFacts
<1>2. /\ FileOf(l).size = z /\ FileOf(l).start_piece = c \div L
      /\ FileOf(l).end_piece = (c + z) \div L
  BY <1>1 DEF File
<1>3. o \in Nat /\ o < z /\ x \in c .. c + z - 1 /\ x \in Nat /\ c + z \in Nat
  BY <1>1, <1>2
<1> HIDE DEF L, z, c, x
<1>4. /\ Holds(c \div L, c, L) /\ Holds(num, x, L) /\ Holds((c + z) \div L, c + z, L)
      /\ c \div L \in Nat /\ num \in Nat /\ (c + z) \div L \in Nat
  BY <1>1, <1>3, HeldBy, Division
<1> HIDE DEF num
<1>5. c \div L <= num /\ num <= (c + z) \div L
  <2> DEFINE first == c \div L
             end == c + z
             last == end \div L
  <2>1. /\ Holds(first, c, L) /\ Holds(num, x, L) /\ Holds(last, end, L)
        /\ first \in Nat /\ num \in Nat /\ last \in Nat
    BY <1>4
  <2>2. c <= x /\ x <= end /\ c \in Nat /\ x \in Nat /\ end \in Nat /\ L \in Nat \ {0}
    BY <1>1, <1>3
  <2> HIDE DEF first, end, last
  <2>3. first <= num
    BY <2>1, <2>2, HeldInOrder
  <2>4. num <= last
    BY <2>1, <2>2, HeldInOrder
  <2> QED
    BY <2>3, <2>4 DEF first, last, end
<1>6. num \in FilePieces(l)
  BY <1>2, <1>4, <1>5 DEF FilePieces
<1>7. Kept(l, num).from <= x /\ x < Kept(l, num).to
  BY <1>2, <1>3, <1>4, <1>6, KeptBounds DEF L, c
<1>8. o \in Places(l, num)
  BY <1>1, <1>3, <1>6, <1>7, KeptBounds DEF Places, x, c
<1> QED
  BY <1>6, <1>8

(* A piece is written at its places, unless it is the last one of the      *)
(* torrent, and the file began before it.                                  *)
LEMMA WrittenAt ==
  ASSUME NEW l \in Layouts, NEW num \in FilePieces(l), Obtainable(l, num)
  PROVE  /\ WriteOffset(FileOf(l), Piece(num, InfoOf(l))) \in Nat
         /\ \/ WriteOffset(FileOf(l), Piece(num, InfoOf(l))) = Kept(l, num).from - FileStart(l)
            \/ /\ IntoLastPiece(l) /\ num = LastPiece(l)
               /\ Kept(l, num).from = LastPiece(l) * l.piece_len
<1> DEFINE L == l.piece_len
           z == l.lengths[l.file]
           c == FileStart(l)
           f == FileOf(l)
           p == Piece(num, InfoOf(l))
           offset == (num - f.start_piece) * p.piece_size - f.start_byte
<1>1. /\ L \in Nat \ {0} /\ c \in Nat /\ z \in Nat /\ f = File(z, c, L)
      /\ TorrentSize(l) \in Nat
  BY LayoutFacts
<1>2. /\ f.start_piece = c \div L /\ f.start_byte = c % L
      /\ f.end_piece = (c + z) \div L
  BY <1>1 DEF File
<1>3. /\ num \in Nat /\ f.start_piece \in Nat /\ f.start_piece <= num /\ num <= f.end_piece
      /\ Kept(l, num).from = IF num = f.start_piece THEN c ELSE num * L
  <2>1. /\ num \in Nat /\ f.start_piece \in Nat
        /\ Kept(l, num).from = IF num = f.start_piece THEN c ELSE num * L
    BY KeptBounds
  <2> QED
    BY <2>1 DEF FilePieces
<1>4. p.num = num
  BY DEF Piece
<1>5. WriteOffset(f, p) = IF offset < 0 THEN 0 ELSE offset
  BY <1>4 DEF WriteOffset
<1>6. num # LastPiece(l) => p.piece_size = L
  BY <1>3, RegularSize
<1>7. p.piece_size \in Int
  <2>1. CASE num # LastPiece(l)
    BY <1>1, <1>6, <2>1
  <2>2. CASE num = LastPiece(l)
    <3>1. p.piece_size = TorrentSize(l) % L
      BY <2>2 DEF Piece, LastPiece, InfoOf, PieceInfo
    <3> QED
      BY <1>1, <3>1, Division
  <2> QED
    BY <2>1, <2>2
<1> HIDE DEF L, z, c, f, p
<1>8. f.start_byte \in Nat /\ f.start_byte < L /\ c = f.start_piece * L + f.start_byte
  <2>1. /\ c % L \in Nat /\ c % L < L
        /\ c = (c \div L) * L + (c % L)
    BY <1>1, Division
  <2> QED
    BY <1>2, <2>1, Zenon
<1>9. CASE num = f.start_piece
  <2>1. (num - f.start_piece) * p.piece_size = 0
    BY <1>3, <1>7, <1>9
  <2>2. WriteOffset(f, p) = 0
    BY <1>5, <1>8, <2>1
  <2> QED
    BY <1>1, <1>3, <1>9, <2>2 DEF c, f, p
<1>10. CASE num # f.start_piece /\ num # LastPiece(l)
  <2>1. (num - f.start_piece) * L = num * L - f.start_piece * L
    BY <1>1, <1>3
  <2>2. f.start_piece * L + L <= num * L /\ num * L \in Nat /\ f.start_piece * L \in Nat
    BY <1>1, <1>3, <1>10, Consecutive
  <2>3. offset = num * L - c
    BY <1>1, <1>6, <1>8, <1>10, <2>1, <2>2
  <2>4. num * L - c \in Nat
    BY <1>1, <1>8, <2>2
  <2>5. WriteOffset(f, p) = num * L - c
    BY <1>5, <2>3, <2>4
  <2> QED
    BY <1>3, <1>10, <2>4, <2>5 DEF c, f, p
<1>11. CASE num # f.start_piece /\ num = LastPiece(l)
  <2>1. offset \in Int
    BY <1>3, <1>7, <1>8
  <2>2. WriteOffset(f, p) \in Nat
    BY <1>5, <2>1
  <2>3. IntoLastPiece(l)
    BY <1>3, <1>11 DEF IntoLastPiece, f
  <2> QED
    BY <1>3, <1>11, <2>2, <2>3 DEF f, p, L
<1> QED
  BY <1>9, <1>10, <1>11

-----------------------------------------------------------------------------
(* Piece.__init__ and FilesDownloadManager.__init__: which pieces can be   *)
(* had at all. A piece that is not the last one needs a length of pieces   *)
(* that is a multiple of the block size; the last one is lost when it is   *)
(* smaller than a block, or when the torrent ends with a whole piece.      *)
THEOREM ObtainablePieces ==
  ASSUME NEW l \in Layouts, NEW num \in Nat, num * l.piece_len < TorrentSize(l)
  PROVE  Obtainable(l, num) <=>
           IF num = LastPiece(l) THEN TorrentSize(l) % l.piece_len >= BlockSize
                                 ELSE l.piece_len % BlockSize = 0
<1> DEFINE L == l.piece_len
           T == TorrentSize(l)
           B == BlockSize
           r == T % L
           p == Piece(num, InfoOf(l))
<1>1. /\ L \in Nat \ {0} /\ T \in Nat /\ B \in Nat \ {0} /\ num * L \in Nat
      /\ (num + 1) * L = num * L + L
  BY LayoutFacts, GeometryAssumption
<1>2. Obtainable(l, num) <=> PieceData(p, L) = PieceBytes(l, num)
  BY DEF Obtainable
<1>3. CASE num # LastPiece(l)
  <2> DEFINE n == InfoOf(l).total_blocks
  <2>1. num * L + L <= T
    BY <1>1, <1>3, LastPieceFacts
  <2>2. PieceBytes(l, num) = [from |-> num * L, to |-> num * L + L]
    <3>1. (IF (num + 1) * L < T THEN (num + 1) * L ELSE T) = num * L + L
      BY <1>1, <2>1
    <3>2. ~ (num * L + L < num * L)
      BY <1>1
    <3> QED
      BY <3>1, <3>2, Zenon DEF PieceBytes, Bytes
  <2>3. /\ n \in Nat /\ n * B \in Nat
        /\ n = L \div B + (IF L % B > 0 THEN 1 ELSE 0)
        /\ PieceData(p, L) = [from |-> num * L, to |-> num * L + n * B]
    BY <1>3, WholePieceData
  <2> HIDE DEF n, p, B
  <2>4. PieceData(p, L) = PieceBytes(l, num) <=> n * B = L
    <3>1. num * L + n * B = num * L + L <=> n * B = L
      BY <1>1, <2>3
    <3> QED
      BY <2>2, <2>3, <3>1
  <2>5. /\ L \div B \in Nat /\ L % B \in Nat /\ L % B < B
        /\ L = (L \div B) * B + (L % B)
    BY <1>1, Division
  <2>6. n * B = L <=> L % B = 0
    <3>1. CASE L % B = 0
      <4>1. n = L \div B
        BY <2>3, <2>5, <3>1
      <4>2. (L \div B) * B \in Nat
        BY <1>1, <2>5
      <4> QED
        BY <2>5, <3>1, <4>1, <4>2
    <3>2. CASE L % B # 0
      <4>1. n = L \div B + 1
        BY <2>3, <2>5, <3>2
      <4>2. n * B = (L \div B) * B + B /\ (L \div B) * B \in Nat
        BY <1>1, <2>5, <4>1
      <4> QED
        BY <1>1, <2>5, <3>2, <4>2
    <3> QED
      BY <3>1, <3>2
  <2> QED
    BY <1>2, <1>3, <2>4, <2>6 DEF B
<1>4. CASE num = LastPiece(l)
  <2> DEFINE m == r \div B
             rest == r % B
             blocks == [b \in 1 .. m |-> RequestLength(p, b - 1)]
  <2>1. ~ (num * L + L < T)
    <3>1. (num + 1) * L < T => num + 1 <= LastPiece(l)
      BY LastPieceFacts
    <3> QED
      BY <1>1, <1>4, <3>1
  <2>2. PieceBytes(l, num) = [from |-> num * L, to |-> T]
    BY <1>1, <2>1 DEF PieceBytes, Bytes
  <2>3. r \in Nat /\ T = (T \div L) * L + r /\ T \div L \in Nat
    BY <1>1, Division
  <2>4. num = T \div L + (IF r > 0 THEN 1 ELSE 0) - 1
    BY <1>4 DEF LastPiece, InfoOf, PieceInfo
  <2>5. r > 0 => T = num * L + r
    <3>1. r > 0 => num = T \div L
      BY <2>3, <2>4
    <3> QED
      BY <2>3, <3>1
  <2>6. p = [num |-> num, is_last |-> TRUE, total_blocks |-> m, last_offset |-> rest,
             piece_size |-> r]
    BY <1>4 DEF Piece, LastPiece, InfoOf, PieceInfo
  <2>7. PieceData(p, L) = Bytes(num * L, num * L + SumOf(blocks))
    BY <2>6 DEF PieceData
  <2> HIDE DEF L, T, B, r, p
  <2>8. m \in Nat /\ rest \in Nat /\ rest < B /\ r = m * B + rest
    BY <1>1, <2>3, Division
  <2>9. blocks = [b \in 1 .. m |-> IF b = m THEN B + rest ELSE B]
    BY <2>6, <2>8 DEF RequestLength, B
  <2> HIDE DEF m, rest, blocks
  <2>10. Len(blocks) = m
    BY <2>8, <2>9
  <2>11. /\ Sums(blocks)[0] = 0
         /\ \A i \in 1 .. m : Sums(blocks)[i] = Sums(blocks)[i - 1] + blocks[i]
    BY <2>8, <2>10, SumsDef
  <2>12. CASE r >= B
    <3>1. m \in 1 .. m /\ m - 1 \in Nat
      <4>1. m # 0
        <5>1. 0 * B = 0
          BY <1>1
        <5> QED
          BY <1>1, <2>8, <2>12, <5>1
      <4> QED
        BY <2>8, <4>1
    <3>2. \A i \in 1 .. m - 1 : Sums(blocks)[i] = Sums(blocks)[i - 1] + B
      BY <2>8, <2>9, <2>11, <3>1
    <3>3. B \in Nat
      BY <1>1
    <3>4. Sums(blocks)[m - 1] = (m - 1) * B
      BY <2>11, <3>1, <3>2, <3>3, Multiples
    <3>5. Sums(blocks)[m] = (m - 1) * B + (B + rest)
      BY <2>9, <2>11, <3>1, <3>4
    <3>6. (m - 1) * B + (B + rest) = m * B + rest
      BY <2>8, <3>1, <3>3
    <3>7. SumOf(blocks) = r
      BY <2>8, <2>10, <3>5, <3>6 DEF SumOf
    <3>8. T = num * L + r
      BY <1>1, <2>3, <2>5, <2>12
    <3>9. PieceData(p, L) = [from |-> num * L, to |-> T]
      BY <1>1, <2>3, <2>7, <3>7, <3>8 DEF Bytes, T
    <3> QED
      BY <1>2, <1>4, <2>2, <2>12, <3>9 DEF L, T, B, r
  <2>13. CASE ~ (r >= B)
    <3>1. m = 0
      <4>1. m > 0 => m * B >= B
        <5>1. m > 0 => m - 1 \in Nat
          BY <2>8
        <5>2. m > 0 => m * B = (m - 1) * B + B /\ (m - 1) * B \in Nat
          BY <1>1, <2>8, <5>1
        <5> QED
          BY <1>1, <5>2
      <4>2. m * B \in Nat
        BY <1>1, <2>8
      <4> QED
        BY <1>1, <2>3, <2>8, <2>13, <4>1, <4>2
    <3>2. SumOf(blocks) = 0
      BY <2>10, <2>11, <3>1 DEF SumOf
    <3>3. PieceData(p, L).to = num * L
      BY <1>1, <2>7, <3>2 DEF Bytes
    <3>4. PieceBytes(l, num).to # num * L
      BY <1>1, <2>2 DEF L, T
    <3> QED
      BY <1>2, <1>4, <2>13, <3>3, <3>4 DEF L, T, B, r
  <2> QED
    BY <2>12, <2>13
<1> QED
  BY <1>3, <1>4

-----------------------------------------------------------------------------
(* The invariant: what is on disk is what the pieces written so far are    *)
(* meant for.                                                              *)
Written == FilePieces(layout) \ pending

OnDisk ==
  ~ IntoLastPiece(layout) =>
    /\ DOMAIN disk = UNION {Places(layout, num) : num \in Written}
    /\ IsFiniteSet(DOMAIN disk) /\ bytesWritten = Cardinality(DOMAIN disk)

IInv ==
  /\ TypeOK /\ InPlace
  /\ \A num \in Written : Obtainable(layout, num)
  /\ OnDisk

LEMMA InitInvariant == Init => IInv
<1> SUFFICES ASSUME Init PROVE IInv
  OBVIOUS
<1>1. layout \in Layouts /\ pending = FilePieces(layout) /\ DOMAIN disk = {} /\ bytesWritten = 0
  BY DEF Init, FilePieces
<1>2. Written = {}
  BY <1>1 DEF Written
<1>3. TypeOK
  BY <1>1 DEF TypeOK, FilePieces
<1>4. InPlace
  BY <1>1 DEF InPlace
<1>5. OnDisk
  BY <1>1, <1>2, FS_EmptySet DEF OnDisk
<1> QED
  BY <1>2, <1>3, <1>4, <1>5 DEF IInv

(* What a piece changes on disk.                                           *)
LEMMA WriteStep ==
  ASSUME NEW num \in pending, Write(num)
  PROVE  \E at : LET data == Kept(layout, num)
                    span == at .. at + (data.to - data.from) - 1
                IN /\ at = WriteOffset(FileOf(layout), Piece(num, InfoOf(layout)))
                   /\ DOMAIN disk' = span \cup DOMAIN disk
                   /\ \A o \in span : disk'[o] = data.from + (o - at)
                   /\ \A o \in DOMAIN disk \ span : disk'[o] = disk[o]
                   /\ bytesWritten' = bytesWritten + (data.to - data.from)
BY DEF Write, Kept, Length

LEMMA StepInvariant == IInv /\ [Next]_vars => IInv'
<1> SUFFICES ASSUME IInv, [Next]_vars PROVE IInv'
  OBVIOUS
<1>1. ASSUME UNCHANGED vars PROVE IInv'
  BY <1>1 DEF IInv, TypeOK, InPlace, Written, OnDisk, vars
<1>2. ASSUME NEW num \in pending, Write(num) PROVE IInv'
  <2> DEFINE data == Kept(layout, num)
             c == FileStart(layout)
             at == WriteOffset(FileOf(layout), Piece(num, InfoOf(layout)))
             span == at .. at + (data.to - data.from) - 1
  <2>1. /\ layout \in Layouts /\ layout' = layout
        /\ num \in FilePieces(layout) /\ Obtainable(layout, num)
        /\ pending' = pending \ {num} /\ pending \subseteq FilePieces(layout)
    BY <1>2 DEF Write, IInv, TypeOK, FilePieces
  <2>2. /\ DOMAIN disk' = span \cup DOMAIN disk
        /\ \A o \in span : disk'[o] = data.from + (o - at)
        /\ \A o \in DOMAIN disk \ span : disk'[o] = disk[o]
        /\ bytesWritten' = bytesWritten + (data.to - data.from)
    BY <1>2, WriteStep, Zenon
  <2>3. /\ at \in Nat
        /\ \/ at = data.from - c
           \/ /\ IntoLastPiece(layout) /\ num = LastPiece(layout)
              /\ data.from = LastPiece(layout) * layout.piece_len
    BY <2>1, WrittenAt
  <2>4. /\ data.from \in Nat /\ data.to \in Nat /\ data.from <= data.to
        /\ data.to <= TorrentSize(layout) /\ c \in Nat /\ TorrentSize(layout) \in Nat
    BY <2>1, KeptBounds, LayoutFacts
  <2>5. Written' = Written \cup {num} /\ num \notin Written
    BY <1>2, <2>1 DEF Written, FilePieces
  <2>6. Places(layout, num) = data.from - c .. data.to - 1 - c
    BY DEF Places
  <2> HIDE DEF data, c, at
  <2>7. TypeOK'
    <3>1. /\ DOMAIN disk \subseteq Nat /\ bytesWritten \in Nat
          /\ \A o \in DOMAIN disk : disk[o] \in 0 .. TorrentSize(layout) - 1
          /\ pending \in SUBSET (FileOf(layout).start_piece .. FileOf(layout).end_piece)
      BY DEF IInv, TypeOK
    <3>2. span \subseteq Nat
      BY <2>3, <2>4
    <3>3. ASSUME NEW o \in span PROVE disk'[o] \in 0 .. TorrentSize(layout) - 1
      <4>1. disk'[o] = data.from + (o - at)
        BY <2>2
      <4> QED
        BY <2>3, <2>4, <4>1
    <3>4. \A o \in DOMAIN disk' : disk'[o] \in 0 .. TorrentSize(layout) - 1
      BY <2>2, <3>1, <3>3
    <3>5. bytesWritten' \in Nat /\ DOMAIN disk' \subseteq Nat
      BY <2>2, <2>4, <3>1, <3>2
    <3> QED
      BY <2>1, <3>1, <3>4, <3>5 DEF TypeOK
  <2>8. InPlace'
    <3> SUFFICES ASSUME NEW o \in DOMAIN disk'
                 PROVE  \/ disk'[o] = c + o
                        \/ /\ IntoLastPiece(layout)
                           /\ disk'[o] >= LastPiece(layout) * layout.piece_len
      BY <2>1 DEF InPlace, c
    <3>1. CASE o \in span
      <4>1. disk'[o] = data.from + (o - at) /\ o - at \in Nat /\ o \in Nat
        BY <2>2, <2>3, <2>4, <3>1
      <4>2. CASE at = data.from - c
        BY <2>4, <4>1, <4>2
      <4>3. CASE at # data.from - c
        BY <2>3, <2>4, <4>1, <4>3
      <4> QED
        BY <4>2, <4>3
    <3>2. CASE o \in DOMAIN disk \ span
      <4>1. disk'[o] = disk[o]
        BY <2>2, <3>2
      <4> QED
        BY <3>2, <4>1 DEF IInv, InPlace, c
    <3> QED
      BY <2>2, <3>1, <3>2
  <2>9. \A n \in Written' : Obtainable(layout', n)
    BY <2>1, <2>5 DEF IInv
  <2>10. OnDisk'
    <3> SUFFICES ASSUME ~ IntoLastPiece(layout)
                 PROVE  /\ DOMAIN disk' = UNION {Places(layout, n) : n \in Written'}
                        /\ IsFiniteSet(DOMAIN disk')
                        /\ bytesWritten' = Cardinality(DOMAIN disk')
      BY <2>1 DEF OnDisk
    <3>1. /\ DOMAIN disk = UNION {Places(layout, n) : n \in Written}
          /\ IsFiniteSet(DOMAIN disk) /\ bytesWritten = Cardinality(DOMAIN disk)
      BY DEF IInv, OnDisk
    <3>2. span = Places(layout, num)
      BY <2>3, <2>4, <2>6
    <3>3. DOMAIN disk' = UNION {Places(layout, n) : n \in Written'}
      BY <2>2, <2>5, <3>1, <3>2
    <3>4. span \cap DOMAIN disk = {}
      <4>1. ASSUME NEW n \in Written PROVE Places(layout, num) \cap Places(layout, n) = {}
        <5>1. n \in FilePieces(layout) /\ Obtainable(layout, n) /\ n # num
          BY <2>5 DEF IInv, Written
        <5> QED
          BY <2>1, <5>1, PlacesDisjoint
      <4> QED
        BY <3>1, <3>2, <4>1
    <3>5. IsFiniteSet(span) /\ Cardinality(span) = data.to - data.from
      <4> DEFINE last == at + (data.to - data.from) - 1
      <4>1. at \in Int /\ last \in Int /\ last - at + 1 = data.to - data.from
        BY <2>3, <2>4
      <4>2. at > last => data.to - data.from = 0
        BY <2>3, <2>4
      <4>3. span = at .. last
        OBVIOUS
      <4> HIDE DEF last, span
      <4>4. /\ IsFiniteSet(at .. last)
            /\ Cardinality(at .. last) = IF at > last THEN 0 ELSE last - at + 1
        BY <4>1, FS_Interval
      <4> QED
        BY <4>1, <4>2, <4>3, <4>4
    <3> HIDE DEF span
    <3>6. /\ IsFiniteSet(span \cup DOMAIN disk)
          /\ Cardinality(span \cup DOMAIN disk) =
               Cardinality(span) + Cardinality(DOMAIN disk) - Cardinality(span \cap DOMAIN disk)
      BY <3>1, <3>5, FS_Union
    <3>7. Cardinality(span \cap DOMAIN disk) = 0
      BY <3>4, FS_EmptySet
    <3>8. Cardinality(DOMAIN disk) \in Nat
      BY <3>1, FS_CardinalityType
    <3> QED
      BY <2>2, <2>4, <3>1, <3>3, <3>5, <3>6, <3>7, <3>8
  <2> QED
    BY <2>7, <2>8, <2>9, <2>10 DEF IInv
<1> QED
  BY <1>1, <1>2 DEF Next, Done

LEMMA Invariant == Spec => []IInv
BY InitInvariant, StepInvariant, PTL DEF Spec

-----------------------------------------------------------------------------
(* The state keeps its types: the file only ever holds bytes of the        *)
(* torrent, and no place before its beginning is written.                  *)
THEOREM WritingTypeCorrect == Spec => []TypeOK
<1>1. IInv => TypeOK
  BY DEF IInv
<1> QED
  BY <1>1, Invariant, PTL

(* get_file and PieceWriter.write: whatever the torrent, the file and the  *)
(* order of the pieces, a byte that is not of the last piece of the        *)
(* torrent is written where it belongs.                                    *)
THEOREM BytesInPlace == Spec => []InPlace
<1>1. IInv => InPlace
  BY DEF IInv
<1> QED
  BY <1>1, Invariant, PTL

(* Torrent.download: unless the file goes on into the last piece, the      *)
(* bytes counted are those on disk, and when no piece is pending the file  *)
(* is whole.                                                               *)
THEOREM FilesWhole == Spec => []Whole
<1>1. IInv => Whole
  <2> SUFFICES ASSUME IInv, ~ IntoLastPiece(layout)
               PROVE  /\ \/ DOMAIN disk \subseteq 0 .. FileOf(layout).size - 1
                         \/ InsidePiece(layout)
                      /\ bytesWritten = Cardinality(DOMAIN disk)
                      /\ pending = {} => 0 .. FileOf(layout).size - 1 \subseteq DOMAIN disk
    BY DEF Whole
  <2>1. /\ layout \in Layouts /\ Written \subseteq FilePieces(layout)
        /\ \A num \in Written : Obtainable(layout, num)
        /\ DOMAIN disk = UNION {Places(layout, num) : num \in Written}
        /\ bytesWritten = Cardinality(DOMAIN disk)
    BY DEF IInv, TypeOK, OnDisk, Written
  <2>2. ASSUME ~ InsidePiece(layout), NEW o \in DOMAIN disk
        PROVE  o \in 0 .. FileOf(layout).size - 1
    <3>1. PICK num \in Written : o \in Places(layout, num)
      BY <2>1
    <3>2. /\ Kept(layout, num).from \in Nat /\ Kept(layout, num).to \in Nat
          /\ FileStart(layout) <= Kept(layout, num).from
          /\ Kept(layout, num).to <= FileStart(layout) + FileOf(layout).size
      BY <2>1, <2>2, KeptBounds
    <3>3. FileStart(layout) \in Nat /\ FileOf(layout).size \in Nat
      BY <2>1, LayoutFacts DEF File
    <3> QED
      BY <3>1, <3>2, <3>3 DEF Places
  <2>3. ASSUME pending = {}, NEW o \in 0 .. FileOf(layout).size - 1
        PROVE  o \in DOMAIN disk
    <3>1. Written = FilePieces(layout)
      BY <2>3 DEF Written
    <3>2. \E num \in FilePieces(layout) : o \in Places(layout, num)
      BY <2>1, <2>3, <3>1, PlacesCover
    <3> QED
      BY <2>1, <3>1, <3>2
  <2> QED
    BY <2>1, <2>2, <2>3
<1> QED
  BY <1>1, Invariant, PTL
=============================================================================
