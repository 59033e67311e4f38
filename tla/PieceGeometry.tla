---------------------------- MODULE PieceGeometry ----------------------------
(***************************************************************************)
(* The arithmetic of pieces, blocks and files: FilesDownloadManager        *)
(* (aiotorrent/downloader.py), Piece (aiotorrent/piece.py), File and       *)
(* FileTree (aiotorrent/core/file_utils.py), PieceWriter                   *)
(* (aiotorrent/core/util.py). Data is an interval of byte offsets of the   *)
(* torrent, the files of the torrent one after the other.                  *)
(***************************************************************************)
EXTENDS Integers, Sequences

CONSTANT BlockSize   (* BLOCK_SIZE                                         *)

ASSUME GeometryAssumption == BlockSize \in Nat \ {0}

(* What is counted after each one of some lengths, and after all of them.  *)
Sums(lengths) ==
  LET sum[i \in 0 .. Len(lengths)] == IF i = 0 THEN 0 ELSE sum[i - 1] + lengths[i]
  IN sum
SumOf(lengths) == Sums(lengths)[Len(lengths)]

(* A half-open interval of byte offsets.                                   *)
Bytes(from, to) == [from |-> from, to |-> IF to < from THEN from ELSE to]
Length(d) == d.to - d.from

-----------------------------------------------------------------------------
(* FilesDownloadManager.__init__: total_pieces is the index of the last    *)
(* piece, and last_piece what is left of the torrent after the full ones.  *)
PieceInfo(size, pieceLen) ==
  LET left == size % pieceLen
  IN [total_pieces |-> size \div pieceLen + (IF left > 0 THEN 1 ELSE 0) - 1,
      total_blocks |-> pieceLen \div BlockSize
                         + (IF pieceLen % BlockSize > 0 THEN 1 ELSE 0),
      last_piece   |-> left]

(* Piece.__init__.                                                         *)
Piece(num, info) ==
  IF num = info.total_pieces
  THEN [num |-> num, is_last |-> TRUE,
        total_blocks |-> info.last_piece \div BlockSize,
        last_offset |-> info.last_piece % BlockSize,
        piece_size |-> info.last_piece]
  ELSE [num |-> num, is_last |-> FALSE,
        total_blocks |-> info.total_blocks,
        last_offset |-> 0,
        piece_size |-> info.total_blocks * BlockSize]

(* fetch_blocks: the bytes of block b that are asked for. The last request *)
(* of the last piece takes the incomplete block with it.                   *)
RequestLength(p, b) ==
  IF p.is_last /\ b = p.total_blocks - 1 THEN BlockSize + p.last_offset ELSE BlockSize

(* download: the blocks put together.                                      *)
PieceData(p, pieceLen) ==
  Bytes(p.num * pieceLen,
        p.num * pieceLen + SumOf([b \in 1 .. p.total_blocks |-> RequestLength(p, b - 1)]))

(* File.__init__, counted being the length of the files before.            *)
File(length, counted, pieceLen) ==
  [size        |-> length,
   start_piece |-> counted \div pieceLen,
   start_byte  |-> counted % pieceLen,
   end_piece   |-> (counted + length) \div pieceLen,
   end_byte    |-> (counted + length) % pieceLen]

(* FileTree: counted grows by the length of each file.                     *)
Counted(lengths, i) == Sums(lengths)[i - 1]
FileTree(lengths, pieceLen) ==
  [i \in 1 .. Len(lengths) |-> File(lengths[i], Counted(lengths, i), pieceLen)]

(* data[from:to] of Python: positions past the end stop at the end.        *)
Slice(d, from, to) ==
  LET Within(n) == IF d.from + n < d.to THEN d.from + n ELSE d.to
  IN Bytes(Within(from), Within(to))

(* Mutant: one byte of the next file is kept.                              *)
TrimOneMore(f, num, d) ==
  LET front == IF num = f.start_piece THEN Slice(d, f.start_byte, Length(d)) ELSE d
  IN IF num = f.end_piece THEN Slice(front, 0, f.end_byte + 1) ELSE front

(* get_file: data[start_byte:] of the first piece of the file, then        *)
(* data[:end_byte] of its last piece.                                      *)
Trim(f, num, d) ==
  LET front == IF num = f.start_piece THEN Slice(d, f.start_byte, Length(d)) ELSE d
  IN IF num = f.end_piece THEN Slice(front, 0, f.end_byte) ELSE front

(* Mutant: start_byte is not subtracted.                                   *)
WriteOffsetFromPiece(f, p) == (p.num - f.start_piece) * p.piece_size

(* Mutant: a negative offset is not reset.                                 *)
WriteOffsetNegative(f, p) == (p.num - f.start_piece) * p.piece_size - f.start_byte

(* PieceWriter.write: where in the file the piece is written.              *)
WriteOffset(f, p) ==
  LET offset == (p.num - f.start_piece) * p.piece_size - f.start_byte
  IN IF offset < 0 THEN 0 ELSE offset
=============================================================================
