----------------------------- MODULE FileWriting -----------------------------
(***************************************************************************)
(* Torrent.download (aiotorrent/aiotorrent.py) writing the pieces of one   *)
(* file to disk in the order in which they come: the composition of        *)
(* get_file's trimming with PieceWriter, over the arithmetic of            *)
(* PieceGeometry, against what the file really holds.                      *)
(***************************************************************************)
EXTENDS PieceGeometry, FiniteSets

CONSTANT Layouts   (* records of a piece length, the lengths of the files  *)
                   (* of the torrent, and the number of the file           *)

ASSUME LayoutsAssumption ==
  \A l \in Layouts : /\ l.piece_len \in Nat \ {0}
                     /\ l.lengths \in Seq(Nat)
                     /\ l.file \in 1 .. Len(l.lengths)

VARIABLES
  layout,        (* the torrent and the file that is downloaded            *)
  pending,       (* piece numbers of the file not yet written              *)
  disk,          (* which byte of the torrent each byte of the file is     *)
  bytesWritten   (* File.__bytes_written                                   *)

vars == <<layout, pending, disk, bytesWritten>>

-----------------------------------------------------------------------------
TorrentSize(l) == SumOf(l.lengths)
InfoOf(l) == PieceInfo(TorrentSize(l), l.piece_len)
FileOf(l) == FileTree(l.lengths, l.piece_len)[l.file]
FileStart(l) == Counted(l.lengths, l.file)

(* piece_hashmap has the pieces of the torrent, and the hash of a piece is *)
(* that of all its bytes.                                                  *)
PieceBytes(l, num) ==
  Bytes(num * l.piece_len,
        IF (num + 1) * l.piece_len < TorrentSize(l)
        THEN (num + 1) * l.piece_len ELSE TorrentSize(l))
Obtainable(l, num) ==
  /\ num * l.piece_len < TorrentSize(l)
  /\ PieceData(Piece(num, InfoOf(l)), l.piece_len) = PieceBytes(l, num)

TypeOK ==
  /\ layout \in Layouts
  /\ pending \in SUBSET (FileOf(layout).start_piece .. FileOf(layout).end_piece)
  /\ DOMAIN disk \subseteq Nat
  /\ \A o \in DOMAIN disk : disk[o] \in 0 .. TorrentSize(layout) - 1
  /\ bytesWritten \in Nat

(* create_pieces_queue: the pieces from start_piece to end_piece.          *)
Init ==
  /\ layout \in Layouts
  /\ pending = FileOf(layout).start_piece .. FileOf(layout).end_piece
  /\ disk = [o \in {} |-> 0]
  /\ bytesWritten = 0

(* A valid piece is yielded, trimmed to the file, and written.             *)
Write(num) ==
  /\ num \in pending /\ Obtainable(layout, num)
  /\ LET p == Piece(num, InfoOf(layout))
         f == FileOf(layout)
         data == Trim(f, num, PieceData(p, layout.piece_len))
         at == WriteOffset(f, p)
         span == at .. at + Length(data) - 1
     IN /\ disk' = [o \in span \cup DOMAIN disk |->
                      IF o \in span THEN data.from + (o - at) ELSE disk[o]]
        /\ bytesWritten' = bytesWritten + Length(data)
  /\ pending' = pending \ {num}
  /\ UNCHANGED layout

(* Every piece that can be had has been written.                           *)
Done ==
  /\ \A num \in pending : ~Obtainable(layout, num)
  /\ UNCHANGED vars

Next == Done \/ \E num \in pending : Write(num)

Spec == Init /\ [][Next]_vars

-----------------------------------------------------------------------------
LastPiece(l) == InfoOf(l).total_pieces

(* The two layouts the arithmetic of the code is wrong for: a file that    *)
(* goes on into the last piece of the torrent, whose offset is computed    *)
(* with its own size, and a file that lies inside a piece but not at its   *)
(* beginning, which is trimmed at its end by end_byte after start_byte has *)
(* been cut off already.                                                   *)
IntoLastPiece(l) ==
  FileOf(l).start_piece < LastPiece(l) /\ LastPiece(l) <= FileOf(l).end_piece
InsidePiece(l) ==
  FileOf(l).start_piece = FileOf(l).end_piece /\ FileOf(l).start_byte > 0

(* The bytes on disk are those of the file, each at its place, whatever    *)
(* the order of the pieces. Only bytes of the last piece of the torrent,   *)
(* in a file that began before it, may be out of place.                    *)
InPlace ==
  \A o \in DOMAIN disk :
    \/ disk[o] = FileStart(layout) + o
    \/ IntoLastPiece(layout) /\ disk[o] >= LastPiece(layout) * layout.piece_len

(* The count of bytes written is that of the bytes on disk, and when every *)
(* piece is written none is missing. No byte of a neighbour is on disk,    *)
(* unless the file lies inside a piece.                                    *)
Whole ==
  ~IntoLastPiece(layout) =>
    /\ DOMAIN disk \subseteq 0 .. FileOf(layout).size - 1 \/ InsidePiece(layout)
    /\ bytesWritten = Cardinality(DOMAIN disk)
    /\ pending = {} => 0 .. FileOf(layout).size - 1 \subseteq DOMAIN disk
=============================================================================
