---------------------------- MODULE MCFileWriting ----------------------------
(* Instances of FileWriting for TLC: torrents of up to three files.        *)
EXTENDS FileWriting

CONSTANT MaxLength   (* bound: the longest file                            *)

Torrents ==
  {l \in [piece_len : {BlockSize, 2 * BlockSize},
          lengths : UNION {[1 .. n -> 0 .. MaxLength] : n \in 1 .. 3},
          file : 1 .. 3] :
     l.file <= Len(l.lengths) /\ TorrentSize(l) > 0}
=============================================================================
