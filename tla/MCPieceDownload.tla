--------------------------- MODULE MCPieceDownload ---------------------------
(* Instances of PieceDownload for TLC.                                     *)
EXTENDS PieceDownload, TLC

CONSTANTS long, short, a, b, c

TwoPieces == {long, short}
TwoPeers == {a, b}
ThreePeers == {a, b, c}

(* Two pieces of a single block.                                           *)
OneAndOne == (long :> 1) @@ (short :> 1)
(* A piece of two blocks and one of a single block.                        *)
TwoAndOne == (long :> 2) @@ (short :> 1)

=============================================================================
