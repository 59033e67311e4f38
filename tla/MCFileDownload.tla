--------------------------- MODULE MCFileDownload ---------------------------
(* Instances of FileDownload for TLC.                                      *)
EXTENDS FileDownload, TLC

CONSTANTS long, short, a, b, c, noise

TwoPieces == {long, short}
ThreePeers == {a, b, c}

OneAndOne == (long :> 1) @@ (short :> 1)

(* The file starts in the middle of its first piece.                       *)
Lengths == (long :> 3) @@ (short :> 2)
Noise == {noise}

=============================================================================
