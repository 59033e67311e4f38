------------------------ MODULE MCSequentialDownload -------------------------
(* Instances of SequentialDownload for TLC.                                *)
EXTENDS SequentialDelivery, TLC

CONSTANT second

OneStream == {first}
TwoStreams == {first, second}

(* A file of five pieces.                                                  *)
StartFive == (first :> 0)
EndFive == (first :> 4)

(* A torrent of two files, of five pieces and of one.                      *)
StartTwo == (first :> 0) @@ (second :> 5)
EndTwo == (first :> 4) @@ (second :> 5)

NoPieces == {}
(* The coroutine of piece 1 may raise.                                     *)
SomeFail == {1}
=============================================================================
