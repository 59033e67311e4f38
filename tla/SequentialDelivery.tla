------------------------- MODULE SequentialDelivery --------------------------
(***************************************************************************)
(* What a consumer of get_file_sequential (aiotorrent/downloader.py) may   *)
(* count on: the same as from get_file, of which FileDelivery says what it *)
(* promises. It holds of a stream by itself, and not of two at a time: see *)
(* OwnPieces in SequentialDownload.                                        *)
(***************************************************************************)
EXTENDS SequentialDownload

CONSTANT first   (* a stream                                               *)

(* The consumer sees the pieces that the generator yields, and whether it  *)
(* has ended; a generator that was closed yields no more, like one that    *)
(* has raised.                                                             *)
Delivery == INSTANCE FileDelivery WITH
  FilePieces <- PiecesOf(first),
  Genuine <- [n \in PiecesOf(first) |-> TRUE],
  output <- [i \in DOMAIN output[first] |-> <<output[first][i].num, output[first][i].good>>],
  outcome <- CASE at[first] = "returned" -> "returned"
               [] at[first] \in {"raised", "closed"} -> "raised"
               [] OTHER -> "open"

(* A stream by itself yields pieces of its file, none twice and none with  *)
(* damaged data, and nothing after its end.                                *)
DeliverySpec == Delivery!Spec
=============================================================================
