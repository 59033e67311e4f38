---------------------------- MODULE FileDelivery ----------------------------
(***************************************************************************)
(* What FilesDownloadManager.get_file (aiotorrent/downloader.py) promises  *)
(* to the loop that consumes it, Torrent.download: pieces of the file in   *)
(* any order, each at most once and never with damaged data, until the     *)
(* generator ends, by returning or by raising. That every piece comes      *)
(* before it returns is not promised: see ReturnedComplete in FileDownload.*)
(***************************************************************************)
EXTENDS Sequences

CONSTANTS
  FilePieces,   (* the pieces of the file                                  *)
  Genuine       (* the data of each piece in the torrent                   *)

VARIABLES
  output,       (* what the consumer got: pairs of a piece and its data    *)
  outcome       (* "open" until the generator ends                         *)

Delivered == {output[i][1] : i \in DOMAIN output}

Init == output = <<>> /\ outcome = "open"

Deliver(t) ==
  /\ outcome = "open"
  /\ t \notin Delivered
  /\ output' = Append(output, <<t, Genuine[t]>>)
  /\ UNCHANGED outcome

End ==
  /\ outcome = "open"
  /\ outcome' \in {"returned", "raised"}
  /\ UNCHANGED output

Next == End \/ \E t \in FilePieces : Deliver(t)

Spec == Init /\ [][Next]_<<output, outcome>>
=============================================================================
