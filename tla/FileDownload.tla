---------------------------- MODULE FileDownload ----------------------------
(***************************************************************************)
(* FilesDownloadManager.get_file (aiotorrent/downloader.py), the default   *)
(* strategy, consumed by Torrent.download: it starts one coroutine per     *)
(* piece of the file, all of them at once, and takes their results in the  *)
(* order they end. The coroutines are those of PieceDownload.              *)
(*                                                                         *)
(* Torrent.download writes each piece it gets without awaiting anything,   *)
(* so that taking a result, checking it, yielding it and writing it is one *)
(* segment of the generator.                                               *)
(***************************************************************************)
EXTENDS PieceDownload, Sequences

CONSTANT TrimmedLength   (* bytes of each piece that belong to the file    *)

ASSUME FileDownloadAssumption == TrimmedLength \in [Pieces -> Nat]

VARIABLES
  phase,        (* "start", "collect", "returned" or "raised"              *)
  finished,     (* the done queue of asyncio.as_completed                  *)
  filePieces,   (* file_pieces: pairs of a priority and a piece            *)
  output,       (* pieces yielded, each with the data it had               *)
  bytesWritten  (* File.__bytes_written                                    *)

fileVars == <<phase, finished, filePieces, output, bytesWritten>>

-----------------------------------------------------------------------------
(* The priority of a piece that is_valid rejected.                         *)
RetryPriority == 1

(* piece.data: the blocks put together.                                    *)
DataOf(t) == [b \in 0 .. TotalBlocks[t] - 1 |-> blocks[t][b]]
GenuineData == [t \in Pieces |-> [b \in 0 .. TotalBlocks[t] - 1 |-> t]]

Ended == {t \in Pieces : pc[t] \in {"done", "failed"}}
Waiting == {finished[i] : i \in DOMAIN finished}
Delivered == {output[i][1] : i \in DOMAIN output}
Requeued == {e[2] : e \in filePieces}

-----------------------------------------------------------------------------
FileTypeOK ==
  /\ TypeOK
  /\ phase \in {"start", "collect", "returned", "raised"}
  /\ finished \in Seq(Pieces)
  /\ filePieces \in SUBSET ({RetryPriority} \X Pieces)
  /\ bytesWritten \in Nat

FileInit ==
  /\ Init
  /\ phase = "start" /\ finished = <<>> /\ filePieces = {}
  /\ output = <<>> /\ bytesWritten = 0

(* create_pieces_queue fills file_pieces and the while loop empties it     *)
(* again into tasks, with no await that suspends.                          *)
StartFile ==
  /\ phase = "start"
  /\ Create(Pieces)
  /\ phase' = "collect"
  /\ UNCHANGED <<finished, filePieces, output, bytesWritten>>

(* Mutant: a coroutine ended by an exception is not among the results.     *)
RunOnlyReturned(t) ==
  /\ Step(t)
  /\ finished' = IF pc'[t] = "done" THEN Append(finished, t) ELSE finished
  /\ UNCHANGED <<phase, filePieces, output, bytesWritten>>

(* A coroutine runs; when it ends, as_completed queues its task. After     *)
(* get_file has raised, the coroutines still run.                          *)
Run(t) ==
  /\ Step(t)
  /\ finished' = IF pc'[t] \in {"done", "failed"}
                 THEN Append(finished, t) ELSE finished
  /\ UNCHANGED <<phase, filePieces, output, bytesWritten>>

(* The next result of as_completed is that of t.                           *)
Take(t) ==
  /\ phase = "collect"
  /\ finished # <<>> /\ t = Head(finished)
  /\ finished' = Tail(finished)
  /\ UNCHANGED vars

CollectValid(t) ==
  /\ Take(t)
  /\ pc[t] = "done" /\ IsValid(t)
  /\ output' = Append(output, <<t, DataOf(t)>>)
  /\ bytesWritten' = bytesWritten + TrimmedLength[t]
  /\ UNCHANGED <<phase, filePieces>>

(* Mutant: the rejected piece is not put back in the queue.                *)
CollectInvalidForgets(t) ==
  /\ Take(t)
  /\ pc[t] = "done" /\ ~IsValid(t)
  /\ UNCHANGED <<phase, filePieces, output, bytesWritten>>

(* The piece goes back to file_pieces, which nothing reads any more.       *)
CollectInvalid(t) ==
  /\ Take(t)
  /\ pc[t] = "done" /\ ~IsValid(t)
  /\ filePieces' = filePieces \cup {<<RetryPriority, t>>}
  /\ UNCHANGED <<phase, output, bytesWritten>>

(* await task raises what ended the coroutine, out of get_file.            *)
CollectFailed(t) ==
  /\ Take(t)
  /\ pc[t] = "failed"
  /\ phase' = "raised"
  /\ UNCHANGED <<filePieces, output, bytesWritten>>

Collect(t) == CollectValid(t) \/ CollectInvalid(t) \/ CollectFailed(t)

Return ==
  /\ phase = "collect"
  /\ finished = <<>> /\ Ended = Pieces
  /\ phase' = "returned"
  /\ UNCHANGED <<vars, finished, filePieces, output, bytesWritten>>

(* The generator has ended and so has every coroutine it started.          *)
FileTerminated ==
  /\ phase \in {"returned", "raised"} /\ Ended = Pieces
  /\ UNCHANGED <<vars, fileVars>>

FileNext ==
  \/ StartFile
  \/ \E t \in Pieces : Run(t) \/ Collect(t)
  \/ Return
  \/ FileTerminated

FileSpec == FileInit /\ [][FileNext]_<<vars, fileVars>>

(* The fairness of PieceDownload, and the event loop also runs get_file.   *)
FairFileSpec ==
  /\ FileSpec
  /\ Fairness
  /\ WF_<<vars, fileVars>>(StartFile)
  /\ WF_<<vars, fileVars>>(\E t \in Pieces : Collect(t))
  /\ WF_<<vars, fileVars>>(Return)

-----------------------------------------------------------------------------
(* Whatever the order in which the coroutines end, each piece has exactly  *)
(* one fate: its coroutine still runs, its result waits to be taken, it    *)
(* was yielded, or it was put back; only get_file's own failure loses      *)
(* results. When get_file returns, every piece was yielded once or put     *)
(* back.                                                                   *)
Accounting ==
  /\ Waiting \cup Delivered \cup Requeued \subseteq Ended
  /\ phase # "raised" => Ended \subseteq Waiting \cup Delivered \cup Requeued
  /\ Waiting \cap (Delivered \cup Requeued) = {}
  /\ Delivered \cap Requeued = {}
  /\ \A i, j \in DOMAIN finished : finished[i] = finished[j] => i = j
  /\ \A i, j \in DOMAIN output : output[i][1] = output[j][1] => i = j
  /\ phase = "returned" => Delivered \cup Requeued = Pieces

(* To its consumer get_file is a FileDelivery: no piece twice, none with   *)
(* damaged or foreign data, nothing after the end.                         *)
Delivery == INSTANCE FileDelivery WITH
  FilePieces <- Pieces, Genuine <- GenuineData,
  outcome <- IF phase \in {"returned", "raised"} THEN phase ELSE "open"

DeliverySpec == Delivery!Spec

(* get_file ends.                                                          *)
FileEnds == phase = "start" ~> phase \in {"returned", "raised"}

(* CHANGELOG.md:93: "Fixed bug which did not put the piece back in queue   *)
(* after piece validation failed": the piece is put back, but a get_file   *)
(* that returns has yielded every piece only if none was rejected.         *)
ReturnedComplete == phase = "returned" => Delivered = Pieces
=============================================================================
