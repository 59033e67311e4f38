------------------------- MODULE FileDownloadProofs --------------------------
(***************************************************************************)
(* Proofs about get_file for any file, peers and blocks: it runs the       *)
(* coroutines of PieceDownload (so that everything proved of them holds of *)
(* it), it accounts for every piece, and it implements FileDelivery.       *)
(***************************************************************************)
EXTENDS FileDownload, PieceDownloadProofs

(* What get_file has yielded is the torrent's own data.                    *)
Genuine == {<<t, GenuineData[t]>> : t \in Pieces}

FInv ==
  /\ IInv
  /\ phase \in {"start", "collect", "returned", "raised"}
  /\ finished \in Seq(Pieces)
  /\ filePieces \in SUBSET ({RetryPriority} \X Pieces)
  /\ output \in Seq(Genuine)
  /\ Accounting

-----------------------------------------------------------------------------
(* A step of get_file is a step of its coroutines, or none of theirs.      *)
LEMMA FileStepIsNext == [FileNext]_<<vars, fileVars>> => [Next]_vars
<1> SUFFICES ASSUME [FileNext]_<<vars, fileVars>> PROVE [Next]_vars
  OBVIOUS
<1>1. ASSUME StartFile PROVE Next
  BY <1>1 DEF StartFile, Next
<1>2. ASSUME NEW t \in Pieces, Run(t) PROVE Next
  BY <1>2 DEF Run, Next
<1>3. ASSUME NEW t \in Pieces, Collect(t) PROVE UNCHANGED vars
  BY <1>3 DEF Collect, CollectValid, CollectInvalid, CollectFailed, Take
<1>4. CASE Return \/ FileTerminated \/ UNCHANGED <<vars, fileVars>>
  BY <1>4 DEF Return, FileTerminated
<1> QED
  BY <1>1, <1>2, <1>3, <1>4 DEF FileNext

(* get_file drives the coroutines as PieceDownload lets them be driven:    *)
(* every safety theorem of PieceDownload holds of a download by get_file.  *)
THEOREM FileRunsCoroutines == FileSpec => Spec
<1>1. FileInit => Init
  BY DEF FileInit
<1> QED
  BY <1>1, FileStepIsNext, PTL DEF FileSpec, Spec

(* A step of a coroutine that has not ended changes no other's place.      *)
LEMMA StepEndsOne ==
  ASSUME TypeOK, NEW t \in Pieces, Step(t)
  PROVE  /\ t \notin Ended
         /\ Ended' = IF pc'[t] \in {"done", "failed"} THEN Ended \cup {t} ELSE Ended
<1>1. pc[t] \in {"get", "fetch", "gathered", "swap"}
  BY DEF Step, GetPeer, Fetch, FetchBlocks, FetchNone, FetchIOError, FetchCrash,
         Resume, SwapPeer
<1>2. \E s : pc' = [pc EXCEPT ![t] = s]
  BY DEF Step, GetPeer, Fetch, FetchBlocks, FetchNone, FetchIOError, FetchCrash,
         Resume, SwapPeer, Loop, Finish, Request
<1> QED
  BY <1>1, <1>2 DEF Ended, TypeOK

(* The data of a valid piece is the torrent's.                             *)
LEMMA ValidIsGenuine ==
  ASSUME NEW t \in Pieces, IsValid(t)
  PROVE  DataOf(t) = GenuineData[t]
  BY DEF IsValid, DataOf, GenuineData

LEMMA FileInitInv == FileInit => FInv
<1> SUFFICES ASSUME FileInit PROVE FInv
  OBVIOUS
<1>1. IInv
  BY InitInv DEF FileInit
<1>2. Waiting = {} /\ Delivered = {} /\ Requeued = {} /\ Ended = {}
  BY DEF FileInit, Init, Waiting, Delivered, Requeued, Ended
<1>3. Accounting
  BY <1>2 DEF FileInit, Accounting
<1> QED
  BY <1>1, <1>3 DEF FileInit, FInv

-----------------------------------------------------------------------------
(* The set of the results that wait, through Append and Tail.              *)
LEMMA AppendWaiting ==
  ASSUME finished \in Seq(Pieces), NEW t \in Pieces, finished' = Append(finished, t)
  PROVE  /\ Waiting' = Waiting \cup {t}
         /\ /\ t \notin Waiting
            /\ \A i, j \in DOMAIN finished : finished[i] = finished[j] => i = j
            => \A i, j \in DOMAIN finished' : finished'[i] = finished'[j] => i = j
  BY DEF Waiting

LEMMA TailWaiting ==
  ASSUME finished \in Seq(Pieces), finished # <<>>,
         \A i, j \in DOMAIN finished : finished[i] = finished[j] => i = j,
         finished' = Tail(finished)
  PROVE  /\ finished' \in Seq(Pieces)
         /\ Head(finished) \in Waiting
         /\ Waiting' = Waiting \ {Head(finished)}
         /\ \A i, j \in DOMAIN finished' : finished'[i] = finished'[j] => i = j
<1>1. /\ Len(finished) \in Nat \ {0} /\ DOMAIN finished = 1 .. Len(finished)
      /\ Head(finished) = finished[1]
      /\ finished' \in Seq(Pieces) /\ DOMAIN finished' = 1 .. Len(finished) - 1
      /\ \A i \in 1 .. Len(finished) - 1 : finished'[i] = finished[i + 1]
  OBVIOUS
<1>2. Head(finished) \in Waiting
  BY <1>1 DEF Waiting
<1>3. ASSUME NEW x \in Waiting' PROVE x \in Waiting \ {Head(finished)}
  <2>1. PICK i \in 1 .. Len(finished) - 1 : x = finished[i + 1]
    BY <1>1, <1>3 DEF Waiting
  <2> QED
    BY <1>1, <2>1 DEF Waiting
<1>4. ASSUME NEW x \in Waiting, x # Head(finished) PROVE x \in Waiting'
  <2>1. PICK i \in 1 .. Len(finished) : x = finished[i] /\ i # 1
    BY <1>1, <1>4 DEF Waiting
  <2>2. i - 1 \in 1 .. Len(finished) - 1 /\ finished'[i - 1] = x
    BY <1>1, <2>1
  <2> QED
    BY <1>1, <2>2 DEF Waiting
<1>5. \A i, j \in DOMAIN finished' : finished'[i] = finished'[j] => i = j
  BY <1>1
<1> QED
  BY <1>1, <1>2, <1>3, <1>4, <1>5

(* A coroutine that ends joins the results that wait.                      *)
LEMMA RunPreserves ==
  ASSUME FInv, NEW t \in Pieces, Run(t)
  PROVE  FInv'
<1>1. IInv'
  BY NextInv DEF FInv, Run, Next
<1>2. UNCHANGED <<phase, filePieces, output>> /\ Delivered' = Delivered /\ Requeued' = Requeued
  BY DEF Run, Delivered, Requeued
<1>3. /\ t \notin Ended
      /\ Ended' = IF pc'[t] \in {"done", "failed"} THEN Ended \cup {t} ELSE Ended
  BY StepEndsOne DEF FInv, IInv, Run
<1>4. CASE pc'[t] \in {"done", "failed"}
  <2>1. finished' = Append(finished, t) /\ finished' \in Seq(Pieces)
    BY <1>4 DEF Run, FInv
  <2>2. /\ t \notin Waiting /\ Waiting' = Waiting \cup {t}
        /\ \A i, j \in DOMAIN finished' : finished'[i] = finished'[j] => i = j
    BY <1>3, <2>1, AppendWaiting DEF FInv, Accounting
  <2>3. Accounting'
    BY <1>2, <1>3, <1>4, <2>2 DEF FInv, Accounting, Ended
  <2> QED
    BY <1>1, <1>2, <2>1, <2>3 DEF FInv
<1>5. CASE pc'[t] \notin {"done", "failed"}
  <2>1. finished' = finished /\ Waiting' = Waiting /\ Ended' = Ended
    BY <1>3, <1>5 DEF Run, Waiting
  <2>2. Accounting'
    BY <1>2, <2>1 DEF FInv, Accounting
  <2> QED
    BY <1>1, <1>2, <2>1, <2>2 DEF FInv
<1> QED
  BY <1>4, <1>5

LEMMA TakePreserves ==
  ASSUME FInv, NEW t \in Pieces, Take(t)
  PROVE  /\ IInv' /\ UNCHANGED vars /\ Ended' = Ended
         /\ t \in Waiting /\ Waiting' = Waiting \ {t}
         /\ finished' \in Seq(Pieces)
         /\ \A i, j \in DOMAIN finished' : finished'[i] = finished'[j] => i = j
<1>1. IInv' /\ UNCHANGED vars /\ Ended' = Ended
  BY NextInv DEF Take, FInv, Ended, vars
<1> QED
  BY <1>1, TailWaiting DEF Take, FInv, Accounting

LEMMA CollectValidPreserves ==
  ASSUME FInv, NEW t \in Pieces, CollectValid(t)
  PROVE  FInv' /\ t \notin Delivered /\ output' = Append(output, <<t, GenuineData[t]>>)
<1>1. /\ IInv' /\ UNCHANGED vars /\ Ended' = Ended
      /\ t \in Waiting /\ Waiting' = Waiting \ {t}
      /\ finished' \in Seq(Pieces)
      /\ \A i, j \in DOMAIN finished' : finished'[i] = finished'[j] => i = j
  BY TakePreserves DEF CollectValid
<1>2. output' = Append(output, <<t, GenuineData[t]>>)
  BY ValidIsGenuine DEF CollectValid
<1>3. output' \in Seq(Genuine)
  BY <1>2 DEF FInv, Genuine
<1>4. /\ Len(output) \in Nat /\ DOMAIN output = 1 .. Len(output)
      /\ DOMAIN output' = 1 .. Len(output) + 1
      /\ \A i \in 1 .. Len(output) : output'[i] = output[i]
      /\ output'[Len(output) + 1] = <<t, GenuineData[t]>>
  BY <1>2 DEF FInv
<1>5. t \notin Delivered
  BY <1>1 DEF FInv, Accounting
<1>6. Delivered' = Delivered \cup {t}
  BY <1>4 DEF Delivered
<1>7. \A i, j \in DOMAIN output' : output'[i][1] = output'[j][1] => i = j
  BY <1>4, <1>5 DEF FInv, Accounting, Delivered
<1>8. UNCHANGED <<phase, filePieces>> /\ Requeued' = Requeued /\ phase = "collect"
  BY DEF CollectValid, Take, Requeued
<1>9. Accounting'
  BY <1>1, <1>6, <1>7, <1>8 DEF FInv, Accounting
<1> QED
  BY <1>1, <1>2, <1>3, <1>5, <1>8, <1>9 DEF FInv

LEMMA CollectInvalidPreserves ==
  ASSUME FInv, NEW t \in Pieces, CollectInvalid(t)
  PROVE  FInv'
<1>1. /\ IInv' /\ UNCHANGED vars /\ Ended' = Ended
      /\ t \in Waiting /\ Waiting' = Waiting \ {t}
      /\ finished' \in Seq(Pieces)
      /\ \A i, j \in DOMAIN finished' : finished'[i] = finished'[j] => i = j
  BY TakePreserves DEF CollectInvalid
<1>2. UNCHANGED <<phase, output>> /\ Delivered' = Delivered /\ phase = "collect"
  BY DEF CollectInvalid, Take, Delivered
<1>3. Requeued' = Requeued \cup {t}
  <2> DEFINE entry == <<RetryPriority, t>>
  <2>1. filePieces' = filePieces \cup {entry} /\ entry[2] = t
    BY DEF CollectInvalid
  <2> HIDE DEF entry
  <2> QED
    BY <2>1 DEF Requeued
<1>4. Accounting'
  BY <1>1, <1>2, <1>3 DEF FInv, Accounting
<1> QED
  BY <1>1, <1>2, <1>4 DEF FInv, CollectInvalid

LEMMA CollectFailedPreserves ==
  ASSUME FInv, NEW t \in Pieces, CollectFailed(t)
  PROVE  FInv'
<1>1. /\ IInv' /\ UNCHANGED vars /\ Ended' = Ended
      /\ t \in Waiting /\ Waiting' = Waiting \ {t}
      /\ finished' \in Seq(Pieces)
      /\ \A i, j \in DOMAIN finished' : finished'[i] = finished'[j] => i = j
  BY TakePreserves DEF CollectFailed
<1>2. /\ phase' = "raised" /\ UNCHANGED <<filePieces, output>>
      /\ Delivered' = Delivered /\ Requeued' = Requeued
  BY DEF CollectFailed, Delivered, Requeued
<1>3. Accounting'
  BY <1>1, <1>2 DEF FInv, Accounting
<1> QED
  BY <1>1, <1>2, <1>3 DEF FInv

LEMMA FileNextInv == FInv /\ [FileNext]_<<vars, fileVars>> => FInv'
<1> SUFFICES ASSUME FInv, [FileNext]_<<vars, fileVars>> PROVE FInv'
  OBVIOUS
<1>1. IInv'
  BY FileStepIsNext, NextInv DEF FInv
<1>2. CASE StartFile
  <2>1. Ended' = Ended
    BY <1>2 DEF StartFile, Create, Ended
  <2>2. UNCHANGED <<finished, filePieces, output>> /\ phase = "start" /\ phase' = "collect"
    BY <1>2 DEF StartFile
  <2>3. Waiting' = Waiting /\ Delivered' = Delivered /\ Requeued' = Requeued
    BY <2>2 DEF Waiting, Delivered, Requeued
  <2>4. Accounting'
    BY <2>1, <2>2, <2>3 DEF FInv, Accounting
  <2> QED
    BY <1>1, <2>2, <2>4 DEF FInv
<1>3. ASSUME NEW t \in Pieces, Run(t) \/ Collect(t) PROVE FInv'
  BY <1>3, RunPreserves, CollectValidPreserves, CollectInvalidPreserves,
     CollectFailedPreserves DEF Collect
<1>4. CASE Return
  <2>1. /\ UNCHANGED <<finished, filePieces, output, pc>> /\ finished = <<>>
        /\ phase = "collect" /\ phase' = "returned" /\ Ended = Pieces
    BY <1>4 DEF Return, vars
  <2>2. /\ Waiting = {} /\ Ended' = Ended
        /\ Waiting' = Waiting /\ Delivered' = Delivered /\ Requeued' = Requeued
    BY <2>1 DEF Waiting, Ended, Delivered, Requeued
  <2>3. Accounting'
    BY <2>1, <2>2 DEF FInv, Accounting
  <2> QED
    BY <1>1, <2>1, <2>3 DEF FInv
<1>5. CASE FileTerminated \/ UNCHANGED <<vars, fileVars>>
  <2>1. UNCHANGED <<pc, finished, filePieces, output, phase>>
    BY <1>5 DEF FileTerminated, vars, fileVars
  <2>2. /\ Ended' = Ended /\ Waiting' = Waiting
        /\ Delivered' = Delivered /\ Requeued' = Requeued
    BY <2>1 DEF Waiting, Ended, Delivered, Requeued
  <2>3. Accounting'
    BY <2>1, <2>2 DEF FInv, Accounting
  <2> QED
    BY <1>1, <2>1, <2>3 DEF FInv
<1> QED
  BY <1>2, <1>3, <1>4, <1>5 DEF FileNext

(* The queues of get_file and its count of bytes written keep their types. *)
THEOREM FileTypeCorrect == FileSpec => []FileTypeOK
<1>1. FileInit => FInv /\ bytesWritten \in Nat
  BY FileInitInv DEF FileInit
<1>2. FInv /\ bytesWritten \in Nat /\ [FileNext]_<<vars, fileVars>>
        => (FInv /\ bytesWritten \in Nat)'
  <2> SUFFICES ASSUME FInv, bytesWritten \in Nat, [FileNext]_<<vars, fileVars>>
               PROVE  bytesWritten' \in Nat
    BY FileNextInv
  <2>1. ASSUME NEW t \in Pieces, CollectValid(t) PROVE bytesWritten' \in Nat
    BY <2>1, FileDownloadAssumption DEF CollectValid
  <2>2. ASSUME NEW t \in Pieces, Run(t) \/ CollectInvalid(t) \/ CollectFailed(t)
        PROVE  UNCHANGED bytesWritten
    BY <2>2 DEF Run, CollectInvalid, CollectFailed
  <2>3. CASE StartFile \/ Return \/ FileTerminated \/ UNCHANGED <<vars, fileVars>>
    BY <2>3 DEF StartFile, Return, FileTerminated, fileVars
  <2> QED
    BY <2>1, <2>2, <2>3 DEF FileNext, Collect
<1>3. FInv /\ bytesWritten \in Nat => FileTypeOK
  BY DEF FInv, IInv, FileTypeOK
<1> QED
  BY <1>1, <1>2, <1>3, PTL DEF FileSpec

(* Every piece has exactly one fate, and all are settled when get_file     *)
(* returns.                                                                *)
THEOREM FileAccounts == FileSpec => []Accounting
<1>1. FInv => Accounting
  BY DEF FInv
<1> QED
  BY <1>1, FileInitInv, FileNextInv, PTL DEF FileSpec

(* With more peers than pieces of the file, get_file, which starts all of  *)
(* them at once, is never wedged.                                          *)
THEOREM FileNeverWedged ==
  ASSUME Cardinality(Pieces) < Cardinality(Peers)
  PROVE  FileSpec => []NeverWedged
<1>1. Spec => []NeverWedged
  BY PlentyOfPeers
<1> QED
  BY <1>1, FileRunsCoroutines, PTL

-----------------------------------------------------------------------------
(* get_file implements FileDelivery.                                       *)
THEOREM FileDelivers == FileSpec => DeliverySpec
<1>1. FileInit => Delivery!Init
  BY DEF FileInit, Delivery!Init
<1>2. FInv /\ [FileNext]_<<vars, fileVars>> =>
        [Delivery!Next]_<<output, IF phase \in {"returned", "raised"}
                                  THEN phase ELSE "open">>
  <2> SUFFICES ASSUME FInv, [FileNext]_<<vars, fileVars>>
               PROVE  [Delivery!Next]_<<output, IF phase \in {"returned", "raised"}
                                                THEN phase ELSE "open">>
    OBVIOUS
  <2>1. ASSUME NEW t \in Pieces, CollectValid(t) PROVE Delivery!Deliver(t)
    <3>1. t \notin Delivered /\ output' = Append(output, <<t, GenuineData[t]>>)
      BY <2>1, CollectValidPreserves
    <3>2. phase = "collect" /\ phase' = "collect"
      BY <2>1 DEF CollectValid, Take
    <3> QED
      BY <3>1, <3>2 DEF Delivery!Deliver, Delivery!Delivered, Delivered
  <2>2. ASSUME Return \/ \E t \in Pieces : CollectFailed(t) PROVE Delivery!End
    BY <2>2 DEF Return, CollectFailed, Take, Delivery!End
  <2>3. ASSUME NEW t \in Pieces, Run(t) \/ CollectInvalid(t)
        PROVE  UNCHANGED <<output, phase>>
    BY <2>3 DEF Run, CollectInvalid
  <2>4. CASE StartFile
    BY <2>4 DEF StartFile
  <2>5. CASE FileTerminated \/ UNCHANGED <<vars, fileVars>>
    BY <2>5 DEF FileTerminated, fileVars
  <2> QED
    BY <2>1, <2>2, <2>3, <2>4, <2>5 DEF FileNext, Collect, Delivery!Next
<1> QED
  BY <1>1, <1>2, FileInitInv, FileNextInv, PTL DEF FileSpec, DeliverySpec, Delivery!Spec

=============================================================================
