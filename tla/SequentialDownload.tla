-------------------------- MODULE SequentialDownload -------------------------
(***************************************************************************)
(* FilesDownloadManager.get_file_sequential (aiotorrent/downloader.py)     *)
(* with its asyncio.Semaphore and its SequentialPieceDispatcher            *)
(* (aiotorrent/core/util.py), for one or more streams at a time:           *)
(* Torrent.download with the sequential strategy, or one generator per     *)
(* HTTP request of Torrent.stream. The piece coroutines are abstracted as  *)
(* in PieceTasks.                                                          *)
(*                                                                         *)
(* A generator runs without interruption until it waits for the semaphore  *)
(* or has yielded, through many iterations of its loops. running names the *)
(* stream whose generator runs; piece coroutines and other generators take *)
(* a step only when none does.                                             *)
(***************************************************************************)
EXTENDS Integers, FiniteSets, Sequences, SequencesExt

CONSTANTS
  Streams,        (* the generators                                        *)
  FirstPiece,     (* File.start_piece of the file of each one              *)
  LastPiece,      (* File.end_piece                                        *)
  MaxConcurrent,  (* max_concurrent_pieces                                 *)
  QueueLimit,     (* MEMORY_LIMIT, in pieces                               *)
  Failing,        (* piece numbers whose coroutine may raise               *)
  NoStream        (* no generator runs                                     *)

PiecesOf(s) == FirstPiece[s] .. LastPiece[s]
Nums == UNION {PiecesOf(s) : s \in Streams}

(* Two streams of common pieces would queue pieces of equal number, which  *)
(* a PriorityQueue cannot compare: that TypeError is not modelled.         *)
ASSUME SequentialAssumption ==
  /\ IsFiniteSet(Streams) /\ NoStream \notin Streams
  /\ FirstPiece \in [Streams -> Nat] /\ LastPiece \in [Streams -> Nat]
  /\ MaxConcurrent \in Nat \ {0} /\ QueueLimit \in Nat
  /\ Failing \subseteq Nums
  /\ \A s, u \in Streams : s # u => PiecesOf(s) \cap PiecesOf(u) = {}

VARIABLES
  running,     (* the stream whose generator runs                          *)
  at,          (* where each generator is                                  *)
  filePieces,  (* file_pieces: pairs of a priority and a piece number      *)
  permits,     (* the value of the semaphore                               *)
  task,        (* the latest coroutine of each piece: running or its end   *)
  taskList,    (* task_list, by piece number                               *)
  index,       (* position of the for loop over task_list                  *)
  current,     (* SequentialPieceDispatcher.current                        *)
  queue,       (* pieces_queue, an attribute of the class: one for all     *)
  output       (* the pieces each generator has yielded                    *)

vars == <<running, at, filePieces, permits, task, taskList, index, current,
          queue, output>>

-----------------------------------------------------------------------------
PiecePriority == 3
RetryPriority == 1

(* A piece object: its number, and whether its data is the torrent's.      *)
Piece(n, good) == [num |-> n, good |-> good]
PieceObjects == [num : Nums, good : BOOLEAN]

(* What PriorityQueue.get returns.                                         *)
FirstEntry(q) ==
  CHOOSE e \in q : \A f \in q : e[1] < f[1] \/ (e[1] = f[1] /\ e[2] <= f[2])
Lowest(q) == {x \in q : \A y \in q : x.num <= y.num}

(* Inside "async with sema" the generator holds one permit.                *)
InWith(s) == at[s] \in {"acquire", "scan", "dispatch", "yielded"}

EndStates == {"returned", "raised", "closed"}

TypeOK ==
  /\ running \in Streams \cup {NoStream}
  /\ at \in [Streams -> {"idle", "while", "acquire", "scan", "dispatch",
                         "yielded", "drain", "drained"} \cup EndStates]
  /\ filePieces \in [Streams -> SUBSET ({PiecePriority, RetryPriority} \X Nums)]
  /\ permits \in [Streams -> 0 .. MaxConcurrent]
  /\ task \in [Streams -> [Nums -> {"none", "running", "valid", "invalid", "failed"}]]
  /\ taskList \in [Streams -> Seq(Nums)]
  /\ index \in [Streams -> Nat]
  /\ current \in [Streams -> Nat]
  /\ queue \in SUBSET PieceObjects
  /\ output \in [Streams -> Seq(PieceObjects)]

Init ==
  /\ running = NoStream
  /\ at = [s \in Streams |-> "idle"]
  /\ filePieces = [s \in Streams |-> {}]
  /\ permits = [s \in Streams |-> MaxConcurrent]
  /\ task = [s \in Streams |-> [n \in Nums |-> "none"]]
  /\ taskList = [s \in Streams |-> <<>>]
  /\ index = [s \in Streams |-> 1]
  /\ current = [s \in Streams |-> FirstPiece[s]]
  /\ queue = {}
  /\ output = [s \in Streams |-> <<>>]

Turn(s) == running \in {s, NoStream}

Goto(s, place) == at' = [at EXCEPT ![s] = place]

-----------------------------------------------------------------------------
(* The first __anext__: the dispatcher, create_pieces_queue and the        *)
(* semaphore are made.                                                     *)
Start(s) ==
  /\ at[s] = "idle" /\ running = NoStream
  /\ filePieces' = [filePieces EXCEPT ![s] = {PiecePriority} \X PiecesOf(s)]
  /\ Goto(s, "while") /\ running' = s
  /\ UNCHANGED <<permits, task, taskList, index, current, queue, output>>

(* while not file_downloaded(): async with sema                            *)
EnterWith(s) ==
  /\ at[s] = "while" /\ Turn(s)
  /\ filePieces[s] # {} /\ permits[s] > 0
  /\ permits' = [permits EXCEPT ![s] = @ - 1]
  /\ Goto(s, "acquire") /\ running' = s
  /\ UNCHANGED <<filePieces, task, taskList, index, current, queue, output>>

(* Mutant: without the second acquire.                                     *)
CreateTaskWithoutAcquire(s) ==
  /\ at[s] = "acquire" /\ Turn(s)
  /\ LET e == FirstEntry(filePieces[s])
     IN /\ filePieces' = [filePieces EXCEPT ![s] = @ \ {e}]
        /\ task' = [task EXCEPT ![s][e[2]] = "running"]
        /\ taskList' = [taskList EXCEPT ![s] = Append(@, e[2])]
  /\ index' = [index EXCEPT ![s] = 1]
  /\ Goto(s, "scan") /\ running' = s
  /\ UNCHANGED <<permits, current, queue, output>>

(* await sema.acquire(), a second permit, which the coroutine will release *)
(* and then a coroutine for the next piece.                                *)
CreateTask(s) ==
  /\ at[s] = "acquire" /\ Turn(s) /\ permits[s] > 0
  /\ permits' = [permits EXCEPT ![s] = @ - 1]
  /\ LET e == FirstEntry(filePieces[s])
     IN /\ filePieces' = [filePieces EXCEPT ![s] = @ \ {e}]
        /\ task' = [task EXCEPT ![s][e[2]] = "running"]
        /\ taskList' = [taskList EXCEPT ![s] = Append(@, e[2])]
  /\ index' = [index EXCEPT ![s] = 1]
  /\ Goto(s, "scan") /\ running' = s
  /\ UNCHANGED <<current, queue, output>>

(* The semaphore has no permit: the generator waits.                       *)
Wait(s) ==
  /\ running = s
  /\ at[s] \in {"while", "acquire"} /\ permits[s] = 0
  /\ at[s] = "while" => filePieces[s] # {}
  /\ running' = NoStream
  /\ UNCHANGED <<at, filePieces, permits, task, taskList, index, current, queue, output>>

(* The task the for loop is at, if it is not at the end of the list.       *)
AtHand(s) == {taskList[s][i] : i \in {index[s]} \cap DOMAIN taskList[s]}

(* The end of "for task in task_list", or its break at the first task not  *)
(* done; the with statement releases its permit.                           *)
EndScan(s) ==
  /\ at[s] = "scan" /\ Turn(s)
  /\ \A n \in AtHand(s) : task[s][n] = "running"
  /\ permits' = [permits EXCEPT ![s] = @ + 1]
  /\ Goto(s, "while") /\ running' = s
  /\ UNCHANGED <<filePieces, task, taskList, index, current, queue, output>>

(* A task is done: it is removed from the list under iteration, so that    *)
(* the loop goes on with the one after its successor.                      *)
TakeResult(s, n) ==
  /\ at[s] = "scan" /\ Turn(s)
  /\ n \in AtHand(s)
  /\ taskList' = [taskList EXCEPT ![s] = RemoveAt(@, index[s])]
  /\ index' = [index EXCEPT ![s] = @ + 1]
  /\ UNCHANGED <<task, current, output>>

(* Mutant: a rejected piece is not put back.                               *)
TakeInvalidForgets(s, n) ==
  /\ TakeResult(s, n)
  /\ task[s][n] = "invalid"
  /\ running' = s
  /\ UNCHANGED <<filePieces, at, permits, queue>>

(* The rejected piece will be fetched again by a later iteration.          *)
TakeInvalid(s, n) ==
  /\ TakeResult(s, n)
  /\ task[s][n] = "invalid"
  /\ filePieces' = [filePieces EXCEPT ![s] = @ \cup {<<RetryPriority, n>>}]
  /\ running' = s
  /\ UNCHANGED <<at, permits, queue>>

(* Mutant: a piece is dispatched without being checked.                    *)
TakeUnchecked(s, n) ==
  /\ TakeResult(s, n)
  /\ task[s][n] \in {"valid", "invalid"}
  /\ Cardinality(queue) <= QueueLimit
  /\ queue' = queue \cup {Piece(n, task[s][n] = "valid")}
  /\ Goto(s, "dispatch") /\ running' = s
  /\ UNCHANGED <<filePieces, permits>>

(* dispatch_manager.put, when the queue is within its limit.               *)
TakeValid(s, n) ==
  /\ TakeResult(s, n)
  /\ task[s][n] = "valid"
  /\ Cardinality(queue) <= QueueLimit
  /\ queue' = queue \cup {Piece(n, task[s][n] = "valid")}
  /\ Goto(s, "dispatch") /\ running' = s
  /\ UNCHANGED <<filePieces, permits>>

(* The exception of the coroutine, or MemoryError, leaves the with         *)
(* statement and ends the generator.                                       *)
TakeRaises(s, n) ==
  /\ TakeResult(s, n)
  /\ \/ task[s][n] = "failed"
     \/ task[s][n] = "valid" /\ Cardinality(queue) > QueueLimit
  /\ permits' = [permits EXCEPT ![s] = @ + 1]
  /\ Goto(s, "raised") /\ running' = NoStream
  /\ UNCHANGED <<filePieces, queue>>

(* Mutant: the piece of the lowest number is yielded, due or not.          *)
DispatchAny(s) ==
  /\ at[s] = "dispatch" /\ Turn(s)
  /\ \E x \in Lowest(queue) :
       /\ queue' = queue \ {x}
       /\ output' = [output EXCEPT ![s] = Append(@, x)]
  /\ current' = [current EXCEPT ![s] = @ + 1]
  /\ Goto(s, "yielded") /\ running' = s
  /\ UNCHANGED <<filePieces, permits, task, taskList, index>>

(* SequentialPieceDispatcher.dispatch, one iteration: the piece of the     *)
(* lowest number is yielded if it is the one due, ...                      *)
Dispatch(s) ==
  /\ at[s] = "dispatch" /\ Turn(s)
  /\ \E x \in Lowest(queue) :
       /\ x.num = current[s]
       /\ queue' = queue \ {x}
       /\ output' = [output EXCEPT ![s] = Append(@, x)]
  /\ current' = [current EXCEPT ![s] = @ + 1]
  /\ Goto(s, "yielded") /\ running' = s
  /\ UNCHANGED <<filePieces, permits, task, taskList, index>>

(* ... and is put back if it is not.                                       *)
EndDispatch(s) ==
  /\ at[s] = "dispatch" /\ Turn(s)
  /\ \A x \in Lowest(queue) : x.num # current[s]
  /\ Goto(s, "scan") /\ running' = s
  /\ UNCHANGED <<filePieces, permits, task, taskList, index, current, queue, output>>

(* The loop ends when it has created the last coroutine, whether or not    *)
(* the coroutines have ended; drain yields what is in the queue.           *)
Draining(s) ==
  /\ Turn(s)
  /\ at[s] = "drain" \/ (at[s] = "while" /\ filePieces[s] = {})

Drain(s) ==
  /\ Draining(s)
  /\ \E x \in Lowest(queue) :
       /\ queue' = queue \ {x}
       /\ output' = [output EXCEPT ![s] = Append(@, x)]
  /\ Goto(s, "drained") /\ running' = s
  /\ UNCHANGED <<filePieces, permits, task, taskList, index, current>>

Return(s) ==
  /\ Draining(s) /\ queue = {}
  /\ Goto(s, "returned") /\ running' = NoStream
  /\ UNCHANGED <<filePieces, permits, task, taskList, index, current, queue, output>>

(* The consumer has the piece and awaits something before it asks for the  *)
(* next one, ...                                                           *)
Consume(s) ==
  /\ running = s /\ at[s] \in {"yielded", "drained"}
  /\ running' = NoStream
  /\ UNCHANGED <<at, filePieces, permits, task, taskList, index, current, queue, output>>

(* ... asks for it, ...                                                    *)
Resume(s) ==
  /\ Turn(s)
  /\ \/ at[s] = "yielded" /\ Goto(s, "dispatch")
     \/ at[s] = "drained" /\ Goto(s, "drain")
  /\ running' = s
  /\ UNCHANGED <<filePieces, permits, task, taskList, index, current, queue, output>>

(* ... or goes away (a client that disconnects), wherever the generator    *)
(* is suspended. Its coroutines go on; the queue is left as it is.         *)
Abandon(s) ==
  /\ running = NoStream
  /\ at[s] \in {"while", "acquire", "yielded", "drained"}
  /\ permits' = [permits EXCEPT ![s] = IF InWith(s) THEN @ + 1 ELSE @]
  /\ Goto(s, "closed")
  /\ UNCHANGED <<running, filePieces, task, taskList, index, current, queue, output>>

(* Mutant: Piece.download does not release the semaphore.                  *)
TaskReturnsWithoutRelease(s, n) ==
  /\ running = NoStream /\ task[s][n] = "running"
  /\ \E verdict \in {"valid", "invalid"} : task' = [task EXCEPT ![s][n] = verdict]
  /\ UNCHANGED <<running, at, filePieces, permits, taskList, index, current, queue, output>>

(* Piece.download returns and has released a permit.                       *)
TaskReturns(s, n) ==
  /\ running = NoStream /\ task[s][n] = "running"
  /\ \E verdict \in {"valid", "invalid"} : task' = [task EXCEPT ![s][n] = verdict]
  /\ permits' = [permits EXCEPT ![s] = @ + 1]
  /\ UNCHANGED <<running, at, filePieces, taskList, index, current, queue, output>>

(* Piece.download raises: its permit is never released.                    *)
TaskRaises(s, n) ==
  /\ running = NoStream /\ task[s][n] = "running" /\ n \in Failing
  /\ task' = [task EXCEPT ![s][n] = "failed"]
  /\ UNCHANGED <<running, at, filePieces, permits, taskList, index, current, queue, output>>

Take(s) == \E n \in Nums : TakeInvalid(s, n) \/ TakeValid(s, n) \/ TakeRaises(s, n)

(* Everything the event loop runs for the generator.                       *)
Generator(s) ==
  \/ EnterWith(s) \/ CreateTask(s) \/ Wait(s) \/ EndScan(s) \/ Take(s)
  \/ Dispatch(s) \/ EndDispatch(s) \/ Drain(s) \/ Return(s) \/ Resume(s)

Terminated ==
  /\ \A s \in Streams : at[s] \in EndStates
  /\ \A s \in Streams, n \in Nums : task[s][n] # "running"
  /\ UNCHANGED vars

Next ==
  \/ \E s \in Streams :
       \/ Start(s) \/ Generator(s) \/ Consume(s) \/ Abandon(s)
       \/ \E n \in Nums : TaskReturns(s, n) \/ TaskRaises(s, n)
  \/ Terminated

Spec == Init /\ [][Next]_vars

(* The event loop runs a generator that can run, the consumer comes back   *)
(* for the next piece, every coroutine ends (EveryDownloadEnds of          *)
(* PieceDownload), and a piece fetched again and again is valid in the end.*)
FairSpec ==
  /\ Spec
  /\ \A s \in Streams :
       /\ WF_vars(Start(s)) /\ WF_vars(Generator(s))
       /\ \A n \in Nums :
            /\ WF_vars(TaskReturns(s, n))
            /\ SF_vars(TaskReturns(s, n) /\ task'[s][n] = "valid")

-----------------------------------------------------------------------------
(* The semaphore: the permits that are missing are those of the with       *)
(* statement and of the coroutines that run or have raised, and no others. *)
(* A coroutine that returned has released its own exactly once.            *)
PermitsAccounted ==
  \A s \in Streams :
    permits[s] = MaxConcurrent
                   - Cardinality({n \in Nums : task[s][n] \in {"running", "failed"}})
                   - (IF InWith(s) THEN 1 ELSE 0)

InTaskList(s) == {taskList[s][i] : i \in DOMAIN taskList[s]}
NumsOf(q) == {x.num : x \in q}
Yielded(s) == {output[s][i].num : i \in DOMAIN output[s]}
Unfetched(s) == {e[2] : e \in filePieces[s]}

(* Although the loop over task_list skips tasks and rejected pieces go     *)
(* round again, a piece of the file is in one place only, and in one as    *)
(* long as the stream is open: to be fetched, in task_list, in the         *)
(* dispatcher's queue, or yielded.                                         *)
PieceInOnePlace ==
  \A s \in Streams :
    LET places == <<Unfetched(s), InTaskList(s), NumsOf(queue) \cap PiecesOf(s), Yielded(s)>>
    IN /\ \A i, j \in 1 .. 4 : i # j => places[i] \cap places[j] = {}
       /\ \A i, j \in DOMAIN taskList[s] : taskList[s][i] = taskList[s][j] => i = j
       /\ at[s] \notin EndStates \cup {"idle"} =>
            PiecesOf(s) = UNION {places[i] : i \in 1 .. 4}

(* One stream by itself yields its pieces in ascending order, each once,   *)
(* whatever the order in which their coroutines end.                       *)
Ascending ==
  \A s \in Streams : \A i, j \in 1 .. Len(output[s]) :
    i < j => output[s][i].num < output[s][j].num

(* A stream ends.                                                          *)
StreamEnds == \A s \in Streams : at[s] = "while" ~> at[s] \in EndStates

(* README.md:88: "To stream the second file": a stream yields pieces of    *)
(* its own file only.                                                      *)
OwnPieces == \A s \in Streams : Yielded(s) \subseteq PiecesOf(s)

(* CHANGELOG.md:85: "New downloading mechanism which downloads pieces in a *)
(* strictly sequential manner": when it returns the file is complete.      *)
SequentialComplete ==
  \A s \in Streams : at[s] = "returned" => Yielded(s) = PiecesOf(s)
=============================================================================
