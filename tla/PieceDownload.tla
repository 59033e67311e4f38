---------------------------- MODULE PieceDownload ----------------------------
(***************************************************************************)
(* Piece.download and Piece.fetch_blocks (aiotorrent/piece.py): concurrent *)
(* coroutines, one per piece, that borrow peers from one shared            *)
(* asyncio.PriorityQueue and share the module global BLOCKS_PER_CYCLE.     *)
(*                                                                         *)
(* asyncio runs a coroutine without interruption from one await that       *)
(* suspends to the next, so every action below is such a segment.          *)
(* Queue.get on a queue that is not empty, and Queue.put on this unbounded *)
(* queue, do not suspend.                                                  *)
(***************************************************************************)
EXTENDS Integers, FiniteSets

CONSTANTS
  Pieces,           (* the pieces fetched, each by one coroutine           *)
  Peers,            (* the peers handed to FilesDownloadManager            *)
  TotalBlocks,      (* Piece.total_blocks of each piece                    *)
  MinBlocks,        (* MIN_BLOCKS_PER_CYCLE                                *)
  DefaultPriority,  (* peer_def                                            *)
  MaxPriority,      (* bound: a peer stops failing at this priority        *)
  Garbage,          (* contents of damaged blocks; {} when none is damaged *)
  NoPeer,           (* a coroutine that holds no peer                      *)
  NoBlock           (* a block number with no block                        *)

ASSUME PieceDownloadAssumption ==
  /\ IsFiniteSet(Pieces) /\ IsFiniteSet(Peers)
  /\ TotalBlocks \in [Pieces -> Nat]
  /\ MinBlocks \in Nat \ {0}
  /\ DefaultPriority \in Int /\ MaxPriority \in Int
  /\ NoPeer \notin Peers
  /\ NoBlock \notin Pieces \cup Garbage
  /\ Garbage \cap Pieces = {}

VARIABLES
  pc,               (* where each coroutine is suspended                   *)
  peerQueue,        (* peers_man: entries of a priority and a peer         *)
  peer,             (* local variable peer of each coroutine               *)
  priority,         (* local variable priority of each coroutine           *)
  blocks,           (* Piece.blocks: whose data each block number holds    *)
  reply,            (* what fetch_blocks returned to each coroutine        *)
  wire,             (* requests sent to each peer and not yet answered     *)
  blocksPerCycle    (* BLOCKS_PER_CYCLE                                    *)

vars == <<pc, peerQueue, peer, priority, blocks, reply, wire, blocksPerCycle>>

-----------------------------------------------------------------------------
(* Every block number any piece uses: late answers may bring a piece blocks *)
(* of a longer one.                                                        *)
BlockNums == UNION {0 .. TotalBlocks[t] - 1 : t \in Pieces}

(* A block is identified by the piece whose data it carries.               *)
Contents == Pieces \cup Garbage
BlockMaps == [BlockNums -> Contents \cup {NoBlock}]
Nothing == [b \in BlockNums |-> NoBlock]

Requests == Pieces \X BlockNums
Entries == [priority : Int, peer : Peers]
Entry(pr, p) == [priority |-> pr, peer |-> p]

(* What PriorityQueue.get may return: Peer.__lt__ compares priorities that *)
(* never change, so peers queued at the same priority are in any order.    *)
Cheapest(q) == {e \in q : \A f \in q : e.priority <= f.priority}

(* gen_offsets and is_piece_complete.                                      *)
MissingBlocks(t, bl) == {b \in 0 .. TotalBlocks[t] - 1 : bl[b] = NoBlock}
IsPieceComplete(t, bl) == MissingBlocks(t, bl) = {}

(* Mutant: is_valid answers for any piece that was fetched.                *)
IsValidUnchecked(t) == TotalBlocks[t] > 0

(* is_valid: the SHA-1 matches when every block is the piece's own; a      *)
(* piece of no blocks hashes the empty string.                             *)
IsValid(t) ==
  /\ TotalBlocks[t] > 0
  /\ \A b \in 0 .. TotalBlocks[t] - 1 : blocks[t][b] = t

(* Mutant: a decrement without max(..., MIN_BLOCKS_PER_CYCLE).             *)
AdjustWithoutFloor(t, value) ==
  IF blocksPerCycle + value < TotalBlocks[t]
  THEN blocksPerCycle + value ELSE TotalBlocks[t]

(* adjust_blocks_per_cycle: first raised to MIN_BLOCKS_PER_CYCLE, then cut *)
(* to the blocks of this piece.                                            *)
AdjustBlocksPerCycle(t, value) ==
  LET raised == IF blocksPerCycle + value > MinBlocks
                THEN blocksPerCycle + value ELSE MinBlocks
  IN IF raised < TotalBlocks[t] THEN raised ELSE TotalBlocks[t]

(* The block numbers one cycle requests: set.pop takes any of them.        *)
CycleOffsets(t, bl, w) ==
  LET missing == MissingBlocks(t, bl)
  IN IF Cardinality(missing) >= w
     THEN {S \in SUBSET missing : Cardinality(S) = w}
     ELSE {missing}

Merge(old, new) ==
  [b \in BlockNums |-> IF new[b] # NoBlock THEN new[b] ELSE old[b]]

-----------------------------------------------------------------------------
TypeOK ==
  /\ pc \in [Pieces -> {"none", "get", "fetch", "gathered", "swap",
                        "done", "failed"}]
  /\ peerQueue \in SUBSET Entries
  /\ peer \in [Pieces -> Peers \cup {NoPeer}]
  /\ priority \in [Pieces -> Int]
  /\ blocks \in [Pieces -> BlockMaps]
  /\ reply \in [Pieces -> BlockMaps]
  /\ wire \in [Peers -> SUBSET Requests]
  /\ blocksPerCycle \in Nat \ {0}

(* FilesDownloadManager.__init__ queues every active peer.                 *)
Init ==
  /\ pc = [t \in Pieces |-> "none"]
  /\ peerQueue = {Entry(DefaultPriority, p) : p \in Peers}
  /\ peer = [t \in Pieces |-> NoPeer]
  /\ priority = [t \in Pieces |-> DefaultPriority]
  /\ blocks = [t \in Pieces |-> Nothing]
  /\ reply = [t \in Pieces |-> Nothing]
  /\ wire = [p \in Peers |-> {}]
  /\ blocksPerCycle = MinBlocks

(* Mutant: a piece whose coroutine has ended is started again.             *)
CreateAgain(new) ==
  /\ new # {} /\ \A t \in new : pc[t] \in {"none", "done"}
  /\ pc' = [t \in Pieces |-> IF t \in new THEN "get" ELSE pc[t]]
  /\ UNCHANGED <<peerQueue, peer, priority, blocks, reply, wire, blocksPerCycle>>

(* create_task(piece.download(...)) for each of some pieces (get_file      *)
(* starts all of them at once, get_file_sequential one at a time); the     *)
(* coroutine first awaits a peer.                                          *)
Create(new) ==
  /\ new # {} /\ \A t \in new : pc[t] = "none"
  /\ pc' = [t \in Pieces |-> IF t \in new THEN "get" ELSE pc[t]]
  /\ UNCHANGED <<peerQueue, peer, priority, blocks, reply, wire, blocksPerCycle>>

(* Mutant: a piece that completes keeps its peer out of the queue.         *)
FinishWithoutPut(t, p, pr, q) ==
  /\ pc' = [pc EXCEPT ![t] = "done"]
  /\ peerQueue' = q
  /\ peer' = [peer EXCEPT ![t] = NoPeer]
  /\ UNCHANGED <<priority, wire>>

(* After the while loop: the peer goes back one step more preferred.       *)
Finish(t, p, pr, q) ==
  /\ pc' = [pc EXCEPT ![t] = "done"]
  /\ peerQueue' = q \cup {Entry(pr - 1, p)}
  /\ peer' = [peer EXCEPT ![t] = NoPeer]
  /\ UNCHANGED <<priority, wire>>

(* The body of the while loop up to the await of gather: fetch_blocks      *)
(* writes one request per offset to the peer.                              *)
Request(t, p, pr, bl, w, q) ==
  /\ pc' = [pc EXCEPT ![t] = "fetch"]
  /\ peerQueue' = q
  /\ peer' = [peer EXCEPT ![t] = p]
  /\ priority' = [priority EXCEPT ![t] = pr]
  /\ \E offsets \in CycleOffsets(t, bl, w) :
       wire' = [wire EXCEPT ![p] = @ \cup ({t} \X offsets)]

(* The loop from its test, with peer p of priority pr in hand, the blocks  *)
(* bl, BLOCKS_PER_CYCLE = w and the queue q.                               *)
Loop(t, p, pr, bl, w, q) ==
  /\ blocks' = [blocks EXCEPT ![t] = bl]
  /\ reply' = [reply EXCEPT ![t] = Nothing]
  /\ blocksPerCycle' = w
  /\ \/ IsPieceComplete(t, bl) /\ Finish(t, p, pr, q)
     \/ ~IsPieceComplete(t, bl) /\ Request(t, p, pr, bl, w, q)

GetPeer(t) ==
  /\ pc[t] = "get"
  /\ \E e \in Cheapest(peerQueue) :
       Loop(t, e.peer, e.priority, blocks[t], blocksPerCycle, peerQueue \ {e})

(* fetch_blocks returns blocks: answers to requests R, which may be those  *)
(* of an earlier borrower of the peer that timed out. An answer may be cut *)
(* short or dropped by the parser.                                         *)
FetchBlocks(t) ==
  /\ pc[t] = "fetch"
  /\ \E R \in SUBSET wire[peer[t]] :
       /\ \E answer \in BlockMaps :
            /\ \A b \in BlockNums : answer[b] # NoBlock =>
                 \E r \in R : r[2] = b /\ answer[b] \in {r[1]} \cup Garbage
            /\ reply' = [reply EXCEPT ![t] = answer]
       /\ wire' = [wire EXCEPT ![peer[t]] = @ \ R]
  /\ pc' = [pc EXCEPT ![t] = "gathered"]
  /\ UNCHANGED <<peerQueue, peer, priority, blocks, blocksPerCycle>>

(* The requests a failed fetch leaves behind: all still due, or lost with  *)
(* the connection.                                                         *)
LeaveBehind(t) ==
  \E left \in {{}, wire[peer[t]]} : wire' = [wire EXCEPT ![peer[t]] = left]

(* The answer holds no piece message: handle() returns None, iterating it  *)
(* is a TypeError, which narrows the window and returns None.              *)
FetchNone(t) ==
  /\ pc[t] = "fetch"
  /\ LeaveBehind(t)
  /\ blocksPerCycle' = AdjustBlocksPerCycle(t, -1)
  /\ pc' = [pc EXCEPT ![t] = "gathered"]
  /\ UNCHANGED <<peerQueue, peer, priority, blocks, reply>>

(* No answer before the timeout (IOError), or a dead connection            *)
(* (BrokenPipeError): download goes on to ask for another peer.            *)
FetchIOError(t) ==
  /\ pc[t] = "fetch"
  /\ priority[t] < MaxPriority
  /\ LeaveBehind(t)
  /\ pc' = [pc EXCEPT ![t] = "swap"]
  /\ UNCHANGED <<peerQueue, peer, priority, blocks, reply, blocksPerCycle>>

(* Any other exception (struct.error of a short handshake, IndexError of a *)
(* piece number the peer's BitArray lacks) ends the coroutine as it is.    *)
FetchCrash(t) ==
  /\ pc[t] = "fetch"
  /\ LeaveBehind(t)
  /\ pc' = [pc EXCEPT ![t] = "failed"]
  /\ UNCHANGED <<peerQueue, peer, priority, blocks, reply, blocksPerCycle>>

(* gather returned: widen the window, store the blocks by their number     *)
(* alone, and loop with the same peer.                                     *)
Resume(t) ==
  /\ pc[t] = "gathered"
  /\ Loop(t, peer[t], priority[t], Merge(blocks[t], reply[t]),
          AdjustBlocksPerCycle(t, 1), peerQueue)

(* Mutant: the failing peer is put back with the priority of its           *)
(* replacement, which has overwritten the local variable.                  *)
SwapPeerOverwritten(t) ==
  /\ pc[t] = "swap"
  /\ \E e \in Cheapest(peerQueue) :
       Loop(t, e.peer, e.priority, blocks[t], blocksPerCycle,
            (peerQueue \ {e}) \cup {Entry(e.priority + 1, peer[t])})

(* Mutant: the failing peer is never put back.                             *)
SwapPeerWithoutPut(t) ==
  /\ pc[t] = "swap"
  /\ \E e \in Cheapest(peerQueue) :
       Loop(t, e.peer, e.priority, blocks[t], blocksPerCycle, peerQueue \ {e})

(* The except clause: the failing peer is kept until another is got.       *)
SwapPeer(t) ==
  /\ pc[t] = "swap"
  /\ \E e \in Cheapest(peerQueue) :
       Loop(t, e.peer, e.priority, blocks[t], blocksPerCycle,
            (peerQueue \ {e}) \cup {Entry(priority[t] + 1, peer[t])})

(* Every coroutine has ended: nothing is left to run.                      *)
Terminated ==
  /\ \A t \in Pieces : pc[t] \in {"done", "failed"}
  /\ UNCHANGED vars

Fetch(t) == FetchBlocks(t) \/ FetchNone(t) \/ FetchIOError(t) \/ FetchCrash(t)

Step(t) == GetPeer(t) \/ Fetch(t) \/ Resume(t) \/ SwapPeer(t)

Next ==
  \/ \E new \in SUBSET Pieces : Create(new)
  \/ \E t \in Pieces : Step(t)
  \/ Terminated

Spec == Init /\ [][Next]_vars

-----------------------------------------------------------------------------
(* The event loop runs every coroutine that can run (its ready queue is    *)
(* FIFO), and send_message returns after a silence of at most timeout      *)
(* seconds. Of the peers it is assumed that asking over and over for       *)
(* missing blocks brings one of them in the end.                           *)
FetchProgress(t) ==
  FetchBlocks(t) /\ \E b \in MissingBlocks(t, blocks[t]) : reply'[t][b] # NoBlock

Fairness ==
  \A t \in Pieces :
    /\ WF_vars(GetPeer(t)) /\ WF_vars(Resume(t)) /\ WF_vars(SwapPeer(t))
    /\ WF_vars(Fetch(t))
    /\ SF_vars(FetchProgress(t))

FairSpec == Spec /\ Fairness

-----------------------------------------------------------------------------
(* A peer is in one place: it waits in peer_queue, once, or one coroutine  *)
(* has it. (A coroutine that an exception ended keeps what it had.)        *)
PeerConservation ==
  /\ \A e, f \in peerQueue : e.peer = f.peer => e = f
  /\ \A t, u \in Pieces : peer[t] = peer[u] /\ peer[t] # NoPeer => t = u
  /\ \A e \in peerQueue, t \in Pieces : peer[t] # e.peer
  /\ \A p \in Peers : \/ \E e \in peerQueue : e.peer = p
                      \/ \E t \in Pieces : peer[t] = p

(* A coroutine never waits for the answer to an empty request: whatever    *)
(* the other coroutines did to the shared window, a cycle that begins puts *)
(* a request of its own piece on the wire of its peer.                     *)
CyclesAsk ==
  [][\A t \in Pieces : pc[t] # "fetch" /\ pc'[t] = "fetch" =>
       \E b \in BlockNums : <<t, b>> \in wire'[peer'[t]]]_vars

(* Every peer with its priority, queued or lent.                           *)
Standing ==
  peerQueue \cup {Entry(priority[t], peer[t]) :
                    t \in {u \in Pieces : peer[u] # NoPeer}}

(* The priority a peer is queued with follows its own service: a peer gets *)
(* one step worse exactly when its borrower gives it up for another, one   *)
(* step better only when a piece completes, and keeps its priority through *)
(* every other step of any coroutine.                                      *)
PriorityFollowsService ==
  [][\A x \in Standing, y \in Standing' : x.peer = y.peer =>
       LET givenUp == \E t \in Pieces : /\ pc[t] = "swap" /\ pc'[t] # "swap"
                                        /\ peer[t] = x.peer
           served == \E t \in Pieces : pc[t] # "done" /\ pc'[t] = "done"
       IN \/ givenUp /\ y.priority = x.priority + 1
          \/ ~givenUp /\ y.priority = x.priority
          \/ ~givenUp /\ served /\ y.priority = x.priority - 1]_vars

(* To the generators that start them the coroutines are PieceTasks: an     *)
(* ended one is not run again, and its verdict never changes, whatever     *)
(* answers come in late.                                                   *)
TaskStatus(t) ==
  CASE pc[t] = "none" -> "none"
    [] pc[t] \in {"get", "fetch", "gathered", "swap"} -> "running"
    [] pc[t] = "done" /\ IsValid(t) -> "valid"
    [] pc[t] = "done" /\ ~IsValid(t) -> "invalid"
    [] pc[t] = "failed" -> "failed"

Tasks == INSTANCE PieceTasks WITH status <- [t \in Pieces |-> TaskStatus(t)]

TasksSpec == Tasks!Spec

(* Every coroutine that still runs waits for a peer, one of them while it  *)
(* holds a failing peer that only it can give back, and no peer is queued: *)
(* nothing can ever run again.                                             *)
Wedged ==
  /\ peerQueue = {}
  /\ \E t \in Pieces : pc[t] = "swap"
  /\ \A t \in Pieces : pc[t] \notin {"fetch", "gathered"}

(* The downloads never end up all waiting for each other's failing peers.  *)
NeverWedged == ~Wedged

(* A piece that has been given a coroutine is complete in the end, or its  *)
(* coroutine has been ended by an exception.                               *)
EveryDownloadEnds ==
  \A t \in Pieces : pc[t] = "get" ~> pc[t] \in {"done", "failed"}
=============================================================================
