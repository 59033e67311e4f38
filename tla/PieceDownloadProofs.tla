------------------------- MODULE PieceDownloadProofs -------------------------
(***************************************************************************)
(* Proofs about PieceDownload for any pieces, peers and blocks. The        *)
(* inductive invariant IInv adds to TypeOK and PeerConservation where a    *)
(* coroutine holds a peer, and that a coroutine with a peer in use fetches *)
(* a piece that has blocks.                                                *)
(***************************************************************************)
EXTENDS PieceDownload, FiniteSetTheorems, TLAPS

(* A coroutine has a peer from the first get until the put that returns    *)
(* it; one that fails keeps it.                                            *)
Holding ==
  \A t \in Pieces : peer[t] # NoPeer <=> pc[t] \in {"fetch", "gathered", "swap", "failed"}

(* Only a piece with blocks enters the loop, so that cutting the window to *)
(* the blocks of the piece never cuts it to 0.                             *)
LoopHasBlocks ==
  \A t \in Pieces : pc[t] \in {"fetch", "gathered", "swap"} => TotalBlocks[t] > 0

IInv == TypeOK /\ Holding /\ LoopHasBlocks /\ PeerConservation

(* What the loop needs of the queue q that it is given with the peer p:    *)
(* with p in the hands of t, every peer is in one place.                   *)
Placed(t, p, q) ==
  /\ \A e, f \in q : e.peer = f.peer => e = f
  /\ \A u, v \in Pieces \ {t} : peer[u] = peer[v] /\ peer[u] # NoPeer => u = v
  /\ \A e \in q : e.peer # p /\ \A u \in Pieces \ {t} : peer[u] # e.peer
  /\ \A u \in Pieces \ {t} : peer[u] # p
  /\ \A x \in Peers : \/ x = p
                      \/ \E e \in q : e.peer = x
                      \/ \E u \in Pieces \ {t} : peer[u] = x

-----------------------------------------------------------------------------
(* The window stays positive, whatever piece adjusts it.                   *)
LEMMA AdjustPositive ==
  ASSUME NEW t \in Pieces, TotalBlocks[t] > 0, NEW value \in Int,
         blocksPerCycle \in Nat \ {0}
  PROVE  AdjustBlocksPerCycle(t, value) \in Nat \ {0}
  BY PieceDownloadAssumption DEF AdjustBlocksPerCycle

(* A cycle of a piece that is not complete requests at least one of its    *)
(* block numbers.                                                          *)
LEMMA CycleOffsetsNonEmpty ==
  ASSUME NEW t \in Pieces, NEW bl, ~IsPieceComplete(t, bl), NEW w \in Nat \ {0},
         NEW offsets \in CycleOffsets(t, bl, w)
  PROVE  offsets # {} /\ offsets \in SUBSET BlockNums
<1>1. MissingBlocks(t, bl) \in SUBSET BlockNums /\ MissingBlocks(t, bl) # {}
  BY DEF MissingBlocks, IsPieceComplete, BlockNums
<1>2. CASE Cardinality(MissingBlocks(t, bl)) >= w
  <2>1. offsets \in SUBSET MissingBlocks(t, bl) /\ Cardinality(offsets) = w
    BY <1>2 DEF CycleOffsets
  <2>2. offsets # {}
    BY <2>1, FS_EmptySet
  <2> QED
    BY <1>1, <2>1, <2>2
<1>3. CASE ~(Cardinality(MissingBlocks(t, bl)) >= w)
  BY <1>1, <1>3 DEF CycleOffsets
<1> QED
  BY <1>2, <1>3

LEMMA MergeType ==
  ASSUME NEW old \in BlockMaps, NEW new \in BlockMaps
  PROVE  Merge(old, new) \in BlockMaps
  BY DEF Merge, BlockMaps

(* What every pass of the loop establishes, from the test of the while     *)
(* statement to the next await.                                            *)
LEMMA LoopPreserves ==
  ASSUME TypeOK, Holding, LoopHasBlocks,
         NEW t \in Pieces, NEW p \in Peers, NEW pr \in Int, NEW bl \in BlockMaps,
         NEW w \in Nat \ {0}, NEW q \in SUBSET Entries,
         Placed(t, p, q), Loop(t, p, pr, bl, w, q)
  PROVE  IInv'
<1> USE PieceDownloadAssumption
<1>1. CASE Finish(t, p, pr, q)
  <2>1. TypeOK'
    BY <1>1 DEF TypeOK, Loop, Finish, Entries, Entry, BlockMaps, Nothing
  <2>2. Holding' /\ LoopHasBlocks'
    BY <1>1 DEF Holding, LoopHasBlocks, TypeOK, Finish
  <2>3. PeerConservation'
    <3> DEFINE back == Entry(pr - 1, p)
    <3>1. /\ peerQueue' = q \cup {back} /\ back.peer = p
          /\ peer'[t] = NoPeer /\ NoPeer # p
          /\ \A u \in Pieces \ {t} : peer'[u] = peer[u]
      BY <1>1 DEF Finish, TypeOK, Entry
    <3>2. \A e \in q : e.peer \in Peers /\ e.peer # NoPeer
      BY DEF Entries
    <3> HIDE DEF back
    <3>3. \A e, f \in peerQueue' : e.peer = f.peer => e = f
      BY <3>1 DEF Placed
    <3>4. \A u, v \in Pieces : peer'[u] = peer'[v] /\ peer'[u] # NoPeer => u = v
      BY <3>1 DEF Placed
    <3>5. \A e \in peerQueue', u \in Pieces : peer'[u] # e.peer
      BY <3>1, <3>2 DEF Placed
    <3>6. \A x \in Peers : \/ \E e \in peerQueue' : e.peer = x
                           \/ \E u \in Pieces : peer'[u] = x
      BY <3>1 DEF Placed
    <3> QED
      BY <3>3, <3>4, <3>5, <3>6 DEF PeerConservation
  <2> QED
    BY <2>1, <2>2, <2>3 DEF IInv
<1>2. CASE ~IsPieceComplete(t, bl) /\ Request(t, p, pr, bl, w, q)
  <2>1. PICK offsets \in CycleOffsets(t, bl, w) :
          wire' = [wire EXCEPT ![p] = @ \cup ({t} \X offsets)]
    BY <1>2 DEF Request
  <2>2. offsets \in SUBSET BlockNums
    BY <1>2, CycleOffsetsNonEmpty
  <2>3. wire' \in [Peers -> SUBSET Requests]
    BY <2>1, <2>2 DEF TypeOK, Requests
  <2>4. TypeOK'
    BY <1>2, <2>3 DEF TypeOK, Loop, Request, BlockMaps, Nothing
  <2>5. TotalBlocks[t] > 0
    BY <1>2 DEF IsPieceComplete, MissingBlocks
  <2>6. Holding' /\ LoopHasBlocks'
    BY <1>2, <2>5 DEF Holding, LoopHasBlocks, TypeOK, Request
  <2>7. PeerConservation'
    BY <1>2 DEF PeerConservation, Placed, Request, TypeOK
  <2> QED
    BY <2>4, <2>6, <2>7 DEF IInv
<1> QED
  BY <1>1, <1>2 DEF Loop

-----------------------------------------------------------------------------
LEMMA InitInv == Init => IInv
<1> SUFFICES ASSUME Init PROVE IInv
  OBVIOUS
<1> USE PieceDownloadAssumption
<1>1. TypeOK
  BY DEF Init, TypeOK, Entries, Entry, BlockMaps, Nothing
<1>2. Holding /\ LoopHasBlocks
  BY DEF Init, Holding, LoopHasBlocks
<1>3. PeerConservation
  <2>1. \A e \in peerQueue : \E p \in Peers : e = Entry(DefaultPriority, p) /\ e.peer = p
    BY DEF Init, Entry
  <2>2. \A p \in Peers : \E e \in peerQueue : e.peer = p
    <3>1. \A p \in Peers : Entry(DefaultPriority, p) \in peerQueue
      BY DEF Init
    <3>2. \A p \in Peers : Entry(DefaultPriority, p).peer = p
      BY DEF Entry
    <3> QED
      BY <3>1, <3>2
  <2>3. \A t \in Pieces : peer[t] = NoPeer
    BY DEF Init
  <2> QED
    BY <2>1, <2>2, <2>3 DEF PeerConservation
<1> QED
  BY <1>1, <1>2, <1>3 DEF IInv

(* A coroutine that gets its first peer takes it out of the queue.         *)
LEMMA GetPeerPreserves ==
  ASSUME IInv, NEW t \in Pieces, GetPeer(t)
  PROVE  IInv'
<1>1. PICK e \in Cheapest(peerQueue) :
        Loop(t, e.peer, e.priority, blocks[t], blocksPerCycle, peerQueue \ {e})
  BY DEF GetPeer
<1>2. e \in peerQueue /\ e.peer \in Peers /\ e.priority \in Int
  BY DEF Cheapest, IInv, TypeOK, Entries
<1>3. peer[t] = NoPeer
  BY DEF GetPeer, IInv, Holding
<1>4. Placed(t, e.peer, peerQueue \ {e})
  BY <1>2, <1>3, PieceDownloadAssumption DEF IInv, PeerConservation, Placed
<1>5. /\ blocks[t] \in BlockMaps /\ blocksPerCycle \in Nat \ {0}
      /\ peerQueue \ {e} \in SUBSET Entries
  BY DEF IInv, TypeOK
<1> QED
  BY <1>1, <1>2, <1>4, <1>5, LoopPreserves DEF IInv

(* A coroutine that goes on keeps the peer that only it has.               *)
LEMMA ResumePreserves ==
  ASSUME IInv, NEW t \in Pieces, Resume(t)
  PROVE  IInv'
<1>1. peer[t] \in Peers /\ TotalBlocks[t] > 0
  BY DEF Resume, IInv, TypeOK, Holding, LoopHasBlocks
<1>2. Placed(t, peer[t], peerQueue)
  BY <1>1, PieceDownloadAssumption DEF IInv, PeerConservation, Placed
<1>3. /\ priority[t] \in Int /\ peerQueue \in SUBSET Entries
      /\ Merge(blocks[t], reply[t]) \in BlockMaps
  BY MergeType DEF IInv, TypeOK
<1>4. AdjustBlocksPerCycle(t, 1) \in Nat \ {0}
  BY <1>1, AdjustPositive DEF IInv, TypeOK
<1> QED
  BY <1>1, <1>2, <1>3, <1>4, LoopPreserves DEF IInv, Resume

(* A coroutine that gives up its peer for another exchanges the two.       *)
LEMMA SwapPeerPreserves ==
  ASSUME IInv, NEW t \in Pieces, SwapPeer(t)
  PROVE  IInv'
<1> DEFINE back == Entry(priority[t] + 1, peer[t])
<1>1. PICK e \in Cheapest(peerQueue) :
        Loop(t, e.peer, e.priority, blocks[t], blocksPerCycle,
             (peerQueue \ {e}) \cup {back})
  BY DEF SwapPeer
<1>2. e \in peerQueue /\ e.peer \in Peers /\ e.priority \in Int
  BY DEF Cheapest, IInv, TypeOK, Entries
<1>3. peer[t] \in Peers /\ peer[t] # NoPeer
  BY DEF SwapPeer, IInv, TypeOK, Holding
<1>4. back \in Entries /\ back.peer = peer[t]
  BY <1>3 DEF IInv, TypeOK, Entries, Entry
<1> HIDE DEF back
<1> DEFINE q == (peerQueue \ {e}) \cup {back}
<1>5. Placed(t, e.peer, q)
  <2>1. \A f, g \in q : f.peer = g.peer => f = g
    BY <1>3, <1>4 DEF IInv, PeerConservation
  <2>2. \A u, v \in Pieces \ {t} : peer[u] = peer[v] /\ peer[u] # NoPeer => u = v
    BY DEF IInv, PeerConservation
  <2>3. \A f \in q : f.peer # e.peer /\ \A u \in Pieces \ {t} : peer[u] # f.peer
    BY <1>2, <1>3, <1>4 DEF IInv, PeerConservation
  <2>4. \A u \in Pieces \ {t} : peer[u] # e.peer
    BY <1>2 DEF IInv, PeerConservation
  <2>5. \A x \in Peers : \/ x = e.peer
                         \/ \E f \in q : f.peer = x
                         \/ \E u \in Pieces \ {t} : peer[u] = x
    BY <1>4 DEF IInv, PeerConservation
  <2> QED
    BY <2>1, <2>2, <2>3, <2>4, <2>5 DEF Placed
<1>6. /\ blocks[t] \in BlockMaps /\ blocksPerCycle \in Nat \ {0}
      /\ q \in SUBSET Entries
  BY <1>4 DEF IInv, TypeOK
<1> QED
  BY <1>1, <1>2, <1>5, <1>6, LoopPreserves DEF IInv

(* An answer, or its absence, moves no peer.                               *)
LEMMA FetchPreserves ==
  ASSUME IInv, NEW t \in Pieces, Fetch(t)
  PROVE  IInv'
<1> USE PieceDownloadAssumption
<1>1. pc[t] = "fetch" /\ peer[t] \in Peers /\ TotalBlocks[t] > 0
  BY DEF Fetch, FetchBlocks, FetchNone, FetchIOError, FetchCrash, IInv, TypeOK,
         Holding, LoopHasBlocks
<1>2. ASSUME \E left \in {{}, wire[peer[t]]} : wire' = [wire EXCEPT ![peer[t]] = left]
      PROVE  wire' \in [Peers -> SUBSET Requests]
  BY <1>1, <1>2 DEF IInv, TypeOK
<1>3. /\ UNCHANGED <<peerQueue, peer, priority, blocks>>
      /\ \E s \in {"gathered", "swap", "failed"} : pc' = [pc EXCEPT ![t] = s]
  BY DEF Fetch, FetchBlocks, FetchNone, FetchIOError, FetchCrash
<1>4. wire' \in [Peers -> SUBSET Requests] /\ reply' \in [Pieces -> BlockMaps]
  <2>1. CASE FetchBlocks(t)
    <3>1. PICK R \in SUBSET wire[peer[t]] :
            /\ \E answer \in BlockMaps : reply' = [reply EXCEPT ![t] = answer]
            /\ wire' = [wire EXCEPT ![peer[t]] = @ \ R]
      BY <2>1 DEF FetchBlocks
    <3> QED
      BY <3>1, <1>1 DEF IInv, TypeOK
  <2>2. CASE FetchNone(t) \/ FetchIOError(t) \/ FetchCrash(t)
    BY <2>2, <1>2 DEF FetchNone, FetchIOError, FetchCrash, LeaveBehind, IInv, TypeOK
  <2> QED
    BY <2>1, <2>2 DEF Fetch
<1>5. blocksPerCycle' \in Nat \ {0}
  BY <1>1, AdjustPositive DEF Fetch, FetchBlocks, FetchNone, FetchIOError, FetchCrash,
                              IInv, TypeOK
<1>6. TypeOK'
  BY <1>1, <1>3, <1>4, <1>5 DEF IInv, TypeOK
<1>7. Holding' /\ LoopHasBlocks'
  BY <1>1, <1>3 DEF IInv, TypeOK, Holding, LoopHasBlocks
<1>8. PeerConservation'
  BY <1>3 DEF IInv, PeerConservation
<1> QED
  BY <1>6, <1>7, <1>8 DEF IInv

LEMMA NextInv == IInv /\ [Next]_vars => IInv'
<1> SUFFICES ASSUME IInv, [Next]_vars PROVE IInv'
  OBVIOUS
<1>1. ASSUME NEW new \in SUBSET Pieces, Create(new) PROVE IInv'
  <2>1. TypeOK'
    BY <1>1 DEF IInv, TypeOK, Create
  <2>2. Holding' /\ LoopHasBlocks'
    BY <1>1 DEF IInv, TypeOK, Holding, LoopHasBlocks, Create
  <2>3. PeerConservation'
    BY <1>1 DEF IInv, PeerConservation, Create
  <2> QED
    BY <2>1, <2>2, <2>3 DEF IInv
<1>2. ASSUME NEW t \in Pieces, Step(t) PROVE IInv'
  BY <1>2, GetPeerPreserves, FetchPreserves, ResumePreserves, SwapPeerPreserves DEF Step
<1>3. CASE Terminated \/ UNCHANGED vars
  BY <1>3 DEF Terminated, vars, IInv, TypeOK, Holding, LoopHasBlocks, PeerConservation
<1> QED
  BY <1>1, <1>2, <1>3 DEF Next

(* No coroutine loses or duplicates a peer, and every variable keeps its   *)
(* type: in particular BLOCKS_PER_CYCLE is always positive.                *)
THEOREM Invariance == Spec => []IInv
  BY InitInv, NextInv, PTL DEF Spec

(* Each variable of the pool and of the coroutines keeps its type.         *)
THEOREM TypeCorrect == Spec => []TypeOK
<1>1. IInv => TypeOK
  BY DEF IInv
<1> QED
  BY Invariance, <1>1, PTL

(* A peer is queued once or held by one coroutine, and never lost.         *)
THEOREM PeersConserved == Spec => []PeerConservation
<1>1. IInv => PeerConservation
  BY DEF IInv
<1> QED
  BY Invariance, <1>1, PTL

-----------------------------------------------------------------------------
(* With more peers than coroutines some peer is always queued: not every   *)
(* one can be held.                                                        *)
LEMMA QueueNeverEmpty ==
  ASSUME IInv, Cardinality(Pieces) < Cardinality(Peers)
  PROVE  peerQueue # {}
<1> SUFFICES ASSUME peerQueue = {} PROVE FALSE
  OBVIOUS
<1> DEFINE holder == [p \in Peers |-> CHOOSE t \in Pieces : peer[t] = p]
<1>1. \A p \in Peers : holder[p] \in Pieces /\ peer[holder[p]] = p
  BY DEF IInv, PeerConservation
<1>2. holder \in [Peers -> Pieces]
  BY <1>1
<1>3. PICK p, q \in Peers : p # q /\ holder[p] = holder[q]
  <2> HIDE DEF holder
  <2> QED
    BY <1>2, PieceDownloadAssumption, FS_PigeonHole
<1> QED
  BY <1>1, <1>3

(* piece.py:170: the wedge, all waiting for each other's failing peers,    *)
(* needs as many coroutines as peers.                                      *)
THEOREM PlentyOfPeers ==
  ASSUME Cardinality(Pieces) < Cardinality(Peers)
  PROVE  Spec => []NeverWedged
<1>1. IInv => NeverWedged
  BY QueueNeverEmpty DEF NeverWedged, Wedged
<1> QED
  BY Invariance, <1>1, PTL

-----------------------------------------------------------------------------
(* A pass of the loop that ends at the await of gather has sent a request. *)
LEMMA LoopAsks ==
  ASSUME TypeOK, NEW t \in Pieces, NEW p \in Peers, NEW pr, NEW bl,
         NEW w \in Nat \ {0}, NEW q, Loop(t, p, pr, bl, w, q)
  PROVE  \A u \in Pieces : pc[u] # "fetch" /\ pc'[u] = "fetch" =>
           \E b \in BlockNums : <<u, b>> \in wire'[peer'[u]]
<1> SUFFICES ASSUME NEW u \in Pieces, pc[u] # "fetch", pc'[u] = "fetch"
             PROVE  \E b \in BlockNums : <<u, b>> \in wire'[peer'[u]]
  OBVIOUS
<1>1. ~IsPieceComplete(t, bl) /\ Request(t, p, pr, bl, w, q)
  BY DEF Loop, Finish, TypeOK
<1>2. u = t /\ peer'[u] = p
  BY <1>1 DEF Request, TypeOK
<1>3. PICK offsets \in CycleOffsets(t, bl, w) :
        wire' = [wire EXCEPT ![p] = @ \cup ({t} \X offsets)]
  BY <1>1 DEF Request
<1>4. PICK b \in offsets : b \in BlockNums
  BY <1>1, CycleOffsetsNonEmpty
<1> QED
  BY <1>2, <1>3, <1>4 DEF TypeOK

(* Whatever the other coroutines did to BLOCKS_PER_CYCLE, each cycle asks  *)
(* for a block of its piece.                                               *)
THEOREM CyclesAlwaysAsk == Spec => CyclesAsk
<1> DEFINE Asks ==
      \A t \in Pieces : pc[t] # "fetch" /\ pc'[t] = "fetch" =>
        \E b \in BlockNums : <<t, b>> \in wire'[peer'[t]]
<1>1. IInv /\ [Next]_vars => Asks
  <2> SUFFICES ASSUME IInv, [Next]_vars PROVE Asks
    OBVIOUS
  <2>1. ASSUME NEW t \in Pieces, GetPeer(t) PROVE Asks
    <3>1. PICK e \in Cheapest(peerQueue) :
            Loop(t, e.peer, e.priority, blocks[t], blocksPerCycle, peerQueue \ {e})
      BY <2>1 DEF GetPeer
    <3>2. e.peer \in Peers /\ blocksPerCycle \in Nat \ {0} /\ TypeOK
      BY DEF Cheapest, IInv, TypeOK, Entries
    <3> QED
      BY <3>1, <3>2, LoopAsks
  <2>2. ASSUME NEW t \in Pieces, Resume(t) PROVE Asks
    <3>1. peer[t] \in Peers /\ TotalBlocks[t] > 0 /\ TypeOK
      BY <2>2 DEF Resume, IInv, TypeOK, Holding, LoopHasBlocks
    <3>2. AdjustBlocksPerCycle(t, 1) \in Nat \ {0}
      BY <3>1, AdjustPositive DEF TypeOK
    <3> QED
      BY <2>2, <3>1, <3>2, LoopAsks DEF Resume
  <2>3. ASSUME NEW t \in Pieces, SwapPeer(t) PROVE Asks
    <3>1. PICK e \in Cheapest(peerQueue) :
            Loop(t, e.peer, e.priority, blocks[t], blocksPerCycle,
                 (peerQueue \ {e}) \cup {Entry(priority[t] + 1, peer[t])})
      BY <2>3 DEF SwapPeer
    <3>2. e.peer \in Peers /\ blocksPerCycle \in Nat \ {0} /\ TypeOK
      BY DEF Cheapest, IInv, TypeOK, Entries
    <3> QED
      BY <3>1, <3>2, LoopAsks
  <2>4. ASSUME NEW t \in Pieces, Fetch(t) PROVE Asks
    BY <2>4 DEF Fetch, FetchBlocks, FetchNone, FetchIOError, FetchCrash, IInv, TypeOK
  <2>5. ASSUME NEW new \in SUBSET Pieces, Create(new) PROVE Asks
    BY <2>5 DEF Create, IInv, TypeOK
  <2>6. CASE Terminated \/ UNCHANGED vars
    BY <2>6 DEF Terminated, vars
  <2> QED
    BY <2>1, <2>2, <2>3, <2>4, <2>5, <2>6 DEF Next, Step
<1> QED
  BY <1>1, Invariance, PTL DEF Spec, CyclesAsk

-----------------------------------------------------------------------------
(* A step of one coroutine leaves the place and the blocks of the others,  *)
(* and starts from a coroutine that runs.                                  *)
LEMMA StepIsLocal ==
  ASSUME TypeOK, NEW t \in Pieces, Step(t)
  PROVE  /\ pc[t] \in {"get", "fetch", "gathered", "swap"}
         /\ pc'[t] \in {"fetch", "gathered", "swap", "done", "failed"}
         /\ \A u \in Pieces \ {t} : pc'[u] = pc[u] /\ blocks'[u] = blocks[u]
<1>1. ASSUME NEW p, NEW pr, NEW bl, NEW w, NEW q, Loop(t, p, pr, bl, w, q)
      PROVE  /\ pc'[t] \in {"fetch", "done"}
             /\ \A u \in Pieces \ {t} : pc'[u] = pc[u] /\ blocks'[u] = blocks[u]
  BY <1>1 DEF Loop, Finish, Request, TypeOK
<1>2. CASE GetPeer(t)
  BY <1>1, <1>2 DEF GetPeer
<1>3. CASE Resume(t)
  BY <1>1, <1>3 DEF Resume
<1>4. CASE SwapPeer(t)
  BY <1>1, <1>4 DEF SwapPeer
<1>5. CASE Fetch(t)
  BY <1>5 DEF Fetch, FetchBlocks, FetchNone, FetchIOError, FetchCrash, TypeOK
<1> QED
  BY <1>2, <1>3, <1>4, <1>5 DEF Step

LEMMA StatusOfPlace ==
  ASSUME NEW t \in Pieces
  PROVE  /\ pc[t] = "none" => TaskStatus(t) = "none"
         /\ pc[t] \in {"get", "fetch", "gathered", "swap"} => TaskStatus(t) = "running"
         /\ pc[t] = "done" => TaskStatus(t) \in {"valid", "invalid"}
         /\ pc[t] = "failed" => TaskStatus(t) = "failed"
  BY DEF TaskStatus

LEMMA StatusSettled ==
  ASSUME NEW t \in Pieces, pc'[t] = pc[t], blocks'[t] = blocks[t]
  PROVE  TaskStatus(t)' = TaskStatus(t)
<1>1. IsValid(t)' = IsValid(t)
  BY DEF IsValid
<1> QED
  BY <1>1 DEF TaskStatus

(* The coroutines are PieceTasks: each runs once, and its verdict is       *)
(* settled when it ends.                                                   *)
THEOREM TasksImplemented == Spec => TasksSpec
<1> DEFINE status == [t \in Pieces |-> TaskStatus(t)]
<1>1. Init => Tasks!Init
  BY StatusOfPlace DEF Init, Tasks!Init
<1>2. IInv /\ [Next]_vars => [Tasks!Next]_status
  <2> SUFFICES ASSUME IInv, [Next]_vars PROVE [Tasks!Next]_status
    OBVIOUS
  <2>1. ASSUME NEW new \in SUBSET Pieces, Create(new) PROVE Tasks!Start(new)
    <3>1. /\ new # {} /\ \A t \in new : pc[t] = "none" /\ pc'[t] = "get"
          /\ \A t \in Pieces \ new : pc'[t] = pc[t] /\ blocks'[t] = blocks[t]
      BY <2>1 DEF Create
    <3>2. \A t \in new : TaskStatus(t) = "none" /\ TaskStatus(t)' = "running"
      BY <3>1, StatusOfPlace DEF TaskStatus
    <3>3. \A t \in Pieces \ new : TaskStatus(t)' = TaskStatus(t)
      BY <3>1, StatusSettled
    <3>4. status' = [t \in Pieces |-> IF t \in new THEN "running" ELSE status[t]]
      BY <3>2, <3>3
    <3> QED
      BY <3>1, <3>2, <3>4 DEF Tasks!Start
  <2>2. ASSUME NEW t \in Pieces, Step(t) PROVE [Tasks!Next]_status
    <3>1. /\ pc[t] \in {"get", "fetch", "gathered", "swap"}
          /\ pc'[t] \in {"fetch", "gathered", "swap", "done", "failed"}
          /\ \A u \in Pieces \ {t} : pc'[u] = pc[u] /\ blocks'[u] = blocks[u]
      BY <2>2, StepIsLocal DEF IInv
    <3>2. TaskStatus(t) = "running"
      BY <3>1 DEF TaskStatus
    <3>3. TaskStatus(t)' \in {"running", "valid", "invalid", "failed"}
      BY <3>1 DEF TaskStatus
    <3>4. \A u \in Pieces \ {t} : TaskStatus(u)' = TaskStatus(u)
      BY <3>1, StatusSettled
    <3>5. status' = [status EXCEPT ![t] = TaskStatus(t)']
      BY <3>4
    <3> HIDE DEF status
    <3>6. status[t] = "running"
      BY <3>2 DEF status
    <3>7. CASE TaskStatus(t)' = "running"
      BY <3>5, <3>6, <3>7 DEF status
    <3>8. CASE TaskStatus(t)' \in {"valid", "invalid"}
      BY <3>5, <3>6, <3>8 DEF Tasks!Next, Tasks!Return, status
    <3>9. CASE TaskStatus(t)' = "failed"
      BY <3>5, <3>6, <3>9 DEF Tasks!Next, Tasks!Raise, status
    <3> QED
      BY <3>3, <3>7, <3>8, <3>9
  <2>3. CASE Terminated \/ UNCHANGED vars
    BY <2>3, StatusSettled DEF Terminated, vars
  <2> QED
    BY <2>1, <2>2, <2>3 DEF Next, Tasks!Next
<1> QED
  BY <1>1, <1>2, Invariance, PTL DEF Spec, TasksSpec, Tasks!Spec

-----------------------------------------------------------------------------
(* The priority a peer stands at, queued or lent, changes only for the     *)
(* service of that peer.                                                   *)
Lent(holders) == {Entry(priority[u], peer[u]) : u \in {v \in holders : peer[v] # NoPeer}}

(* The condition PriorityFollowsService puts on every step.                *)
Follows(x, y) ==
  LET givenUp == \E t \in Pieces : /\ pc[t] = "swap" /\ pc'[t] # "swap"
                                   /\ peer[t] = x.peer
      served == \E t \in Pieces : pc[t] # "done" /\ pc'[t] = "done"
  IN \/ givenUp /\ y.priority = x.priority + 1
     \/ ~givenUp /\ y.priority = x.priority
     \/ ~givenUp /\ served /\ y.priority = x.priority - 1

StepFollows == \A x \in Standing, y \in Standing' : x.peer = y.peer => Follows(x, y)

-----------------------------------------------------------------------------
LEMMA StandingParts == Standing = peerQueue \cup Lent(Pieces)
  BY DEF Standing, Lent

LEMMA EntryFields ==
  ASSUME NEW pr, NEW p
  PROVE  Entry(pr, p).priority = pr /\ Entry(pr, p).peer = p
  BY DEF Entry

(* A peer stands at one priority.                                          *)
LEMMA StandingUnique ==
  ASSUME IInv, NEW x \in Standing, NEW y \in Standing, x.peer = y.peer
  PROVE  x = y
<1>1. \A z \in Lent(Pieces) :
        \E u \in Pieces : z = Entry(priority[u], peer[u]) /\ peer[u] # NoPeer
                          /\ z.peer = peer[u]
  BY EntryFields DEF Lent
<1>2. CASE x \in peerQueue /\ y \in peerQueue
  BY <1>2 DEF IInv, PeerConservation
<1>3. CASE x \in Lent(Pieces) /\ y \in Lent(Pieces)
  <2>1. PICK u \in Pieces : x = Entry(priority[u], peer[u]) /\ peer[u] # NoPeer
                            /\ x.peer = peer[u]
    BY <1>1, <1>3
  <2>2. PICK v \in Pieces : y = Entry(priority[v], peer[v]) /\ peer[v] # NoPeer
                            /\ y.peer = peer[v]
    BY <1>1, <1>3
  <2>3. u = v
    BY <2>1, <2>2 DEF IInv, PeerConservation
  <2> QED
    BY <2>1, <2>2, <2>3
<1>4. ASSUME NEW z \in peerQueue, NEW l \in Lent(Pieces) PROVE z.peer # l.peer
  BY <1>1 DEF IInv, PeerConservation
<1> QED
  BY <1>2, <1>3, <1>4, StandingParts

(* Where the peers stand after a pass of the loop.                         *)
LEMMA LoopStanding ==
  ASSUME IInv, NEW t \in Pieces, NEW p \in Peers, NEW pr \in Int, NEW bl,
         NEW w, NEW q, Loop(t, p, pr, bl, w, q)
  PROVE  \/ /\ pc'[t] = "done"
            /\ Standing' = q \cup Lent(Pieces \ {t}) \cup {Entry(pr - 1, p)}
         \/ /\ pc'[t] # "done" /\ pc'[t] # "swap"
            /\ Standing' = q \cup Lent(Pieces \ {t}) \cup {Entry(pr, p)}
<1>1. CASE Finish(t, p, pr, q)
  <2>1. /\ pc'[t] = "done" /\ peerQueue' = q \cup {Entry(pr - 1, p)}
        /\ priority' = priority /\ peer'[t] = NoPeer
        /\ \A u \in Pieces \ {t} : peer'[u] = peer[u]
    BY <1>1 DEF Finish, IInv, TypeOK
  <2>2. {u \in Pieces : peer'[u] # NoPeer} = {u \in Pieces \ {t} : peer[u] # NoPeer}
    BY <2>1
  <2>3. Standing' = peerQueue' \cup {Entry(priority'[u], peer'[u]) :
                                        u \in {v \in Pieces : peer'[v] # NoPeer}}
    BY DEF Standing
  <2>4. Standing' = peerQueue' \cup {Entry(priority[u], peer[u]) :
                                        u \in {v \in Pieces \ {t} : peer[v] # NoPeer}}
    BY <2>1, <2>2, <2>3
  <2> QED
    BY <2>1, <2>4 DEF Lent
<1>2. CASE Request(t, p, pr, bl, w, q)
  <2>1. /\ pc'[t] = "fetch" /\ peerQueue' = q
        /\ priority'[t] = pr /\ peer'[t] = p /\ p # NoPeer
        /\ \A u \in Pieces \ {t} : peer'[u] = peer[u] /\ priority'[u] = priority[u]
    BY <1>2, PieceDownloadAssumption DEF Request, IInv, TypeOK
  <2>2. {u \in Pieces : peer'[u] # NoPeer} = {u \in Pieces \ {t} : peer[u] # NoPeer} \cup {t}
    BY <2>1
  <2>3. Standing' = q \cup {Entry(priority'[u], peer'[u]) :
                               u \in {v \in Pieces : peer'[v] # NoPeer}}
    BY <2>1 DEF Standing
  <2>4. Standing' = q \cup {Entry(priority[u], peer[u]) :
                               u \in {v \in Pieces \ {t} : peer[v] # NoPeer}}
                      \cup {Entry(pr, p)}
    BY <2>1, <2>2, <2>3
  <2> QED
    BY <2>1, <2>4 DEF Lent
<1> QED
  BY <1>1, <1>2 DEF Loop

(* Nothing else changes at a pass of the loop.                             *)
LEMMA LoopOthers ==
  ASSUME IInv, NEW t \in Pieces, NEW p, NEW pr, NEW bl, NEW w, NEW q,
         Loop(t, p, pr, bl, w, q)
  PROVE  \A u \in Pieces \ {t} : pc'[u] = pc[u]
  BY DEF Loop, Finish, Request, IInv, TypeOK

LEMMA LentStands ==
  ASSUME NEW holders \in SUBSET Pieces
  PROVE  Lent(holders) \subseteq Standing
  BY DEF Lent, Standing

LEMMA GetPeerFollows ==
  ASSUME IInv, NEW t \in Pieces, GetPeer(t)
  PROVE  StepFollows
<1>1. PICK e \in Cheapest(peerQueue) :
        Loop(t, e.peer, e.priority, blocks[t], blocksPerCycle, peerQueue \ {e})
  BY DEF GetPeer
<1>2. /\ e \in peerQueue /\ e \in Standing /\ e.peer \in Peers /\ e.priority \in Int
      /\ e = Entry(e.priority, e.peer)
  BY StandingParts DEF Cheapest, IInv, TypeOK, Entries, Entry
<1>3. ~\E u \in Pieces : pc[u] = "swap" /\ pc'[u] # "swap"
  BY <1>1, LoopOthers DEF GetPeer
<1> SUFFICES ASSUME NEW x \in Standing, NEW y \in Standing', x.peer = y.peer
             PROVE  Follows(x, y)
  BY DEF StepFollows
<1>4. CASE y \in peerQueue \/ y \in Lent(Pieces \ {t})
  <2>1. y \in Standing
    BY <1>4, LentStands, StandingParts
  <2> QED
    BY <2>1, <1>3, StandingUnique DEF Follows
<1>5. CASE y \notin peerQueue /\ y \notin Lent(Pieces \ {t})
  <2>1. \/ pc'[t] = "done" /\ y = Entry(e.priority - 1, e.peer)
        \/ y = Entry(e.priority, e.peer)
    BY <1>1, <1>2, <1>5, LoopStanding
  <2>2. y.peer = e.peer /\ x = e
    BY <1>2, <2>1, EntryFields, StandingUnique
  <2> QED
    BY <1>3, <2>1, <2>2, EntryFields DEF Follows, GetPeer
<1> QED
  BY <1>4, <1>5

LEMMA ResumeFollows ==
  ASSUME IInv, NEW t \in Pieces, Resume(t)
  PROVE  StepFollows
<1>1. Loop(t, peer[t], priority[t], Merge(blocks[t], reply[t]),
           AdjustBlocksPerCycle(t, 1), peerQueue)
  BY DEF Resume
<1> DEFINE e == Entry(priority[t], peer[t])
<1>2. peer[t] \in Peers /\ peer[t] # NoPeer /\ priority[t] \in Int
  BY DEF Resume, IInv, TypeOK, Holding
<1>3. e \in Standing /\ e.peer = peer[t] /\ e.priority = priority[t]
  BY <1>2, EntryFields DEF Standing
<1> HIDE DEF e
<1>4. ~\E u \in Pieces : pc[u] = "swap" /\ pc'[u] # "swap"
  BY <1>1, LoopOthers DEF Resume
<1> SUFFICES ASSUME NEW x \in Standing, NEW y \in Standing', x.peer = y.peer
             PROVE  Follows(x, y)
  BY DEF StepFollows
<1>5. CASE y \in peerQueue \/ y \in Lent(Pieces \ {t})
  <2>1. y \in Standing
    BY <1>5, LentStands, StandingParts
  <2> QED
    BY <2>1, <1>4, StandingUnique DEF Follows
<1>6. CASE y \notin peerQueue /\ y \notin Lent(Pieces \ {t})
  <2>1. \/ pc'[t] = "done" /\ y = Entry(priority[t] - 1, peer[t])
        \/ y = Entry(priority[t], peer[t])
    BY <1>1, <1>2, <1>6, LoopStanding
  <2>2. y.peer = e.peer /\ x = e
    BY <1>3, <2>1, EntryFields, StandingUnique
  <2> QED
    BY <1>3, <1>4, <2>1, <2>2, EntryFields DEF Follows, Resume
<1> QED
  BY <1>5, <1>6

LEMMA SwapPeerFollows ==
  ASSUME IInv, NEW t \in Pieces, SwapPeer(t)
  PROVE  StepFollows
<1> DEFINE back == Entry(priority[t] + 1, peer[t])
           old == Entry(priority[t], peer[t])
<1>1. PICK e \in Cheapest(peerQueue) :
        Loop(t, e.peer, e.priority, blocks[t], blocksPerCycle,
             (peerQueue \ {e}) \cup {back})
  BY DEF SwapPeer
<1>2. /\ e \in peerQueue /\ e \in Standing /\ e.peer \in Peers /\ e.priority \in Int
      /\ e = Entry(e.priority, e.peer)
  BY StandingParts DEF Cheapest, IInv, TypeOK, Entries, Entry
<1>3. pc[t] = "swap" /\ peer[t] \in Peers /\ peer[t] # NoPeer /\ priority[t] \in Int
  BY DEF SwapPeer, IInv, TypeOK, Holding
<1>4. /\ old \in Standing /\ old.peer = peer[t] /\ old.priority = priority[t]
      /\ back.peer = peer[t] /\ back.priority = priority[t] + 1
  BY <1>3, EntryFields DEF Standing
<1>5. /\ pc'[t] # "swap"
      /\ \/ /\ pc'[t] = "done"
            /\ Standing' = ((peerQueue \ {e}) \cup {back}) \cup Lent(Pieces \ {t})
                             \cup {Entry(e.priority - 1, e.peer)}
         \/ Standing' = ((peerQueue \ {e}) \cup {back}) \cup Lent(Pieces \ {t})
                          \cup {Entry(e.priority, e.peer)}
  BY <1>1, <1>2, LoopStanding
<1>6. \A u \in Pieces \ {t} : pc'[u] = pc[u]
  BY <1>1, LoopOthers
<1> HIDE DEF old, back
<1>7. \A x : (\E u \in Pieces : pc[u] = "swap" /\ pc'[u] # "swap" /\ peer[u] = x)
               <=> x = peer[t]
  BY <1>3, <1>5, <1>6
<1>8. /\ e.peer # peer[t]
      /\ \A z \in Lent(Pieces \ {t}) : z.peer # peer[t]
      /\ \A z \in peerQueue : z.peer # peer[t]
  <2>1. \A z \in peerQueue : z.peer # peer[t]
    BY DEF IInv, PeerConservation
  <2>2. \A z \in Lent(Pieces \ {t}) : \E u \in Pieces \ {t} : z.peer = peer[u]
    BY EntryFields DEF Lent
  <2>3. \A u \in Pieces \ {t} : peer[u] # peer[t]
    BY <1>3 DEF IInv, PeerConservation
  <2> QED
    BY <1>2, <2>1, <2>2, <2>3
<1> SUFFICES ASSUME NEW x \in Standing, NEW y \in Standing', x.peer = y.peer
             PROVE  Follows(x, y)
  BY DEF StepFollows
<1>9. CASE y = back
  <2>1. x = old
    BY <1>4, <1>9, StandingUnique
  <2> QED
    BY <1>4, <1>7, <1>9, <2>1 DEF Follows
<1>10. CASE y \in peerQueue \/ y \in Lent(Pieces \ {t})
  <2>1. y \in Standing
    BY <1>10, LentStands, StandingParts
  <2>2. x = y /\ x.peer # peer[t]
    BY <1>8, <1>10, <2>1, StandingUnique
  <2> QED
    BY <1>7, <2>2 DEF Follows
<1>11. CASE y # back /\ y \notin peerQueue /\ y \notin Lent(Pieces \ {t})
  <2>1. \/ pc'[t] = "done" /\ y = Entry(e.priority - 1, e.peer)
        \/ y = Entry(e.priority, e.peer)
    BY <1>5, <1>11
  <2>2. x = e
    BY <1>2, <2>1, EntryFields, StandingUnique
  <2> QED
    BY <1>3, <1>7, <1>8, <2>1, <2>2, EntryFields DEF Follows
<1> QED
  BY <1>9, <1>10, <1>11

(* The steps that move no peer.                                            *)
LEMMA OtherFollows ==
  ASSUME IInv, UNCHANGED <<peerQueue, peer, priority>>,
         ~\E u \in Pieces : pc[u] = "swap" /\ pc'[u] # "swap"
  PROVE  StepFollows
<1>1. Standing' = Standing
  BY DEF Standing
<1> QED
  BY <1>1, StandingUnique DEF StepFollows, Follows

(* A peer's priority follows its own service only, through any             *)
(* interleaving of the coroutines that share it.                           *)
THEOREM PrioritiesFollowService == Spec => PriorityFollowsService
<1>1. IInv /\ [Next]_vars => StepFollows
  <2> SUFFICES ASSUME IInv, [Next]_vars PROVE StepFollows
    OBVIOUS
  <2>1. ASSUME NEW t \in Pieces, Fetch(t) PROVE StepFollows
    <3>1. /\ UNCHANGED <<peerQueue, peer, priority>>
          /\ ~\E u \in Pieces : pc[u] = "swap" /\ pc'[u] # "swap"
      BY <2>1 DEF Fetch, FetchBlocks, FetchNone, FetchIOError, FetchCrash, IInv, TypeOK
    <3> QED
      BY <3>1, OtherFollows
  <2>2. ASSUME NEW new \in SUBSET Pieces, Create(new) PROVE StepFollows
    <3>1. /\ UNCHANGED <<peerQueue, peer, priority>>
          /\ ~\E u \in Pieces : pc[u] = "swap" /\ pc'[u] # "swap"
      BY <2>2 DEF Create
    <3> QED
      BY <3>1, OtherFollows
  <2>3. CASE Terminated \/ UNCHANGED vars
    BY <2>3, OtherFollows DEF Terminated, vars
  <2>4. ASSUME NEW t \in Pieces, Step(t) PROVE StepFollows
    BY <2>1, <2>4, GetPeerFollows, ResumeFollows, SwapPeerFollows DEF Step
  <2> QED
    BY <2>2, <2>3, <2>4 DEF Next
<1>2. StepFollows =>
        \A x \in Standing, y \in Standing' : x.peer = y.peer =>
          LET givenUp == \E t \in Pieces : /\ pc[t] = "swap" /\ pc'[t] # "swap"
                                           /\ peer[t] = x.peer
              served == \E t \in Pieces : pc[t] # "done" /\ pc'[t] = "done"
          IN \/ givenUp /\ y.priority = x.priority + 1
             \/ ~givenUp /\ y.priority = x.priority
             \/ ~givenUp /\ served /\ y.priority = x.priority - 1
  BY DEF StepFollows, Follows
<1> QED
  BY <1>1, <1>2, Invariance, PTL DEF Spec, PriorityFollowsService

=============================================================================
