------------------------ MODULE SequentialDownloadProofs ---------------------
(***************************************************************************)
(* Proofs about SequentialDownload. For any number of streams at a time    *)
(* and any pieces, permits and limit of the queue: the state keeps its     *)
(* types and every permit of a semaphore is accounted for. For a stream by *)
(* itself: no piece is lost or doubled, the pieces come out in ascending   *)
(* order, and the consumer gets what FileDelivery promises.                *)
(***************************************************************************)
EXTENDS SequentialDelivery, LeastNumber, FiniteSetTheorems, FunctionTheorems,
        SequenceTheorems, TLAPS

-----------------------------------------------------------------------------
(* PriorityQueue.get: what is not empty has a first entry.                 *)
LEMMA FirstEntryExists ==
  ASSUME NEW q \in SUBSET (Nat \X Nat), q # {}
  PROVE  /\ FirstEntry(q) \in q
         /\ \A f \in q : \/ FirstEntry(q)[1] < f[1]
                         \/ FirstEntry(q)[1] = f[1] /\ FirstEntry(q)[2] <= f[2]
<1> DEFINE priorities == {e[1] : e \in q}
<1>1. priorities \in SUBSET Nat /\ priorities # {}
  OBVIOUS
<1>2. PICK p \in priorities : \A r \in priorities : p <= r
  BY <1>1, LeastElement
<1> DEFINE nums == {e[2] : e \in {e \in q : e[1] = p}}
<1>3. nums \in SUBSET Nat /\ nums # {}
  OBVIOUS
<1>4. PICK n \in nums : \A m \in nums : n <= m
  BY <1>3, LeastElement
<1>5. PICK e \in q : e[1] = p /\ e[2] = n
  BY <1>4
<1>6. ASSUME NEW f \in q PROVE e[1] < f[1] \/ (e[1] = f[1] /\ e[2] <= f[2])
  <2>1. p <= f[1] /\ p \in Nat /\ f[1] \in Nat
    BY <1>1, <1>2
  <2>2. f[1] = p => n <= f[2]
    BY <1>4
  <2> QED
    BY <1>5, <2>1, <2>2
<1> QED
  BY <1>6, Zenon DEF FirstEntry

(* task_list.remove                                                        *)
LEMMA RemoveAtFacts ==
  ASSUME NEW S, NEW q \in Seq(S), NEW k \in DOMAIN q
  PROVE  /\ RemoveAt(q, k) \in Seq(S) /\ Len(RemoveAt(q, k)) = Len(q) - 1
         /\ \A i \in 1 .. Len(q) - 1 :
              RemoveAt(q, k)[i] = IF i < k THEN q[i] ELSE q[i + 1]
<1> DEFINE n == Len(q)
           a == SubSeq(q, 1, k - 1)
           b == SubSeq(q, k + 1, n)
<1>1. n \in Nat /\ k \in 1 .. n
  OBVIOUS
<1>2. /\ a \in Seq(S) /\ Len(a) = k - 1
      /\ \A i \in 1 .. k - 1 : a[i] = q[i]
  OBVIOUS
<1>3. /\ b \in Seq(S) /\ Len(b) = n - k
      /\ \A i \in 1 .. n - k : b[i] = q[i + k]
  BY <1>1
<1>4. RemoveAt(q, k) = a \o b
  BY DEF RemoveAt
<1> HIDE DEF n, a, b
<1>5. /\ a \o b \in Seq(S) /\ Len(a \o b) = Len(a) + Len(b)
      /\ \A i \in 1 .. Len(a) + Len(b) :
           (a \o b)[i] = IF i <= Len(a) THEN a[i] ELSE b[i - Len(a)]
  BY <1>2, <1>3, ConcatProperties
<1>6. Len(a) + Len(b) = n - 1
  BY <1>1, <1>2, <1>3
<1>7. ASSUME NEW i \in 1 .. n - 1
      PROVE  (a \o b)[i] = IF i < k THEN q[i] ELSE q[i + 1]
  <2>1. (a \o b)[i] = IF i <= k - 1 THEN a[i] ELSE b[i - (k - 1)]
    BY <1>2, <1>5, <1>6
  <2>2. CASE i < k
    <3>1. i \in 1 .. k - 1
      BY <1>1, <2>2
    <3> QED
      BY <1>2, <2>1, <2>2, <3>1
  <2>3. CASE ~ (i < k)
    <3>1. /\ i - (k - 1) \in 1 .. n - k /\ i - (k - 1) + k = i + 1
          /\ ~ (i <= k - 1)
      BY <1>1, <2>3
    <3> QED
      BY <1>3, <2>1, <2>3, <3>1
  <2> QED
    BY <2>2, <2>3
<1> QED
  BY <1>4, <1>5, <1>6, <1>7 DEF n

-----------------------------------------------------------------------------
(* The invariant of any number of streams. A piece that is to be fetched   *)
(* is queued once, has no coroutine under way and is not in task_list: so  *)
(* the coroutine that is made for it takes a permit of its own.            *)
Queued(s) ==
  /\ \A e, f \in filePieces[s] : e[2] = f[2] => e = f
  /\ \A e \in filePieces[s] :
       /\ task[s][e[2]] \in {"none", "invalid"}
       /\ \A i \in DOMAIN taskList[s] : taskList[s][i] # e[2]
  /\ \A i, j \in DOMAIN taskList[s] : taskList[s][i] = taskList[s][j] => i = j
  /\ at[s] = "idle" => taskList[s] = <<>> /\ \A n \in Nums : task[s][n] = "none"
  /\ at[s] = "acquire" => filePieces[s] # {}

(* The permits of a stream.                                                *)
Holders(s) == {n \in Nums : task[s][n] \in {"running", "failed"}}
PermitsOf(s) ==
  permits[s] = MaxConcurrent - Cardinality(Holders(s)) - (IF InWith(s) THEN 1 ELSE 0)

Inv ==
  /\ TypeOK
  /\ \A s \in Streams : PermitsOf(s) /\ Queued(s)

LEMMA NumsFinite == IsFiniteSet(Nums)
<1> DEFINE files == {PiecesOf(s) : s \in Streams}
<1>1. IsFiniteSet(files)
  <2>1. PICK n \in Nat : ExistsSurjection(1 .. n, Streams)
    BY SequentialAssumption, FS_NatSurjection
  <2> DEFINE f == [s \in Streams |-> PiecesOf(s)]
  <2>2. f \in [Streams -> files] /\ \A T \in files : \E s \in Streams : f[s] = T
    OBVIOUS
  <2> HIDE DEF f, files
  <2>3. ExistsSurjection(Streams, files)
    BY <2>2, Fun_IsSurj, Fun_ExistsSurj
  <2> QED
    BY <2>1, <2>3, Fun_ExistsSurjTransitive, FS_NatSurjection
<1>2. ASSUME NEW T \in files PROVE IsFiniteSet(T)
  <2>1. PICK s \in Streams : T = PiecesOf(s)
    OBVIOUS
  <2>2. FirstPiece[s] \in Int /\ LastPiece[s] \in Int
    BY SequentialAssumption
  <2> QED
    BY <2>1, <2>2, FS_Interval DEF PiecesOf
<1> QED
  BY <1>1, <1>2, FS_UNION DEF Nums

LEMMA NumsNat == Nums \subseteq Nat
BY SequentialAssumption DEF Nums, PiecesOf

LEMMA HoldersCount ==
  ASSUME NEW s \in Streams
  PROVE  /\ IsFiniteSet(Holders(s)) /\ Cardinality(Holders(s)) \in Nat
         /\ IsFiniteSet(Holders(s)') /\ Cardinality(Holders(s)') \in Nat
<1>1. Holders(s) \subseteq Nums /\ Holders(s)' \subseteq Nums
  BY DEF Holders
<1> QED
  BY <1>1, NumsFinite, FS_Subset, FS_CardinalityType

(* Nothing of a stream changes but the queue.                              *)
Same(u) ==
  /\ at'[u] = at[u] /\ filePieces'[u] = filePieces[u] /\ permits'[u] = permits[u]
  /\ task'[u] = task[u] /\ taskList'[u] = taskList[u] /\ index'[u] = index[u]
  /\ current'[u] = current[u] /\ output'[u] = output[u]

LEMMA SameHolds ==
  ASSUME NEW u \in Streams, Same(u), PermitsOf(u), Queued(u)
  PROVE  PermitsOf(u)' /\ Queued(u)'
<1>1. Holders(u)' = Holders(u) /\ (InWith(u)' <=> InWith(u))
  BY DEF Same, Holders, InWith
<1>2. PermitsOf(u)'
  BY <1>1, Zenon DEF Same, PermitsOf
<1>3. Queued(u)'
  BY DEF Same, Queued
<1> QED
  BY <1>2, <1>3

(* The number of permits follows from the account.                         *)
LEMMA PermitsInRange ==
  ASSUME NEW s \in Streams, PermitsOf(s)', permits'[s] \in Int, permits'[s] >= 0
  PROVE  permits'[s] \in 0 .. MaxConcurrent
<1>1. permits'[s] = MaxConcurrent - Cardinality(Holders(s)') - (IF InWith(s)' THEN 1 ELSE 0)
  BY DEF PermitsOf
<1>2. Cardinality(Holders(s)') \in Nat /\ MaxConcurrent \in Nat
  BY HoldersCount, SequentialAssumption
<1> QED
  BY <1>1, <1>2

LEMMA InitInvariant == Init => Inv
<1> SUFFICES ASSUME Init PROVE Inv
  OBVIOUS
<1>1. TypeOK
  BY SequentialAssumption DEF Init, TypeOK, PieceObjects
<1>2. ASSUME NEW s \in Streams PROVE PermitsOf(s) /\ Queued(s)
  <2>1. Holders(s) = {} /\ ~ InWith(s)
    BY DEF Init, Holders, InWith
  <2>2. PermitsOf(s)
    BY <2>1, FS_EmptySet, SequentialAssumption DEF Init, PermitsOf
  <2>3. Queued(s)
    BY DEF Init, Queued
  <2> QED
    BY <2>2, <2>3
<1> QED
  BY <1>1, <1>2 DEF Inv

-----------------------------------------------------------------------------
(* A step is one of these, of one stream.                                  *)
StreamNext(s) ==
  \/ Start(s) \/ EnterWith(s) \/ CreateTask(s) \/ Wait(s) \/ EndScan(s)
  \/ \E n \in Nums : TakeInvalid(s, n) \/ TakeValid(s, n) \/ TakeRaises(s, n)
  \/ Dispatch(s) \/ EndDispatch(s) \/ Drain(s) \/ Return(s) \/ Consume(s) \/ Resume(s)
  \/ Abandon(s)
  \/ \E n \in Nums : TaskReturns(s, n) \/ TaskRaises(s, n)

LEMMA NextIsStreamNext ==
  ASSUME [Next]_vars
  PROVE  UNCHANGED vars \/ \E s \in Streams : StreamNext(s)
BY DEF Next, Terminated, StreamNext, Generator, Take

(* TypeOK, its sets by name.                                               *)
Places ==
  {"idle", "while", "acquire", "scan", "dispatch", "yielded", "drain", "drained",
   "returned", "raised", "closed"}
Entries == {PiecePriority, RetryPriority} \X Nums
Verdicts == {"none", "running", "valid", "invalid", "failed"}
Types ==
  /\ running \in Streams \cup {NoStream}
  /\ at \in [Streams -> Places]
  /\ filePieces \in [Streams -> SUBSET Entries]
  /\ permits \in [Streams -> 0 .. MaxConcurrent]
  /\ task \in [Streams -> [Nums -> Verdicts]]
  /\ taskList \in [Streams -> Seq(Nums)]
  /\ index \in [Streams -> Nat]
  /\ current \in [Streams -> Nat]
  /\ queue \in SUBSET PieceObjects
  /\ output \in [Streams -> Seq(PieceObjects)]

LEMMA TypesNamed == TypeOK <=> Types
<1>1. Places = {"idle", "while", "acquire", "scan", "dispatch",
                "yielded", "drain", "drained"} \cup EndStates
  BY DEF Places, EndStates
<1> QED
  BY <1>1, Zenon DEF TypeOK, Types, Entries, Verdicts

LEMMA TypesNamedNext == TypeOK' <=> Types'
<1>1. Places = {"idle", "while", "acquire", "scan", "dispatch",
                "yielded", "drain", "drained"} \cup EndStates
  BY DEF Places, EndStates
<1> QED
  BY <1>1, Zenon DEF TypeOK, Types, Entries, Verdicts

LEMMA OthersSame ==
  ASSUME Types, NEW s \in Streams, StreamNext(s), NEW u \in Streams, u # s
  PROVE  Same(u)
<1>0. /\ DOMAIN at = Streams /\ DOMAIN filePieces = Streams /\ DOMAIN permits = Streams
      /\ DOMAIN task = Streams /\ DOMAIN taskList = Streams /\ DOMAIN index = Streams
      /\ DOMAIN current = Streams /\ DOMAIN output = Streams
  BY DEF Types
<1>1. CASE Start(s) \/ EnterWith(s) \/ CreateTask(s) \/ Wait(s) \/ EndScan(s)
  BY <1>0, <1>1 DEF Start, EnterWith, CreateTask, Wait, EndScan, Goto, Same
<1>2. ASSUME NEW n \in Nums, TakeInvalid(s, n) \/ TakeValid(s, n) \/ TakeRaises(s, n)
      PROVE  Same(u)
  BY <1>0, <1>2 DEF TakeInvalid, TakeValid, TakeRaises, TakeResult, Goto, Same
<1>3. CASE Dispatch(s) \/ EndDispatch(s) \/ Drain(s) \/ Return(s)
  BY <1>0, <1>3 DEF Dispatch, EndDispatch, Drain, Return, Goto, Same
<1>4. CASE Consume(s) \/ Resume(s) \/ Abandon(s)
  BY <1>0, <1>4 DEF Consume, Resume, Abandon, Goto, Same
<1>5. ASSUME NEW n \in Nums, TaskReturns(s, n) \/ TaskRaises(s, n)
      PROVE  Same(u)
  BY <1>0, <1>5 DEF TaskReturns, TaskRaises, Same
<1> QED
  BY <1>1, <1>2, <1>3, <1>4, <1>5 DEF StreamNext

LEMMA EntryTaken ==
  ASSUME Types, NEW s \in Streams, filePieces[s] # {}
  PROVE  /\ FirstEntry(filePieces[s]) \in filePieces[s]
         /\ FirstEntry(filePieces[s])[2] \in Nums
<1>1. filePieces[s] \in SUBSET Entries
  BY DEF Types
<1>2. Entries \subseteq Nat \X Nat
  BY NumsNat DEF Entries, PiecePriority, RetryPriority
<1>3. FirstEntry(filePieces[s]) \in filePieces[s]
  BY <1>1, <1>2, FirstEntryExists
<1> QED
  BY <1>1, <1>3 DEF Entries

LEMMA TakenFacts ==
  ASSUME Types, NEW s \in Streams, NEW n \in Nums, TakeResult(s, n)
  PROVE  /\ index[s] \in DOMAIN taskList[s] /\ n = taskList[s][index[s]]
         /\ taskList'[s] = RemoveAt(taskList[s], index[s])
         /\ taskList' = [taskList EXCEPT ![s] = RemoveAt(taskList[s], index[s])]
         /\ taskList'[s] \in Seq(Nums)
<1>1. /\ index[s] \in DOMAIN taskList[s] /\ n = taskList[s][index[s]]
      /\ taskList' = [taskList EXCEPT ![s] = RemoveAt(taskList[s], index[s])]
      /\ taskList[s] \in Seq(Nums)
  BY DEF TakeResult, AtHand, Types
<1>2. taskList'[s] = RemoveAt(taskList[s], index[s])
  BY <1>1 DEF Types
<1> QED
  BY <1>1, <1>2, RemoveAtFacts

(* The types, once the number of permits is known to be in its range.      *)
LEMMA StepTypes ==
  ASSUME Types, NEW s \in Streams, StreamNext(s),
         permits' \in [Streams -> 0 .. MaxConcurrent],
         at[s] = "acquire" => filePieces[s] # {}
  PROVE  Types'
<1>0. {"while", "acquire", "scan", "dispatch", "yielded", "drain", "drained", "returned",
       "raised", "closed"} \subseteq Places
  BY DEF Places
<1>1. CASE Start(s)
  <2>1. {PiecePriority} \X PiecesOf(s) \subseteq Entries
    BY DEF Entries, Nums
  <2> QED
    BY <1>0, <1>1, <2>1 DEF Start, Goto, Types
<1>2. CASE EnterWith(s) \/ Wait(s) \/ EndScan(s)
  BY <1>0, <1>2 DEF EnterWith, Wait, EndScan, Goto, Types
<1>3. CASE CreateTask(s)
  <2>1. at[s] = "acquire"
    BY <1>3 DEF CreateTask
  <2>2. FirstEntry(filePieces[s])[2] \in Nums /\ "running" \in Verdicts
    BY <2>1, EntryTaken DEF Verdicts
  <2>3. taskList' \in [Streams -> Seq(Nums)]
    BY <1>3, <2>2 DEF CreateTask, Types
  <2>4. task' \in [Streams -> [Nums -> Verdicts]]
    BY <1>3, <2>2 DEF CreateTask, Types
  <2> QED
    BY <1>0, <1>3, <2>3, <2>4 DEF CreateTask, Goto, Types
<1>4. ASSUME NEW n \in Nums, TakeInvalid(s, n) \/ TakeValid(s, n) \/ TakeRaises(s, n)
      PROVE  Types'
  <2>1. TakeResult(s, n)
    BY <1>4 DEF TakeInvalid, TakeValid, TakeRaises
  <2>2. taskList' \in [Streams -> Seq(Nums)]
    BY <2>1, TakenFacts DEF Types
  <2>3. index' \in [Streams -> Nat] /\ UNCHANGED <<task, current, output>>
    BY <2>1 DEF TakeResult, Types
  <2>4. filePieces' \in [Streams -> SUBSET Entries]
    <3>1. <<RetryPriority, n>> \in Entries
      BY DEF Entries
    <3> QED
      BY <1>4, <3>1 DEF TakeInvalid, TakeValid, TakeRaises, Types
  <2>5. queue' \in SUBSET PieceObjects
    <3>1. Piece(n, task[s][n] = "valid") \in PieceObjects
      BY DEF Piece, PieceObjects
    <3> QED
      BY <1>4, <3>1 DEF TakeInvalid, TakeValid, TakeRaises, Types
  <2>6. running' \in Streams \cup {NoStream} /\ at' \in [Streams -> Places]
    BY <1>0, <1>4 DEF TakeInvalid, TakeValid, TakeRaises, Goto, Types
  <2> QED
    BY <2>2, <2>3, <2>4, <2>5, <2>6 DEF Types
<1>5. CASE Dispatch(s) \/ Drain(s)
  <2>1. PICK x \in queue : /\ queue' = queue \ {x}
                           /\ output' = [output EXCEPT ![s] = Append(output[s], x)]
    BY <1>5 DEF Dispatch, Drain, Lowest, Types
  <2>2. output' \in [Streams -> Seq(PieceObjects)] /\ queue' \in SUBSET PieceObjects
    BY <2>1 DEF Types
  <2>3. current' \in [Streams -> Nat] /\ running' \in Streams \cup {NoStream}
        /\ at' \in [Streams -> Places]
        /\ UNCHANGED <<filePieces, task, taskList, index>>
    <3>1. CASE Dispatch(s)
      <4>1. current' = [current EXCEPT ![s] = current[s] + 1] /\ current[s] + 1 \in Nat
        BY <3>1 DEF Dispatch, Types
      <4> QED
        BY <1>0, <3>1, <4>1 DEF Dispatch, Goto, Types
    <3>2. CASE Drain(s)
      BY <1>0, <3>2 DEF Drain, Goto, Types
    <3> QED
      BY <1>5, <3>1, <3>2
  <2> QED
    BY <2>2, <2>3 DEF Types
<1>6. CASE EndDispatch(s) \/ Return(s) \/ Consume(s) \/ Resume(s) \/ Abandon(s)
  BY <1>0, <1>6 DEF EndDispatch, Return, Consume, Resume, Abandon, Goto, Types
<1>7. ASSUME NEW n \in Nums, TaskReturns(s, n) \/ TaskRaises(s, n)
      PROVE  Types'
  <2>1. {"valid", "invalid", "failed"} \subseteq Verdicts
    BY DEF Verdicts
  <2>2. task' \in [Streams -> [Nums -> Verdicts]]
    <3>1. PICK verdict \in Verdicts : task' = [task EXCEPT ![s][n] = verdict]
      BY <1>7, <2>1 DEF TaskReturns, TaskRaises
    <3> QED
      BY <3>1 DEF Types
  <2> QED
    BY <1>7, <2>2 DEF TaskReturns, TaskRaises, Types
<1> QED
  BY <1>1, <1>2, <1>3, <1>4, <1>5, <1>6, <1>7 DEF StreamNext

(* A task that is taken from a list that names no piece twice leaves it,   *)
(* and no other does.                                                      *)
LEMMA RemovedOnce ==
  ASSUME NEW S, NEW q \in Seq(S), NEW k \in DOMAIN q, NEW r, r = RemoveAt(q, k),
         \A i, j \in DOMAIN q : q[i] = q[j] => i = j
  PROVE  /\ \A i, j \in DOMAIN r : r[i] = r[j] => i = j
         /\ \A i \in DOMAIN r : r[i] # q[k] /\ \E j \in DOMAIN q : r[i] = q[j]
         /\ \A j \in DOMAIN q : j # k => \E i \in DOMAIN r : r[i] = q[j]
<1> DEFINE n == Len(q)
           Source(i) == IF i < k THEN i ELSE i + 1
<1>1. n \in Nat /\ k \in 1 .. n /\ DOMAIN q = 1 .. n /\ DOMAIN r = 1 .. n - 1
  BY RemoveAtFacts
<1>2. \A i \in 1 .. n - 1 : Source(i) \in 1 .. n /\ Source(i) # k /\ r[i] = q[Source(i)]
  <2>1. \A i \in 1 .. n - 1 : r[i] = IF i < k THEN q[i] ELSE q[i + 1]
    BY RemoveAtFacts
  <2> QED
    BY <1>1, <2>1
<1>3. \A i, j \in 1 .. n - 1 : Source(i) = Source(j) => i = j
  BY <1>1
<1>4. ASSUME NEW j \in 1 .. n, j # k
      PROVE  \E i \in 1 .. n - 1 : Source(i) = j
  <2>1. CASE j < k
    BY <1>1, <2>1
  <2>2. CASE ~ (j < k)
    <3>1. j - 1 \in 1 .. n - 1 /\ Source(j - 1) = j
      BY <1>1, <1>4, <2>2
    <3> QED
      BY <3>1
  <2> QED
    BY <2>1, <2>2
<1> HIDE DEF Source, n
<1>5. \A i, j \in DOMAIN r : r[i] = r[j] => i = j
  BY <1>1, <1>2, <1>3
<1>6. \A i \in DOMAIN r : r[i] # q[k] /\ \E j \in DOMAIN q : r[i] = q[j]
  BY <1>1, <1>2
<1>7. \A j \in DOMAIN q : j # k => \E i \in DOMAIN r : r[i] = q[j]
  BY <1>1, <1>2, <1>4
<1> QED
  BY <1>5, <1>6, <1>7

LEMMA StepPermits ==
  ASSUME Types, NEW s \in Streams, StreamNext(s), PermitsOf(s), Queued(s)
  PROVE  /\ permits' = [permits EXCEPT ![s] = permits'[s]]
         /\ permits'[s] \in 0 .. MaxConcurrent /\ PermitsOf(s)'
<1> DEFINE held == Cardinality(Holders(s))
           heldNext == Cardinality(Holders(s)')
<1>1. permits' = [permits EXCEPT ![s] = permits'[s]]
  BY DEF Types, StreamNext, Start, EnterWith, CreateTask, Wait, EndScan, TakeInvalid,
         TakeValid, TakeRaises, Dispatch, EndDispatch, Drain, Return, Consume, Resume,
         Abandon, TaskReturns, TaskRaises
<1> SUFFICES permits'[s] \in 0 .. MaxConcurrent /\ PermitsOf(s)'
  BY <1>1
<1>2. /\ permits[s] \in Nat /\ DOMAIN at = Streams /\ DOMAIN permits = Streams
      /\ DOMAIN task = Streams /\ DOMAIN task[s] = Nums
  BY DEF Types
<1>3. held \in Nat /\ heldNext \in Nat /\ MaxConcurrent \in Nat
      /\ IsFiniteSet(Holders(s)) /\ IsFiniteSet(Holders(s)')
  BY HoldersCount, SequentialAssumption
<1>4. permits[s] = MaxConcurrent - held - (IF InWith(s) THEN 1 ELSE 0)
  BY DEF PermitsOf
<1>5. ASSUME permits'[s] \in Int, permits'[s] >= 0,
             permits'[s] = MaxConcurrent - heldNext - (IF InWith(s)' THEN 1 ELSE 0)
      PROVE  permits'[s] \in 0 .. MaxConcurrent /\ PermitsOf(s)'
  BY <1>5, PermitsInRange, Zenon DEF PermitsOf
<1> HIDE DEF held, heldNext
<1>6. ASSUME task' = task, permits'[s] = permits[s], InWith(s)' <=> InWith(s)
      PROVE  permits'[s] \in 0 .. MaxConcurrent /\ PermitsOf(s)'
  <2>1. heldNext = held
    BY <1>6, Zenon DEF Holders, held, heldNext
  <2> QED
    BY <1>2, <1>3, <1>4, <1>5, <1>6, <2>1
<1>7. CASE Start(s) \/ Wait(s) \/ Dispatch(s) \/ EndDispatch(s) \/ Drain(s) \/ Return(s)
           \/ Consume(s) \/ Resume(s)
  <2>1. task' = task /\ permits' = permits /\ (InWith(s)' <=> InWith(s))
    BY <1>2, <1>7 DEF Start, Wait, Dispatch, EndDispatch, Drain, Draining, Return, Consume,
       Resume, Goto, InWith
  <2> QED
    BY <1>6, <2>1
<1>8. CASE EnterWith(s)
  <2>1. /\ task' = task /\ permits[s] > 0 /\ permits'[s] = permits[s] - 1
        /\ ~ InWith(s) /\ InWith(s)'
    BY <1>2, <1>8 DEF EnterWith, Goto, InWith
  <2>2. heldNext = held
    BY <2>1, Zenon DEF Holders, held, heldNext
  <2> QED
    BY <1>2, <1>3, <1>4, <1>5, <2>1, <2>2
<1>9. CASE CreateTask(s)
  <2> DEFINE n == FirstEntry(filePieces[s])[2]
  <2>1. /\ at[s] = "acquire" /\ permits[s] > 0 /\ permits'[s] = permits[s] - 1
        /\ InWith(s) /\ InWith(s)'
    BY <1>2, <1>9 DEF CreateTask, Goto, InWith
  <2>2. n \in Nums /\ task[s][n] \in {"none", "invalid"}
    BY <2>1, EntryTaken DEF Queued
  <2>3. task'[s] = [task[s] EXCEPT ![n] = "running"]
    BY <1>2, <1>9 DEF CreateTask
  <2> HIDE DEF n
  <2>4. Holders(s)' = Holders(s) \cup {n} /\ n \notin Holders(s)
    BY <1>2, <2>2, <2>3 DEF Holders
  <2>5. heldNext = held + 1
    BY <1>3, <2>4, FS_AddElement DEF held, heldNext
  <2> QED
    BY <1>2, <1>3, <1>4, <1>5, <2>1, <2>5
<1>10. ASSUME EndScan(s) \/ (\E n \in Nums : TakeRaises(s, n))
       PROVE  permits'[s] \in 0 .. MaxConcurrent /\ PermitsOf(s)'
  <2>1. task' = task /\ permits'[s] = permits[s] + 1 /\ InWith(s) /\ ~ InWith(s)'
    BY <1>2, <1>10 DEF EndScan, TakeRaises, TakeResult, Goto, InWith
  <2>2. heldNext = held
    BY <2>1, Zenon DEF Holders, held, heldNext
  <2> QED
    BY <1>2, <1>3, <1>4, <1>5, <2>1, <2>2
<1>11. ASSUME NEW n \in Nums, TakeInvalid(s, n) \/ TakeValid(s, n)
       PROVE  permits'[s] \in 0 .. MaxConcurrent /\ PermitsOf(s)'
  <2>1. task' = task /\ permits' = permits /\ (InWith(s)' <=> InWith(s))
    BY <1>2, <1>11 DEF TakeInvalid, TakeValid, TakeResult, Goto, InWith
  <2> QED
    BY <1>6, <2>1
<1>12. CASE Abandon(s)
  <2>1. /\ task' = task /\ ~ InWith(s)'
        /\ permits'[s] = IF InWith(s) THEN permits[s] + 1 ELSE permits[s]
    BY <1>2, <1>12 DEF Abandon, Goto, InWith
  <2>2. heldNext = held
    BY <2>1, Zenon DEF Holders, held, heldNext
  <2> QED
    BY <1>2, <1>3, <1>4, <1>5, <2>1, <2>2
<1>13. ASSUME NEW n \in Nums, TaskReturns(s, n)
       PROVE  permits'[s] \in 0 .. MaxConcurrent /\ PermitsOf(s)'
  <2>1. /\ permits'[s] = permits[s] + 1 /\ (InWith(s)' <=> InWith(s))
        /\ task[s][n] = "running"
    BY <1>2, <1>13 DEF TaskReturns, InWith
  <2>2. PICK verdict \in {"valid", "invalid"} : task'[s] = [task[s] EXCEPT ![n] = verdict]
    BY <1>2, <1>13 DEF TaskReturns
  <2>3. Holders(s)' = Holders(s) \ {n} /\ n \in Holders(s)
    BY <1>2, <2>1, <2>2 DEF Holders
  <2>4. heldNext = held - 1
    BY <1>3, <2>3, FS_RemoveElement DEF held, heldNext
  <2> QED
    BY <1>2, <1>3, <1>4, <1>5, <2>1, <2>4
<1>14. ASSUME NEW n \in Nums, TaskRaises(s, n)
       PROVE  permits'[s] \in 0 .. MaxConcurrent /\ PermitsOf(s)'
  <2>1. /\ permits'[s] = permits[s] /\ (InWith(s)' <=> InWith(s))
        /\ task[s][n] = "running" /\ task'[s] = [task[s] EXCEPT ![n] = "failed"]
    BY <1>2, <1>14 DEF TaskRaises, InWith
  <2>2. Holders(s)' = Holders(s)
    BY <1>2, <2>1 DEF Holders
  <2>3. heldNext = held
    BY <2>2, Zenon DEF held, heldNext
  <2> QED
    BY <1>2, <1>3, <1>4, <1>5, <2>1, <2>3
<1> QED
  BY <1>7, <1>8, <1>9, <1>10, <1>11, <1>12, <1>13, <1>14 DEF StreamNext

LEMMA StepQueued ==
  ASSUME Types, NEW s \in Streams, StreamNext(s), Queued(s)
  PROVE  Queued(s)'
<1>1. /\ DOMAIN at = Streams /\ DOMAIN filePieces = Streams /\ DOMAIN task = Streams
      /\ DOMAIN taskList = Streams /\ task[s] \in [Nums -> Verdicts]
      /\ taskList[s] \in Seq(Nums) /\ filePieces[s] \subseteq Entries
  BY DEF Types
<1>2. \A e \in filePieces[s] : e[2] \in Nums
  BY <1>1 DEF Entries
(* These only go from place to place.                                      *)
<1>3. ASSUME filePieces' = filePieces, task' = task, taskList' = taskList,
             at'[s] # "idle", at'[s] = "acquire" => filePieces[s] # {}
      PROVE  Queued(s)'
  BY <1>3 DEF Queued
<1>4. CASE EnterWith(s) \/ Wait(s) \/ EndScan(s) \/ Dispatch(s) \/ EndDispatch(s)
           \/ Drain(s) \/ Return(s) \/ Consume(s) \/ Resume(s) \/ Abandon(s)
  <2>1. /\ filePieces' = filePieces /\ task' = task /\ taskList' = taskList
        /\ at'[s] # "idle" /\ (at'[s] = "acquire" => filePieces[s] # {})
    BY <1>1, <1>4 DEF EnterWith, Wait, EndScan, Dispatch, EndDispatch, Drain, Return,
       Consume, Resume, Abandon, Goto, Queued
  <2> QED
    BY <1>3, <2>1
<1>5. CASE Start(s)
  <2>1. /\ filePieces'[s] = {PiecePriority} \X PiecesOf(s) /\ at'[s] = "while"
        /\ taskList[s] = <<>> /\ \A n \in Nums : task[s][n] = "none"
        /\ task' = task /\ taskList' = taskList
    BY <1>1, <1>5 DEF Start, Goto, Queued
  <2>2. PiecesOf(s) \subseteq Nums
    BY DEF Nums
  <2> QED
    BY <2>1, <2>2 DEF Queued
<1>6. CASE CreateTask(s)
  <2> DEFINE e == FirstEntry(filePieces[s])
  <2>1. /\ at'[s] = "scan" /\ filePieces'[s] = filePieces[s] \ {e}
        /\ task'[s] = [task[s] EXCEPT ![e[2]] = "running"]
        /\ taskList'[s] = Append(taskList[s], e[2])
    BY <1>1, <1>6 DEF CreateTask, Goto
  <2>2. e \in filePieces[s] /\ e[2] \in Nums
    BY <1>6, EntryTaken DEF CreateTask, Queued
  <2> HIDE DEF e
  <2> DEFINE q == taskList[s]
             r == taskList'[s]
  <2>3. /\ Len(q) \in Nat /\ DOMAIN q = 1 .. Len(q) /\ DOMAIN r = 1 .. Len(q) + 1
        /\ \A i \in 1 .. Len(q) : r[i] = q[i]
        /\ r[Len(q) + 1] = e[2]
    BY <1>1, <2>1, <2>2
  <2>4. /\ \A i \in DOMAIN q : q[i] # e[2]
        /\ \A i, j \in DOMAIN q : q[i] = q[j] => i = j
    BY <2>2 DEF Queued
  <2> HIDE DEF q, r
  <2>5. \A i, j \in DOMAIN r : r[i] = r[j] => i = j
    BY <2>3, <2>4
  <2>6. ASSUME NEW f \in filePieces'[s]
        PROVE  /\ task'[s][f[2]] \in {"none", "invalid"}
               /\ \A i \in DOMAIN r : r[i] # f[2]
    <3>1. f \in filePieces[s] /\ f[2] # e[2] /\ f[2] \in Nums
      BY <1>2, <2>1, <2>2 DEF Queued
    <3>2. task'[s][f[2]] = task[s][f[2]] /\ task[s][f[2]] \in {"none", "invalid"}
      BY <1>1, <2>1, <3>1 DEF Queued
    <3>3. \A i \in DOMAIN q : q[i] # f[2]
      BY <3>1 DEF Queued, q
    <3> QED
      BY <2>3, <3>1, <3>2, <3>3
  <2>7. \A f, g \in filePieces'[s] : f[2] = g[2] => f = g
    BY <2>1 DEF Queued
  <2> QED
    BY <2>1, <2>5, <2>6, <2>7 DEF Queued, r
<1>7. ASSUME NEW n \in Nums, TakeInvalid(s, n) \/ TakeValid(s, n) \/ TakeRaises(s, n)
      PROVE  Queued(s)'
  <2> DEFINE q == taskList[s]
             r == taskList'[s]
  <2>1. TakeResult(s, n)
    BY <1>7 DEF TakeInvalid, TakeValid, TakeRaises
  <2>2. /\ index[s] \in DOMAIN q /\ n = q[index[s]] /\ r = RemoveAt(q, index[s])
        /\ q \in Seq(Nums)
    BY <1>1, <2>1, TakenFacts
  <2>3. \A i, j \in DOMAIN q : q[i] = q[j] => i = j
    BY DEF Queued
  <2> HIDE DEF q, r
  <2>4. /\ \A i, j \in DOMAIN r : r[i] = r[j] => i = j
        /\ \A i \in DOMAIN r : r[i] # n /\ \E j \in DOMAIN q : r[i] = q[j]
    BY <2>2, <2>3, RemovedOnce
  <2>5. ASSUME NEW e \in filePieces[s]
        PROVE  /\ task[s][e[2]] \in {"none", "invalid"} /\ e[2] # n
               /\ \A i \in DOMAIN r : r[i] # e[2]
    <3>1. \A i \in DOMAIN q : q[i] # e[2]
      BY DEF Queued, q
    <3> QED
      BY <2>2, <2>4, <3>1 DEF Queued
  <2>6. task' = task
    BY <2>1 DEF TakeResult
  <2>7. CASE TakeInvalid(s, n)
    <3>1. /\ filePieces'[s] = filePieces[s] \cup {<<RetryPriority, n>>}
          /\ task[s][n] = "invalid" /\ at' = at /\ at[s] = "scan"
      BY <1>1, <2>1, <2>7 DEF TakeInvalid, TakeResult
    <3>2. ASSUME NEW e \in filePieces'[s]
          PROVE  /\ task'[s][e[2]] \in {"none", "invalid"}
                 /\ \A i \in DOMAIN r : r[i] # e[2]
      BY <2>4, <2>5, <2>6, <3>1
    <3>3. \A e, f \in filePieces'[s] : e[2] = f[2] => e = f
      BY <2>5, <3>1 DEF Queued
    <3> QED
      BY <2>4, <3>1, <3>2, <3>3 DEF Queued, r
  <2>8. CASE TakeValid(s, n) \/ TakeRaises(s, n)
    <3>1. filePieces' = filePieces /\ at'[s] \in {"dispatch", "raised"}
      BY <1>1, <2>8 DEF TakeValid, TakeRaises, Goto
    <3> QED
      BY <2>4, <2>5, <2>6, <3>1 DEF Queued, r
  <2> QED
    BY <1>7, <2>7, <2>8
<1>8. ASSUME NEW n \in Nums, TaskReturns(s, n) \/ TaskRaises(s, n)
      PROVE  Queued(s)'
  <2>1. PICK v \in Verdicts : task'[s] = [task[s] EXCEPT ![n] = v]
    BY <1>1, <1>8 DEF TaskReturns, TaskRaises, Verdicts
  <2>2. task[s][n] = "running" /\ at' = at /\ filePieces' = filePieces /\ taskList' = taskList
    BY <1>8 DEF TaskReturns, TaskRaises
  <2>3. at[s] # "idle"
    BY <2>2 DEF Queued
  <2>4. \A e \in filePieces[s] : task'[s][e[2]] = task[s][e[2]]
    BY <1>1, <1>2, <2>1, <2>2 DEF Queued
  <2> QED
    BY <2>2, <2>3, <2>4 DEF Queued
<1> QED
  BY <1>4, <1>5, <1>6, <1>7, <1>8 DEF StreamNext

LEMMA StepInvariant == Inv /\ [Next]_vars => Inv'
<1> SUFFICES ASSUME Inv, [Next]_vars PROVE Inv'
  OBVIOUS
<1>1. Types /\ \A s \in Streams : PermitsOf(s) /\ Queued(s)
  BY TypesNamed DEF Inv
<1>2. CASE UNCHANGED vars
  <2>1. TypeOK'
    BY <1>2 DEF Inv, TypeOK, vars
  <2>2. ASSUME NEW s \in Streams PROVE PermitsOf(s)' /\ Queued(s)'
    <3>1. Same(s)
      BY <1>2 DEF Same, vars
    <3> QED
      BY <1>1, <3>1, SameHolds
  <2> QED
    BY <2>1, <2>2 DEF Inv
<1>3. ASSUME NEW s \in Streams, StreamNext(s) PROVE Inv'
  <2>1. /\ permits' = [permits EXCEPT ![s] = permits'[s]]
        /\ permits'[s] \in 0 .. MaxConcurrent /\ PermitsOf(s)'
    BY <1>1, <1>3, StepPermits, Zenon
  <2>2. Queued(s)'
    BY <1>1, <1>3, StepQueued
  <2>3. permits' \in [Streams -> 0 .. MaxConcurrent]
    BY <1>1, <2>1 DEF Types
  <2>4. at[s] = "acquire" => filePieces[s] # {}
    BY <1>1 DEF Queued
  <2>5. TypeOK'
    BY <1>1, <1>3, <2>3, <2>4, StepTypes, TypesNamedNext
  <2>6. ASSUME NEW u \in Streams PROVE PermitsOf(u)' /\ Queued(u)'
    <3>1. CASE u = s
      BY <2>1, <2>2, <3>1
    <3>2. CASE u # s
      <4>1. Same(u)
        BY <1>1, <1>3, <3>2, OthersSame
      <4> QED
        BY <1>1, <4>1, SameHolds
    <3> QED
      BY <3>1, <3>2
  <2> QED
    BY <2>5, <2>6 DEF Inv
<1> QED
  BY <1>2, <1>3, NextIsStreamNext

LEMMA Invariant == Spec => []Inv
BY InitInvariant, StepInvariant, PTL DEF Spec

-----------------------------------------------------------------------------
(* get_file_sequential: the state keeps its types, for any number of       *)
(* streams; no permit is released that was not taken, and a piece is there *)
(* when the generator has got its two permits.                             *)
THEOREM SequentialTypeCorrect == Spec => []TypeOK
<1>1. Inv => TypeOK
  BY DEF Inv
<1> QED
  BY <1>1, Invariant, PTL

(* The semaphore of get_file_sequential and Piece.download: the permits    *)
(* that are missing are those of the with statement and of the coroutines  *)
(* that run or have raised, although rejected pieces are fetched again.    *)
THEOREM PermitsNeverDrift == Spec => []PermitsAccounted
<1>1. Inv => PermitsAccounted
  BY Zenon DEF Inv, PermitsOf, Holders, PermitsAccounted
<1> QED
  BY <1>1, Invariant, PTL

-----------------------------------------------------------------------------
(* The invariant of a stream by itself. Each piece is in one of four       *)
(* places, and the dispatcher has at most one object for it; ...           *)
Queue == NumsOf(queue)
Apart ==
  /\ Unfetched(first) \cap InTaskList(first) = {} /\ Unfetched(first) \cap Queue = {}
  /\ Unfetched(first) \cap Yielded(first) = {} /\ InTaskList(first) \cap Queue = {}
  /\ InTaskList(first) \cap Yielded(first) = {} /\ Queue \cap Yielded(first) = {}
Covered ==
  at[first] \notin EndStates \cup {"idle"} =>
    Nums = Unfetched(first) \cup InTaskList(first) \cup Queue \cup Yielded(first)
Parted ==
  /\ \A x, y \in queue : x.num = y.num => x = y
  /\ at[first] = "idle" => queue = {} /\ output[first] = <<>>
  /\ Apart /\ Covered

(* ... up to the end of the loop current counts what was yielded, and      *)
(* after it what is yielded is below all that is left.                     *)
Counting == {"idle", "while", "acquire", "scan", "dispatch", "yielded"}
Below == \A y \in Yielded(first), n \in Queue : y < n
Ordered ==
  /\ at[first] \in Counting => Yielded(first) = FirstPiece[first] .. current[first] - 1
  /\ at[first] \in {"drain", "drained"} => Below
  /\ \A i, j \in 1 .. Len(output[first]) :
       i < j => output[first][i].num < output[first][j].num

AllGood ==
  /\ \A x \in queue : x.good = TRUE
  /\ \A i \in DOMAIN output[first] : output[first][i].good = TRUE

Single == Inv /\ Parted /\ Ordered /\ AllGood

LEMMA OneFile == ASSUME Streams = {first} PROVE Nums = PiecesOf(first)
BY DEF Nums

(* The four places hold pieces of the file.                                *)
LEMMA PlacesTyped ==
  ASSUME Types, Streams = {first}
  PROVE  /\ Unfetched(first) \subseteq Nums /\ InTaskList(first) \subseteq Nums
         /\ Queue \subseteq Nums /\ Yielded(first) \subseteq Nums
<1>1. filePieces[first] \subseteq Entries /\ taskList[first] \in Seq(Nums)
      /\ queue \subseteq PieceObjects /\ output[first] \in Seq(PieceObjects)
  BY DEF Types
<1>2. Unfetched(first) \subseteq Nums
  BY <1>1 DEF Unfetched, Entries
<1>3. InTaskList(first) \subseteq Nums
  BY <1>1 DEF InTaskList
<1>4. Queue \subseteq Nums
  BY <1>1 DEF Queue, NumsOf, PieceObjects
<1>5. Yielded(first) \subseteq Nums
  <2>1. \A i \in DOMAIN output[first] : output[first][i] \in PieceObjects
    BY <1>1
  <2> QED
    BY <2>1 DEF Yielded, PieceObjects
<1> QED
  BY <1>2, <1>3, <1>4, <1>5

(* The operations move one piece each, ...                                 *)
LEMMA CreateTaskMoves ==
  ASSUME Inv, Streams = {first}, CreateTask(first)
  PROVE  \E n \in Unfetched(first) :
           /\ Unfetched(first)' = Unfetched(first) \ {n}
           /\ InTaskList(first)' = InTaskList(first) \cup {n}
<1>0. Types /\ Queued(first)
  BY TypesNamed DEF Inv
<1> DEFINE e == FirstEntry(filePieces[first])
           q == taskList[first]
<1>1. e \in filePieces[first] /\ e[2] \in Nums
  BY <1>0, EntryTaken DEF CreateTask, Queued
<1>2. filePieces'[first] = filePieces[first] \ {e} /\ taskList'[first] = Append(q, e[2])
      /\ q \in Seq(Nums)
  BY <1>0 DEF CreateTask, Types
<1> HIDE DEF e
<1>3. \A f \in filePieces[first] : f[2] = e[2] => f = e
  BY <1>0, <1>1 DEF Queued
<1>4. Unfetched(first)' = Unfetched(first) \ {e[2]} /\ e[2] \in Unfetched(first)
  BY <1>1, <1>2, <1>3 DEF Unfetched
<1>5. InTaskList(first)' = InTaskList(first) \cup {e[2]}
  <2>1. /\ Len(q) \in Nat /\ DOMAIN q = 1 .. Len(q)
        /\ DOMAIN taskList'[first] = 1 .. Len(q) + 1
        /\ \A i \in 1 .. Len(q) : taskList'[first][i] = q[i]
        /\ taskList'[first][Len(q) + 1] = e[2]
    BY <1>1, <1>2
  <2> HIDE DEF q
  <2>2. \A n : (\E i \in 1 .. Len(q) + 1 : taskList'[first][i] = n)
                 <=> (\E i \in 1 .. Len(q) : q[i] = n) \/ n = e[2]
    BY <2>1
  <2> QED
    <3>1. InTaskList(first)' = {taskList'[first][i] : i \in 1 .. Len(q) + 1}
      BY <2>1 DEF InTaskList
    <3>2. InTaskList(first) = {q[i] : i \in 1 .. Len(q)}
      BY <2>1 DEF InTaskList, q
    <3> QED
      BY <2>2, <3>1, <3>2
<1> QED
  BY <1>4, <1>5

LEMMA TakeMoves ==
  ASSUME Inv, Streams = {first}, NEW n \in Nums, TakeResult(first, n)
  PROVE  /\ n \in InTaskList(first)
         /\ InTaskList(first)' = InTaskList(first) \ {n}
<1>0. Types /\ Queued(first)
  BY TypesNamed DEF Inv
<1> DEFINE q == taskList[first]
           k == index[first]
           r == taskList'[first]
<1>1. k \in DOMAIN q /\ n = q[k] /\ r = RemoveAt(q, k) /\ q \in Seq(Nums)
  BY <1>0, TakenFacts DEF Types
<1>2. \A i, j \in DOMAIN q : q[i] = q[j] => i = j
  BY <1>0 DEF Queued
<1> HIDE DEF q, k, r
<1>3. /\ \A i \in DOMAIN r : r[i] # n /\ \E j \in DOMAIN q : r[i] = q[j]
      /\ \A j \in DOMAIN q : j # k => \E i \in DOMAIN r : r[i] = q[j]
  BY <1>1, <1>2, RemovedOnce
<1>4. {r[i] : i \in DOMAIN r} = {q[i] : i \in DOMAIN q} \ {n}
  BY <1>1, <1>3
<1> QED
  BY <1>1, <1>4 DEF InTaskList, q, r

LEMMA YieldMoves ==
  ASSUME Inv, Parted, Streams = {first}, NEW x \in queue, queue' = queue \ {x},
         output' = [output EXCEPT ![first] = Append(output[first], x)]
  PROVE  /\ x.num \in Queue /\ x.num \in Nums
         /\ Queue' = Queue \ {x.num} /\ Yielded(first)' = Yielded(first) \cup {x.num}
<1>0. Types
  BY TypesNamed DEF Inv
<1> DEFINE q == output[first]
<1>1. /\ x \in PieceObjects /\ q \in Seq(PieceObjects) /\ output'[first] = Append(q, x)
      /\ \A y \in queue : y.num = x.num => y = x
  BY <1>0 DEF Types, Parted
<1>2. Queue' = Queue \ {x.num} /\ x.num \in Queue
  BY <1>1 DEF Queue, NumsOf
<1>3. Yielded(first)' = Yielded(first) \cup {x.num}
  <2>1. /\ Len(q) \in Nat /\ DOMAIN q = 1 .. Len(q)
        /\ DOMAIN output'[first] = 1 .. Len(q) + 1
        /\ \A i \in 1 .. Len(q) : output'[first][i] = q[i]
        /\ output'[first][Len(q) + 1] = x
    BY <1>1
  <2> HIDE DEF q
  <2>2. \A n : (\E i \in 1 .. Len(q) + 1 : output'[first][i].num = n)
                 <=> (\E i \in 1 .. Len(q) : q[i].num = n) \/ n = x.num
    BY <2>1
  <2> QED
    BY <2>1, <2>2 DEF Yielded, q
<1> QED
  BY <1>1, <1>2, <1>3 DEF PieceObjects

(* ... or none.                                                            *)
Moveless ==
  /\ filePieces' = filePieces /\ taskList' = taskList /\ queue' = queue
  /\ output' = output /\ current' = current

LEMMA NoMoves ==
  ASSUME Types, Streams = {first},
         \/ EnterWith(first) \/ Wait(first) \/ EndScan(first) \/ EndDispatch(first)
         \/ Return(first) \/ Consume(first) \/ Resume(first) \/ Abandon(first)
         \/ \E n \in Nums : TaskReturns(first, n) \/ TaskRaises(first, n)
  PROVE  /\ Moveless
         /\ at'[first] = "idle" => at[first] = "idle"
         /\ at'[first] \notin EndStates \cup {"idle"} =>
              at[first] \notin EndStates \cup {"idle"}
         /\ at'[first] \in Counting => at[first] \in Counting
         /\ at'[first] \in {"drain", "drained"} => at[first] \in {"drain", "drained"}
<1>1. DOMAIN at = Streams
  BY DEF Types
<1>2. Moveless
  BY DEF Moveless, EnterWith, Wait, EndScan, EndDispatch, Return, Consume, Resume, Abandon,
     TaskReturns, TaskRaises
<1>3. /\ at'[first] = "idle" => at[first] = "idle"
      /\ at'[first] \notin EndStates \cup {"idle"} =>
           at[first] \notin EndStates \cup {"idle"}
      /\ at'[first] \in Counting => at[first] \in Counting
      /\ at'[first] \in {"drain", "drained"} => at[first] \in {"drain", "drained"}
  BY <1>1 DEF EndStates, Counting, Goto, EnterWith, Wait, EndScan, EndDispatch, Return,
     Consume, Resume, Abandon, TaskReturns, TaskRaises
<1> QED
  BY <1>2, <1>3

LEMMA MovelessKeeps ==
  ASSUME Moveless
  PROVE  /\ Unfetched(first)' = Unfetched(first) /\ InTaskList(first)' = InTaskList(first)
         /\ Queue' = Queue /\ Yielded(first)' = Yielded(first)
BY DEF Moveless, Unfetched, InTaskList, Queue, NumsOf, Yielded

LEMMA StepParted ==
  ASSUME Inv, Streams = {first}, StreamNext(first), Parted
  PROVE  Parted'
<1> DEFINE U == Unfetched(first)
           T == InTaskList(first)
           Y == Yielded(first)
<1>1. Types /\ Queued(first) /\ DOMAIN at = Streams /\ DOMAIN filePieces = Streams
      /\ DOMAIN task = Streams
  BY TypesNamed DEF Inv, Types
<1>2. U \subseteq Nums /\ T \subseteq Nums /\ Queue \subseteq Nums /\ Y \subseteq Nums
  BY <1>1, PlacesTyped
<1>3. /\ Apart /\ Covered /\ \A x, y \in queue : x.num = y.num => x = y
  BY DEF Parted
<1>4. CASE \/ EnterWith(first) \/ Wait(first) \/ EndScan(first) \/ EndDispatch(first)
           \/ Return(first) \/ Consume(first) \/ Resume(first) \/ Abandon(first)
           \/ \E n \in Nums : TaskReturns(first, n) \/ TaskRaises(first, n)
  <2>1. /\ Moveless
        /\ at'[first] = "idle" => at[first] = "idle"
        /\ at'[first] \notin EndStates \cup {"idle"} =>
             at[first] \notin EndStates \cup {"idle"}
    BY <1>1, <1>4, NoMoves
  <2>2. U' = U /\ T' = T /\ Queue' = Queue /\ Y' = Y
    BY <2>1, MovelessKeeps, Zenon
  <2> HIDE DEF U, T, Y
  <2>3. Apart' /\ Covered'
    BY <1>3, <2>1, <2>2, Zenon DEF Apart, Covered, U, T, Y
  <2> QED
    <3>1. queue' = queue /\ output' = output
      BY <2>1 DEF Moveless
    <3>2. at'[first] = "idle" => queue' = {} /\ output'[first] = <<>>
      BY <2>1, <3>1 DEF Parted
    <3> QED
      BY <1>3, <2>3, <3>1, <3>2, Zenon DEF Parted
<1>5. CASE Start(first)
  <2>1. /\ filePieces'[first] = {PiecePriority} \X Nums /\ at'[first] = "while"
        /\ taskList' = taskList /\ queue' = queue /\ output' = output
        /\ at[first] = "idle"
    BY <1>1, <1>5, OneFile DEF Start, Goto
  <2>2. taskList[first] = <<>> /\ queue = {} /\ output[first] = <<>>
    BY <1>1, <2>1 DEF Queued, Parted
  <2>3. U' = Nums
    <3>1. \A n \in Nums : <<PiecePriority, n>> \in filePieces'[first]
      BY <2>1
    <3>2. \A e \in filePieces'[first] : e[2] \in Nums
      BY <2>1
    <3>3. \A n \in Nums : <<PiecePriority, n>>[2] = n
      OBVIOUS
    <3> QED
      BY <3>1, <3>2, <3>3 DEF Unfetched
  <2>4. T' = {} /\ Queue' = {} /\ Y' = {}
    BY <2>1, <2>2 DEF InTaskList, Queue, NumsOf, Yielded
  <2> HIDE DEF U, T, Y
  <2>5. Apart' /\ Covered'
    BY <2>3, <2>4 DEF Apart, Covered, U, T, Y
  <2> QED
    BY <2>1, <2>2, <2>5 DEF Parted
<1>6. CASE CreateTask(first)
  <2>1. PICK n \in U : U' = U \ {n} /\ T' = T \cup {n}
    BY <1>6, CreateTaskMoves
  <2>2. /\ queue' = queue /\ output' = output
        /\ at[first] = "acquire" /\ at'[first] = "scan"
    BY <1>1, <1>6 DEF CreateTask, Goto
  <2>3. Queue' = Queue /\ Y' = Y
    BY <2>2 DEF Queue, NumsOf, Yielded
  <2>4. Nums = U \cup T \cup Queue \cup Y
    BY <1>3, <2>2 DEF Covered, EndStates
  <2>5. Apart' /\ Covered'
    <3> HIDE DEF U, T, Y
    <3>1. /\ U \cap T = {} /\ U \cap Queue = {} /\ U \cap Y = {} /\ T \cap Queue = {}
          /\ T \cap Y = {} /\ Queue \cap Y = {}
      BY <1>3 DEF Apart, U, T, Y
    <3> QED
      BY <2>1, <2>3, <2>4, <3>1 DEF Apart, Covered, U, T, Y
  <2> QED
    BY <1>3, <2>2, <2>5 DEF Parted
<1>7. ASSUME NEW n \in Nums,
             TakeInvalid(first, n) \/ TakeValid(first, n) \/ TakeRaises(first, n)
      PROVE  Parted'
  <2>1. TakeResult(first, n) /\ at[first] = "scan" /\ output' = output
    BY <1>7 DEF TakeInvalid, TakeValid, TakeRaises, TakeResult
  <2>2. n \in T /\ T' = T \ {n}
    BY <2>1, TakeMoves
  <2>3. Y' = Y
    BY <2>1 DEF Yielded
  <2>4. Nums = U \cup T \cup Queue \cup Y
    BY <1>3, <2>1 DEF Covered, EndStates
  <2> HIDE DEF U, T, Y
  <2>5. /\ U \cap T = {} /\ U \cap Queue = {} /\ U \cap Y = {} /\ T \cap Queue = {}
        /\ T \cap Y = {} /\ Queue \cap Y = {}
    BY <1>3 DEF Apart, U, T, Y
  <2>6. CASE TakeInvalid(first, n)
    <3>1. /\ filePieces'[first] = filePieces[first] \cup {<<RetryPriority, n>>}
          /\ queue' = queue /\ at' = at
      BY <1>1, <2>6 DEF TakeInvalid
    <3>2. U' = U \cup {n}
      <4>1. <<RetryPriority, n>>[2] = n
        OBVIOUS
      <4> DEFINE x == <<RetryPriority, n>>
      <4> HIDE DEF x
      <4>2. filePieces'[first] = filePieces[first] \cup {x} /\ x[2] = n
        BY <3>1, <4>1 DEF x
      <4> QED
        BY <4>2 DEF Unfetched, U
    <3>3. Queue' = Queue
      BY <3>1 DEF Queue, NumsOf
    <3>4. Apart' /\ Covered'
      BY <2>2, <2>3, <2>4, <2>5, <3>2, <3>3 DEF Apart, Covered, U, T, Y
    <3> QED
      BY <1>3, <2>1, <3>1, <3>4 DEF Parted
  <2>7. CASE TakeValid(first, n)
    <3>1. /\ filePieces' = filePieces /\ queue' = queue \cup {Piece(n, task[first][n] = "valid")}
          /\ at'[first] = "dispatch"
      BY <1>1, <2>7 DEF TakeValid, Goto
    <3>2. U' = U
      BY <3>1 DEF Unfetched, U
    <3>3. Queue' = Queue \cup {n}
      <4> DEFINE x == Piece(n, task[first][n] = "valid")
      <4>1. x.num = n
        BY DEF Piece
      <4> HIDE DEF x
      <4>2. queue' = queue \cup {x}
        BY <3>1 DEF x
      <4> QED
        BY <4>1, <4>2 DEF Queue, NumsOf
    <3>4. Apart' /\ Covered'
      BY <2>2, <2>3, <2>4, <2>5, <3>2, <3>3 DEF Apart, Covered, U, T, Y
    <3>5. \A x \in queue : x.num # n
      BY <2>2, <2>5 DEF Queue, NumsOf
    <3>6. \A x, y \in queue' : x.num = y.num => x = y
      BY <1>3, <3>1, <3>5 DEF Piece
    <3> QED
      BY <3>1, <3>4, <3>6 DEF Parted
  <2>8. CASE TakeRaises(first, n)
    <3>1. filePieces' = filePieces /\ queue' = queue /\ at'[first] = "raised"
      BY <1>1, <2>8 DEF TakeRaises, Goto
    <3>2. U' = U /\ Queue' = Queue
      BY <3>1 DEF Unfetched, Queue, NumsOf, U
    <3>3. Apart'
      BY <2>2, <2>3, <2>5, <3>2 DEF Apart, U, T, Y
    <3>4. Covered'
      BY <3>1 DEF Covered, EndStates
    <3> QED
      BY <1>3, <3>1, <3>3, <3>4 DEF Parted
  <2> QED
    BY <1>7, <2>6, <2>7, <2>8
<1>8. CASE Dispatch(first) \/ Drain(first)
  <2>1. PICK x \in queue : /\ queue' = queue \ {x}
                           /\ output' = [output EXCEPT ![first] = Append(output[first], x)]
    BY <1>8 DEF Dispatch, Drain, Lowest
  <2>2. /\ x.num \in Queue /\ Queue' = Queue \ {x.num} /\ Y' = Y \cup {x.num}
    BY <2>1, YieldMoves
  <2>3. /\ filePieces' = filePieces /\ taskList' = taskList
        /\ at[first] \in {"dispatch", "drain", "while"} /\ at'[first] \in {"yielded", "drained"}
    BY <1>1, <1>8 DEF Dispatch, Drain, Draining, Goto
  <2>4. U' = U /\ T' = T
    BY <2>3 DEF Unfetched, InTaskList
  <2>5. Nums = U \cup T \cup Queue \cup Y
    BY <1>3, <2>3 DEF Covered, EndStates
  <2>6. Apart' /\ Covered'
    <3> HIDE DEF U, T, Y
    <3>1. /\ U \cap T = {} /\ U \cap Queue = {} /\ U \cap Y = {} /\ T \cap Queue = {}
          /\ T \cap Y = {} /\ Queue \cap Y = {}
      BY <1>3 DEF Apart, U, T, Y
    <3> QED
      BY <2>2, <2>4, <2>5, <3>1 DEF Apart, Covered, U, T, Y
  <2> QED
    BY <1>3, <2>1, <2>3, <2>6 DEF Parted
<1> QED
  BY <1>4, <1>5, <1>6, <1>7, <1>8 DEF StreamNext

(* Whatever was yielded is below all that the dispatcher holds.            *)
LEMMA QueueIsAhead ==
  ASSUME Inv, Streams = {first}, Parted, Ordered,
         at[first] \in Counting \cup {"drain", "drained"}
  PROVE  Below
<1>1. CASE at[first] \in Counting
  <2>1. Types /\ Queue \subseteq Nums /\ Queue \cap Yielded(first) = {}
    BY PlacesTyped, TypesNamed DEF Inv, Parted, Apart
  <2>2. Yielded(first) = FirstPiece[first] .. current[first] - 1
    BY <1>1 DEF Ordered
  <2>3. FirstPiece[first] \in Nat /\ current[first] \in Nat
    BY <2>1, SequentialAssumption DEF Types
  <2>4. ASSUME NEW y \in Yielded(first), NEW n \in Queue PROVE y < n
    <3>1. n \notin Yielded(first) /\ n \in Nums
      BY <2>1
    <3>2. n \in Nat /\ n >= FirstPiece[first]
      BY <3>1, OneFile, SequentialAssumption DEF PiecesOf
    <3> QED
      BY <2>2, <2>3, <2>4, <3>1, <3>2
  <2> QED
    BY <2>4 DEF Below
<1> QED
  BY <1>1 DEF Ordered

(* A yield: the piece of the lowest number comes after all that came.      *)
LEMMA YieldAscends ==
  ASSUME Inv, Streams = {first}, Parted, Ordered, Below, NEW x \in Lowest(queue),
         queue' = queue \ {x},
         output' = [output EXCEPT ![first] = Append(output[first], x)]
  PROVE  /\ Below'
         /\ (\A i, j \in 1 .. Len(output[first]) :
               i < j => output[first][i].num < output[first][j].num)'
<1> DEFINE q == output[first]
           r == output'[first]
           Y == Yielded(first)
<1>1. Types /\ x \in queue /\ \A z \in queue : x.num <= z.num
  BY TypesNamed DEF Inv, Lowest
<1>2. /\ x.num \in Queue /\ Queue' = Queue \ {x.num} /\ Y' = Y \cup {x.num}
  BY <1>1, YieldMoves
<1>3. Queue \subseteq Nat /\ Y \subseteq Nat
  BY <1>1, PlacesTyped, NumsNat
<1>4. ASSUME NEW y \in Y', NEW n \in Queue' PROVE y < n
  <2>1. n \in Queue /\ n # x.num
    BY <1>2
  <2>2. x.num <= n
    BY <1>1, <2>1 DEF Queue, NumsOf
  <2>3. CASE y \in Y
    BY <2>1, <2>3 DEF Below
  <2>4. CASE y = x.num
    <3>1. x.num \in Nat /\ n \in Nat
      BY <1>2, <1>3, <2>1
    <3> HIDE DEF Y
    <3> QED
      BY <2>1, <2>2, <2>4, <3>1
  <2> QED
    BY <1>2, <2>3, <2>4
<1>5. Below'
  <2> HIDE DEF Y
  <2> QED
    BY <1>4 DEF Below, Y
<1>6. ASSUME NEW i \in 1 .. Len(r), NEW j \in 1 .. Len(r), i < j
      PROVE  r[i].num < r[j].num
  <2>1. /\ q \in Seq(PieceObjects) /\ r = Append(q, x)
    BY <1>1 DEF Types
  <2>2. /\ Len(q) \in Nat /\ Len(r) = Len(q) + 1 /\ r[Len(q) + 1] = x
        /\ \A k \in 1 .. Len(q) : r[k] = q[k]
    BY <2>1
  <2>3. i \in 1 .. Len(q) /\ (j \in 1 .. Len(q) \/ j = Len(q) + 1)
    BY <1>6, <2>2
  <2>4. CASE j \in 1 .. Len(q)
    <3>1. q[i].num < q[j].num
      BY <1>6, <2>3, <2>4 DEF Ordered
    <3> QED
      BY <2>2, <2>3, <2>4, <3>1
  <2>5. CASE j = Len(q) + 1
    <3>1. i \in DOMAIN q
      BY <2>1, <2>3
    <3>2. q[i].num \in Y
      BY <3>1 DEF Yielded
    <3>3. q[i].num < x.num
      BY <1>2, <3>2 DEF Below
    <3> QED
      BY <2>2, <2>3, <2>5, <3>3
  <2> QED
    BY <2>3, <2>4, <2>5
<1> QED
  BY <1>5, <1>6

LEMMA StepOrdered ==
  ASSUME Inv, Streams = {first}, StreamNext(first), Parted, Ordered
  PROVE  Ordered'
<1>1. Types /\ DOMAIN at = Streams
  BY TypesNamed DEF Inv, Types
<1>2. ASSUME output' = output, current' = current,
             at'[first] \in Counting => at[first] \in Counting,
             at'[first] \in {"drain", "drained"} =>
               at[first] \in {"drain", "drained"} /\ queue' = queue
      PROVE  Ordered'
  <2>1. Yielded(first)' = Yielded(first)
    BY <1>2 DEF Yielded
  <2>2. queue' = queue => Queue' = Queue
    BY DEF Queue, NumsOf
  <2>3. at'[first] \in Counting => Yielded(first)' = FirstPiece[first] .. current'[first] - 1
    BY <1>2, <2>1 DEF Ordered
  <2>4. at'[first] \in {"drain", "drained"} => Below'
    BY <1>2, <2>1, <2>2 DEF Ordered, Below
  <2>5. \A i, j \in 1 .. Len(output'[first]) :
          i < j => output'[first][i].num < output'[first][j].num
    BY <1>2 DEF Ordered
  <2> QED
    BY <2>3, <2>4, <2>5 DEF Ordered, Counting
<1>3. CASE \/ EnterWith(first) \/ Wait(first) \/ EndScan(first) \/ EndDispatch(first)
           \/ Return(first) \/ Consume(first) \/ Resume(first) \/ Abandon(first)
           \/ \E n \in Nums : TaskReturns(first, n) \/ TaskRaises(first, n)
  <2>1. /\ Moveless
        /\ at'[first] \in Counting => at[first] \in Counting
        /\ at'[first] \in {"drain", "drained"} => at[first] \in {"drain", "drained"}
    BY <1>1, <1>3, NoMoves
  <2> QED
    BY <1>2, <2>1 DEF Moveless
<1>4. CASE Start(first) \/ CreateTask(first)
  <2>1. /\ output' = output /\ current' = current
        /\ at[first] \in Counting /\ at'[first] \in {"while", "scan"}
    BY <1>1, <1>4 DEF Start, CreateTask, Goto, Counting
  <2> QED
    BY <1>2, <2>1
<1>5. ASSUME NEW n \in Nums,
             TakeInvalid(first, n) \/ TakeValid(first, n) \/ TakeRaises(first, n)
      PROVE  Ordered'
  <2>1. /\ output' = output /\ current' = current
        /\ at[first] = "scan" /\ at'[first] \in {"scan", "dispatch", "raised"}
    BY <1>1, <1>5 DEF TakeInvalid, TakeValid, TakeRaises, TakeResult, Goto
  <2>2. at[first] \in Counting
    BY <2>1 DEF Counting
  <2> QED
    BY <1>2, <2>1, <2>2
<1>6. CASE Dispatch(first)
  <2>1. PICK x \in Lowest(queue) :
          /\ x.num = current[first] /\ queue' = queue \ {x}
          /\ output' = [output EXCEPT ![first] = Append(output[first], x)]
    BY <1>6 DEF Dispatch
  <2>2. /\ at[first] \in Counting /\ at'[first] = "yielded"
        /\ current'[first] = current[first] + 1
    BY <1>1, <1>6 DEF Dispatch, Goto, Counting, Types
  <2>3. Below
    BY <2>2, QueueIsAhead
  <2>4. (\A i, j \in 1 .. Len(output[first]) :
           i < j => output[first][i].num < output[first][j].num)'
    BY <2>1, <2>3, YieldAscends
  <2>5. Yielded(first)' = FirstPiece[first] .. current'[first] - 1
    <3>1. /\ x.num \in Nums /\ Yielded(first)' = Yielded(first) \cup {x.num}
      BY <2>1, YieldMoves DEF Lowest
    <3>2. Yielded(first) = FirstPiece[first] .. current[first] - 1
      BY <2>2 DEF Ordered
    <3>3. /\ FirstPiece[first] \in Nat /\ current[first] \in Nat
          /\ FirstPiece[first] <= current[first]
      BY <1>1, <2>1, <3>1, OneFile, SequentialAssumption DEF Types, PiecesOf
    <3> QED
      BY <2>1, <2>2, <3>1, <3>2, <3>3
  <2> QED
    BY <2>2, <2>4, <2>5 DEF Ordered
<1>7. CASE Drain(first)
  <2>1. PICK x \in Lowest(queue) :
          /\ queue' = queue \ {x}
          /\ output' = [output EXCEPT ![first] = Append(output[first], x)]
    BY <1>7 DEF Drain
  <2>2. at[first] \in Counting \cup {"drain", "drained"} /\ at'[first] = "drained"
    BY <1>1, <1>7 DEF Drain, Draining, Goto, Counting
  <2>3. Below
    BY <2>2, QueueIsAhead
  <2>4. /\ Below'
        /\ (\A i, j \in 1 .. Len(output[first]) :
              i < j => output[first][i].num < output[first][j].num)'
    BY <2>1, <2>3, YieldAscends
  <2>5. at'[first] \notin Counting
    BY <2>2 DEF Counting
  <2> QED
    BY <2>4, <2>5 DEF Ordered
<1> QED
  BY <1>3, <1>4, <1>5, <1>6, <1>7 DEF StreamNext

(* Only pieces found valid are dispatched.                                 *)
LEMMA StepGood ==
  ASSUME Inv, Streams = {first}, StreamNext(first), AllGood
  PROVE  AllGood'
<1>1. Types /\ DOMAIN output = Streams
  BY TypesNamed DEF Inv, Types
<1>2. CASE queue' = queue /\ output' = output
  BY <1>2 DEF AllGood
<1>3. ASSUME NEW n \in Nums, TakeValid(first, n) PROVE AllGood'
  <2>1. queue' = queue \cup {Piece(n, task[first][n] = "valid")} /\ output' = output
        /\ task[first][n] = "valid"
    BY <1>3 DEF TakeValid, TakeResult
  <2>2. Piece(n, task[first][n] = "valid").good = TRUE
    BY <2>1 DEF Piece
  <2> QED
    BY <2>1, <2>2, Zenon DEF AllGood
<1>4. CASE Dispatch(first) \/ Drain(first)
  <2>1. PICK x \in queue : /\ queue' = queue \ {x}
                           /\ output' = [output EXCEPT ![first] = Append(output[first], x)]
    BY <1>4 DEF Dispatch, Drain, Lowest
  <2> DEFINE q == output[first]
             r == output'[first]
  <2>2. q \in Seq(PieceObjects) /\ r = Append(q, x) /\ x \in PieceObjects
    BY <1>1, <2>1 DEF Types
  <2>3. /\ Len(q) \in Nat /\ DOMAIN q = 1 .. Len(q) /\ DOMAIN r = 1 .. Len(q) + 1
        /\ r[Len(q) + 1] = x /\ \A k \in 1 .. Len(q) : r[k] = q[k]
    BY <2>2
  <2>4. \A k \in DOMAIN r : r[k] = x \/ \E i \in DOMAIN q : r[k] = q[i]
    BY <2>3
  <2>5. x.good = TRUE /\ \A z \in queue' : z.good = TRUE
    BY <2>1 DEF AllGood
  <2>6. \A i \in DOMAIN q : q[i].good = TRUE
    BY DEF AllGood
  <2> HIDE DEF q, r
  <2>7. \A k \in DOMAIN r : r[k].good = TRUE
    BY <2>4, <2>5, <2>6, Zenon
  <2> QED
    BY <2>5, <2>7, Zenon DEF AllGood, r
<1>5. CASE \/ Start(first) \/ EnterWith(first) \/ CreateTask(first) \/ Wait(first)
           \/ EndScan(first) \/ EndDispatch(first) \/ Return(first)
           \/ Consume(first) \/ Resume(first) \/ Abandon(first)
           \/ \E n \in Nums : \/ TakeInvalid(first, n) \/ TakeRaises(first, n)
                              \/ TaskReturns(first, n) \/ TaskRaises(first, n)
  <2>1. queue' = queue /\ output' = output
    BY <1>5 DEF Start, EnterWith, CreateTask, Wait, EndScan, EndDispatch, Return, Consume,
       Resume, Abandon, TakeInvalid, TakeRaises, TakeResult, TaskReturns, TaskRaises
  <2> QED
    BY <1>2, <2>1
<1> QED
  BY <1>3, <1>4, <1>5 DEF StreamNext

LEMMA InitSingle ==
  ASSUME Streams = {first}
  PROVE  Init => Single
<1> SUFFICES ASSUME Init PROVE Single
  OBVIOUS
<1>1. /\ Inv /\ queue = {} /\ output[first] = <<>> /\ at[first] = "idle"
      /\ filePieces[first] = {} /\ taskList[first] = <<>>
      /\ current[first] = FirstPiece[first] /\ FirstPiece[first] \in Nat
  BY InitInvariant, SequentialAssumption DEF Init
<1>2. /\ Unfetched(first) = {} /\ InTaskList(first) = {} /\ Queue = {}
      /\ Yielded(first) = {}
  BY <1>1 DEF Unfetched, InTaskList, Queue, NumsOf, Yielded
<1>3. Parted
  BY <1>1, <1>2 DEF Parted, Apart, Covered
<1>4. Ordered
  BY <1>1, <1>2 DEF Ordered
<1>5. AllGood
  BY <1>1 DEF AllGood
<1> QED
  BY <1>1, <1>3, <1>4, <1>5 DEF Single

LEMMA StepSingle ==
  ASSUME Streams = {first}
  PROVE  Single /\ [Next]_vars => Single'
<1> SUFFICES ASSUME Single, [Next]_vars PROVE Single'
  OBVIOUS
<1>1. Inv' /\ Inv /\ Parted /\ Ordered /\ AllGood
  BY StepInvariant DEF Single
<1>2. CASE StreamNext(first)
  BY <1>1, <1>2, StepParted, StepOrdered, StepGood DEF Single
<1>3. CASE UNCHANGED vars
  <2>1. /\ Unfetched(first)' = Unfetched(first) /\ InTaskList(first)' = InTaskList(first)
        /\ Queue' = Queue /\ Yielded(first)' = Yielded(first)
        /\ at' = at /\ queue' = queue /\ output' = output /\ current' = current
    BY <1>3, MovelessKeeps DEF vars, Moveless
  <2>2. Parted'
    BY <1>1, <2>1, Zenon DEF Parted, Apart, Covered
  <2>3. Ordered'
    BY <1>1, <2>1 DEF Ordered, Below
  <2>4. AllGood'
    BY <1>1, <2>1 DEF AllGood
  <2> QED
    BY <1>1, <2>2, <2>3, <2>4 DEF Single
<1> QED
  BY <1>2, <1>3, NextIsStreamNext

-----------------------------------------------------------------------------
(* get_file_sequential, for a stream by itself: although the loop over     *)
(* task_list skips tasks and rejected pieces go round again, no piece is   *)
(* lost or doubled between file_pieces, task_list, the dispatcher and the  *)
(* consumer.                                                               *)
THEOREM OnePlace ==
  ASSUME Streams = {first}
  PROVE  Spec => []PieceInOnePlace
<1>1. Single => PieceInOnePlace
  <2> SUFFICES ASSUME Single PROVE PieceInOnePlace
    OBVIOUS
  <2> DEFINE U == Unfetched(first)
             T == InTaskList(first)
             Y == Yielded(first)
             Q == NumsOf(queue) \cap PiecesOf(first)
             places == <<U, T, Q, Y>>
  <2>1. Types /\ Queued(first) /\ Apart /\ Covered
    BY TypesNamed DEF Single, Inv, Parted
  <2>2. Q = Queue
    BY <2>1, PlacesTyped, OneFile DEF Queue
  <2>3. /\ U \cap T = {} /\ U \cap Q = {} /\ U \cap Y = {} /\ T \cap Q = {}
        /\ T \cap Y = {} /\ Q \cap Y = {}
    BY <2>1, <2>2 DEF Apart
  <2>4. at[first] \notin EndStates \cup {"idle"} => PiecesOf(first) = U \cup T \cup Q \cup Y
    BY <2>1, <2>2, OneFile DEF Covered
  <2>5. \A i, j \in DOMAIN taskList[first] : taskList[first][i] = taskList[first][j] => i = j
    BY <2>1 DEF Queued
  <2> HIDE DEF U, T, Y, Q
  <2>6. places[1] = U /\ places[2] = T /\ places[3] = Q /\ places[4] = Y
    OBVIOUS
  <2> HIDE DEF places
  <2>7. \A i \in 1 .. 4 : i = 1 \/ i = 2 \/ i = 3 \/ i = 4
    OBVIOUS
  <2>8. \A i, j \in 1 .. 4 : i # j => places[i] \cap places[j] = {}
    <3> SUFFICES ASSUME NEW i \in 1 .. 4, NEW j \in 1 .. 4, i # j
                 PROVE  places[i] \cap places[j] = {}
      OBVIOUS
    <3>1. CASE i = 1
      BY <2>3, <2>6, <2>7, <3>1
    <3>2. CASE i = 2
      BY <2>3, <2>6, <2>7, <3>2
    <3>3. CASE i = 3
      BY <2>3, <2>6, <2>7, <3>3
    <3>4. CASE i = 4
      BY <2>3, <2>6, <2>7, <3>4
    <3> QED
      BY <2>7, <3>1, <3>2, <3>3, <3>4
  <2>9. UNION {places[i] : i \in 1 .. 4} = U \cup T \cup Q \cup Y
    BY <2>6, <2>7
  <2>10. /\ \A i, j \in 1 .. 4 : i # j => places[i] \cap places[j] = {}
         /\ \A i, j \in DOMAIN taskList[first] :
              taskList[first][i] = taskList[first][j] => i = j
         /\ at[first] \notin EndStates \cup {"idle"} =>
              PiecesOf(first) = UNION {places[i] : i \in 1 .. 4}
    BY <2>4, <2>5, <2>8, <2>9
  <2> QED
    BY <2>10, Zenon DEF PieceInOnePlace, places, U, T, Q, Y
<1> QED
  BY <1>1, InitSingle, StepSingle, PTL DEF Spec

(* get_file_sequential and SequentialPieceDispatcher, for a stream by      *)
(* itself: pieces come out in ascending order, each once, in whatever      *)
(* order their coroutines end.                                             *)
THEOREM InAscendingOrder ==
  ASSUME Streams = {first}
  PROVE  Spec => []Ascending
<1>1. Single => Ascending
  BY DEF Single, Ordered, Ascending
<1> QED
  BY <1>1, InitSingle, StepSingle, PTL DEF Spec

(* get_file_sequential, for a stream by itself, implements FileDelivery.   *)
Out == [i \in DOMAIN output[first] |-> <<output[first][i].num, output[first][i].good>>]
Outcome == CASE at[first] = "returned" -> "returned"
             [] at[first] \in {"raised", "closed"} -> "raised"
             [] OTHER -> "open"

LEMMA OutYielded ==
  ASSUME Types, Streams = {first}
  PROVE  Delivery!Delivered = Yielded(first)
<1>1. \A i \in DOMAIN output[first] : Out[i][1] = output[first][i].num
  BY DEF Out
<1>2. DOMAIN Out = DOMAIN output[first]
  BY DEF Out
<1>3. Delivery!Delivered = {Out[i][1] : i \in DOMAIN Out}
  BY Zenon DEF Delivery!Delivered, Out
<1> QED
  BY <1>1, <1>2, <1>3 DEF Yielded

THEOREM SequentialDelivers ==
  ASSUME Streams = {first}
  PROVE  Spec => DeliverySpec
<1>1. Init => Delivery!Init
  <2> SUFFICES ASSUME Init PROVE Delivery!Init
    OBVIOUS
  <2>1. output[first] = <<>> /\ at[first] = "idle"
    BY DEF Init
  <2>2. Out = <<>>
    BY <2>1 DEF Out
  <2>3. Outcome = "open"
    BY <2>1 DEF Outcome
  <2> QED
    BY <2>2, <2>3, Zenon DEF Delivery!Init, Out, Outcome
<1>2. Single /\ [Next]_vars => [Delivery!Next]_<<Out, Outcome>>
  <2> SUFFICES ASSUME Single, [Next]_vars PROVE Delivery!Next \/ UNCHANGED <<Out, Outcome>>
    OBVIOUS
  <2>1. Types /\ Inv /\ Parted /\ DOMAIN at = Streams /\ DOMAIN output = Streams
    BY TypesNamed DEF Single, Inv, Types
  <2>2. ASSUME output' = output PROVE Out' = Out
    BY <2>2 DEF Out
  <2>3. CASE Dispatch(first) \/ Drain(first)
    <3>1. PICK x \in queue : /\ queue' = queue \ {x}
                             /\ output' = [output EXCEPT ![first] = Append(output[first], x)]
      BY <2>3 DEF Dispatch, Drain, Lowest
    <3>2. x.num \in PiecesOf(first) /\ x.num \notin Yielded(first) /\ x.good = TRUE
      <4>1. x.num \in Queue /\ x.num \in Nums
        BY <2>1, <3>1, YieldMoves
      <4>2. x.good = TRUE
        BY DEF Single, AllGood
      <4> QED
        BY <4>1, <4>2, <2>1, OneFile DEF Parted, Apart
    <3>3. Outcome = "open" /\ Outcome' = "open"
      BY <2>1, <2>3 DEF Dispatch, Drain, Draining, Goto, Outcome
    <3>4. Out' = Append(Out, <<x.num, [n \in PiecesOf(first) |-> TRUE][x.num]>>)
      <4> DEFINE q == output[first]
                 r == output'[first]
      <4>1. q \in Seq(PieceObjects) /\ r = Append(q, x)
        BY <2>1, <3>1 DEF Types
      <4>2. /\ Len(q) \in Nat /\ DOMAIN q = 1 .. Len(q) /\ DOMAIN r = 1 .. Len(q) + 1
            /\ r[Len(q) + 1] = x /\ \A k \in 1 .. Len(q) : r[k] = q[k]
        BY <4>1
      <4>3. [n \in PiecesOf(first) |-> TRUE][x.num] = x.good
        BY <3>2
      <4> DEFINE pair(y) == <<y.num, y.good>>
      <4>4. Out = [i \in 1 .. Len(q) |-> pair(q[i])] /\ Out' = [i \in 1 .. Len(q) + 1 |-> pair(r[i])]
        BY <4>2 DEF Out
      <4> HIDE DEF q, r, pair
      <4>5. Append(Out, pair(x)) = [i \in 1 .. Len(q) + 1 |-> pair(r[i])]
        <5> DEFINE S == {pair(q[i]) : i \in 1 .. Len(q)} \cup {pair(x)}
                   a == Append(Out, pair(x))
                   b == [i \in 1 .. Len(q) + 1 |-> pair(r[i])]
        <5>1. Out \in Seq(S) /\ Len(Out) = Len(q) /\ pair(x) \in S
          BY <4>2, <4>4
        <5> HIDE DEF S
        <5>2. /\ a \in Seq(S) /\ Len(a) = Len(q) + 1 /\ a[Len(q) + 1] = pair(x)
              /\ \A i \in 1 .. Len(q) : a[i] = Out[i]
          BY <5>1, AppendProperties
        <5> HIDE DEF a
        <5>3. ASSUME NEW i \in 1 .. Len(q) + 1 PROVE a[i] = b[i]
          <6>1. i \in 1 .. Len(q) \/ i = Len(q) + 1
            BY <4>2
          <6> QED
            BY <4>2, <4>4, <5>2, <6>1
        <5>4. a = [i \in 1 .. Len(q) + 1 |-> a[i]]
          BY <4>2, <5>2
        <5> QED
          BY <5>3, <5>4 DEF a
      <4> QED
        BY <4>3, <4>4, <4>5 DEF pair
    <3>5. x.num \notin Delivery!Delivered
      BY <2>1, <3>2, OutYielded
    <3>6. Delivery!Deliver(x.num)
      BY <3>3, <3>4, <3>5, Zenon DEF Delivery!Deliver, Out, Outcome
    <3> QED
      BY <3>2, <3>6 DEF Delivery!Next
  <2>4. CASE Return(first) \/ Abandon(first) \/ \E n \in Nums : TakeRaises(first, n)
    <3>1. output' = output
      BY <2>4 DEF Return, Abandon, TakeRaises, TakeResult
    <3>2. at[first] \notin {"returned", "raised", "closed"}
          /\ at'[first] \in {"returned", "raised", "closed"}
      BY <2>1, <2>4 DEF Return, Draining, Abandon, TakeRaises, TakeResult, Goto
    <3>3. Outcome = "open" /\ Outcome' \in {"returned", "raised"}
      BY <3>2 DEF Outcome
    <3>4. Out' = Out
      BY <2>2, <3>1
    <3>5. Delivery!End
      BY <3>3, <3>4, Zenon DEF Delivery!End, Out, Outcome
    <3> QED
      BY <3>5 DEF Delivery!Next
  <2>5. ASSUME output' = output,
               at'[first] \in {"returned", "raised", "closed"} \/ at[first] \in {"returned", "raised", "closed"}
                 => at'[first] = at[first]
        PROVE  UNCHANGED <<Out, Outcome>>
    <3>1. Outcome' = Outcome
      BY <2>5 DEF Outcome
    <3> QED
      BY <2>2, <2>5, <3>1
  <2>6. CASE \/ Start(first) \/ EnterWith(first) \/ CreateTask(first) \/ Wait(first)
             \/ EndScan(first) \/ EndDispatch(first) \/ Consume(first) \/ Resume(first)
             \/ \E n \in Nums : \/ TakeInvalid(first, n) \/ TakeValid(first, n)
                                \/ TaskReturns(first, n) \/ TaskRaises(first, n)
    <3>1. output' = output
      BY <2>6 DEF Start, EnterWith, CreateTask, Wait, EndScan, EndDispatch, Consume, Resume,
         TakeInvalid, TakeValid, TakeResult, TaskReturns, TaskRaises
    <3>2. \/ at'[first] = at[first]
          \/ /\ at[first] \notin {"returned", "raised", "closed"}
             /\ at'[first] \notin {"returned", "raised", "closed"}
      BY <2>1, <2>6 DEF Goto, Start, EnterWith, CreateTask, Wait, EndScan, EndDispatch, Consume,
         Resume, TakeInvalid, TakeValid, TakeResult, TaskReturns, TaskRaises
    <3> QED
      BY <2>5, <3>1, <3>2
  <2>7. CASE UNCHANGED vars
    BY <2>5, <2>7 DEF vars
  <2> QED
    BY <2>3, <2>4, <2>6, <2>7, NextIsStreamNext DEF StreamNext
<1> QED
  BY <1>1, <1>2, InitSingle, StepSingle, PTL
  DEF Spec, DeliverySpec, Delivery!Spec, Out, Outcome
=============================================================================
