----------------------------- MODULE PieceTasks ------------------------------
(***************************************************************************)
(* What the coroutines of Piece.download (aiotorrent/piece.py) promise to  *)
(* the generators of aiotorrent/downloader.py: a coroutine is started once *)
(* per piece and ends at most once, by returning the piece or by raising,  *)
(* and whether the returned piece passes Piece.is_valid is settled: no     *)
(* late answer changes its data.                                           *)
(***************************************************************************)
CONSTANT Pieces

VARIABLE status

Init == status = [t \in Pieces |-> "none"]

Start(new) ==
  /\ new # {} /\ \A t \in new : status[t] = "none"
  /\ status' = [t \in Pieces |-> IF t \in new THEN "running" ELSE status[t]]

Return(t) ==
  /\ status[t] = "running"
  /\ \E verdict \in {"valid", "invalid"} : status' = [status EXCEPT ![t] = verdict]

Raise(t) ==
  /\ status[t] = "running"
  /\ status' = [status EXCEPT ![t] = "failed"]

Next ==
  \/ \E new \in SUBSET Pieces : Start(new)
  \/ \E t \in Pieces : Return(t) \/ Raise(t)

Spec == Init /\ [][Next]_status
=============================================================================
