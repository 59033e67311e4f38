-------------------------- MODULE PeerIntroduction --------------------------
(***************************************************************************)
(* Abstract: what one Peer (aiotorrent/peer.py) is to Torrent.init, which  *)
(* calls connect, handshake and intrested on it, each one once and one     *)
(* after the other, and to the managers that use the peer afterwards.      *)
(* PeerSession implements it; TorrentInit relies on it for every peer.     *)
(***************************************************************************)

VARIABLES
  stage,        (* the call that is made, or was made last                 *)
  active,       (* Peer.active                                             *)
  handshaked    (* Peer.has_handshaked                                     *)

vars == <<stage, active, handshaked>>

Exchanges == {"handshaking", "declaring"}
Stages == {"new", "connected", "shaken", "over", "raised"} \cup Exchanges

(* The stage after an exchange of messages.                                *)
After(s) == IF s = "handshaking" THEN "shaken" ELSE "over"

Init == stage = "new" /\ active = FALSE /\ handshaked = FALSE

(* connect returns, with a connection or without, and never raises.        *)
Connect ==
  /\ stage = "new" /\ stage' = "connected"
  /\ active' \in BOOLEAN /\ UNCHANGED handshaked

(* Messages are exchanged with active peers only, interested with those    *)
(* only that have shaken hands.                                            *)
StartHandshake ==
  /\ stage = "connected"
  /\ stage' = IF active THEN "handshaking" ELSE "shaken"
  /\ UNCHANGED <<active, handshaked>>

StartInterested ==
  /\ stage = "shaken"
  /\ stage' = IF active /\ handshaked THEN "declaring" ELSE "over"
  /\ UNCHANGED <<active, handshaked>>

(* In an exchange the connection may go but not come, and hands are shaken *)
(* once and for all; it ends, or raises, which nothing else does.          *)
Exchange ==
  /\ stage \in Exchanges
  /\ stage' \in {stage, After(stage), "raised"}
  /\ active' \in BOOLEAN /\ (active' => active)
  /\ handshaked' \in BOOLEAN /\ (handshaked => handshaked')

(* After its introduction the peer is used, and connected again.           *)
Use ==
  /\ stage = "over" /\ UNCHANGED stage
  /\ active' \in BOOLEAN
  /\ handshaked' \in BOOLEAN /\ (handshaked => handshaked')

(* Nobody uses a peer whose introduction raised.                           *)
Next == Connect \/ StartHandshake \/ StartInterested \/ Exchange \/ Use

Spec == Init /\ [][Next]_vars
=============================================================================
