------------------------------ MODULE Trackers ------------------------------
(***************************************************************************)
(* The trackers of one torrent (aiotorrent/core/trackers.py): get_peers of *)
(* each one is a task, and the datagrams of a UDP tracker are taken by the *)
(* event loop for as long as the process lives, for its endpoint is never  *)
(* closed. WSSTracker.get_peers returns at once.                           *)
(*                                                                         *)
(* Trackers and the network are external: a request is answered any number *)
(* of times, early, late or never. A datagram that cannot be unpacked      *)
(* raises in datagram_received and changes nothing.                        *)
(***************************************************************************)
EXTENDS Naturals

CONSTANTS
  TrackerIds,      (* the trackers a torrent may name                      *)
  Scheme,          (* the scheme of each one's URL; "other" is one that    *)
                   (* TrackerFactory or the tracker it builds raises for   *)
  Addresses,       (* addresses of peers                                   *)
  DatagramBudget   (* bound: datagrams that trackers send in all           *)

Schemes == {"udp", "http", "wss", "other"}

ASSUME TrackersAssumption ==
  Scheme \in [TrackerIds -> Schemes] /\ DatagramBudget \in Nat

VARIABLES
  contact,         (* where the task of get_peers is                       *)
  requests,        (* what a UDP tracker was asked, and may answer         *)
  active,          (* TrackerBaseClass.active                              *)
  trackerPeers,    (* TrackerBaseClass.peers                               *)
  datagrams        (* datagrams received                                   *)

trackerVars == <<contact, requests, active, trackerPeers, datagrams>>

TrackersTypeOK ==
  /\ contact \in [TrackerIds -> {"none", "created", "waiting", "ended", "raised"}]
  /\ requests \in [TrackerIds -> SUBSET {"connect", "announce"}]
  /\ active \in [TrackerIds -> BOOLEAN]
  /\ trackerPeers \in [TrackerIds -> SUBSET Addresses]
  /\ datagrams \in 0 .. DatagramBudget

TrackersInit ==
  /\ contact = [t \in TrackerIds |-> "none"]
  /\ requests = [t \in TrackerIds |-> {}]
  /\ active = [t \in TrackerIds |-> FALSE]
  /\ trackerPeers = [t \in TrackerIds |-> {}]
  /\ datagrams = 0

-----------------------------------------------------------------------------
(* UDPTracker.get_peers opens an endpoint, whose connection_made sends the *)
(* connect request, ...                                                    *)
OpenEndpoint(t) ==
  /\ contact[t] = "created" /\ Scheme[t] = "udp"
  /\ contact' = [contact EXCEPT ![t] = "waiting"]
  /\ requests' = [requests EXCEPT ![t] = {"connect"}]
  /\ UNCHANGED <<active, trackerPeers, datagrams>>

(* Mutant: the error of an endpoint is not caught.                         *)
OpenEndpointRaises(t) ==
  /\ contact[t] = "created" /\ Scheme[t] = "udp"
  /\ contact' = [contact EXCEPT ![t] = "raised"]
  /\ UNCHANGED <<requests, active, trackerPeers, datagrams>>

(* ... which may fail, by its name or otherwise, ...                       *)
OpenEndpointFails(t) ==
  /\ contact[t] = "created" /\ Scheme[t] = "udp"
  /\ contact' = [contact EXCEPT ![t] = "ended"]
  /\ trackerPeers' = [trackerPeers EXCEPT ![t] = {}]
  /\ UNCHANGED <<requests, active, datagrams>>

(* ... and returns after a sleep of three seconds, answered or not.        *)
EndSleep(t) ==
  /\ contact[t] = "waiting" /\ Scheme[t] = "udp"
  /\ contact' = [contact EXCEPT ![t] = "ended"]
  /\ UNCHANGED <<requests, active, trackerPeers, datagrams>>

(* datagram_received: a connect response has the announce request sent, ...*)
ConnectAnswered(t) ==
  /\ "connect" \in requests[t] /\ datagrams < DatagramBudget
  /\ active' = [active EXCEPT ![t] = TRUE]
  /\ requests' = [requests EXCEPT ![t] = @ \cup {"announce"}]
  /\ datagrams' = datagrams + 1
  /\ UNCHANGED <<contact, trackerPeers>>

(* ... an announce response replaces the peers, whatever was there.        *)
AnnounceAnswered(t) ==
  /\ "announce" \in requests[t] /\ datagrams < DatagramBudget
  /\ \E peers \in SUBSET Addresses : trackerPeers' = [trackerPeers EXCEPT ![t] = peers]
  /\ datagrams' = datagrams + 1
  /\ UNCHANGED <<contact, requests, active>>

-----------------------------------------------------------------------------
(* HTTPTracker.get_peers runs the request in a thread, without a timeout.  *)
RequestHTTP(t) ==
  /\ contact[t] = "created" /\ Scheme[t] = "http"
  /\ contact' = [contact EXCEPT ![t] = "waiting"]
  /\ trackerPeers' = [trackerPeers EXCEPT ![t] = {}]
  /\ UNCHANGED <<requests, active, datagrams>>

(* A response of status 200 sets active; its list of peers is taken up to  *)
(* the first one that raises. The compact form, which announce asks for,   *)
(* is a str or bytes once bdecode has been over it, and raises before any  *)
(* peer is taken. Other responses and failures leave no peers.             *)
ResponseHTTP(t) ==
  /\ contact[t] = "waiting" /\ Scheme[t] = "http"
  /\ contact' = [contact EXCEPT ![t] = "ended"]
  /\ \E ok \in BOOLEAN, peers \in SUBSET Addresses :
       /\ ok \/ peers = {}
       /\ active' = [active EXCEPT ![t] = ok]
       /\ trackerPeers' = [trackerPeers EXCEPT ![t] = peers]
  /\ UNCHANGED <<requests, datagrams>>

(* WSSTracker.get_peers.                                                   *)
SkipWSS(t) ==
  /\ contact[t] = "created" /\ Scheme[t] = "wss"
  /\ contact' = [contact EXCEPT ![t] = "ended"]
  /\ UNCHANGED <<requests, active, trackerPeers, datagrams>>

Contact(t) ==
  OpenEndpoint(t) \/ OpenEndpointFails(t) \/ EndSleep(t) \/ RequestHTTP(t) \/ SkipWSS(t)
Datagram(t) == ConnectAnswered(t) \/ AnnounceAnswered(t)

TrackersNext == \E t \in TrackerIds : Contact(t) \/ Datagram(t) \/ ResponseHTTP(t)

-----------------------------------------------------------------------------
(* TrackerFactory builds a tracker for each URL, in their order, and       *)
(* _contact_trackers creates its task, up to a scheme it does not know.    *)
Known(urls) == {i \in DOMAIN urls : \A j \in 1 .. i : Scheme[urls[j]] # "other"}
CreateContacts(urls) ==
  /\ contact' = [t \in TrackerIds |->
                   IF \E i \in Known(urls) : urls[i] = t THEN "created" ELSE contact[t]]
  /\ UNCHANGED <<requests, active, trackerPeers, datagrams>>

(* What get_peers of every tracker has left.                               *)
ContactsEnded(urls) == \A i \in DOMAIN urls : contact[urls[i]] = "ended"
AllTrackerPeers(urls) == UNION {trackerPeers[urls[i]] : i \in DOMAIN urls}
=============================================================================
