----------------------------- MODULE TorrentInit -----------------------------
(***************************************************************************)
(* Torrent.init (aiotorrent/aiotorrent.py): it gathers the contacts of all *)
(* trackers, crawls the DHT if it is told to, and introduces itself to     *)
(* every peer in three gathers, connect, handshake and intrested. Trackers *)
(* and the crawl run beside it, and go on answering when it has moved on.  *)
(* A peer is what PeerIntroduction says, which PeerSession implements.     *)
(*                                                                         *)
(* gather waits for all of its coroutines, or raises the first exception   *)
(* of one while the others run on.                                         *)
(***************************************************************************)
EXTENDS Trackers, DHTCrawler, Sequences

CONSTANT TrackerLists   (* what torrent_info['trackers'] may be            *)

ASSUME InitAssumption ==
  DHTPeers \subseteq Addresses /\ TrackerLists \subseteq Seq(TrackerIds)

VARIABLES
  urls,           (* torrent_info['trackers']                              *)
  dhtEnabled,     (* the parameter of init                                 *)
  gathered,       (* what init awaits, or awaited last                     *)
  result,         (* how init has ended                                    *)
  peers,          (* peer_addrs, then the addresses of Torrent.peers       *)
  stage, peerActive, hasHandshaked   (* of each peer: PeerIntroduction     *)

peerVars == <<stage, peerActive, hasHandshaked>>
initVars == <<urls, dhtEnabled, gathered, result, peers>>
vars == <<initVars, peerVars, trackerVars, crawlVars>>

P(p) == INSTANCE PeerIntroduction
          WITH stage <- stage[p], active <- peerActive[p], handshaked <- hasHandshaked[p]

Exchanges == {"handshaking", "declaring"}
Gathers == {"none", "trackers", "crawl", "connect", "handshake", "interested"}

TypeOK ==
  /\ TrackersTypeOK /\ CrawlTypeOK
  /\ urls \in TrackerLists /\ dhtEnabled \in BOOLEAN
  /\ gathered \in Gathers /\ result \in {"running", "returned", "raised"}
  /\ peers \in SUBSET Addresses
  /\ stage \in [Addresses -> {"new", "connected", "shaken", "over", "raised"} \cup Exchanges]
  /\ peerActive \in [Addresses -> BOOLEAN]
  /\ hasHandshaked \in [Addresses -> BOOLEAN]

Init ==
  /\ TrackersInit /\ CrawlInit
  /\ urls \in TrackerLists /\ dhtEnabled \in BOOLEAN
  /\ gathered = "none" /\ result = "running" /\ peers = {}
  /\ stage = [p \in Addresses |-> "new"]
  /\ peerActive = [p \in Addresses |-> FALSE]
  /\ hasHandshaked = [p \in Addresses |-> FALSE]

-----------------------------------------------------------------------------
(* _contact_trackers; an unknown scheme raises KeyError, out of init, when *)
(* the trackers before it have been given their tasks.                     *)
ContactTrackers ==
  /\ gathered = "none" /\ gathered' = "trackers"
  /\ CreateContacts(urls)
  /\ result' = IF Known(urls) = DOMAIN urls THEN result ELSE "raised"
  /\ UNCHANGED <<urls, dhtEnabled, peers, peerVars, crawlVars>>

(* _get_peers, then _get_peers_dht if it is wanted.                        *)
TrackersContacted ==
  /\ gathered = "trackers" /\ result = "running" /\ ContactsEnded(urls)
  /\ peers' = AllTrackerPeers(urls)
  /\ \/ dhtEnabled /\ gathered' = "crawl" /\ StartCrawl
     \/ ~dhtEnabled /\ gathered' = "connect" /\ UNCHANGED crawlVars
  /\ UNCHANGED <<urls, dhtEnabled, result, peerVars, trackerVars>>

(* crawl returns FOUND_PEERS, and its addresses are copied.                *)
Crawled ==
  /\ gathered = "crawl" /\ EndCrawl
  /\ peers' = peers \cup foundPeers
  /\ gathered' = "connect"
  /\ UNCHANGED <<urls, dhtEnabled, result, peerVars, trackerVars>>

(* Mutant: a gather is over when one of its coroutines is.                 *)
IntroducedFirst ==
  /\ result = "running"
  /\ \/ /\ gathered = "connect" /\ gathered' = "handshake"
        /\ \A p \in peers : stage[p] = "connected"
        /\ UNCHANGED result
     \/ /\ gathered = "handshake" /\ gathered' = "interested"
        /\ \A p \in peers : stage[p] = "shaken"
        /\ UNCHANGED result
     \/ /\ gathered = "interested" /\ result' = "returned"
        /\ \E p \in peers : stage[p] = "over"
        /\ UNCHANGED gathered
  /\ UNCHANGED <<urls, dhtEnabled, peers, peerVars, trackerVars, crawlVars>>

(* A gather of all peers is over when each coroutine has returned.         *)
Introduced ==
  /\ result = "running"
  /\ \/ /\ gathered = "connect" /\ gathered' = "handshake"
        /\ \A p \in peers : stage[p] = "connected"
        /\ UNCHANGED result
     \/ /\ gathered = "handshake" /\ gathered' = "interested"
        /\ \A p \in peers : stage[p] = "shaken"
        /\ UNCHANGED result
     \/ /\ gathered = "interested" /\ result' = "returned"
        /\ \A p \in peers : stage[p] = "over"
        /\ UNCHANGED gathered
  /\ UNCHANGED <<urls, dhtEnabled, peers, peerVars, trackerVars, crawlVars>>

(* The exception of a coroutine that is gathered leaves init.              *)
GatherRaises ==
  /\ result = "running" /\ result' = "raised"
  /\ (\E p \in peers : stage[p] = "raised") \/ (\E t \in TrackerIds : contact[t] = "raised")
  /\ UNCHANGED <<urls, dhtEnabled, gathered, peers, peerVars, trackerVars, crawlVars>>

-----------------------------------------------------------------------------
(* The coroutines of one gather: Peer.connect, ...                         *)
Connect(p) ==
  /\ gathered = "connect" /\ p \in peers /\ stage[p] = "new"
  /\ stage' = [stage EXCEPT ![p] = "connected"]
  /\ \E a \in BOOLEAN : peerActive' = [peerActive EXCEPT ![p] = a]
  /\ UNCHANGED <<initVars, hasHandshaked, trackerVars, crawlVars>>

(* ... Peer.handshake, ...                                                 *)
StartHandshake(p) ==
  /\ gathered = "handshake" /\ p \in peers /\ stage[p] = "connected"
  /\ stage' = [stage EXCEPT ![p] = IF peerActive[p] THEN "handshaking" ELSE "shaken"]
  /\ UNCHANGED <<initVars, peerActive, hasHandshaked, trackerVars, crawlVars>>

(* Mutant: interest is declared to every active peer.                      *)
StartInterestedUnshaken(p) ==
  /\ gathered = "interested" /\ p \in peers /\ stage[p] = "shaken"
  /\ stage' = [stage EXCEPT ![p] = IF peerActive[p] THEN "declaring" ELSE "over"]
  /\ UNCHANGED <<initVars, peerActive, hasHandshaked, trackerVars, crawlVars>>

(* ... and Peer.intrested.                                                 *)
StartInterested(p) ==
  /\ gathered = "interested" /\ p \in peers /\ stage[p] = "shaken"
  /\ stage' = [stage EXCEPT ![p] =
                 IF peerActive[p] /\ hasHandshaked[p] THEN "declaring" ELSE "over"]
  /\ UNCHANGED <<initVars, peerActive, hasHandshaked, trackerVars, crawlVars>>

(* The exchange of messages ends, its handlers having done what they may,  *)
(* or raises.                                                              *)
EndExchange(p) ==
  /\ p \in peers /\ stage[p] \in Exchanges
  /\ \E a, h \in BOOLEAN, s \in {P(p)!After(stage[p]), "raised"} :
       /\ a => peerActive[p]
       /\ hasHandshaked[p] => h
       /\ stage' = [stage EXCEPT ![p] = s]
       /\ peerActive' = [peerActive EXCEPT ![p] = a]
       /\ hasHandshaked' = [hasHandshaked EXCEPT ![p] = h]
  /\ UNCHANGED <<initVars, trackerVars, crawlVars>>

Introduce(p) == Connect(p) \/ StartHandshake(p) \/ StartInterested(p) \/ EndExchange(p)

Beside == UNCHANGED <<initVars, peerVars>>

Main == ContactTrackers \/ TrackersContacted \/ Crawled \/ Introduced \/ GatherRaises

Asking == Crawl /\ Beside /\ UNCHANGED trackerVars

Next ==
  \/ Main
  \/ Asking
  \/ \E p \in Addresses : Introduce(p)
  \/ TrackersNext /\ Beside /\ UNCHANGED crawlVars
  \/ (Query \/ Answers) /\ Beside /\ UNCHANGED trackerVars

Spec == Init /\ [][Next]_vars

(* The event loop runs what is ready, and timers expire: every read and    *)
(* connect, the sleep of a UDP tracker and every query have one. Nothing   *)
(* is asked of trackers, nodes and peers.                                  *)
FairSpec ==
  /\ Spec
  /\ WF_vars(Main) /\ WF_vars(Asking)
  /\ \A p \in Addresses : WF_vars(Introduce(p))
  /\ \A t \in TrackerIds : WF_vars(Contact(t) /\ Beside /\ UNCHANGED crawlVars)
  /\ WF_vars(Query /\ Beside /\ UNCHANGED trackerVars)

-----------------------------------------------------------------------------
(* A tracker or a node that fails, answers rubbish or nothing does not end *)
(* init: it raises for a URL of an unknown scheme, or for a peer whose     *)
(* exchange raised.                                                        *)
FailuresContained ==
  result = "raised" =>
    (\E i \in DOMAIN urls : Scheme[urls[i]] = "other") \/ (\E p \in peers : stage[p] = "raised")

(* When init has returned, no contact and no introduction of its peers is  *)
(* still under way, so that the managers that come next have the peers for *)
(* themselves.                                                             *)
ReturnsAlone ==
  result = "returned" =>
    /\ \A p \in peers : stage[p] = "over"
    /\ \A p \in Addresses \ peers : stage[p] = "new"
    /\ \A t \in TrackerIds : contact[t] \in {"none", "ended"}

(* Every peer is introduced as PeerIntroduction has it.                    *)
IntroductionsSpec ==
  /\ \A p \in Addresses : P(p)!Init
  /\ [][\A p \in Addresses : [P(p)!Next]_(P(p)!vars)]_vars

(* init ends, and so does everything it has started, when an exception has *)
(* left the other coroutines of a gather to themselves too. The one        *)
(* assumption on the other end is that HTTP trackers answer or break the   *)
(* connection: their requests have no timeout.                             *)
HTTPAnswers ==
  \A t \in TrackerIds : Scheme[t] = "http" => (contact[t] = "waiting" ~> contact[t] = "ended")
Settled ==
  /\ result # "running"
  /\ \A t \in TrackerIds : contact[t] \in {"none", "ended"}
  /\ queries["created"] + queries["waiting"] + queries["answered"] = 0
  /\ \A p \in Addresses : stage[p] \notin Exchanges
InitSettles == HTTPAnswers => <>[]Settled
=============================================================================
