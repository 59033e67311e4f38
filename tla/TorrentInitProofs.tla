-------------------------- MODULE TorrentInitProofs --------------------------
(***************************************************************************)
(* Proofs about TorrentInit: for any trackers, peers, nodes and limits,    *)
(* and whatever the network does, queries and permits agree, init raises   *)
(* for no other reason than the two it may, and it returns when everything *)
(* that it has started for its trackers and peers is over.                 *)
(***************************************************************************)
EXTENDS TorrentInit, TLAPS

(* Contacts are made of the trackers of the torrent, in the first gather,  *)
(* which they do not outlive and do not make raise.                        *)
ContactsGathered ==
  /\ \A t \in TrackerIds : contact[t] # "raised"
  /\ \A t \in TrackerIds : contact[t] # "none" => \E i \in DOMAIN urls : urls[i] = t
  /\ gathered \notin {"none", "trackers"} =>
       \A t \in TrackerIds : contact[t] \in {"none", "ended"}

(* Introductions are those of the peers gathered.                          *)
PeersGathered ==
  /\ \A p \in Addresses \ peers : stage[p] = "new"
  /\ gathered \in {"none", "trackers"} => \A p \in Addresses : stage[p] = "new"

(* init returns out of its last gather.                                    *)
Returned ==
  result = "returned" => gathered = "interested" /\ \A p \in peers : stage[p] = "over"

CrawlInv == CrawlTypeOK /\ QueriesAccounted

IInv ==
  /\ TypeOK /\ QueriesAccounted
  /\ ContactsGathered /\ PeersGathered /\ Returned /\ FailuresContained

-----------------------------------------------------------------------------
(* The crawl.                                                              *)
LEMMA CrawlInitially == CrawlInit => CrawlInv
<1> SUFFICES ASSUME CrawlInit PROVE CrawlInv
  OBVIOUS
<1>1. PICK l \in Leftovers : nodes = l[1] /\ foundPeers = l[2]
  BY DEF CrawlInit
<1>2. nodes \in Nat /\ foundPeers \in SUBSET DHTPeers
  BY <1>1, CrawlerAssumption
<1>3. /\ queries \in [Places -> Nat]
      /\ queries["created"] = 0 /\ queries["waiting"] = 0 /\ queries["answered"] = 0
  BY DEF CrawlInit, Places
<1> QED
  BY <1>2, <1>3, CrawlerAssumption DEF CrawlInit, CrawlInv, CrawlTypeOK, QueriesAccounted

(* A task that goes from one place to another is neither lost nor doubled. *)
LEMMA Moved ==
  ASSUME queries \in [Places -> Nat], NEW from \in Places, NEW to \in Places, from # to,
         Move(from, to)
  PROVE  /\ queries' \in [Places -> Nat]
         /\ queries'[from] = queries[from] - 1 /\ queries'[to] = queries[to] + 1
         /\ \A p \in Places \ {from, to} : queries'[p] = queries[p]
         /\ queries[from] > 0
  BY DEF Move

LEMMA Left ==
  ASSUME queries \in [Places -> Nat], NEW from \in Places, Leave(from)
  PROVE  /\ queries' \in [Places -> Nat]
         /\ queries'[from] = queries[from] - 1
         /\ \A p \in Places \ {from} : queries'[p] = queries[p]
         /\ queries[from] > 0
  BY DEF Leave

(* Each step of crawl and of its tasks.                                    *)
LEMMA CrawlGoesOn ==
  ASSUME CrawlInv, StartCrawl \/ EndCrawl \/ Crawl \/ Query \/ Answers
  PROVE  CrawlInv'
<1> USE CrawlerAssumption DEF CrawlInv, CrawlTypeOK, QueriesAccounted
<1>0. /\ queries["created"] \in Nat /\ queries["waiting"] \in Nat
      /\ queries["answered"] \in Nat /\ queries["late"] \in Nat
      /\ Places = {"created", "waiting", "answered", "late"}
  BY DEF Places
<1>1. ASSUME StartCrawl \/ EndCrawl \/ AwaitPermit \/ EndPause PROVE CrawlInv'
  BY <1>1 DEF StartCrawl, EndCrawl, AwaitPermit, EndPause
<1>2. ASSUME AskNext \/ AskWithPermit PROVE CrawlInv'
  <2>1. Ask
    BY <1>2 DEF AskNext, AskWithPermit
  <2>2. /\ queries' \in [Places -> Nat] /\ queries'["created"] = queries["created"] + 1
        /\ queries'["waiting"] = queries["waiting"]
        /\ queries'["answered"] = queries["answered"]
    BY <2>1, <1>0 DEF Ask
  <2> QED
    BY <2>1, <2>2, <1>0 DEF Ask
<1>3. ASSUME SendQuery PROVE CrawlInv'
  <2>1. Move("created", "waiting")
    BY <1>3 DEF SendQuery
  <2> QED
    BY <1>0, <1>3, <2>1, Moved DEF SendQuery
<1>4. ASSUME SendQueryFails PROVE CrawlInv'
  <2>1. Leave("created")
    BY <1>4 DEF SendQueryFails
  <2> QED
    BY <1>0, <1>4, <2>1, Left DEF SendQueryFails
<1>5. ASSUME ResumeQuery PROVE CrawlInv'
  <2>1. Leave("answered")
    BY <1>5 DEF ResumeQuery
  <2> QED
    BY <1>0, <1>5, <2>1, Left DEF ResumeQuery
<1>6. ASSUME QueryTimesOut PROVE CrawlInv'
  <2>1. Move("waiting", "late")
    BY <1>6 DEF QueryTimesOut
  <2> QED
    BY <1>0, <1>6, <2>1, Moved DEF QueryTimesOut
<1>7. ASSUME Answer
      PROVE  /\ foundPeers' \in SUBSET DHTPeers
             /\ nodes' \in Nat /\ told' \in 0 .. NodeBudget
  BY <1>7 DEF Answer
<1>8. ASSUME QueryAnswered PROVE CrawlInv'
  <2>1. Move("waiting", "answered") /\ Answer
    BY <1>8 DEF QueryAnswered
  <2> QED
    BY <1>0, <1>7, <1>8, <2>1, Moved DEF QueryAnswered
<1>9. ASSUME QueryAnsweredLate PROVE CrawlInv'
  <2>1. Leave("late") /\ Answer
    BY <1>9 DEF QueryAnsweredLate
  <2> QED
    BY <1>0, <1>7, <1>9, <2>1, Left DEF QueryAnsweredLate
<1> QED
  BY <1>1, <1>2, <1>3, <1>4, <1>5, <1>6, <1>8, <1>9 DEF Crawl, Query, Answers

-----------------------------------------------------------------------------
(* The trackers.                                                           *)
LEMMA TrackersGoOn ==
  ASSUME TrackersTypeOK,
         NEW t \in TrackerIds, Contact(t) \/ Datagram(t) \/ ResponseHTTP(t)
  PROVE  /\ TrackersTypeOK'
         /\ contact' = contact \/ (contact[t] \in {"created", "waiting"}
                /\ \E c \in {"waiting", "ended"} : contact' = [contact EXCEPT ![t] = c])
<1> USE TrackersAssumption DEF TrackersTypeOK
<1>1. CASE OpenEndpoint(t)
  BY <1>1 DEF OpenEndpoint
<1>2. CASE OpenEndpointFails(t)
  BY <1>2 DEF OpenEndpointFails
<1>3. CASE EndSleep(t)
  BY <1>3 DEF EndSleep
<1>4. CASE RequestHTTP(t)
  BY <1>4 DEF RequestHTTP
<1>5. CASE SkipWSS(t)
  BY <1>5 DEF SkipWSS
<1>6. CASE ConnectAnswered(t)
  <2>1. requests[t] \cup {"announce"} \in SUBSET {"connect", "announce"}
    OBVIOUS
  <2> QED
    BY <1>6, <2>1 DEF ConnectAnswered
<1>7. CASE AnnounceAnswered(t)
  BY <1>7 DEF AnnounceAnswered
<1>8. CASE ResponseHTTP(t)
  BY <1>8 DEF ResponseHTTP
<1> QED
  BY <1>1, <1>2, <1>3, <1>4, <1>5, <1>6, <1>7, <1>8 DEF Contact, Datagram

(* The tasks of the first gather.                                          *)
LEMMA ContactsCreated ==
  ASSUME TrackersTypeOK, CreateContacts(urls)
  PROVE  /\ TrackersTypeOK'
         /\ \A t \in TrackerIds :
              \/ contact'[t] = contact[t]
              \/ contact'[t] = "created" /\ \E i \in DOMAIN urls : urls[i] = t
  BY DEF CreateContacts, TrackersTypeOK, Known

(* The addresses that trackers have told of.                               *)
LEMMA PeersAreAddresses ==
  ASSUME TypeOK
  PROVE  AllTrackerPeers(urls) \in SUBSET Addresses
<1>1. \A i \in DOMAIN urls : urls[i] \in TrackerIds
  BY InitAssumption DEF TypeOK
<1> QED
  BY <1>1 DEF TypeOK, TrackersTypeOK, AllTrackerPeers

-----------------------------------------------------------------------------
LEMMA Initially == Init => IInv
<1> SUFFICES ASSUME Init PROVE IInv
  OBVIOUS
<1>1. CrawlInv
  BY CrawlInitially DEF Init
<1>2. TrackersTypeOK /\ \A t \in TrackerIds : contact[t] = "none"
  BY TrackersAssumption DEF Init, TrackersInit, TrackersTypeOK
<1>3. TypeOK
  BY <1>1, <1>2 DEF Init, TypeOK, CrawlInv, Gathers
<1> QED
  BY <1>1, <1>2, <1>3
     DEF Init, IInv, CrawlInv, ContactsGathered, PeersGathered, Returned, FailuresContained

(* Steps of init itself.                                                   *)
LEMMA MainGoesOn == IInv /\ Main => IInv'
<1> SUFFICES ASSUME IInv, Main PROVE IInv'
  OBVIOUS
<1> USE DEF IInv, ContactsGathered, PeersGathered, Returned, FailuresContained
<1>1. ASSUME ContactTrackers PROVE IInv'
  <2>1. TrackersTypeOK' /\ CreateContacts(urls)
    BY <1>1, ContactsCreated DEF ContactTrackers, TypeOK
  <2>2. TypeOK' /\ QueriesAccounted'
    BY <1>1, <2>1
       DEF ContactTrackers, TypeOK, Gathers, peerVars, crawlVars, CrawlTypeOK, QueriesAccounted
  <2>3. ContactsGathered'
    BY <1>1, <2>1, ContactsCreated DEF ContactTrackers, TypeOK
  <2>4. PeersGathered' /\ Returned'
    BY <1>1 DEF ContactTrackers, peerVars
  <2>5. FailuresContained'
    <3>1. CASE Known(urls) = DOMAIN urls
      BY <1>1, <3>1 DEF ContactTrackers, peerVars
    <3>2. CASE Known(urls) # DOMAIN urls
      <4>1. PICK i \in DOMAIN urls : \E j \in 1 .. i : Scheme[urls[j]] = "other"
        BY <3>2 DEF Known
      <4>2. DOMAIN urls = 1 .. Len(urls) /\ Len(urls) \in Nat
        BY InitAssumption DEF TypeOK
      <4>3. \E j \in DOMAIN urls : Scheme[urls[j]] = "other"
        BY <4>1, <4>2
      <4> QED
        BY <1>1, <4>3 DEF ContactTrackers
    <3> QED
      BY <3>1, <3>2
  <2> QED
    BY <2>2, <2>3, <2>4, <2>5
<1>2. ASSUME TrackersContacted PROVE IInv'
  <2>1. AllTrackerPeers(urls) \in SUBSET Addresses
    BY PeersAreAddresses
  <2>2. CrawlInv'
    <3>1. CASE UNCHANGED crawlVars
      BY <3>1 DEF crawlVars, CrawlInv, CrawlTypeOK, QueriesAccounted, TypeOK
    <3>2. CASE StartCrawl
      BY <3>2, CrawlGoesOn DEF CrawlInv, TypeOK
    <3> QED
      BY <1>2, <3>1, <3>2 DEF TrackersContacted
  <2>3. TypeOK' /\ QueriesAccounted'
    BY <1>2, <2>1, <2>2
       DEF TrackersContacted, TypeOK, Gathers, peerVars, trackerVars, TrackersTypeOK, CrawlInv
  <2>4. ContactsGathered'
    <3>1. \A t \in TrackerIds : contact[t] \in {"none", "ended"}
      BY <1>2 DEF TrackersContacted, ContactsEnded
    <3> QED
      BY <1>2, <3>1 DEF TrackersContacted, trackerVars
  <2>5. PeersGathered' /\ Returned' /\ FailuresContained'
    BY <1>2, <2>1 DEF TrackersContacted, peerVars
  <2> QED
    BY <2>3, <2>4, <2>5
<1>3. ASSUME Crawled PROVE IInv'
  <2>1. CrawlInv'
    BY <1>3, CrawlGoesOn DEF Crawled, CrawlInv, TypeOK
  <2>2. foundPeers \in SUBSET Addresses
    BY InitAssumption DEF TypeOK, CrawlTypeOK
  <2>3. TypeOK' /\ QueriesAccounted'
    BY <1>3, <2>1, <2>2
       DEF Crawled, TypeOK, Gathers, peerVars, trackerVars, TrackersTypeOK, CrawlInv
  <2>4. ContactsGathered' /\ PeersGathered' /\ Returned' /\ FailuresContained'
    BY <1>3, <2>2 DEF Crawled, peerVars, trackerVars
  <2> QED
    BY <2>3, <2>4
<1>4. ASSUME Introduced \/ GatherRaises PROVE IInv'
  <2>1. TypeOK' /\ QueriesAccounted'
    BY <1>4 DEF Introduced, GatherRaises, TypeOK, Gathers, peerVars, trackerVars, crawlVars,
                TrackersTypeOK, CrawlTypeOK, QueriesAccounted
  <2>2. ContactsGathered' /\ PeersGathered' /\ Returned' /\ FailuresContained'
    BY <1>4 DEF Introduced, GatherRaises, peerVars, trackerVars
  <2> QED
    BY <2>1, <2>2
<1> QED
  BY <1>1, <1>2, <1>3, <1>4 DEF Main

(* Steps of the introductions.                                             *)
LEMMA IntroduceFacts ==
  ASSUME TypeOK, NEW p \in Addresses, Introduce(p)
  PROVE  /\ UNCHANGED <<initVars, trackerVars, crawlVars>>
         /\ p \in peers /\ stage[p] \notin {"over", "raised"}
         /\ stage[p] = "new" => gathered = "connect"
         /\ TypeOK'
         /\ \A q \in Addresses \ {p} : stage'[q] = stage[q]
<1> USE DEF TypeOK, TrackersTypeOK, CrawlTypeOK, initVars, trackerVars, crawlVars, Exchanges
<1>1. CASE Connect(p)
  BY <1>1 DEF Connect
<1>2. CASE StartHandshake(p)
  BY <1>2 DEF StartHandshake
<1>3. CASE StartInterested(p)
  BY <1>3 DEF StartInterested
<1>4. CASE EndExchange(p)
  BY <1>4 DEF EndExchange, P!After
<1> QED
  BY <1>1, <1>2, <1>3, <1>4 DEF Introduce

LEMMA IntroduceGoesOn ==
  ASSUME IInv, NEW p \in Addresses, Introduce(p)
  PROVE  IInv'
<1> USE DEF IInv
<1>1. /\ UNCHANGED <<initVars, trackerVars, crawlVars>>
      /\ p \in peers /\ stage[p] \notin {"over", "raised"}
      /\ stage[p] = "new" => gathered = "connect"
      /\ TypeOK'
      /\ \A q \in Addresses \ {p} : stage'[q] = stage[q]
  BY IntroduceFacts
<1>2. QueriesAccounted' /\ ContactsGathered'
  BY <1>1 DEF QueriesAccounted, ContactsGathered, initVars, trackerVars, crawlVars
<1>3. PeersGathered' /\ Returned' /\ FailuresContained'
  BY <1>1 DEF PeersGathered, Returned, FailuresContained, initVars, TypeOK
<1> QED
  BY <1>1, <1>2, <1>3

(* Steps beside init.                                                      *)
LEMMA BesideGoesOn ==
  ASSUME IInv, Beside,
         \/ TrackersNext /\ UNCHANGED crawlVars
         \/ (Crawl \/ Query \/ Answers) /\ UNCHANGED trackerVars
  PROVE  IInv'
<1> USE DEF IInv
<1>1. /\ PeersGathered' /\ Returned' /\ FailuresContained'
  BY DEF Beside, PeersGathered, Returned, FailuresContained, initVars, peerVars
<1>2. CrawlInv'
  <2>1. CASE UNCHANGED crawlVars
    BY <2>1 DEF crawlVars, CrawlInv, CrawlTypeOK, QueriesAccounted, TypeOK
  <2>2. CASE Crawl \/ Query \/ Answers
    BY <2>2, CrawlGoesOn DEF CrawlInv, TypeOK
  <2> QED
    BY <2>1, <2>2
<1>3. TrackersTypeOK' /\ ContactsGathered'
  <2>1. CASE UNCHANGED trackerVars
    BY <2>1 DEF trackerVars, TrackersTypeOK, TypeOK, ContactsGathered, Beside, initVars
  <2>2. CASE TrackersNext
    <3>1. PICK t \in TrackerIds : Contact(t) \/ Datagram(t) \/ ResponseHTTP(t)
      BY <2>2 DEF TrackersNext
    <3>2. /\ TrackersTypeOK'
          /\ contact' = contact \/ (contact[t] \in {"created", "waiting"}
                /\ \E c \in {"waiting", "ended"} : contact' = [contact EXCEPT ![t] = c])
      BY <3>1, TrackersGoOn DEF TypeOK
    <3>3. CASE contact' = contact
      BY <3>2, <3>3 DEF ContactsGathered, Beside, initVars
    <3>4. CASE /\ contact[t] \in {"created", "waiting"}
               /\ \E c \in {"waiting", "ended"} : contact' = [contact EXCEPT ![t] = c]
      BY <3>2, <3>4 DEF ContactsGathered, Beside, initVars, TypeOK, TrackersTypeOK
    <3> QED
      BY <3>2, <3>3, <3>4
  <2> QED
    BY <2>1, <2>2
<1>4. TypeOK' /\ QueriesAccounted'
  BY <1>2, <1>3 DEF TypeOK, CrawlInv, Beside, initVars, peerVars
<1> QED
  BY <1>1, <1>3, <1>4

LEMMA Inductive == IInv /\ [Next]_vars => IInv'
<1> SUFFICES ASSUME IInv, [Next]_vars PROVE IInv'
  OBVIOUS
<1>1. CASE Main
  BY <1>1, MainGoesOn
<1>2. CASE \E p \in Addresses : Introduce(p)
  BY <1>2, IntroduceGoesOn
<1>3. CASE Asking \/ (TrackersNext /\ Beside /\ UNCHANGED crawlVars)
           \/ ((Query \/ Answers) /\ Beside /\ UNCHANGED trackerVars)
  BY <1>3, BesideGoesOn DEF Asking
<1>4. CASE UNCHANGED vars
  BY <1>4 DEF vars, initVars, peerVars, trackerVars, crawlVars, IInv, TypeOK, TrackersTypeOK,
       CrawlTypeOK, QueriesAccounted, ContactsGathered, PeersGathered, Returned,
       FailuresContained
<1> QED
  BY <1>1, <1>2, <1>3, <1>4 DEF Next

LEMMA Always == Spec => []IInv
  BY Initially, Inductive, PTL DEF Spec

-----------------------------------------------------------------------------
(* Every variable keeps its type, whatever trackers and nodes answer.      *)
THEOREM InitTypeCorrect == Spec => []TypeOK
<1>1. IInv => TypeOK
  BY DEF IInv
<1> QED
  BY Always, <1>1, PTL

(* crawl never has more than max_connections queries wait for an answer,   *)
(* and gets every permit back, late answers and failures included.         *)
THEOREM PermitsKept == Spec => []QueriesAccounted
<1>1. IInv => QueriesAccounted
  BY DEF IInv
<1> QED
  BY Always, <1>1, PTL

(* No failure of a tracker or a node raises out of init.                   *)
THEOREM FailuresStay == Spec => []FailuresContained
<1>1. IInv => FailuresContained
  BY DEF IInv
<1> QED
  BY Always, <1>1, PTL

(* When init has returned, its contacts and introductions are over.        *)
THEOREM InitReturnsAlone == Spec => []ReturnsAlone
<1>1. IInv => ReturnsAlone
  BY DEF IInv, Returned, PeersGathered, ContactsGathered, ReturnsAlone
<1> QED
  BY Always, <1>1, PTL

-----------------------------------------------------------------------------
LEMMA IntroductionsBegin == Init => \A p \in Addresses : P(p)!Init
  BY DEF Init, P!Init

(* A step of one introduction is one of PeerIntroduction, and no other     *)
(* step touches it.                                                        *)
LEMMA IntroductionsGoOn ==
  ASSUME TypeOK, [Next]_vars
  PROVE  \A p \in Addresses : [P(p)!Next]_(P(p)!vars)
<1> SUFFICES ASSUME NEW p \in Addresses PROVE [P(p)!Next]_(P(p)!vars)
  OBVIOUS
<1>1. CASE UNCHANGED peerVars
  BY <1>1 DEF peerVars, P!vars
<1>2. CASE \E q \in Addresses : Introduce(q)
  <2>1. PICK q \in Addresses : Introduce(q)
    BY <1>2
  <2> USE DEF TypeOK, P!Next, P!vars, P!Exchanges, Exchanges
  <2>2. CASE q # p
    BY <2>1, <2>2 DEF Introduce, Connect, StartHandshake, StartInterested, EndExchange
  <2>3. CASE q = p /\ Connect(q)
    BY <2>3 DEF Connect, P!Connect
  <2>4. CASE q = p /\ StartHandshake(q)
    BY <2>4 DEF StartHandshake, P!StartHandshake
  <2>5. CASE q = p /\ StartInterested(q)
    BY <2>5 DEF StartInterested, P!StartInterested
  <2>6. CASE q = p /\ EndExchange(q)
    BY <2>6 DEF EndExchange, P!Exchange
  <2> QED
    BY <2>1, <2>2, <2>3, <2>4, <2>5, <2>6 DEF Introduce
<1> QED
  BY <1>1, <1>2 DEF Next, Main, ContactTrackers, TrackersContacted, Crawled, Introduced,
       GatherRaises, Asking, Beside, vars

(* init introduces itself to every peer as PeerIntroduction has it: once,  *)
(* in order, and never with a message to a peer it may not be sent to.     *)
THEOREM IntroductionsImplemented == Spec => IntroductionsSpec
<1>1. TypeOK /\ [Next]_vars => \A p \in Addresses : [P(p)!Next]_(P(p)!vars)
  BY IntroductionsGoOn
<1>2. TypeOK /\ [Next]_vars => [\A p \in Addresses : [P(p)!Next]_(P(p)!vars)]_vars
  BY <1>1
<1> QED
  BY InitTypeCorrect, IntroductionsBegin, <1>2, PTL DEF Spec, IntroductionsSpec
=============================================================================
