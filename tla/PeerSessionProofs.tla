-------------------------- MODULE PeerSessionProofs --------------------------
(***************************************************************************)
(* Proofs about PeerSession: whatever the remote end and the network do,   *)
(* Peer.active agrees with the socket, and a peer that keeps failing is    *)
(* given up after a bounded number of connections and disconnects.         *)
(***************************************************************************)
EXTENDS PeerSession, TLAPS

(* Each connection but the one that is active has been charged at least    *)
(* one disconnect.                                                         *)
Charged ==
  /\ link.active => connections <= link.disconnects + 1
  /\ ~link.active => connections <= link.disconnects

(* What a peer may have been charged at each place: it is connected only   *)
(* within the limit, the end of the stream costs three disconnects, and a  *)
(* fourth one, in a handler, raises.                                       *)
Budget ==
  /\ link.active => link.disconnects <= MaxDisconnects
  /\ pc = "connecting" => ~link.active /\ link.disconnects <= MaxDisconnects
  /\ pc = "reading" => link.disconnects <= MaxDisconnects + 1
  /\ pc \in {"connected", "shaken", "parse", "handle"}
       => link.disconnects <= MaxDisconnects + 3
  /\ link.disconnects <= MaxDisconnects + 4

(* A response was read from a connection.                                  *)
Opened == pc \in {"reading", "parse", "handle"} => link.writer # "none"

(* Empty reads are counted down by one from the threshold, and the last of *)
(* them leaves the loop.                                                   *)
Countdown ==
  pc = "reading" =>
    /\ threshold >= -1
    /\ link.writer # "closed" => threshold >= 0

IInv ==
  /\ TypeOK /\ SocketFollowsActive /\ Charged /\ Budget /\ Opened /\ Countdown
  /\ connections <= MaxDisconnects + 1

-----------------------------------------------------------------------------
(* disconnect leaves the peer inactive and without an open socket, charged *)
(* once.                                                                   *)
LEMMA DisconnectedFacts ==
  ASSUME NEW l \in [active : BOOLEAN, disconnects : Nat, writer : Writers]
  PROVE  /\ Disconnected(l) \in [active : BOOLEAN, disconnects : Nat, writer : Writers]
         /\ ~Disconnected(l).active
         /\ Disconnected(l).disconnects = l.disconnects + 1
         /\ Disconnected(l).writer \in {"none", "lost", "closed"}
         /\ l.writer # "none" => Disconnected(l).writer # "none"
         /\ ~DrainRaises(l) /\ l.writer # "none" => Disconnected(l).writer = "closed"
  BY DEF Disconnected, DrainRaises, Writers

(* The initial state satisfies the invariant.                              *)
LEMMA Initially == Init => IInv
<1> SUFFICES ASSUME Init PROVE IInv
  OBVIOUS
<1> USE PeerSessionAssumption DEF Init
<1>1. TypeOK
  <2>1. link \in [active : BOOLEAN, disconnects : Nat, writer : Writers]
    BY DEF Writers
  <2>2. threshold \in -2 .. EmptyThreshold /\ sent \in 0 .. RemoteBudget
    OBVIOUS
  <2>3. hasHandshaked \in BOOLEAN /\ piecesFit \in BOOLEAN /\ reconnecting \in BOOLEAN
    OBVIOUS
  <2>4. connections \in Nat
    OBVIOUS
  <2>5. /\ pc = "connecting" /\ call \in Calls /\ outcome = "none"
        /\ inbox \in SUBSET Messages /\ artifacts \in SUBSET Messages
    BY DEF Calls
  <2> QED
    BY <2>1, <2>2, <2>3, <2>4, <2>5 DEF TypeOK
<1>2. link.active = FALSE /\ link.disconnects = 0 /\ link.writer = "none"
  OBVIOUS
<1>3. SocketFollowsActive /\ Charged /\ Budget /\ Opened /\ Countdown
  BY <1>2 DEF SocketFollowsActive, Charged, Budget, Opened, Countdown
<1>4. connections <= MaxDisconnects + 1
  OBVIOUS
<1> QED
  BY <1>1, <1>3, <1>4 DEF IInv

(* Every step of the coroutine, of the remote end and of the network       *)
(* preserves the invariant.                                                *)
LEMMA Inductive == IInv /\ [Next]_vars => IInv'
<1> SUFFICES ASSUME IInv, [Next]_vars PROVE IInv'
  OBVIOUS
<1> USE PeerSessionAssumption
<1>0. link \in [active : BOOLEAN, disconnects : Nat, writer : Writers]
  BY DEF IInv, TypeOK
<1>d. /\ Disconnected(link) \in [active : BOOLEAN, disconnects : Nat, writer : Writers]
      /\ ~Disconnected(link).active
      /\ Disconnected(link).disconnects = link.disconnects + 1
      /\ Disconnected(link).writer \in {"none", "lost", "closed"}
      /\ link.writer # "none" => Disconnected(link).writer # "none"
      /\ ~DrainRaises(link) /\ link.writer # "none" => Disconnected(link).writer = "closed"
  BY <1>0, DisconnectedFacts
<1>1. CASE ConnectSucceeds
  <2>1. /\ link'.active = TRUE /\ link'.writer = "open"
        /\ link'.disconnects = link.disconnects
        /\ connections' = connections + 1 /\ pc' = "connected"
    BY <1>0, <1>1 DEF ConnectSucceeds
  <2>2. ~link.active /\ link.disconnects <= MaxDisconnects /\ connections <= link.disconnects
    BY <1>1 DEF ConnectSucceeds, IInv, Budget, Charged
  <2>3. TypeOK'
    <3>1. link' \in [active : BOOLEAN, disconnects : Nat, writer : Writers]
      BY <1>0, <1>1 DEF ConnectSucceeds, Writers
    <3> QED
      BY <1>1, <3>1 DEF ConnectSucceeds, IInv, TypeOK
  <2>4. (SocketFollowsActive /\ Charged /\ Budget /\ Opened /\ Countdown)'
    BY <1>0, <2>1, <2>2 DEF SocketFollowsActive, Charged, Budget, Opened, Countdown, IInv, TypeOK
  <2>5. connections' <= MaxDisconnects + 1
    BY <1>0, <2>1, <2>2 DEF IInv, TypeOK
  <2> QED
    BY <2>3, <2>4, <2>5 DEF IInv
<1>2. CASE ConnectFails
  <2>1. /\ link' = Disconnected(link) /\ pc' \in {"connected", "rest", "raised"}
        /\ reconnecting' \in BOOLEAN /\ outcome' \in {outcome, "IOError"}
        /\ UNCHANGED <<call, hasHandshaked, piecesFit, inbox, artifacts, threshold, sent,
                       connections>>
    BY <1>2 DEF ConnectFails, Raise, FetchEnds, IInv, TypeOK
  <2>2. ~link.active /\ link.disconnects <= MaxDisconnects /\ connections <= link.disconnects
    BY <1>2 DEF ConnectFails, IInv, Budget, Charged
  <2>3. TypeOK'
    BY <1>d, <2>1 DEF IInv, TypeOK
  <2>4. (SocketFollowsActive /\ Charged /\ Budget /\ Opened /\ Countdown)'
    BY <1>0, <1>d, <2>1, <2>2 DEF SocketFollowsActive, Charged, Budget, Opened, Countdown, IInv, TypeOK
  <2> QED
    BY <2>1, <2>3, <2>4 DEF IInv
<1>3. CASE Handshake
  BY <1>3 DEF Handshake, Write, IInv, TypeOK, SocketFollowsActive, Charged, Budget,
              Opened, Countdown, Calls
<1>4. CASE Interested
  <2>1. CASE link.active /\ hasHandshaked /\ Write("interested")
    BY <2>1 DEF Write, IInv, TypeOK, SocketFollowsActive, Charged, Budget, Opened, Countdown, Calls
  <2>2. CASE ~(link.active /\ hasHandshaked) /\ Introduced
    BY <1>4, <2>2 DEF Interested, Write, Introduced, FetchEnds, IInv, TypeOK,
       SocketFollowsActive, Charged, Budget, Opened, Countdown
  <2> QED
    BY <1>4, <2>1, <2>2 DEF Interested
<1>5. CASE Request
  BY <1>5 DEF Request, Write, IInv, TypeOK, SocketFollowsActive, Charged, Budget,
              Opened, Countdown, Calls
<1>6. CASE Reconnect
  BY <1>6 DEF Reconnect, IInv, TypeOK, SocketFollowsActive, Charged, Budget, Opened, Countdown
<1>7. CASE RequestRefused
  BY <1>7 DEF RequestRefused, NoResponse, FetchEnds, IInv, TypeOK, SocketFollowsActive,
              Charged, Budget, Opened, Countdown
<1>8. CASE ReadData
  BY <1>8 DEF ReadData, IInv, TypeOK, SocketFollowsActive, Charged, Budget, Opened, Countdown
<1>9. CASE ReadEmpty
  <2>0. /\ pc = "reading" /\ link.writer \in {"eof", "closed"}
        /\ threshold' = threshold - 1 /\ threshold \in -2 .. EmptyThreshold
        /\ threshold >= -1
        /\ UNCHANGED <<call, reconnecting, hasHandshaked, piecesFit, inbox, artifacts,
                       outcome, sent, connections>>
    BY <1>9 DEF ReadEmpty, IInv, TypeOK, Countdown
  <2>1. CASE threshold > 0 /\ UNCHANGED <<pc, link>>
    BY <2>0, <2>1 DEF IInv, TypeOK, SocketFollowsActive, Charged, Budget, Opened, Countdown
  <2>2. CASE threshold <= 0 /\ ~DrainRaises(link) /\ link' = Disconnected(link) /\ UNCHANGED pc
    <3>1. link.active /\ threshold >= 0
      BY <2>0, <2>2 DEF IInv, SocketFollowsActive, DrainRaises, Countdown
    <3> QED
      BY <2>0, <2>2, <3>1, <1>d
      DEF IInv, TypeOK, SocketFollowsActive, Charged, Budget, Opened, Countdown
  <2>3. CASE /\ threshold <= 0 /\ DrainRaises(link)
             /\ link' = Disconnected(Disconnected(link))
             /\ pc' = "parse"
    <3>1. /\ link' \in [active : BOOLEAN, disconnects : Nat, writer : Writers]
          /\ ~link'.active
          /\ link'.disconnects = link.disconnects + 2
          /\ link'.writer \in {"lost", "closed"}
      BY <1>0, <1>d, <2>0, <2>3, DisconnectedFacts
    <3>2. ~link.active
      BY <2>0, <2>3 DEF IInv, SocketFollowsActive, DrainRaises
    <3> QED
      BY <2>0, <2>3, <3>1, <3>2
      DEF IInv, TypeOK, SocketFollowsActive, Charged, Budget, Opened, Countdown
  <2> QED
    BY <1>9, <2>1, <2>2, <2>3 DEF ReadEmpty
<1>10. CASE ReadLost
  <2>1. CASE link' = Disconnected(link)
    BY <1>10, <2>1, <1>d
    DEF ReadLost, IInv, TypeOK, SocketFollowsActive, Charged, Budget, Opened, Countdown
  <2>2. CASE link' = link
    BY <1>10, <2>2
    DEF ReadLost, IInv, TypeOK, SocketFollowsActive, Charged, Budget, Opened, Countdown
  <2> QED
    BY <1>10, <2>1, <2>2 DEF ReadLost
<1>11. CASE ReadTimesOut
  BY <1>11 DEF ReadTimesOut, IInv, TypeOK, SocketFollowsActive, Charged, Budget, Opened, Countdown
<1>12. CASE EmptyResponse
  BY <1>12 DEF EmptyResponse, NoResponse, FetchEnds, IInv, TypeOK, SocketFollowsActive,
               Charged, Budget, Opened, Countdown
<1>13. CASE Parse
  BY <1>13 DEF Parse, IInv, TypeOK, SocketFollowsActive, Charged, Budget, Opened, Countdown
<1>14. CASE HandleChoke
  <2>1. CASE DrainRaises(link)
    <3>1. /\ link' = Disconnected(link) /\ pc = "handle" /\ pc' \in {"rest", "raised"}
          /\ reconnecting' \in BOOLEAN /\ outcome' \in {outcome, "IOError"}
          /\ artifacts' \in SUBSET Messages
          /\ UNCHANGED <<call, hasHandshaked, piecesFit, inbox, threshold, sent, connections>>
      BY <1>14, <2>1 DEF HandleChoke, Raise, FetchEnds, IInv, TypeOK
    <3> QED
      BY <1>0, <1>d, <3>1 DEF IInv, TypeOK, SocketFollowsActive, Charged, Budget, Opened, Countdown
  <2>2. CASE ~DrainRaises(link)
    <3>1. link.disconnects + 1 <= MaxDisconnects + 3
      BY <1>14, <1>0, <2>2 DEF HandleChoke, DrainRaises, IInv, SocketFollowsActive, Budget,
         Opened, Writers
    <3>2. /\ link' = Disconnected(link) /\ pc = "handle" /\ pc' = "handle"
          /\ artifacts' \in SUBSET Messages
          /\ UNCHANGED <<call, reconnecting, outcome, hasHandshaked, piecesFit, inbox,
                         threshold, sent, connections>>
      BY <1>14, <2>2 DEF HandleChoke, IInv, TypeOK
    <3> QED
      BY <1>0, <1>d, <3>1, <3>2 DEF IInv, TypeOK, SocketFollowsActive, Charged, Budget, Opened, Countdown
  <2> QED
    BY <2>1, <2>2
<1>15. CASE HandleHandshake
  <2>1. PICK h \in artifacts \cap Handshakes :
          /\ artifacts' = artifacts \ {h}
          /\ link' = IF h = "handshake" THEN link ELSE Disconnected(link)
          /\ \/ /\ h # "handshake" /\ DrainRaises(link)
                /\ Raise("IOError") /\ UNCHANGED hasHandshaked
             \/ /\ h = "short handshake" /\ ~DrainRaises(link)
                /\ Raise("crash") /\ UNCHANGED hasHandshaked
             \/ /\ h = "handshake" \/ (h = "other protocol" /\ ~DrainRaises(link))
                /\ hasHandshaked' = TRUE /\ UNCHANGED <<pc, reconnecting, outcome>>
    BY <1>15 DEF HandleHandshake
  <2>2. /\ pc = "handle" /\ artifacts' \in SUBSET Messages
        /\ pc' \in {"handle", "rest", "raised"} /\ reconnecting' \in BOOLEAN
        /\ hasHandshaked' \in BOOLEAN /\ outcome' \in {outcome, "IOError", "crash"}
        /\ UNCHANGED <<call, piecesFit, inbox, threshold, sent, connections>>
    BY <1>15, <2>1 DEF HandleHandshake, Raise, FetchEnds, IInv, TypeOK
  <2>3. link' = link \/ link' = Disconnected(link)
    BY <2>1
  <2>4. CASE link' = link
    BY <1>0, <2>2, <2>4 DEF IInv, TypeOK, SocketFollowsActive, Charged, Budget, Opened, Countdown
  <2>5. CASE link' = Disconnected(link) /\ pc' # "handle"
    BY <1>0, <1>d, <2>2, <2>5
    DEF IInv, TypeOK, SocketFollowsActive, Charged, Budget, Opened, Countdown
  <2>6. CASE link' # link /\ pc' = "handle"
    <3>1. ~DrainRaises(link)
      BY <2>1, <2>2, <2>6 DEF Raise, FetchEnds
    <3>2. link.disconnects + 1 <= MaxDisconnects + 3
      BY <1>0, <2>2, <3>1 DEF DrainRaises, IInv, SocketFollowsActive, Budget, Opened, Writers
    <3> QED
      BY <1>0, <1>d, <2>2, <2>3, <2>6, <3>2
      DEF IInv, TypeOK, SocketFollowsActive, Charged, Budget, Opened, Countdown
  <2> QED
    BY <2>3, <2>4, <2>5, <2>6
<1>16. CASE HandleBitfield
  BY <1>16 DEF HandleBitfield, Raise, FetchEnds, IInv, TypeOK, SocketFollowsActive,
               Charged, Budget, Opened, Countdown
<1>17. CASE HandleReturns
  BY <1>17 DEF HandleReturns, Introduced, FetchEnds, IInv, TypeOK, SocketFollowsActive,
               Charged, Budget, Opened, Countdown
<1>18. CASE RemoteSends
  BY <1>18 DEF RemoteSends, IInv, TypeOK, SocketFollowsActive, Charged, Budget, Opened, Countdown
<1>19. CASE RemoteCloses \/ ConnectionLost
  BY <1>19 DEF RemoteCloses, ConnectionLost, IInv, TypeOK, SocketFollowsActive, Charged,
               Budget, Opened, Countdown, Writers
<1>20. CASE UNCHANGED vars
  BY <1>20 DEF vars, IInv, TypeOK, SocketFollowsActive, Charged, Budget, Opened, Countdown
<1> QED
  BY <1>1, <1>2, <1>3, <1>4, <1>5, <1>6, <1>7, <1>8, <1>9, <1>10, <1>11, <1>12, <1>13,
     <1>14, <1>15, <1>16, <1>17, <1>18, <1>19, <1>20
  DEF Next, Read, Handle

-----------------------------------------------------------------------------
(* The invariant holds of every behaviour of Peer.                         *)
THEOREM SessionInvariant == Spec => []IInv
  BY Initially, Inductive, PTL DEF Spec

(* The fields of the peer keep their types.                                *)
THEOREM SessionTypeCorrect == Spec => []TypeOK
<1>1. IInv => TypeOK
  BY DEF IInv
<1> QED
  BY SessionInvariant, <1>1, PTL

(* An active peer has a connection and an inactive one no open socket.     *)
THEOREM SocketsFollow == Spec => []SocketFollowsActive
<1>1. IInv => SocketFollowsActive
  BY DEF IInv
<1> QED
  BY SessionInvariant, <1>1, PTL

(* A failing peer is given up: it is connected once by init and at most    *)
(* MaxDisconnects times by send_message, whatever the limit, the threshold *)
(* and the traffic.                                                        *)
THEOREM PeersGivenUp == Spec => []ReconnectsBounded
<1>1. IInv => ReconnectsBounded
  BY DEF IInv, ReconnectsBounded
<1> QED
  BY SessionInvariant, <1>1, PTL

(* The last connection costs four disconnects at most: three at the end of *)
(* its stream and one in a handler.                                        *)
THEOREM ChargesBounded == Spec => []DisconnectsBounded
<1>1. IInv => DisconnectsBounded
  BY DEF IInv, Budget, DisconnectsBounded
<1> QED
  BY SessionInvariant, <1>1, PTL

-----------------------------------------------------------------------------
(* Where the message last sent agrees with the place of the coroutine, and *)
(* a re-connection with the place it comes from.                           *)
CallFits ==
  /\ pc \in {"connecting", "connected"} /\ ~reconnecting => call = "handshake"
  /\ pc = "shaken" /\ ~reconnecting => call = "handshake"
  /\ pc = "connecting" /\ ~reconnecting => link.writer = "none"
  /\ pc \in {"rest", "raised"} => ~reconnecting
  /\ link.writer = "none" => pc \notin {"reading", "parse", "handle"}

(* The places of Stage are kept by what the remote end and the network do. *)
LEMMA CallFitsInitially == Init => CallFits
  BY DEF Init, CallFits

LEMMA CallFitsAlways == IInv /\ CallFits /\ [Next]_vars => CallFits'
<1> SUFFICES ASSUME IInv, CallFits, [Next]_vars PROVE CallFits'
  OBVIOUS
<1>0. /\ link \in [active : BOOLEAN, disconnects : Nat, writer : Writers]
      /\ Opened /\ call \in Calls
  BY DEF IInv, TypeOK
<1>1. CASE ConnectSucceeds
  BY <1>0, <1>1 DEF ConnectSucceeds, CallFits
<1>2. CASE ConnectFails
  BY <1>0, <1>2 DEF ConnectFails, Raise, FetchEnds, CallFits, DrainRaises, Disconnected
<1>3. CASE Handshake \/ Interested
  BY <1>0, <1>3 DEF Handshake, Interested, Introduced, Write, FetchEnds, CallFits, Opened,
                    IInv, SocketFollowsActive
<1>4. CASE Request \/ Reconnect \/ RequestRefused
  BY <1>0, <1>4 DEF Request, Reconnect, RequestRefused, Write, NoResponse, FetchEnds,
                    CallFits, Opened, IInv, SocketFollowsActive
<1>5. CASE Read
  BY <1>0, <1>5 DEF Read, ReadData, ReadEmpty, ReadLost, ReadTimesOut, CallFits, Opened,
                    Disconnected, DrainRaises
<1>6. CASE EmptyResponse \/ Parse
  BY <1>0, <1>6 DEF EmptyResponse, Parse, NoResponse, FetchEnds, CallFits, Opened
<1>7. CASE HandleChoke
  BY <1>0, <1>7 DEF HandleChoke, Raise, FetchEnds, CallFits, Opened, Disconnected
<1>8. CASE HandleHandshake
  <2>1. /\ pc = "handle" /\ link.writer # "none" /\ UNCHANGED call
        /\ link' \in {link, Disconnected(link)}
    BY <1>8, <1>0 DEF HandleHandshake, Opened
  <2>2. \/ pc' = pc /\ UNCHANGED reconnecting
        \/ pc' = "rest" /\ ~reconnecting'
        \/ pc' = "raised" /\ ~reconnecting /\ UNCHANGED reconnecting
    BY <1>8 DEF HandleHandshake, Raise, FetchEnds
  <2>3. link'.writer # "none"
    BY <1>0, <2>1 DEF Disconnected
  <2> QED
    BY <2>1, <2>2, <2>3 DEF CallFits
<1>9. CASE HandleBitfield \/ HandleReturns
  BY <1>0, <1>9 DEF HandleBitfield, HandleReturns, Introduced, Raise, FetchEnds, CallFits, Opened
<1>10. CASE RemoteSends \/ RemoteCloses \/ ConnectionLost
  BY <1>0, <1>10 DEF RemoteSends, RemoteCloses, ConnectionLost, CallFits, Opened
<1>11. CASE UNCHANGED vars
  BY <1>11 DEF vars, CallFits
<1> QED
  BY <1>1, <1>2, <1>3, <1>4, <1>5, <1>6, <1>7, <1>8, <1>9, <1>10, <1>11 DEF Next, Handle

(* The initial state is one of PeerIntroduction.                           *)
LEMMA IntroductionBegins == Init => Introduction!Init
  BY DEF Init, Introduction!Init, Stage

(* Every step is a step of PeerIntroduction or leaves it alone.            *)
LEMMA IntroductionGoesOn ==
  IInv /\ CallFits /\ CallFits' /\ [Next]_vars
    => [Introduction!Next]_(Introduction!vars)
<1> SUFFICES ASSUME IInv, CallFits, CallFits', [Next]_vars
             PROVE  [Introduction!Next]_(Introduction!vars)
  OBVIOUS
<1>0. /\ link \in [active : BOOLEAN, disconnects : Nat, writer : Writers]
      /\ hasHandshaked \in BOOLEAN /\ call \in Calls
  BY DEF IInv, TypeOK
<1>d. /\ Disconnected(link).active = FALSE
      /\ Disconnected(Disconnected(link)).active = FALSE
  BY DEF Disconnected
<1>1. CASE ConnectSucceeds
  BY <1>0, <1>1 DEF ConnectSucceeds, Stage, CallFits,
     Introduction!Next, Introduction!Connect, Introduction!Use, Introduction!vars
<1>2. CASE ConnectFails
  BY <1>0, <1>2 DEF ConnectFails, Raise, FetchEnds, Stage, CallFits, Disconnected, DrainRaises,
     Introduction!Next, Introduction!Connect, Introduction!Use, Introduction!vars
<1>3. CASE Handshake
  BY <1>0, <1>3 DEF Handshake, Write, Stage, CallFits,
     Introduction!Next, Introduction!StartHandshake, Introduction!Use, Introduction!vars
<1>4. CASE Interested
  BY <1>0, <1>4 DEF Interested, Introduced, Write, FetchEnds, Stage, CallFits,
     Introduction!Next, Introduction!StartInterested, Introduction!Use, Introduction!vars
<1>5. CASE Request \/ Reconnect \/ RequestRefused
  BY <1>0, <1>5 DEF Request, Reconnect, RequestRefused, Write, NoResponse, FetchEnds, Stage,
     CallFits, Introduction!Next, Introduction!Use, Introduction!vars
<1>6. CASE Read
  <2>0. /\ UNCHANGED <<call, reconnecting, hasHandshaked>>
        /\ pc = "reading" /\ pc' \in {"reading", "parse"}
        /\ link' \in {link, Disconnected(link), Disconnected(Disconnected(link))}
    BY <1>0, <1>6 DEF Read, ReadData, ReadEmpty, ReadLost, ReadTimesOut
  <2>1. /\ UNCHANGED <<call, reconnecting, hasHandshaked>>
        /\ pc = "reading" /\ pc' \in {"reading", "parse"}
        /\ link'.active \in BOOLEAN /\ (link'.active => link.active)
    <3>1. link.active \in BOOLEAN
      BY <1>0
    <3> QED
      BY <1>d, <2>0, <3>1
  <2>2. Stage' = Stage
    BY <2>1 DEF Stage
  <2>3. Stage \in {"over", "handshaking", "declaring"}
    BY <2>1 DEF Stage
  <2>4. CASE Stage = "over"
    <3>1. Introduction!Use
      BY <1>0, <2>1, <2>2, <2>4 DEF Introduction!Use
    <3> QED
      BY <3>1 DEF Introduction!Next
  <2>5. CASE Stage \in {"handshaking", "declaring"}
    <3>1. Introduction!Exchange
      BY <1>0, <2>1, <2>2, <2>5 DEF Introduction!Exchange, Introduction!Exchanges
    <3> QED
      BY <3>1 DEF Introduction!Next
  <2> QED
    BY <2>3, <2>4, <2>5
<1>7. CASE EmptyResponse \/ Parse
  BY <1>0, <1>7 DEF EmptyResponse, Parse, NoResponse, FetchEnds, Stage, CallFits, Introduction!vars
<1>8. CASE Handle
  <2>0. /\ pc = "handle" /\ link' \in {link, Disconnected(link)}
        /\ UNCHANGED hasHandshaked \/ hasHandshaked' = TRUE
        /\ UNCHANGED call
    BY <1>8 DEF Handle, HandleChoke, HandleHandshake, HandleBitfield, HandleReturns
  <2>1. /\ pc = "handle" /\ link'.active \in BOOLEAN /\ (link'.active => link.active)
        /\ hasHandshaked' \in BOOLEAN /\ (hasHandshaked => hasHandshaked')
        /\ UNCHANGED call
    <3>1. link.active \in BOOLEAN
      BY <1>0
    <3>2. hasHandshaked' \in BOOLEAN /\ (hasHandshaked => hasHandshaked')
      <4>1. CASE UNCHANGED hasHandshaked
        BY <1>0, <4>1
      <4>2. CASE hasHandshaked' = TRUE
        BY <4>2
      <4> QED
        BY <2>0, <4>1, <4>2
    <3>3. link'.active \in BOOLEAN /\ (link'.active => link.active)
      BY <1>d, <2>0, <3>1
    <3> QED
      BY <2>0, <3>2, <3>3
  <2>2. \/ pc' = "handle" /\ UNCHANGED reconnecting
        \/ (call = "request" \/ reconnecting) /\ pc' = "rest"
        \/ ~(call = "request" \/ reconnecting) /\ pc' = "raised"
        \/ call = "handshake" /\ pc' = "shaken" /\ UNCHANGED reconnecting
        \/ call = "interested" /\ pc' = "rest"
    BY <1>8 DEF Handle, HandleChoke, HandleHandshake, HandleBitfield, HandleReturns, Raise,
       FetchEnds, Introduced
  <2>3. \/ Stage = "over" /\ Stage' = "over"
        \/ Stage = "handshaking" /\ Stage' \in {"handshaking", "shaken", "raised"}
        \/ Stage = "declaring" /\ Stage' \in {"declaring", "over", "raised"}
    BY <1>0, <2>1, <2>2 DEF Stage, Calls
  <2>4. CASE Stage = "over" /\ Stage' = "over"
    <3>1. Introduction!Use
      BY <1>0, <2>1, <2>4 DEF Introduction!Use
    <3> QED
      BY <3>1 DEF Introduction!Next
  <2>5. CASE \/ Stage = "handshaking" /\ Stage' \in {"handshaking", "shaken", "raised"}
             \/ Stage = "declaring" /\ Stage' \in {"declaring", "over", "raised"}
    <3>1. Stage \in Introduction!Exchanges
      BY <2>5 DEF Introduction!Exchanges
    <3>2. Stage' \in {Stage, Introduction!After(Stage), "raised"}
      BY <2>5 DEF Introduction!After
    <3>3. Introduction!Exchange
      BY <2>1, <3>1, <3>2 DEF Introduction!Exchange
    <3> QED
      BY <3>3 DEF Introduction!Next
  <2> QED
    BY <2>3, <2>4, <2>5
<1>9. CASE RemoteSends \/ RemoteCloses \/ ConnectionLost
  BY <1>0, <1>9 DEF RemoteSends, RemoteCloses, ConnectionLost, Stage, Introduction!vars
<1>10. CASE UNCHANGED vars
  BY <1>10 DEF vars, Stage, Introduction!vars
<1> QED
  BY <1>1, <1>2, <1>3, <1>4, <1>5, <1>6, <1>7, <1>8, <1>9, <1>10 DEF Next

(* Peer implements PeerIntroduction, whatever the limits and the traffic.  *)
THEOREM PeersIntroduced == Spec => IntroductionSpec
<1>1. Init => CallFits
  BY CallFitsInitially
<1>2. IInv /\ CallFits /\ [Next]_vars => CallFits'
  BY CallFitsAlways
<1>3. Spec => []CallFits
  BY <1>1, <1>2, SessionInvariant, PTL DEF Spec
<1> QED
  BY <1>3, SessionInvariant, IntroductionBegins, IntroductionGoesOn, PTL
  DEF Spec, IntroductionSpec, Introduction!Spec
=============================================================================
