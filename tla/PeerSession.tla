---------------------------- MODULE PeerSession -----------------------------
(***************************************************************************)
(* One Peer (aiotorrent/peer.py) over its TCP connections, together with   *)
(* PeerResponseHandler (aiotorrent/core/response_handler.py): connected,   *)
(* handshaken and declared interested by Torrent.init, then asked for      *)
(* blocks by one borrower at a time (PeerConservation of PieceDownload),   *)
(* re-connected by send_message when it has been disconnected.             *)
(*                                                                         *)
(* The remote end and the network are external: they deliver messages,     *)
(* close the connection or lose it at any time. PeerResponseParser may     *)
(* drop any message that it was given.                                     *)
(***************************************************************************)
EXTENDS Integers, FiniteSets

CONSTANTS
  MaxDisconnects,   (* the 10 of send_message                              *)
  EmptyThreshold,   (* EMPTY_RESPONSE_THRESHOLD                            *)
  RemoteBudget      (* bound: messages the remote end sends in all         *)

ASSUME PeerSessionAssumption ==
  MaxDisconnects \in Nat /\ EmptyThreshold \in Nat /\ RemoteBudget \in Nat

VARIABLES
  pc,             (* where the coroutine that uses the peer is             *)
  call,           (* the message that send_message sends or has sent       *)
  reconnecting,   (* inside the re-connection of an inactive peer          *)
  link,           (* Peer.active, Peer.total_disconnects, the writer       *)
  hasHandshaked,  (* Peer.has_handshaked                                   *)
  piecesFit,      (* Peer.pieces is as long as the torrent                 *)
  inbox,          (* delivered on the connection, not read                 *)
  artifacts,      (* response_buffer, then what the parser made of it      *)
  threshold,      (* empty reads left                                      *)
  outcome,        (* what the latest fetch_blocks made of it               *)
  sent,           (* messages the remote end has sent                      *)
  connections     (* history: connections opened                           *)

vars == <<pc, call, reconnecting, link, hasHandshaked, piecesFit, inbox,
          artifacts, threshold, outcome, sent, connections>>

-----------------------------------------------------------------------------
(* Messages: a handshake may be cut short by the timeout or speak another  *)
(* protocol, and so may a bitfield be cut. unchoke and keep-alive change   *)
(* nothing that is read anywhere.                                          *)
Handshakes == {"handshake", "short handshake", "other protocol"}
Bitfields == {"bitfield", "cut bitfield", "have"}
Messages == Handshakes \cup Bitfields \cup {"choke", "piece"}

Calls == {"handshake", "interested", "request"}

(* A writer: "none" before the first connection, "open", "eof" when the    *)
(* remote end has closed, "lost" when the connection is broken, "closed"   *)
(* by disconnect.                                                          *)
Writers == {"none", "open", "eof", "lost", "closed"}

(* Mutant: a disconnect that is not counted.                               *)
DisconnectedUncounted(l) ==
  [active |-> FALSE,
   disconnects |-> l.disconnects,
   writer |-> IF l.writer \in {"open", "eof"} THEN "closed" ELSE l.writer]

(* Mutant: the writer is not closed.                                       *)
DisconnectedUnclosed(l) ==
  [active |-> FALSE, disconnects |-> l.disconnects + 1, writer |-> l.writer]

(* disconnect: drain raises ConnectionResetError on a writer that is lost  *)
(* or closed, before the writer is closed.                                 *)
Disconnected(l) ==
  [active |-> FALSE,
   disconnects |-> l.disconnects + 1,
   writer |-> IF l.writer \in {"open", "eof"} THEN "closed" ELSE l.writer]
DrainRaises(l) == l.writer \in {"lost", "closed"}

TypeOK ==
  /\ pc \in {"connecting", "connected", "shaken", "reading", "parse",
             "handle", "rest", "raised"}
  /\ call \in Calls
  /\ reconnecting \in BOOLEAN
  /\ link \in [active : BOOLEAN, disconnects : Nat, writer : Writers]
  /\ hasHandshaked \in BOOLEAN /\ piecesFit \in BOOLEAN
  /\ inbox \in SUBSET Messages /\ artifacts \in SUBSET Messages
  /\ threshold \in -2 .. EmptyThreshold
  /\ outcome \in {"none", "blocks", "None", "IOError", "crash"}
  /\ sent \in 0 .. RemoteBudget
  /\ connections \in Nat

Init ==
  /\ pc = "connecting" /\ call = "handshake" /\ reconnecting = FALSE
  /\ link = [active |-> FALSE, disconnects |-> 0, writer |-> "none"]
  /\ hasHandshaked = FALSE /\ piecesFit = TRUE
  /\ inbox = {} /\ artifacts = {} /\ threshold = EmptyThreshold
  /\ outcome = "none" /\ sent = 0 /\ connections = 0

-----------------------------------------------------------------------------
(* fetch_blocks ends.                                                      *)
FetchEnds(result) ==
  pc' = "rest" /\ reconnecting' = FALSE /\ outcome' = result

(* An exception leaves the coroutine: out of Torrent.init, which gathers   *)
(* without return_exceptions, or out of fetch_blocks, to Piece.download,   *)
(* which handles an IOError (ConnectionResetError is one) and nothing else.*)
Raise(exception) ==
  IF call = "request" \/ reconnecting
  THEN FetchEnds(exception)
  ELSE pc' = "raised" /\ UNCHANGED <<reconnecting, outcome>>

(* Peer.connect; a failure disconnects. The writer of a former connection  *)
(* makes that raise.                                                       *)
ConnectSucceeds ==
  /\ pc = "connecting"
  /\ link' = [link EXCEPT !.active = TRUE, !.writer = "open"]
  /\ inbox' = {} /\ connections' = connections + 1
  /\ pc' = "connected"
  /\ UNCHANGED <<call, reconnecting, hasHandshaked, piecesFit, artifacts, threshold, outcome, sent>>

ConnectFails ==
  /\ pc = "connecting"
  /\ link' = Disconnected(link)
  /\ IF DrainRaises(link)
     THEN Raise("IOError")
     ELSE pc' = "connected" /\ UNCHANGED <<reconnecting, outcome>>
  /\ UNCHANGED <<call, hasHandshaked, piecesFit, inbox, artifacts, threshold, sent, connections>>

(* send_message to an active peer: writer.write, then the loop of reads.   *)
Write(message) ==
  /\ call' = message
  /\ artifacts' = {} /\ threshold' = EmptyThreshold
  /\ pc' = "reading"
  /\ UNCHANGED <<reconnecting, link, hasHandshaked, piecesFit, inbox, outcome, sent, connections>>

(* The end of the introduction: Torrent.init goes on with its other peers, *)
(* or send_message raises BrokenPipeError, an IOError.                     *)
Introduced ==
  IF reconnecting
  THEN FetchEnds("IOError")
  ELSE pc' = "rest" /\ UNCHANGED <<reconnecting, outcome>>

(* Peer.handshake                                                          *)
Handshake ==
  /\ pc = "connected"
  /\ \/ link.active /\ Write("handshake")
     \/ /\ ~link.active
        /\ pc' = "shaken"
        /\ UNCHANGED <<call, reconnecting, link, hasHandshaked, piecesFit, inbox,
                       artifacts, threshold, outcome, sent, connections>>

(* Mutant: interest is declared to a peer that did not shake hands.        *)
InterestedUnshaken ==
  /\ pc = "shaken"
  /\ \/ link.active /\ Write("interested")
     \/ /\ ~link.active
        /\ Introduced
        /\ UNCHANGED <<call, link, hasHandshaked, piecesFit, inbox, artifacts,
                       threshold, sent, connections>>

(* Peer.intrested                                                          *)
Interested ==
  /\ pc = "shaken"
  /\ \/ link.active /\ hasHandshaked /\ Write("interested")
     \/ /\ ~(link.active /\ hasHandshaked)
        /\ Introduced
        /\ UNCHANGED <<call, link, hasHandshaked, piecesFit, inbox, artifacts,
                       threshold, sent, connections>>

(* fetch_blocks: an empty response clears the piece in Peer.pieces and is  *)
(* an IOError; the piece may be out of the range of a cut bitfield.        *)
NoResponse ==
  \/ FetchEnds("IOError")
  \/ ~piecesFit /\ FetchEnds("crash")

(* Mutant: the peer is re-connected however often it has been disconnected.*)
ReconnectAlways ==
  /\ pc = "rest" /\ hasHandshaked /\ ~link.active
  /\ pc' = "connecting" /\ reconnecting' = TRUE
  /\ UNCHANGED <<call, link, hasHandshaked, piecesFit, inbox, artifacts, threshold,
                 outcome, sent, connections>>

(* A borrower asks for blocks: send_message to an active peer writes the   *)
(* requests, ...                                                           *)
Request ==
  /\ pc = "rest" /\ hasHandshaked /\ link.active
  /\ Write("request")

(* ... connects an inactive one first, ...                                 *)
Reconnect ==
  /\ pc = "rest" /\ hasHandshaked /\ ~link.active
  /\ link.disconnects <= MaxDisconnects
  /\ pc' = "connecting" /\ reconnecting' = TRUE
  /\ UNCHANGED <<call, link, hasHandshaked, piecesFit, inbox, artifacts, threshold,
                 outcome, sent, connections>>

(* ... and returns at once when it has been disconnected too often.        *)
RequestRefused ==
  /\ pc = "rest" /\ hasHandshaked /\ ~link.active
  /\ link.disconnects > MaxDisconnects
  /\ NoResponse
  /\ UNCHANGED <<call, link, hasHandshaked, piecesFit, inbox, artifacts, threshold,
                 sent, connections>>

-----------------------------------------------------------------------------
(* The loop of send_message: data is added to the response, ...            *)
ReadData ==
  /\ pc = "reading" /\ link.writer \in {"open", "eof"} /\ inbox # {}
  /\ artifacts' = artifacts \cup inbox /\ inbox' = {}
  /\ UNCHANGED <<pc, call, reconnecting, link, hasHandshaked, piecesFit, threshold,
                 outcome, sent, connections>>

(* Mutant: empty reads are not counted.                                    *)
ReadEmptyForever ==
  /\ pc = "reading" /\ link.writer \in {"eof", "closed"} /\ inbox = {}
  /\ UNCHANGED vars

(* Mutant: the loop is not left by the exception of a second disconnect.   *)
ReadEmptyOnAndOn ==
  /\ pc = "reading" /\ link.writer \in {"eof", "closed"} /\ inbox = {}
  /\ threshold' = threshold - 1
  /\ link' = IF threshold <= 0 THEN Disconnected(link) ELSE link
  /\ UNCHANGED <<pc, call, reconnecting, hasHandshaked, piecesFit, inbox, artifacts,
                 outcome, sent, connections>>

(* ... nothing is read again and again after the end of the stream: once   *)
(* the threshold is exceeded every empty read disconnects. The first       *)
(* disconnect closes the writer and the loop goes on; the drain of the     *)
(* second raises, and the except clause disconnects a third time.          *)
ReadEmpty ==
  /\ pc = "reading" /\ link.writer \in {"eof", "closed"} /\ inbox = {}
  /\ threshold' = threshold - 1
  /\ \/ threshold > 0 /\ UNCHANGED <<pc, link>>
     \/ threshold <= 0 /\ ~DrainRaises(link) /\ link' = Disconnected(link) /\ UNCHANGED pc
     \/ /\ threshold <= 0 /\ DrainRaises(link)
        /\ link' = Disconnected(Disconnected(link))
        /\ pc' = "parse"
  /\ UNCHANGED <<call, reconnecting, hasHandshaked, piecesFit, inbox, artifacts,
                 outcome, sent, connections>>

(* ... a lost connection raises: it is disconnected (drain raises again,   *)
(* and finally returns all the same) if the error is one of the three that *)
(* are caught; with another one (the time of TCP is out, no route to the   *)
(* host) the peer stays active, ...                                        *)
ReadLost ==
  /\ pc = "reading" /\ link.writer = "lost"
  /\ link' \in {Disconnected(link), link}
  /\ pc' = "parse"
  /\ UNCHANGED <<call, reconnecting, hasHandshaked, piecesFit, inbox, artifacts,
                 threshold, outcome, sent, connections>>

(* ... and silence ends the loop.                                          *)
ReadTimesOut ==
  /\ pc = "reading" /\ link.writer = "open" /\ inbox = {}
  /\ pc' = "parse"
  /\ UNCHANGED <<call, reconnecting, link, hasHandshaked, piecesFit, inbox, artifacts,
                 threshold, outcome, sent, connections>>

Read == ReadData \/ ReadEmpty \/ ReadLost \/ ReadTimesOut

-----------------------------------------------------------------------------
(* "if not response" of fetch_blocks.                                      *)
EmptyResponse ==
  /\ pc = "parse" /\ call = "request" /\ artifacts = {}
  /\ NoResponse
  /\ UNCHANGED <<call, link, hasHandshaked, piecesFit, inbox, artifacts, threshold,
                 sent, connections>>

(* PeerResponseParser.parse: the artifacts are a dict, with one handshake  *)
(* and one bitfield.                                                       *)
Parse ==
  /\ pc = "parse" /\ ~(call = "request" /\ artifacts = {})
  /\ \E parsed \in SUBSET artifacts :
       /\ Cardinality(parsed \cap Handshakes) <= 1
       /\ ~({"bitfield", "cut bitfield"} \subseteq parsed)
       /\ artifacts' = parsed
  /\ pc' = "handle"
  /\ UNCHANGED <<call, reconnecting, link, hasHandshaked, piecesFit, inbox, threshold,
                 outcome, sent, connections>>

(* PeerResponseHandler.handle takes the artifacts in a fixed order: ...    *)
HandleChoke ==
  /\ pc = "handle" /\ "choke" \in artifacts
  /\ link' = Disconnected(link)
  /\ artifacts' = artifacts \ {"choke"}
  /\ IF DrainRaises(link) THEN Raise("IOError") ELSE UNCHANGED <<pc, reconnecting, outcome>>
  /\ UNCHANGED <<call, hasHandshaked, piecesFit, inbox, threshold, sent, connections>>

(* ... a handshake cut short disconnects, and the unpack after that raises *)
(* struct.error; one of another protocol disconnects and counts as a       *)
(* handshake all the same; ...                                             *)
HandleHandshake ==
  /\ pc = "handle" /\ "choke" \notin artifacts
  /\ \E h \in artifacts \cap Handshakes :
       /\ artifacts' = artifacts \ {h}
       /\ link' = IF h = "handshake" THEN link ELSE Disconnected(link)
       /\ \/ /\ h # "handshake" /\ DrainRaises(link)
             /\ Raise("IOError") /\ UNCHANGED hasHandshaked
          \/ /\ h = "short handshake" /\ ~DrainRaises(link)
             /\ Raise("crash") /\ UNCHANGED hasHandshaked
          \/ /\ h = "handshake" \/ (h = "other protocol" /\ ~DrainRaises(link))
             /\ hasHandshaked' = TRUE /\ UNCHANGED <<pc, reconnecting, outcome>>
  /\ UNCHANGED <<call, piecesFit, inbox, threshold, sent, connections>>

(* ... a bitfield replaces Peer.pieces, and without one an empty BitArray  *)
(* for the have message does; a have may be out of range of a cut one; ... *)
HandleBitfield ==
  /\ pc = "handle"
  /\ artifacts \cap (Handshakes \cup {"choke"}) = {} /\ artifacts \cap Bitfields # {}
  /\ \/ /\ piecesFit' = ("cut bitfield" \notin artifacts)
        /\ UNCHANGED <<pc, reconnecting, outcome>>
     \/ /\ {"cut bitfield", "have"} \subseteq artifacts
        /\ Raise("crash") /\ UNCHANGED piecesFit
  /\ artifacts' = artifacts \ Bitfields
  /\ UNCHANGED <<call, link, hasHandshaked, inbox, threshold, sent, connections>>

(* ... blocks are returned, to a caller that wants them or not; without    *)
(* them handle returns None, a TypeError in fetch_blocks.                  *)
HandleReturns ==
  /\ pc = "handle" /\ artifacts \subseteq {"piece"}
  /\ \/ call = "handshake" /\ pc' = "shaken" /\ UNCHANGED <<reconnecting, outcome>>
     \/ call = "interested" /\ Introduced
     \/ call = "request" /\ FetchEnds(IF artifacts = {} THEN "None" ELSE "blocks")
  /\ artifacts' = {}
  /\ UNCHANGED <<call, link, hasHandshaked, piecesFit, inbox, threshold, sent, connections>>

-----------------------------------------------------------------------------
(* External: the remote end and the network.                               *)
RemoteSends ==
  /\ link.writer = "open" /\ sent < RemoteBudget
  /\ \E m \in Messages : inbox' = inbox \cup {m}
  /\ sent' = sent + 1
  /\ UNCHANGED <<pc, call, reconnecting, link, hasHandshaked, piecesFit, artifacts,
                 threshold, outcome, connections>>

RemoteCloses ==
  /\ link.writer = "open"
  /\ link' = [link EXCEPT !.writer = "eof"]
  /\ UNCHANGED <<pc, call, reconnecting, hasHandshaked, piecesFit, inbox, artifacts,
                 threshold, outcome, sent, connections>>

ConnectionLost ==
  /\ link.writer = "open"
  /\ link' = [link EXCEPT !.writer = "lost"]
  /\ inbox' = {}
  /\ UNCHANGED <<pc, call, reconnecting, hasHandshaked, piecesFit, artifacts, threshold,
                 outcome, sent, connections>>

Handle == HandleChoke \/ HandleHandshake \/ HandleBitfield \/ HandleReturns

Next ==
  \/ ConnectSucceeds \/ ConnectFails \/ Handshake \/ Interested
  \/ Request \/ Reconnect \/ RequestRefused
  \/ Read \/ EmptyResponse \/ Parse \/ Handle
  \/ RemoteSends \/ RemoteCloses \/ ConnectionLost

Spec == Init /\ [][Next]_vars

(* reader.read returns or asyncio.wait_for times out.                      *)
FairSpec == Spec /\ WF_vars(Read)

-----------------------------------------------------------------------------
(* Whatever order of failures, answers and timeouts: an active peer has a  *)
(* connection of its own, and an inactive one holds no open socket.        *)
SocketFollowsActive ==
  /\ link.active => link.writer \in {"open", "eof", "lost"}
  /\ ~link.active => link.writer \in {"none", "lost", "closed"}

(* A peer that is disconnected time and again is given up: connected once  *)
(* by init and at most MaxDisconnects times after that.                    *)
ReconnectsBounded == connections <= MaxDisconnects + 1

(* What a peer that is given up has been charged: the last connection may  *)
(* cost four disconnects, three at its end of stream and one in a handler. *)
DisconnectsBounded == link.disconnects <= MaxDisconnects + 4

(* send_message returns when the remote end is silent or gone: a closed    *)
(* connection, which never times out, does not keep it reading for ever.   *)
SendEnds == pc = "reading" ~> pc # "reading"

(* What Torrent.init sees of the peer: requests and re-connections come    *)
(* after the introduction.                                                 *)
Stage ==
  IF pc = "raised" THEN "raised"
  ELSE IF pc = "rest" \/ reconnecting \/ call = "request" THEN "over"
  ELSE IF pc = "connecting" THEN "new"
  ELSE IF pc \in {"connected", "shaken"} THEN pc
  ELSE IF call = "handshake" THEN "handshaking" ELSE "declaring"

Introduction ==
  INSTANCE PeerIntroduction
    WITH stage <- Stage, active <- link.active, handshaked <- hasHandshaked

(* Peer implements PeerIntroduction: whatever the remote end does, init    *)
(* connects the peer once, exchanges messages with active peers only,      *)
(* declares interest to peers that have shaken hands, and nothing but an   *)
(* exchange raises.                                                        *)
IntroductionSpec == Introduction!Spec

(* response_handler.py:58-59, on the handshake: "if empty or no response,  *)
(* peer is inactive", "if response is less than 68, wrong response by      *)
(* peer": such a peer is disconnected, and Torrent.init goes on without it.*)
InitGoesOn == pc # "raised"
=============================================================================
