--------------------------- MODULE ResponseParser ---------------------------
(***************************************************************************)
(* PeerResponseParser.parse (aiotorrent/core/response_parser.py) over the  *)
(* bytes that one call of Peer.send_message has read: the messages of the  *)
(* remote end one after the other, the last of them cut anywhere by the    *)
(* timeout of the read. One action is one iteration of the while loop.     *)
(*                                                                         *)
(* The remote end is external: it sends well-formed messages, as a peer    *)
(* that follows the protocol does.                                         *)
(***************************************************************************)
EXTENDS Integers, Sequences, SequencesExt, TLC

CONSTANTS
  HandshakeLength,   (* 68                                                 *)
  Streams            (* what a remote end may send: sequences of messages  *)

Byte == 0 .. 255

(* The ids of length-prefixed messages. The parser has no entry for the    *)
(* last three.                                                             *)
Id == [choke |-> 0, unchoke |-> 1, have |-> 4, bitfield |-> 5, piece |-> 7,
       interested |-> 2, not_interested |-> 3, port |-> 9]
KnownIds == {0, 1, 4, 5, 7, 19}
Kinds == DOMAIN Id \cup {"handshake", "keep_alive"}

(* What the protocol says of a message. The first byte of a length, which  *)
(* the parser compares with that of a handshake, is 0: no message is so    *)
(* long that it would not be.                                              *)
WellFormed(m) ==
  /\ Len(m.body) + 1 < 256 * 256 * 256
  /\ m.kind = "handshake" => Len(m.body) = HandshakeLength - 1
  /\ m.kind \in {"choke", "unchoke"} => Len(m.body) = 0
  /\ m.kind = "have" => Len(m.body) = 4
  /\ m.kind = "piece" => Len(m.body) >= 8

ASSUME ParserAssumption ==
  /\ HandshakeLength \in Nat \ {0}
  /\ \A s \in Streams : /\ s \in Seq([kind : Kinds, body : Seq(Byte)])
                       /\ \A i \in DOMAIN s : WellFormed(s[i])

VARIABLES
  stream,      (* what the remote end sends                                *)
  received,    (* how many bytes of it were read                           *)
  response,    (* bytes not parsed yet                                     *)
  artifacts    (* the dict: a function on the keys it has                  *)

vars == <<stream, received, response, artifacts>>

-----------------------------------------------------------------------------
(* External: struct.pack('>I', n) for lengths of messages.                 *)
Pack(n) == <<0, n \div (256 * 256), (n \div 256) % 256, n % 256>>

(* External: messages on the wire.                                         *)
Encode(m) ==
  CASE m.kind = "handshake"  -> <<19>> \o m.body
    [] m.kind = "keep_alive" -> Pack(0)
    [] OTHER -> Pack(Len(m.body) + 1) \o <<Id[m.kind]>> \o m.body

(* Some sequences one after the other, up to each one of them.             *)
Joined(parts) ==
  LET joined[i \in 0 .. Len(parts)] == IF i = 0 THEN <<>> ELSE joined[i - 1] \o parts[i]
  IN joined

(* What is on the wire with the first n messages.                          *)
Sent(s, n) == Joined([i \in DOMAIN s |-> Encode(s[i])])[n]
Wire(s) == Sent(s, Len(s))

(* b[from:to] of Python, counted from 0, and b[from:].                     *)
Slice(b, from, to) == SubSeq(b, from + 1, IF to < Len(b) THEN to ELSE Len(b))
Drop(b, n) == SubSeq(b, n + 1, Len(b))

(* unpack('>I', b[at:at+4])                                                *)
Number(b, at) ==
  ((b[at + 1] * 256 + b[at + 2]) * 256 + b[at + 3]) * 256 + b[at + 4]

-----------------------------------------------------------------------------
(* message_len and message_id, None for a length of 0; unpack raises when  *)
(* their bytes are not all there.                                          *)
MessageLen == Number(response, 0)
MessageId == response[5]
StartsWithHandshake == response # <<>> /\ response[1] = 19
HasHeader ==
  /\ response # <<>> /\ ~StartsWithHandshake
  /\ Len(response) >= 4 /\ (MessageLen = 0 \/ Len(response) >= 5)
IsMessage(id) == HasHeader /\ MessageLen # 0 /\ MessageId = id

(* The value of messages without a body; a number, as it is in Python.     *)
True == 1

(* artifacts.update({key: value})                                          *)
Updated(key, value) ==
  [k \in DOMAIN artifacts \cup {key} |-> IF k = key THEN value ELSE artifacts[k]]

Parsed(key, value, total) ==
  /\ artifacts' = Updated(key, value)
  /\ response' = Drop(response, total)

(* The except clause of the loop.                                          *)
Fail == response' = <<>>

Keys == {"handshake", "keep_alive", "choke", "unchoke", "have", "bitfield", "pieces"}

(* What the handlers rely on: a handshake is never longer than it may be,  *)
(* a block is an index, an offset and data.                                *)
ArtifactsOK ==
  /\ DOMAIN artifacts \subseteq Keys
  /\ "handshake" \in DOMAIN artifacts =>
       artifacts["handshake"] \in Seq(Byte) /\ Len(artifacts["handshake"]) <= HandshakeLength
  /\ "have" \in DOMAIN artifacts => artifacts["have"] \in Nat
  /\ "bitfield" \in DOMAIN artifacts => artifacts["bitfield"] \in Seq(Byte)
  /\ "pieces" \in DOMAIN artifacts => artifacts["pieces"] \in Seq(Nat \X Nat \X Seq(Byte))

TypeOK ==
  /\ stream \in Streams /\ received \in Nat
  /\ response \in Seq(Byte)
  /\ ArtifactsOK

(* A response of the whole stream but for some bytes of its last message.  *)
Init ==
  /\ stream \in Streams /\ stream # <<>>
  /\ received \in 1 .. Len(Wire(stream)) /\ received > Len(Sent(stream, Len(stream) - 1))
  /\ response = SubSeq(Wire(stream), 1, received)
  /\ artifacts = [k \in {} |-> TRUE]

(* Mutant: the bytes of the handshake stay in the response.                *)
ParseHandshakeKept ==
  /\ StartsWithHandshake
  /\ artifacts' = Updated("handshake", response)
  /\ UNCHANGED <<stream, received, response>>

(* By the first byte, or by an id of 19.                                   *)
ParseHandshake ==
  /\ StartsWithHandshake \/ IsMessage(19)
  /\ Parsed("handshake", Slice(response, 0, HandshakeLength), HandshakeLength)
  /\ UNCHANGED <<stream, received>>

(* A length or an id that is not all there.                                *)
ParseHeaderCut ==
  /\ response # <<>> /\ ~StartsWithHandshake /\ ~HasHeader
  /\ Fail
  /\ UNCHANGED <<stream, received, artifacts>>

(* parse_keep_alive is called for the length, and once more for the id     *)
(* None: four bytes of what follows go with it.                            *)
ParseKeepAlive ==
  /\ HasHeader /\ MessageLen = 0
  /\ Parsed("keep_alive", True, 8)
  /\ UNCHANGED <<stream, received>>

(* Mutant: the response is not cleared, and the loop meets it again.       *)
ParseUnknownKept ==
  /\ HasHeader /\ MessageLen # 0 /\ MessageId \notin KnownIds
  /\ UNCHANGED vars

(* An unknown id clears the response; the look-up raises after that.       *)
ParseUnknown ==
  /\ HasHeader /\ MessageLen # 0 /\ MessageId \notin KnownIds
  /\ Fail
  /\ UNCHANGED <<stream, received, artifacts>>

(* parse_choke, parse_unchoke                                              *)
ParseChoke ==
  /\ \/ IsMessage(0) /\ Parsed("choke", True, 5)
     \/ IsMessage(1) /\ Parsed("unchoke", True, 5)
  /\ UNCHANGED <<stream, received>>

(* Mutant: the first have message is kept.                                 *)
ParseHaveFirst ==
  /\ IsMessage(4)
  /\ \/ /\ Len(response) >= 9
        /\ artifacts' = artifacts @@ ("have" :> Number(response, 5))
        /\ response' = Drop(response, 9)
     \/ Len(response) < 9 /\ Fail /\ UNCHANGED artifacts
  /\ UNCHANGED <<stream, received>>

(* The latest have message replaces those before; one cut short raises.    *)
ParseHave ==
  /\ IsMessage(4)
  /\ \/ Len(response) >= 9 /\ Parsed("have", Number(response, 5), 9)
     \/ Len(response) < 9 /\ Fail /\ UNCHANGED artifacts
  /\ UNCHANGED <<stream, received>>

(* Mutant: the length of the message is taken for that of the bitfield.    *)
ParseBitfieldOneMore ==
  /\ IsMessage(5)
  /\ Parsed("bitfield", Slice(response, 5, MessageLen + 5), MessageLen + 5)
  /\ UNCHANGED <<stream, received>>

(* As much of the bitfield as there is; the id, 5, is used for the length  *)
(* of the header.                                                          *)
ParseBitfield ==
  /\ IsMessage(5)
  /\ LET total == MessageLen - 1 + MessageId
     IN Parsed("bitfield", Slice(response, 5, total), total)
  /\ UNCHANGED <<stream, received>>

Pieces == IF "pieces" \in DOMAIN artifacts THEN artifacts["pieces"] ELSE <<>>

(* Mutant: a block that is not all there is dropped.                       *)
ParsePieceWhole ==
  /\ IsMessage(7)
  /\ LET total == MessageLen - 9 + 13
         block == <<Number(response, 5), Number(response, 9), Slice(response, 13, total)>>
     IN IF Len(response) >= total
        THEN Parsed("pieces", Append(Pieces, block), total)
        ELSE Parsed("pieces", Pieces, total)
  /\ UNCHANGED <<stream, received>>

(* Index, offset and as much of the block as there is. Without the index   *)
(* and the offset it raises, the list of pieces being there already.       *)
ParsePiece ==
  /\ IsMessage(7)
  /\ LET total == MessageLen - 9 + 13
         block == <<Number(response, 5), Number(response, 9), Slice(response, 13, total)>>
     IN \/ Len(response) >= 13 /\ Parsed("pieces", Append(Pieces, block), total)
        \/ Len(response) < 13 /\ Fail /\ artifacts' = Updated("pieces", Pieces)
  /\ UNCHANGED <<stream, received>>

Next ==
  \/ ParseHandshake \/ ParseHeaderCut \/ ParseKeepAlive \/ ParseUnknown
  \/ ParseChoke \/ ParseHave \/ ParseBitfield \/ ParsePiece

Spec == Init /\ [][Next]_vars

(* parse is a plain loop that nothing interrupts.                          *)
FairSpec == Spec /\ WF_vars(Next)

-----------------------------------------------------------------------------
(* The end of the n-th message, and the number of bytes parsed or dropped. *)
Boundary(n) == Len(Sent(stream, n))
Consumed == received - Len(response)

(* Messages that put the parser out of step: nothing is promised for what  *)
(* comes after a keep-alive or a message of an unknown id.                 *)
Unhandled == {"keep_alive", "interested", "not_interested", "port"}
Handled(i) == \A j \in 1 .. i - 1 : stream[j].kind \notin Unhandled

(* The loop is at the beginning of a message whenever it reads a length:   *)
(* as long as no keep-alive came before, no bytes of a body are taken for  *)
(* a header, whatever the messages and the cut.                            *)
InStep ==
  response # <<>> =>
    \E i \in DOMAIN stream :
      Boundary(i - 1) = Consumed \/ (stream[i].kind = "keep_alive" /\ Boundary(i) < Consumed)

(* The blocks of the piece messages whose index and offset were received,  *)
(* in order, the last of them as far as it was received.                   *)
BlockOf(i) == <<Number(stream[i].body, 0), Number(stream[i].body, 4),
                Slice(stream[i].body, 8, received - Boundary(i - 1) - 5)>>
BlocksOf(i) ==
  IF stream[i].kind = "piece" /\ Handled(i) /\ Boundary(i - 1) + 13 <= received
  THEN <<BlockOf(i)>>
  ELSE <<>>
BlocksSent == Joined([i \in DOMAIN stream |-> BlocksOf(i)])[Len(stream)]

(* No block is lost, invented, altered or moved to another place: up to    *)
(* the first message that is not handled, what is parsed is what was sent, *)
(* a block cut by the timeout included.                                    *)
BlocksKept ==
  response = <<>> =>
    /\ IsPrefix(BlocksSent, Pieces)
    /\ Handled(Len(stream) + 1) => Pieces = BlocksSent

(* Every complete message leaves its artifact, and of several of a kind it *)
(* is the latest.                                                          *)
LatestKept ==
  response = <<>> =>
    \A i \in DOMAIN stream :
      LET kind == stream[i].kind
          complete == Handled(i) /\ Boundary(i) <= received
          latest == /\ Handled(Len(stream) + 1)
                    /\ \A j \in i + 1 .. Len(stream) : stream[j].kind # kind
      IN /\ complete /\ kind \notin {"piece"} \cup Unhandled => kind \in DOMAIN artifacts
         /\ complete /\ latest /\ kind = "have" =>
              artifacts["have"] = Number(stream[i].body, 0)
         /\ latest /\ kind = "bitfield" /\ Boundary(i - 1) + 5 <= received =>
              artifacts["bitfield"] = Slice(stream[i].body, 0, received - Boundary(i - 1) - 5)

(* Every iteration consumes something, whatever the bytes are: parse does  *)
(* not hold up the event loop.                                             *)
Shrinks == [][Len(response') < Len(response)]_vars

(* parse returns.                                                          *)
ParseEnds == <>(response = <<>>)
=============================================================================
