--------------------------- MODULE MCResponseParser ---------------------------
(* Instances of ResponseParser for TLC.                                    *)
EXTENDS ResponseParser

CONSTANT MaxMessages   (* bound: messages of a stream                      *)

(* Bodies whose numbers are small and whose bytes, taken for a header,     *)
(* would be a length, an id or a handshake.                                *)
Bodies ==
  [handshake |-> {[i \in 1 .. HandshakeLength - 1 |-> 1]},
   keep_alive |-> {<<>>}, choke |-> {<<>>}, unchoke |-> {<<>>}, interested |-> {<<>>},
   have |-> {<<0, 0, 0, 3>>, <<0, 0, 1, 0>>},
   bitfield |-> {<<19, 5>>, <<7>>},
   piece |-> {<<0, 0, 0, 3, 0, 0, 0, 0, 19, 0>>, <<0, 0, 0, 3, 0, 0, 64, 0, 7>>}]

Messages ==
  UNION {{[kind |-> k, body |-> b] : b \in Bodies[k]} : k \in DOMAIN Bodies}

Sequences == UNION {[1 .. n -> Messages] : n \in 1 .. MaxMessages}
=============================================================================
