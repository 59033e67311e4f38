------------------------ MODULE ResponseParserProofs ------------------------
(***************************************************************************)
(* Proofs about ResponseParser, for any streams and any cut of them.       *)
(* Whatever the bytes mean once the parser is out of step, each iteration  *)
(* leaves less to parse, and what it leaves in the dict has the form that  *)
(* the handlers take for granted (TypeOK). As long as the messages are     *)
(* ones it handles, it is at the beginning of one of them and has kept     *)
(* what those before it say (Progress).                                    *)
(*                                                                         *)
(* The lemmas come first: slices and numbers, sequences one after the      *)
(* other, messages on the wire, and the part of a message that was read.   *)
(***************************************************************************)
EXTENDS ResponseParser, LeastNumber, SequenceTheorems, TLAPS

(* Slices of bytes are bytes.                                              *)
LEMMA SubSeqBytes ==
  ASSUME NEW b \in Seq(Byte), NEW m \in Nat \ {0}, NEW n \in Int, n <= Len(b)
  PROVE  /\ SubSeq(b, m, n) \in Seq(Byte)
         /\ Len(SubSeq(b, m, n)) = IF m <= n THEN n - m + 1 ELSE 0
<1>1. Len(b) \in Nat
  BY LenProperties
<1>2. \A i \in m .. n : b[i] \in Byte
  <2>1. \A i \in 1 .. Len(b) : b[i] \in Byte
    BY ElementOfSeq
  <2>2. m .. n \subseteq 1 .. Len(b)
    BY <1>1
  <2> QED
    BY <2>1, <2>2
<1>3. m \in Int
  OBVIOUS
<1> QED
  BY <1>2, <1>3, SubSeqProperties

(* What is left after something was dropped is bytes, and less than before.*)
LEMMA DropShortens ==
  ASSUME NEW b \in Seq(Byte), b # <<>>, NEW n \in Nat \ {0}
  PROVE  Drop(b, n) \in Seq(Byte) /\ Len(Drop(b, n)) < Len(b)
<1>1. Len(b) \in Nat /\ Len(b) # 0
  BY LenProperties, EmptySeq
<1>2. n + 1 \in Nat \ {0} /\ Len(b) \in Int
  BY <1>1
<1> QED
  BY <1>1, <1>2, SubSeqBytes DEF Drop

(* b[from:to] is bytes, and no more than to - from of them.                *)
LEMMA SliceBytes ==
  ASSUME NEW b \in Seq(Byte), NEW from \in Nat, NEW to \in Int
  PROVE  /\ Slice(b, from, to) \in Seq(Byte)
         /\ from <= to => Len(Slice(b, from, to)) <= to - from
<1>1. Len(b) \in Nat
  BY LenProperties
<1> DEFINE last == IF to < Len(b) THEN to ELSE Len(b)
<1>2. last \in Int /\ last <= Len(b) /\ last <= to /\ from + 1 \in Nat \ {0}
  BY <1>1
<1>3. /\ SubSeq(b, from + 1, last) \in Seq(Byte)
      /\ Len(SubSeq(b, from + 1, last)) = IF from + 1 <= last THEN last - from ELSE 0
  BY <1>2, SubSeqBytes
<1> QED
  BY <1>2, <1>3 DEF Slice

(* Four bytes that are there are a number.                                 *)
LEMMA NumberIsNatural ==
  ASSUME NEW b \in Seq(Byte), NEW at \in Nat, at + 4 <= Len(b)
  PROVE  Number(b, at) \in Nat
<1>1. Len(b) \in Nat
  BY LenProperties
<1>2. \A i \in 1 .. Len(b) : b[i] \in 0 .. 255
  BY ElementOfSeq DEF Byte
<1>3. {at + 1, at + 2, at + 3, at + 4} \subseteq 1 .. Len(b)
  BY <1>1
<1>4. \A i \in {at + 1, at + 2, at + 3, at + 4} : b[i] \in Nat
  BY <1>2, <1>3, 0 .. 255 \subseteq Nat
<1>5. b[at + 1] \in Nat /\ b[at + 2] \in Nat /\ b[at + 3] \in Nat /\ b[at + 4] \in Nat
  BY <1>4
<1> QED
  BY <1>5 DEF Number

-----------------------------------------------------------------------------
(* Sequences one after the other, as a function of their number.           *)
IsJoined(parts, n, f) == f = [i \in 0 .. n |-> IF i = 0 THEN <<>> ELSE f[i - 1] \o parts[i]]

LEMMA JoinedExist == ASSUME NEW parts PROVE \A n \in Nat : \E f : IsJoined(parts, n, f)
<1> DEFINE bad == {n \in Nat : ~ \E f : IsJoined(parts, n, f)}
<1> SUFFICES ASSUME bad # {} PROVE FALSE
  OBVIOUS
<1>1. PICK n \in bad : \A m \in bad : n <= m
  BY LeastElement
<1>2. CASE n = 0
  <2> DEFINE g == [i \in 0 .. 0 |-> <<>>]
  <2>1. g = [i \in 0 .. 0 |-> IF i = 0 THEN <<>> ELSE g[i - 1] \o parts[i]]
    OBVIOUS
  <2> QED
    BY <1>2, <2>1 DEF IsJoined
<1>3. CASE n # 0
  <2>1. n \in Nat \ {0} /\ n - 1 \in Nat /\ n - 1 \notin bad
    BY <1>1, <1>3
  <2>2. PICK f : IsJoined(parts, n - 1, f)
    BY <2>1
  <2> DEFINE g == [i \in 0 .. n |-> IF i = n THEN f[n - 1] \o parts[n] ELSE f[i]]
  <2>3. \A i \in 0 .. n - 1 : f[i] = IF i = 0 THEN <<>> ELSE f[i - 1] \o parts[i]
    BY <2>2 DEF IsJoined
  <2>4. ASSUME NEW i \in 0 .. n PROVE g[i] = IF i = 0 THEN <<>> ELSE g[i - 1] \o parts[i]
    BY <2>1, <2>3
  <2>5. g = [i \in 0 .. n |-> IF i = 0 THEN <<>> ELSE g[i - 1] \o parts[i]]
    BY <2>4
  <2> HIDE DEF g
  <2>6. IsJoined(parts, n, g)
    BY <2>5 DEF IsJoined
  <2> QED
    BY <2>6
<1> QED
  BY <1>2, <1>3

(* Joined is well-defined.                                                 *)
LEMMA JoinedDef ==
  ASSUME NEW parts, Len(parts) \in Nat
  PROVE  /\ Joined(parts)[0] = <<>>
         /\ \A i \in 1 .. Len(parts) : Joined(parts)[i] = Joined(parts)[i - 1] \o parts[i]
<1>1. PICK f : IsJoined(parts, Len(parts), f)
  BY JoinedExist
<1>2. Joined(parts) =
        [i \in 0 .. Len(parts) |-> IF i = 0 THEN <<>> ELSE Joined(parts)[i - 1] \o parts[i]]
  BY <1>1, Zenon DEF Joined, IsJoined
<1>3. \A i \in 0 .. Len(parts) :
        Joined(parts)[i] = IF i = 0 THEN <<>> ELSE Joined(parts)[i - 1] \o parts[i]
  BY <1>2, Zenon
<1>4. 0 \in 0 .. Len(parts) /\ \A i \in 1 .. Len(parts) : i \in 0 .. Len(parts) /\ i # 0
  OBVIOUS
<1> QED
  BY <1>3, <1>4, Zenon

(* It joins sequences to sequences, ...                                    *)
LEMMA JoinedFacts ==
  ASSUME NEW S, NEW parts \in Seq(Seq(S))
  PROVE  /\ Joined(parts)[0] = <<>>
         /\ \A i \in 0 .. Len(parts) : Joined(parts)[i] \in Seq(S)
         /\ \A i \in 1 .. Len(parts) :
              /\ Joined(parts)[i] = Joined(parts)[i - 1] \o parts[i]
              /\ Len(Joined(parts)[i]) = Len(Joined(parts)[i - 1]) + Len(parts[i])
<1> DEFINE J == Joined(parts)
<1>1. Len(parts) \in Nat /\ \A i \in 1 .. Len(parts) : parts[i] \in Seq(S)
  BY LenProperties, ElementOfSeq
<1>2. J[0] = <<>> /\ \A i \in 1 .. Len(parts) : J[i] = J[i - 1] \o parts[i]
  BY <1>1, JoinedDef
<1> HIDE DEF J
<1> DEFINE bad == {i \in 0 .. Len(parts) : J[i] \notin Seq(S)}
<1>3. bad = {}
  <2> SUFFICES ASSUME bad # {} PROVE FALSE
    OBVIOUS
  <2>1. bad \in SUBSET Nat
    OBVIOUS
  <2>2. PICK i \in bad : \A j \in bad : i <= j
    BY <2>1, LeastElement
  <2>3. i # 0
    BY <1>2, <2>2, EmptySeq
  <2>4. i \in 1 .. Len(parts) /\ i - 1 \in 0 .. Len(parts) /\ i - 1 \notin bad
    BY <2>2, <2>3
  <2>5. J[i - 1] \in Seq(S) /\ parts[i] \in Seq(S) /\ J[i] = J[i - 1] \o parts[i]
    BY <1>1, <1>2, <2>4
  <2>6. J[i] \in Seq(S)
    BY <2>5, ConcatProperties
  <2> QED
    BY <2>2, <2>6
<1>4. \A i \in 0 .. Len(parts) : J[i] \in Seq(S)
  BY <1>3
<1>5. ASSUME NEW i \in 1 .. Len(parts) PROVE Len(J[i]) = Len(J[i - 1]) + Len(parts[i])
  <2>1. i - 1 \in 0 .. Len(parts)
    OBVIOUS
  <2>2. J[i - 1] \in Seq(S) /\ parts[i] \in Seq(S) /\ J[i] = J[i - 1] \o parts[i]
    BY <1>1, <1>2, <1>4, <2>1
  <2> QED
    BY <2>2, ConcatProperties
<1> QED
  BY <1>2, <1>4, <1>5 DEF J

(* A sequence and another that begins with it.                             *)
Prefix(s, t) ==
  /\ Len(s) \in Nat /\ Len(t) \in Nat /\ Len(s) <= Len(t)
  /\ \A k \in 1 .. Len(s) : t[k] = s[k]

LEMMA ConcatPrefix ==
  ASSUME NEW S, NEW s \in Seq(S), NEW t \in Seq(S)
  PROVE  /\ Prefix(s, s \o t)
         /\ Len(t) \in Nat /\ Len(s \o t) = Len(s) + Len(t)
         /\ \A k \in 1 .. Len(t) : (s \o t)[Len(s) + k] = t[k]
<1>1. Len(s) \in Nat /\ Len(t) \in Nat
  BY LenProperties
<1>2. /\ Len(s \o t) = Len(s) + Len(t)
      /\ \A i \in 1 .. Len(s) + Len(t) :
           (s \o t)[i] = IF i <= Len(s) THEN s[i] ELSE t[i - Len(s)]
  BY ConcatProperties
<1> DEFINE m == Len(s)
           n == Len(t)
           c == s \o t
<1> HIDE DEF m, n, c
<1>3. /\ m \in Nat /\ n \in Nat /\ Len(c) = m + n
      /\ \A i \in 1 .. m + n : c[i] = IF i <= m THEN s[i] ELSE t[i - m]
  BY <1>1, <1>2 DEF m, n, c
<1>4. \A k \in 1 .. m : c[k] = s[k]
  BY <1>3
<1>5. ASSUME NEW k \in 1 .. n PROVE c[m + k] = t[k]
  <2>1. m + k \in 1 .. m + n /\ ~ (m + k <= m) /\ m + k - m = k
    BY <1>3
  <2> QED
    BY <1>3, <2>1
<1> QED
  BY <1>3, <1>4, <1>5 DEF Prefix, m, n, c

(* IsPrefix of the community modules, byte for byte.                       *)
LEMMA PrefixIsPrefix ==
  ASSUME NEW S, NEW s \in Seq(S), NEW t \in Seq(S), Prefix(s, t)
  PROVE  IsPrefix(s, t)
<1> DEFINE n == Len(s)
           p == SubSeq(s, 1, n)
           q == SubSeq(t, 1, n)
<1>1. n \in Nat /\ n <= Len(t) /\ Len(t) \in Nat /\ \A k \in 1 .. n : t[k] = s[k]
  BY DEF Prefix
<1>2. (\A k \in 1 .. n : s[k] \in S) /\ (\A k \in 1 .. n : t[k] \in S)
  BY ElementOfSeq, <1>1
<1>3. /\ p \in Seq(S) /\ Len(p) = n /\ \A k \in 1 .. n : p[k] = s[k]
      /\ q \in Seq(S) /\ Len(q) = n /\ \A k \in 1 .. n : q[k] = t[k]
  <2>1. 1 \in Int /\ n \in Int
    BY <1>1
  <2> DEFINE one == 1
  <2>2. one \in Int /\ \A k \in one .. n : s[k] \in S
    BY <1>2
  <2>3. \A k \in one .. n : t[k] \in S
    BY <1>2
  <2> HIDE DEF one, n
  <2>4. /\ SubSeq(s, one, n) \in Seq(S)
        /\ Len(SubSeq(s, one, n)) = IF one <= n THEN n - one + 1 ELSE 0
        /\ \A k \in 1 .. n - one + 1 : SubSeq(s, one, n)[k] = s[one + k - 1]
    BY <2>1, <2>2, SubSeqProperties
  <2>5. /\ SubSeq(t, one, n) \in Seq(S)
        /\ Len(SubSeq(t, one, n)) = IF one <= n THEN n - one + 1 ELSE 0
        /\ \A k \in 1 .. n - one + 1 : SubSeq(t, one, n)[k] = t[one + k - 1]
    BY <2>1, <2>2, <2>3, SubSeqProperties
  <2>6. n - one + 1 = n /\ \A k \in 1 .. n : one + k - 1 = k
    BY <1>1 DEF one
  <2>7. (IF one <= n THEN n - one + 1 ELSE 0) = n
    BY <1>1 DEF one
  <2> QED
    BY <2>4, <2>5, <2>6, <2>7 DEF one
<1> HIDE DEF p, q
<1>4. p = q
  <2>1. Len(p) = Len(q) /\ \A k \in 1 .. Len(p) : p[k] = q[k]
    BY <1>1, <1>3
  <2> QED
    BY <1>3, <2>1, SeqEqual
<1> QED
  BY <1>1, <1>4 DEF IsPrefix, p, q

LEMMA PrefixOfPrefix ==
  ASSUME NEW s, NEW t, NEW u, Prefix(s, t), Prefix(t, u)
  PROVE  Prefix(s, u)
BY DEF Prefix

(* ... of which the shorter are prefixes of the longer.                    *)
LEMMA JoinedLonger ==
  ASSUME NEW S, NEW parts \in Seq(Seq(S)), NEW m \in 0 .. Len(parts),
         NEW n \in m .. Len(parts)
  PROVE  Prefix(Joined(parts)[m], Joined(parts)[n])
<1> DEFINE J == Joined(parts)
           Extends(i) == Prefix(J[m], J[i])
           bad == {i \in m .. Len(parts) : ~ Extends(i)}
<1>1. Len(parts) \in Nat /\ \A i \in 1 .. Len(parts) : parts[i] \in Seq(S)
  BY LenProperties, ElementOfSeq
<1>2. /\ \A i \in 0 .. Len(parts) : J[i] \in Seq(S) /\ Len(J[i]) \in Nat
      /\ \A i \in 1 .. Len(parts) : J[i] = J[i - 1] \o parts[i]
  BY <1>1, JoinedFacts, LenProperties
<1> HIDE DEF J
<1>3. bad = {}
  <2> SUFFICES ASSUME bad # {} PROVE FALSE
    OBVIOUS
  <2>1. bad \in SUBSET Nat
    BY <1>1
  <2>2. PICK i \in bad : \A j \in bad : i <= j
    BY <2>1, LeastElement
  <2>3. Extends(m)
    BY <1>2 DEF Prefix
  <2>4. i \in m .. Len(parts) /\ i # m
    BY <2>2, <2>3
  <2>5. i \in 1 .. Len(parts) /\ i - 1 \in m .. Len(parts) /\ i - 1 \notin bad
    BY <1>1, <2>2, <2>4
  <2>6. Extends(i - 1)
    BY <2>5
  <2>7. J[i - 1] \in Seq(S) /\ parts[i] \in Seq(S) /\ J[i] = J[i - 1] \o parts[i]
    <3>1. i - 1 \in 0 .. Len(parts)
      BY <1>1, <2>5
    <3> QED
      BY <1>1, <1>2, <2>5, <3>1
  <2>8. Prefix(J[i - 1], J[i])
    BY <2>7, ConcatPrefix
  <2>9. Extends(i)
    BY <2>6, <2>8, PrefixOfPrefix
  <2> QED
    BY <2>2, <2>9
<1>4. Extends(n)
  BY <1>3
<1> QED
  BY <1>4 DEF J

(* The i-th part is where the first i - 1 end.                             *)
LEMMA JoinedPart ==
  ASSUME NEW S, NEW parts \in Seq(Seq(S)), NEW i \in 1 .. Len(parts),
         NEW k \in 1 .. Len(parts[i])
  PROVE  /\ Len(Joined(parts)[i - 1]) + k \in 1 .. Len(Joined(parts)[Len(parts)])
         /\ Joined(parts)[Len(parts)][Len(Joined(parts)[i - 1]) + k] = parts[i][k]
<1> DEFINE J == Joined(parts)
           n == Len(parts)
           at == Len(J[i - 1]) + k
<1>1. n \in Nat /\ parts[i] \in Seq(S) /\ Len(parts[i]) \in Nat
  BY LenProperties, ElementOfSeq
<1>2. i - 1 \in 0 .. n /\ i \in 0 .. n /\ n \in i .. n
  BY <1>1
<1>3. J[i - 1] \in Seq(S) /\ J[i] = J[i - 1] \o parts[i]
  BY <1>1, <1>2, JoinedFacts
<1>4. Prefix(J[i], J[n])
  BY <1>2, JoinedLonger
<1> DEFINE a == J[i - 1]
           b == J[i]
           c == J[n]
           part == parts[i]
<1>5. /\ a \in Seq(S) /\ part \in Seq(S) /\ b = a \o part /\ k \in 1 .. Len(part)
      /\ Prefix(b, c)
  BY <1>1, <1>3, <1>4
<1>6. at = Len(a) + k
  OBVIOUS
<1> HIDE DEF a, b, c, part, at, J, n
<1>7. /\ Prefix(a, b) /\ Len(part) \in Nat /\ Len(b) = Len(a) + Len(part)
      /\ b[Len(a) + k] = part[k]
  BY <1>5, ConcatPrefix
<1>8. at \in 1 .. Len(b)
  BY <1>5, <1>6, <1>7 DEF Prefix
<1>9. at \in 1 .. Len(c) /\ c[at] = part[k]
  BY <1>5, <1>6, <1>7, <1>8 DEF Prefix
<1> QED
  BY <1>9 DEF at, c, part, J, n
-----------------------------------------------------------------------------
(* What the parser reads back is what was packed.                          *)
LEMMA PackFacts ==
  ASSUME NEW n \in Nat, n < 256 * 256 * 256
  PROVE  /\ Pack(n) \in Seq(Byte) /\ Len(Pack(n)) = 4
         /\ Pack(n)[1] = 0 /\ Number(Pack(n), 0) = n
<1> DEFINE q == n \div 256
           r == n % 256
           h == n \div (256 * 256)
           l == q % 256
<1>1. q \in Nat /\ r \in 0 .. 255 /\ n = 256 * q + r
  OBVIOUS
<1>2. h \in 0 .. 255 /\ l \in 0 .. 255 /\ q = 256 * h + l
  OBVIOUS
<1>3. Pack(n) = <<0, h, l, r>>
  BY DEF Pack
<1> HIDE DEF q, r, h, l
<1>4. /\ Pack(n) \in Seq(Byte) /\ Len(Pack(n)) = 4
      /\ Pack(n)[1] = 0 /\ Pack(n)[2] = h /\ Pack(n)[3] = l /\ Pack(n)[4] = r
  <2>1. 0 \in Byte /\ h \in Byte /\ l \in Byte /\ r \in Byte
    BY <1>1, <1>2 DEF Byte
  <2> DEFINE p == <<0, h, l, r>>
  <2>2. p \in Seq(Byte)
    BY <2>1
  <2>3. Len(p) = 4 /\ p[1] = 0 /\ p[2] = h /\ p[3] = l /\ p[4] = r
    OBVIOUS
  <2> QED
    BY <1>3, <2>2, <2>3
<1>5. Number(Pack(n), 0) = ((0 * 256 + h) * 256 + l) * 256 + r
  BY <1>4 DEF Number
<1> QED
  BY <1>1, <1>2, <1>4, <1>5

Message == [kind : Kinds, body : Seq(Byte)]

(* Each kind of message on the wire.                                       *)
LEMMA EncodeFacts ==
  ASSUME NEW m \in Message, WellFormed(m)
  PROVE  /\ Encode(m) \in Seq(Byte) /\ Len(Encode(m)) \in Nat /\ Len(m.body) \in Nat
         /\ m.kind = "handshake" => Len(Encode(m)) = HandshakeLength /\ Encode(m)[1] = 19
         /\ m.kind = "keep_alive" =>
              /\ Len(Encode(m)) = 4 /\ Encode(m)[1] = 0 /\ Number(Encode(m), 0) = 0
         /\ m.kind \notin {"handshake", "keep_alive"} =>
              /\ Len(Encode(m)) = 5 + Len(m.body) /\ Encode(m)[1] = 0
              /\ Number(Encode(m), 0) = Len(m.body) + 1 /\ Encode(m)[5] = Id[m.kind]
              /\ \A k \in 1 .. Len(m.body) : Encode(m)[5 + k] = m.body[k]
<1> DEFINE n == Len(m.body)
<1>1. m.body \in Seq(Byte) /\ n \in Nat
  BY LenProperties DEF Message
<1>2. CASE m.kind = "handshake"
  <2> DEFINE first == <<19>>
  <2>1. first \in Seq(Byte) /\ Len(first) = 1 /\ first[1] = 19
    BY DEF Byte
  <2>2. Encode(m) = first \o m.body /\ n = HandshakeLength - 1
    BY <1>2 DEF Encode, WellFormed
  <2> HIDE DEF first
  <2>3. /\ first \o m.body \in Seq(Byte) /\ Len(first \o m.body) = 1 + n
        /\ (first \o m.body)[1] = first[1]
    BY <1>1, <2>1, ConcatProperties, ConcatPrefix DEF Prefix
  <2> QED
    BY <1>1, <1>2, <2>1, <2>2, <2>3, ParserAssumption
<1>3. CASE m.kind = "keep_alive"
  <2>1. Encode(m) = Pack(0)
    BY <1>3 DEF Encode
  <2> QED
    BY <1>1, <1>3, <2>1, PackFacts
<1>4. CASE m.kind \notin {"handshake", "keep_alive"}
  <2> DEFINE len == Pack(n + 1)
             id == <<Id[m.kind]>>
             head == len \o id
             e == head \o m.body
  <2>1. n + 1 \in Nat /\ n + 1 < 256 * 256 * 256
    BY <1>1 DEF WellFormed
  <2>2. len \in Seq(Byte) /\ Len(len) = 4 /\ len[1] = 0 /\ Number(len, 0) = n + 1
    BY <2>1, PackFacts
  <2>3. id \in Seq(Byte) /\ Len(id) = 1 /\ id[1] = Id[m.kind]
    <3>1. m.kind \in DOMAIN Id
      BY <1>4 DEF Message, Kinds
    <3>2. Id[m.kind] \in Byte
      BY <3>1 DEF Id, Byte
    <3> QED
      BY <3>2
  <2>4. Encode(m) = e
    BY <1>4 DEF Encode
  <2> HIDE DEF len, id
  <2>5. /\ head \in Seq(Byte) /\ Len(head) = 5 /\ Prefix(len, head)
        /\ head[Len(len) + 1] = id[1]
    <3>1. head \in Seq(Byte)
      BY <2>2, <2>3, ConcatProperties
    <3>2. len \in Seq(Byte) /\ id \in Seq(Byte)
      BY <2>2, <2>3
    <3>3. Prefix(len, head)
      BY <3>2, ConcatPrefix
    <3>4. Len(head) = Len(len) + Len(id)
      BY <3>2, ConcatPrefix
    <3>5. \A k \in 1 .. Len(id) : head[Len(len) + k] = id[k]
      BY <3>2, ConcatPrefix
    <3> QED
      BY <2>2, <2>3, <3>1, <3>3, <3>4, <3>5
  <2> HIDE DEF head
  <2>6. /\ e \in Seq(Byte) /\ Len(e) = 5 + n /\ Prefix(head, e)
        /\ \A k \in 1 .. n : e[5 + k] = m.body[k]
    <3>1. e \in Seq(Byte)
      BY <1>1, <2>5, ConcatProperties
    <3>2. m.body \in Seq(Byte) /\ head \in Seq(Byte)
      BY <1>1, <2>5
    <3>3. Prefix(head, e)
      BY <3>2, ConcatPrefix
    <3>4. Len(e) = Len(head) + n
      BY <3>2, ConcatPrefix
    <3>5. \A k \in 1 .. n : e[Len(head) + k] = m.body[k]
      BY <3>2, ConcatPrefix
    <3> QED
      BY <2>5, <3>1, <3>3, <3>4, <3>5
  <2> HIDE DEF e, n
  <2>7. /\ e[1] = len[1] /\ e[2] = len[2] /\ e[3] = len[3] /\ e[4] = len[4]
        /\ e[5] = id[1]
    BY <2>2, <2>5, <2>6 DEF Prefix
  <2>8. Number(e, 0) = Number(len, 0)
    BY <2>7 DEF Number
  <2> QED
    BY <1>1, <1>4, <2>2, <2>3, <2>4, <2>6, <2>7, <2>8 DEF n
<1> QED
  BY <1>2, <1>3, <1>4

(* The messages of a stream on the wire.                                   *)
LEMMA BoundaryFacts ==
  ASSUME stream \in Streams
  PROVE  /\ Len(stream) \in Nat /\ DOMAIN stream = 1 .. Len(stream)
         /\ \A i \in 1 .. Len(stream) : stream[i] \in Message /\ WellFormed(stream[i])
         /\ Boundary(0) = 0 /\ \A i \in 0 .. Len(stream) : Boundary(i) \in Nat
         /\ \A i \in 1 .. Len(stream) :
              Boundary(i) = Boundary(i - 1) + Len(Encode(stream[i]))
         /\ \A i \in 0 .. Len(stream) : \A j \in i .. Len(stream) : Boundary(i) <= Boundary(j)
<1> DEFINE parts == [i \in DOMAIN stream |-> Encode(stream[i])]
           n == Len(stream)
           J == Joined(parts)
<1>1. /\ stream \in Seq(Message) /\ \A i \in DOMAIN stream : WellFormed(stream[i])
  BY ParserAssumption DEF Message
<1>2. /\ n \in Nat /\ DOMAIN stream = 1 .. n
      /\ \A i \in 1 .. n : stream[i] \in Message /\ WellFormed(stream[i])
  BY <1>1, LenProperties, ElementOfSeq
<1>3. /\ parts \in Seq(Seq(Byte)) /\ Len(parts) = n
      /\ \A i \in 1 .. n : parts[i] = Encode(stream[i])
  <2>1. \A i \in 1 .. n : Encode(stream[i]) \in Seq(Byte)
    BY <1>2, EncodeFacts
  <2> QED
    BY <1>2, <2>1
<1>4. \A i \in 0 .. n : Boundary(i) = Len(J[i])
  BY DEF Boundary, Sent
<1> HIDE DEF parts, n
<1>5. /\ J[0] = <<>> /\ \A i \in 0 .. n : J[i] \in Seq(Byte)
      /\ \A i \in 1 .. n : Len(J[i]) = Len(J[i - 1]) + Len(parts[i])
  BY <1>3, JoinedFacts
<1>6. \A i \in 0 .. n : \A j \in i .. n : Prefix(J[i], J[j])
  BY <1>3, JoinedLonger
<1> HIDE DEF J
<1>7. Boundary(0) = 0 /\ \A i \in 0 .. n : Boundary(i) \in Nat
  BY <1>2, <1>4, <1>5, LenProperties, EmptySeq
<1>8. ASSUME NEW i \in 1 .. n
      PROVE  Boundary(i) = Boundary(i - 1) + Len(Encode(stream[i]))
  <2>1. i \in 0 .. n /\ i - 1 \in 0 .. n
    BY <1>2
  <2>2. Boundary(i) = Len(J[i]) /\ Boundary(i - 1) = Len(J[i - 1])
    BY <1>4, <2>1
  <2> QED
    BY <1>3, <1>5, <2>2
<1>9. \A i \in 0 .. n : \A j \in i .. n : Boundary(i) <= Boundary(j)
  BY <1>2, <1>4, <1>6 DEF Prefix
<1> QED
  BY <1>2, <1>7, <1>8, <1>9 DEF n

(* The bytes of each message in the stream.                                 *)
LEMMA WireBytes ==
  ASSUME stream \in Streams
  PROVE  /\ Wire(stream) \in Seq(Byte) /\ Len(Wire(stream)) = Boundary(Len(stream))
         /\ \A i \in 1 .. Len(stream) : \A k \in 1 .. Len(Encode(stream[i])) :
              Wire(stream)[Boundary(i - 1) + k] = Encode(stream[i])[k]
<1> DEFINE parts == [i \in DOMAIN stream |-> Encode(stream[i])]
           n == Len(stream)
           J == Joined(parts)
<1>1. /\ n \in Nat /\ DOMAIN stream = 1 .. n
      /\ \A i \in 1 .. n : stream[i] \in Message /\ WellFormed(stream[i])
  BY BoundaryFacts
<1>2. /\ parts \in Seq(Seq(Byte)) /\ Len(parts) = n
      /\ \A i \in 1 .. n : parts[i] = Encode(stream[i])
  <2>1. \A i \in 1 .. n : Encode(stream[i]) \in Seq(Byte)
    BY <1>1, EncodeFacts
  <2> QED
    BY <1>1, <2>1
<1>3. (\A i \in 0 .. n : Boundary(i) = Len(J[i])) /\ Wire(stream) = J[n]
  BY DEF Boundary, Sent, Wire
<1> HIDE DEF parts, n
<1>4. J[n] \in Seq(Byte)
  <2>1. n \in 0 .. Len(parts)
    BY <1>1, <1>2
  <2> QED
    BY <1>2, <2>1, JoinedFacts
<1>5. ASSUME NEW i \in 1 .. n, NEW k \in 1 .. Len(Encode(stream[i]))
      PROVE  Wire(stream)[Boundary(i - 1) + k] = Encode(stream[i])[k]
  <2>1. i \in 1 .. Len(parts) /\ k \in 1 .. Len(parts[i]) /\ i - 1 \in 0 .. n
    BY <1>1, <1>2, <1>5
  <2>2. J[Len(parts)][Len(J[i - 1]) + k] = parts[i][k]
    BY <1>2, <2>1, JoinedPart
  <2> HIDE DEF J
  <2> QED
    BY <1>2, <1>3, <2>1, <2>2
<1>6. n \in 0 .. n
  BY <1>1
<1> HIDE DEF J
<1> QED
  BY <1>3, <1>4, <1>5, <1>6 DEF n

-----------------------------------------------------------------------------
(* What was read ends inside the last message or at its end.               *)
CutInLast ==
  /\ stream \in Streams /\ Len(stream) \in Nat \ {0}
  /\ received \in Boundary(Len(stream) - 1) + 1 .. Boundary(Len(stream))

(* The loop is at the beginning of message i.                              *)
Reading(i) ==
  /\ i \in 1 .. Len(stream) /\ response # <<>>
  /\ Boundary(i - 1) = Consumed /\ response = SubSeq(Wire(stream), Consumed + 1, received)

(* Then the response begins with the bytes of this message; with all of    *)
(* them, and more, unless it is the last one.                              *)
LEMMA ReadingFacts ==
  ASSUME CutInLast, response \in Seq(Byte), NEW i, Reading(i)
  PROVE  /\ i \in Nat \ {0} /\ stream[i] \in Message /\ WellFormed(stream[i])
         /\ Len(response) \in Nat \ {0} /\ Boundary(i - 1) \in Nat /\ received \in Nat
         /\ Len(response) = received - Boundary(i - 1)
         /\ Boundary(i) = Boundary(i - 1) + Len(Encode(stream[i]))
         /\ Len(Encode(stream[i])) \in Nat
         /\ i # Len(stream) => Len(response) > Len(Encode(stream[i]))
         /\ i = Len(stream) => Len(response) <= Len(Encode(stream[i]))
         /\ \A k \in 1 .. Len(response) :
              k <= Len(Encode(stream[i])) => response[k] = Encode(stream[i])[k]
<1> DEFINE e == Encode(stream[i])
           n == Len(stream)
           b == Boundary(i - 1)
           W == Wire(stream)
           len == Len(response)
<1>1. /\ n \in Nat \ {0} /\ stream \in Streams /\ i \in 1 .. n
      /\ received \in Boundary(n - 1) + 1 .. Boundary(n)
      /\ b = received - len /\ response = SubSeq(W, received - len + 1, received)
  BY DEF CutInLast, Reading, Consumed
<1>2. len \in Nat /\ len # 0
  BY LenProperties, EmptySeq DEF Reading
<1>3. /\ stream[i] \in Message /\ WellFormed(stream[i])
      /\ Len(e) \in Nat
  BY <1>1, BoundaryFacts, EncodeFacts
<1>4. /\ Boundary(i) = b + Len(e) /\ b \in Nat /\ Boundary(n) \in Nat /\ Boundary(n - 1) \in Nat
      /\ i # n => Boundary(i) <= Boundary(n - 1)
  <2>1. i - 1 \in 0 .. n /\ n - 1 \in 0 .. n /\ n \in 0 .. n /\ (i # n => n - 1 \in i .. n)
        /\ i \in 0 .. n
    BY <1>1
  <2> QED
    BY <1>1, <2>1, BoundaryFacts
<1>5. /\ W \in Seq(Byte) /\ Len(W) = Boundary(n)
      /\ \A k \in 1 .. Len(e) : W[b + k] = e[k]
  BY <1>1, WireBytes
<1> HIDE DEF e, n, b, W, len
<1>6. received \in Nat /\ (i # n => len > Len(e)) /\ (i = n => len <= Len(e))
  BY <1>1, <1>2, <1>3, <1>4
<1>7. ASSUME NEW k \in 1 .. len, k <= Len(e) PROVE response[k] = e[k]
  <2>1. \A j \in 1 .. Len(W) : W[j] \in Byte
    BY <1>5, ElementOfSeq
  <2>2. b + 1 \in Int /\ received \in Int /\ b + 1 .. received \subseteq 1 .. Len(W)
    BY <1>1, <1>4, <1>5
  <2>3. \A j \in b + 1 .. received : W[j] \in Byte
    BY <2>1, <2>2
  <2>4. response = SubSeq(W, b + 1, received)
    BY <1>1
  <2>5. k \in 1 .. received - (b + 1) + 1 /\ b + 1 + k - 1 = b + k /\ k \in 1 .. Len(e)
    BY <1>1, <1>2, <1>3, <1>4, <1>7
  <2>6. response[k] = W[b + 1 + k - 1]
    BY <2>2, <2>3, <2>4, <2>5, SubSeqProperties
  <2> QED
    BY <1>5, <2>5, <2>6
<1> QED
  BY <1>1, <1>2, <1>3, <1>4, <1>6, <1>7 DEF e, n, b, W, len

(* Dropping the whole message leaves the loop at the next one, or with     *)
(* nothing.                                                                *)
LEMMA Advance ==
  ASSUME CutInLast, response \in Seq(Byte), NEW i, Reading(i),
         response' = Drop(response, Len(Encode(stream[i]))), UNCHANGED <<stream, received>>
  PROVE  /\ i = Len(stream) => response' = <<>>
         /\ i # Len(stream) => Reading(i + 1)'
<1> DEFINE n == Len(stream)
           b == Boundary(i - 1)
           W == Wire(stream)
           len == Len(response)
           size == Len(Encode(stream[i]))
<1>1. /\ i \in 1 .. n /\ n \in Nat /\ len \in Nat \ {0} /\ b \in Nat /\ received \in Nat
      /\ len = received - b /\ Boundary(i) = b + size /\ size \in Nat
      /\ i # n => len > size
      /\ i = n => len <= size
  BY ReadingFacts DEF CutInLast, Reading
<1>2. response = SubSeq(W, b + 1, received) /\ Len(W) = Boundary(n)
      /\ W \in Seq(Byte) /\ received <= Boundary(n) /\ Boundary(n) \in Nat
  <2>1. /\ stream \in Streams /\ n \in Nat \ {0}
        /\ received \in Boundary(n - 1) + 1 .. Boundary(n)
    BY DEF CutInLast
  <2>2. Consumed = b /\ response = SubSeq(W, Consumed + 1, received)
    BY DEF Reading
  <2>3. Boundary(n) \in Nat /\ Boundary(n - 1) \in Nat
    <3>1. n \in 0 .. n /\ n - 1 \in 0 .. n
      BY <2>1
    <3> QED
      BY <2>1, <3>1, BoundaryFacts
  <2>4. Len(W) = Boundary(n) /\ W \in Seq(Byte)
    BY <2>1, WireBytes
  <2> HIDE DEF n, b, W
  <2> QED
    BY <2>1, <2>2, <2>3, <2>4
<1>3. response' = SubSeq(response, size + 1, len)
  BY DEF Drop
<1>4. Wire(stream)' = Wire(stream) /\ \A j : Boundary(j)' = Boundary(j)
  BY DEF Wire, Boundary
<1> HIDE DEF n, b, W, len, size
<1>5. CASE i = n
  <2>1. len < size + 1 /\ len \in Int /\ size + 1 \in Int
    BY <1>1, <1>5
  <2> QED
    BY <1>3, <1>5, <2>1, SubSeqEmpty DEF n
<1>6. CASE i # n
  <2>1. /\ size + 1 \in Nat \ {0} /\ len \in Int /\ len <= Len(response)
        /\ size + 1 <= len /\ b + 1 \in Nat \ {0} /\ received <= Len(W)
    BY <1>1, <1>2, <1>6 DEF len
  <2>2. response' \in Seq(Byte) /\ Len(response') = len - size
    BY <1>1, <1>3, <2>1, SubSeqBytes
  <2>3. response' # <<>>
    BY <1>1, <1>6, <2>2, EmptySeq
  <2>4. Consumed' = Boundary(i)
    BY <1>1, <2>2 DEF Consumed
  <2>5. response' = SubSeq(W, Boundary(i) + 1, received)
    <3> DEFINE t == SubSeq(W, b + size + 1, received)
    <3>1. b + size + 1 \in Nat \ {0} /\ received \in Int
      BY <1>1
    <3>2. t \in Seq(Byte) /\ Len(t) = len - size
      BY <1>1, <1>2, <1>6, <3>1, SubSeqBytes
    <3>3. \A j \in 1 .. Len(W) : W[j] \in Byte
      BY <1>2, ElementOfSeq
    <3>4. \A j \in 1 .. Len(response) : response[j] \in Byte
      BY ElementOfSeq
    <3>5. b + 1 .. received \subseteq 1 .. Len(W)
          /\ b + size + 1 .. received \subseteq 1 .. Len(W)
          /\ size + 1 .. len \subseteq 1 .. Len(response)
      BY <1>1, <1>2, <2>1
    <3>6. \A j \in b + 1 .. received : W[j] \in Byte
      BY <3>3, <3>5
    <3>7. \A j \in b + size + 1 .. received : W[j] \in Byte
      BY <3>3, <3>5
    <3>8. \A j \in size + 1 .. len : response[j] \in Byte
      BY <3>4, <3>5
    <3>9. ASSUME NEW j \in 1 .. len - size PROVE response'[j] = t[j]
      <4>1. /\ j \in 1 .. len - (size + 1) + 1 /\ size + 1 + j - 1 = size + j
            /\ size + j \in 1 .. received - (b + 1) + 1 /\ b + 1 + (size + j) - 1 = b + size + j
            /\ j \in 1 .. received - (b + size + 1) + 1 /\ b + size + 1 + j - 1 = b + size + j
        BY <1>1
      <4>2. response'[j] = response[size + j]
        BY <1>1, <1>3, <2>1, <3>8, <4>1, SubSeqProperties
      <4>3. response[size + j] = W[b + size + j]
        BY <1>1, <1>2, <2>1, <3>6, <4>1, SubSeqProperties
      <4>4. t[j] = W[b + size + j]
        BY <3>1, <3>7, <4>1, SubSeqProperties
      <4> QED
        BY <4>2, <4>3, <4>4
    <3> HIDE DEF t
    <3>10. response' = t
      BY <2>2, <3>2, <3>9, SeqEqual
    <3> QED
      BY <1>1, <3>10 DEF t
  <2>6. i + 1 \in 1 .. n /\ i + 1 - 1 = i
    BY <1>1, <1>6
  <2>7. /\ (i + 1 \in 1 .. Len(stream))' /\ Boundary(i + 1 - 1)' = Consumed'
        /\ response' = SubSeq(Wire(stream)', Consumed' + 1, received')
    BY <1>4, <2>4, <2>5, <2>6 DEF n, W
  <2>8. Reading(i + 1)'
    BY <2>3, <2>7 DEF Reading
  <2> QED
    BY <1>6, <2>8 DEF n
<1> QED
  BY <1>5, <1>6

-----------------------------------------------------------------------------
(* The part of a message that was read, seen in the response and in its    *)
(* body.                                                                   *)
LEMMA BodyRead ==
  ASSUME NEW b \in Seq(Byte), NEW body \in Seq(Byte), Len(b) >= 5,
         \A k \in 1 .. Len(body) : 5 + k <= Len(b) => b[5 + k] = body[k],
         NEW o \in Nat
  PROVE  /\ Slice(b, 5 + o, Len(body) + 5) = Slice(body, o, Len(b) - 5)
         /\ o + 4 <= Len(body) /\ o + 9 <= Len(b) => Number(b, 5 + o) = Number(body, o)
<1> DEFINE r == Len(b)
           n == Len(body)
           last == IF n + 5 < r THEN n + 5 ELSE r
           s == SubSeq(b, 5 + o + 1, last)
           t == SubSeq(body, o + 1, last - 5)
<1>1. r \in Nat /\ n \in Nat /\ r >= 5
  BY LenProperties
<1>2. Slice(b, 5 + o, n + 5) = s
  BY DEF Slice
<1>3. last - 5 = IF r - 5 < n THEN r - 5 ELSE n
  BY <1>1
<1>4. Slice(body, o, r - 5) = t
  BY <1>3 DEF Slice
<1>5. /\ \A k \in 1 .. r : b[k] \in Byte
      /\ \A k \in 1 .. n : body[k] \in Byte
  BY ElementOfSeq
<1>6. \A k \in 1 .. n : 5 + k <= r => b[5 + k] = body[k]
  OBVIOUS
<1>7. /\ 5 + o + 1 \in Nat \ {0} /\ last \in Int /\ last <= r
      /\ o + 1 \in Nat \ {0} /\ last - 5 \in Int /\ last - 5 <= n
  BY <1>1
<1> HIDE DEF r, n, last
<1>8. /\ s \in Seq(Byte) /\ Len(s) = IF o + 6 <= last THEN last - o - 5 ELSE 0
      /\ t \in Seq(Byte) /\ Len(t) = IF o + 6 <= last THEN last - o - 5 ELSE 0
  BY <1>7, SubSeqBytes DEF r, n
<1>9. ASSUME NEW k \in 1 .. Len(s) PROVE s[k] = t[k]
  <2>1. k \in Nat \ {0} /\ k <= last - o - 5
    BY <1>7, <1>8
  <2>2. /\ k \in 1 .. last - (5 + o + 1) + 1 /\ 5 + o + 1 + k - 1 = 5 + (o + k)
        /\ k \in 1 .. last - 5 - (o + 1) + 1 /\ o + 1 + k - 1 = o + k
    BY <1>7, <2>1
  <2>3. \A j \in 5 + o + 1 .. last : b[j] \in Byte
    <3>1. 5 + o + 1 .. last \subseteq 1 .. r
      BY <1>1, <1>7
    <3> QED
      BY <1>5, <3>1
  <2>4. \A j \in o + 1 .. last - 5 : body[j] \in Byte
    <3>1. o + 1 .. last - 5 \subseteq 1 .. n
      BY <1>1, <1>7
    <3> QED
      BY <1>5, <3>1
  <2>5. s[k] = b[5 + (o + k)]
    BY <1>7, <2>2, <2>3, SubSeqProperties
  <2>6. t[k] = body[o + k]
    BY <1>7, <2>2, <2>4, SubSeqProperties
  <2>7. o + k \in 1 .. n /\ 5 + (o + k) <= r
    BY <1>1, <1>7, <2>1
  <2> QED
    BY <1>6, <2>5, <2>6, <2>7
<1> HIDE DEF s, t
<1>10. s = t
  BY <1>8, <1>9, SeqEqual
<1>11. ASSUME o + 4 <= n, o + 9 <= r PROVE Number(b, 5 + o) = Number(body, o)
  <2>1. ASSUME NEW k \in 1 .. 4 PROVE b[5 + o + k] = body[o + k]
    <3>1. o + k \in 1 .. n /\ 5 + (o + k) <= r /\ 5 + o + k = 5 + (o + k)
      BY <1>1, <1>11
    <3> QED
      BY <1>6, <3>1
  <2>2. /\ b[5 + o + 1] = body[o + 1] /\ b[5 + o + 2] = body[o + 2]
        /\ b[5 + o + 3] = body[o + 3] /\ b[5 + o + 4] = body[o + 4]
    BY <2>1
  <2> QED
    BY <2>2 DEF Number
<1> QED
  BY <1>2, <1>4, <1>10, <1>11 DEF r, n

(* The header of the message the loop is at, as far as it was read.        *)
LEMMA HeaderRead ==
  ASSUME CutInLast, response \in Seq(Byte), NEW i, Reading(i)
  PROVE  /\ StartsWithHandshake <=> stream[i].kind = "handshake"
         /\ stream[i].kind = "keep_alive" =>
              /\ HasHeader <=> Len(response) >= 4
              /\ HasHeader => MessageLen = 0
         /\ stream[i].kind \notin {"handshake", "keep_alive"} =>
              /\ HasHeader <=> Len(response) >= 5
              /\ HasHeader => /\ MessageLen = Len(stream[i].body) + 1 /\ MessageLen # 0
                              /\ MessageId = Id[stream[i].kind]
<1> DEFINE e == Encode(stream[i])
           r == Len(response)
           n == Len(stream[i].body)
<1>1. /\ stream[i] \in Message /\ WellFormed(stream[i]) /\ response # <<>>
      /\ r \in Nat \ {0} /\ Len(e) \in Nat
      /\ \A k \in 1 .. r : k <= Len(e) => response[k] = e[k]
  BY ReadingFacts DEF Reading
<1>2. /\ n \in Nat
      /\ stream[i].kind = "handshake" => Len(e) = HandshakeLength /\ e[1] = 19
      /\ stream[i].kind = "keep_alive" => Len(e) = 4 /\ e[1] = 0 /\ Number(e, 0) = 0
      /\ stream[i].kind \notin {"handshake", "keep_alive"} =>
           /\ Len(e) = 5 + n /\ e[1] = 0 /\ Number(e, 0) = n + 1 /\ e[5] = Id[stream[i].kind]
  BY <1>1, EncodeFacts
<1> HIDE DEF e, n, r
<1>3. Len(e) \in Nat \ {0} /\ response[1] = e[1]
  BY <1>1, <1>2, ParserAssumption
<1>4. StartsWithHandshake <=> stream[i].kind = "handshake"
  BY <1>1, <1>2, <1>3 DEF StartsWithHandshake
<1>5. ASSUME r >= 4, Len(e) >= 4 PROVE MessageLen = Number(e, 0)
  <2>1. /\ response[1] = e[1] /\ response[2] = e[2] /\ response[3] = e[3]
        /\ response[4] = e[4]
    BY <1>1, <1>5
  <2> QED
    BY <2>1 DEF MessageLen, Number
<1>6. ASSUME r >= 5, Len(e) >= 5 PROVE MessageId = e[5]
  BY <1>1, <1>6 DEF MessageId
<1>7. HasHeader <=> /\ stream[i].kind # "handshake" /\ r >= 4
                    /\ MessageLen = 0 \/ r >= 5
  BY <1>1, <1>4 DEF HasHeader, r
<1> HIDE DEF HasHeader, MessageLen, MessageId, StartsWithHandshake
<1>8. ASSUME stream[i].kind = "keep_alive"
      PROVE  (HasHeader <=> r >= 4) /\ (HasHeader => MessageLen = 0)
  <2>1. Len(e) = 4 /\ Number(e, 0) = 0 /\ stream[i].kind # "handshake"
    BY <1>2, <1>8
  <2>2. r >= 4 => MessageLen = 0
    BY <1>5, <2>1
  <2> QED
    BY <1>1, <1>7, <2>1, <2>2
<1>9. ASSUME stream[i].kind \notin {"handshake", "keep_alive"}
      PROVE  /\ HasHeader <=> r >= 5
             /\ HasHeader => /\ MessageLen = n + 1 /\ MessageLen # 0
                             /\ MessageId = Id[stream[i].kind]
  BY <1>1, <1>2, <1>5, <1>6, <1>7, <1>9
<1> QED
  BY <1>4, <1>8, <1>9 DEF r, n

-----------------------------------------------------------------------------
(* The form of one entry of the dict.                                      *)
Fits(key, value) ==
  /\ key \in Keys
  /\ key = "handshake" => value \in Seq(Byte) /\ Len(value) <= HandshakeLength
  /\ key = "have" => value \in Nat
  /\ key = "bitfield" => value \in Seq(Byte)
  /\ key = "pieces" => value \in Seq(Nat \X Nat \X Seq(Byte))

(* An update with an entry of its form keeps the form of the dict.         *)
LEMMA UpdateFits ==
  ASSUME ArtifactsOK, NEW key, NEW value, Fits(key, value),
         artifacts' = Updated(key, value)
  PROVE  ArtifactsOK'
<1>1. DOMAIN artifacts' = {key} \cup DOMAIN artifacts
  BY DEF Updated
<1>2. artifacts'[key] = value
  BY DEF Updated
<1>3. \A k \in DOMAIN artifacts : k # key => artifacts'[k] = artifacts[k]
  BY DEF Updated
<1> QED
  BY <1>1, <1>2, <1>3 DEF ArtifactsOK, Fits, Keys

(* A message that is parsed leaves less, and its entry.                    *)
LEMMA ParsedFits ==
  ASSUME TypeOK, NEW key, NEW value, Fits(key, value), NEW total \in Nat \ {0},
         response # <<>>, Parsed(key, value, total), UNCHANGED <<stream, received>>
  PROVE  TypeOK' /\ Len(response') < Len(response)
<1>1. response' \in Seq(Byte) /\ Len(response') < Len(response)
  BY DropShortens DEF TypeOK, Parsed
<1>2. ArtifactsOK'
  BY UpdateFits DEF TypeOK, Parsed
<1> QED
  BY <1>1, <1>2 DEF TypeOK

(* And so does an iteration that fails.                                    *)
LEMMA FailFits ==
  ASSUME TypeOK, response # <<>>, Fail, ArtifactsOK', UNCHANGED <<stream, received>>
  PROVE  TypeOK' /\ Len(response') < Len(response)
<1>1. response \in Seq(Byte) /\ Len(response) \in Nat /\ Len(response) # 0
  BY LenProperties, EmptySeq DEF TypeOK
<1>2. response' = <<>> /\ Len(response') = 0 /\ response' \in Seq(Byte)
  BY EmptySeq DEF Fail
<1> QED
  BY <1>1, <1>2 DEF TypeOK

(* The header of a message.                                                *)
LEMMA HeaderFacts ==
  ASSUME TypeOK, HasHeader
  PROVE  /\ response # <<>> /\ Len(response) \in Nat /\ Len(response) >= 4
         /\ MessageLen \in Nat
<1>1. Len(response) \in Nat /\ Len(response) >= 4
  BY LenProperties DEF TypeOK, HasHeader
<1>2. MessageLen \in Nat
  BY <1>1, NumberIsNatural DEF TypeOK, MessageLen
<1> QED
  BY <1>1, <1>2 DEF HasHeader

(* The list of pieces, there or not.                                       *)
LEMMA PiecesFit == TypeOK => Pieces \in Seq(Nat \X Nat \X Seq(Byte))
  BY EmptySeq DEF TypeOK, ArtifactsOK, Pieces

-----------------------------------------------------------------------------
(* What was read is bytes, and nothing was parsed of it yet.               *)
LEMMA Initially == Init => TypeOK /\ CutInLast
<1> SUFFICES ASSUME Init PROVE TypeOK /\ CutInLast
  OBVIOUS
<1> DEFINE n == Len(stream)
<1>1. stream \in Streams /\ n \in Nat /\ n # 0
  <2>1. stream \in Seq(Message) /\ stream # <<>> /\ stream \in Streams
    BY ParserAssumption DEF Init, Message
  <2> QED
    BY <2>1, LenProperties, EmptySeq
<1>2. /\ Wire(stream) \in Seq(Byte) /\ Len(Wire(stream)) = Boundary(n)
      /\ Boundary(n) \in Nat /\ Boundary(n - 1) \in Nat
  BY <1>1, WireBytes, BoundaryFacts
<1>3. received \in Boundary(n - 1) + 1 .. Boundary(n)
  BY <1>1, <1>2 DEF Init, Boundary
<1>4. received \in Nat /\ received <= Len(Wire(stream))
  BY <1>2, <1>3
<1>5. response \in Seq(Byte)
  BY <1>2, <1>4, SubSeqBytes DEF Init
<1>6. ArtifactsOK
  BY DEF Init, ArtifactsOK
<1> QED
  BY <1>1, <1>3, <1>4, <1>5, <1>6 DEF TypeOK, CutInLast

(* Each branch of the loop body: what it leaves is of the form, and less.  *)
LEMMA Iteration == TypeOK /\ Next => TypeOK' /\ Len(response') < Len(response)
<1> SUFFICES ASSUME TypeOK, Next
             PROVE  TypeOK' /\ Len(response') < Len(response)
  OBVIOUS
<1>1. ASSUME ParseHandshake PROVE TypeOK' /\ Len(response') < Len(response)
  <2>1. response # <<>> /\ HandshakeLength \in Nat \ {0}
    BY <1>1, ParserAssumption DEF ParseHandshake, StartsWithHandshake, IsMessage, HasHeader
  <2>2. /\ Slice(response, 0, HandshakeLength) \in Seq(Byte)
        /\ Len(Slice(response, 0, HandshakeLength)) <= HandshakeLength
    <3> DEFINE from == 0
    <3>1. response \in Seq(Byte) /\ from \in Nat /\ from = 0
          /\ HandshakeLength \in Int /\ from <= HandshakeLength
      BY <2>1 DEF TypeOK
    <3> HIDE DEF from
    <3>2. /\ Slice(response, from, HandshakeLength) \in Seq(Byte)
          /\ Len(Slice(response, from, HandshakeLength)) <= HandshakeLength - from
      BY <3>1, SliceBytes
    <3>3. Len(Slice(response, from, HandshakeLength)) \in Nat
      BY <3>2, LenProperties
    <3> QED
      BY <3>1, <3>2, <3>3
  <2>3. Fits("handshake", Slice(response, 0, HandshakeLength))
    BY <2>1, <2>2 DEF Fits, Keys
  <2> QED
    BY <1>1, <2>1, <2>3, ParsedFits DEF ParseHandshake
<1>2. ASSUME ParseHeaderCut \/ ParseUnknown PROVE TypeOK' /\ Len(response') < Len(response)
  <2>1. response # <<>> /\ Fail /\ UNCHANGED <<stream, received, artifacts>>
    BY <1>2 DEF ParseHeaderCut, ParseUnknown, HasHeader
  <2>2. ArtifactsOK'
    BY <2>1 DEF TypeOK, ArtifactsOK
  <2> QED
    BY <2>1, <2>2, FailFits
<1>3. ASSUME ParseKeepAlive PROVE TypeOK' /\ Len(response') < Len(response)
  <2>1. response # <<>> /\ Fits("keep_alive", True)
    BY <1>3 DEF ParseKeepAlive, HasHeader, Fits, Keys
  <2> QED
    BY <1>3, <2>1, ParsedFits DEF ParseKeepAlive
<1>4. ASSUME ParseChoke PROVE TypeOK' /\ Len(response') < Len(response)
  <2>1. response # <<>> /\ Fits("choke", True) /\ Fits("unchoke", True)
    BY <1>4 DEF ParseChoke, IsMessage, HasHeader, Fits, Keys
  <2> QED
    BY <1>4, <2>1, ParsedFits DEF ParseChoke
<1>5. ASSUME ParseHave PROVE TypeOK' /\ Len(response') < Len(response)
  <2>1. response # <<>> /\ Len(response) \in Nat
    BY <1>5, HeaderFacts DEF ParseHave, IsMessage
  <2>2. CASE Len(response) >= 9 /\ Parsed("have", Number(response, 5), 9)
    <3>1. Fits("have", Number(response, 5))
      BY <2>1, <2>2, NumberIsNatural DEF Fits, Keys, TypeOK
    <3> QED
      BY <1>5, <2>1, <2>2, <3>1, ParsedFits DEF ParseHave
  <2>3. CASE Len(response) < 9 /\ Fail /\ UNCHANGED artifacts
    <3>1. ArtifactsOK'
      BY <2>3 DEF TypeOK, ArtifactsOK
    <3> QED
      BY <1>5, <2>1, <2>3, <3>1, FailFits DEF ParseHave
  <2> QED
    BY <1>5, <2>2, <2>3 DEF ParseHave
<1>6. ASSUME ParseBitfield PROVE TypeOK' /\ Len(response') < Len(response)
  <2>1. /\ response # <<>> /\ MessageLen \in Nat \ {0} /\ MessageId = 5
    BY <1>6, HeaderFacts DEF ParseBitfield, IsMessage
  <2> DEFINE total == MessageLen - 1 + MessageId
  <2>2. total \in Nat \ {0}
    BY <2>1
  <2>3. Fits("bitfield", Slice(response, 5, total))
    BY <2>2, SliceBytes DEF Fits, Keys, TypeOK
  <2>4. Parsed("bitfield", Slice(response, 5, total), total) /\ UNCHANGED <<stream, received>>
    BY <1>6 DEF ParseBitfield
  <2> HIDE DEF total
  <2> QED
    BY <2>1, <2>2, <2>3, <2>4, ParsedFits
<1>7. ASSUME ParsePiece PROVE TypeOK' /\ Len(response') < Len(response)
  <2>1. response # <<>> /\ Len(response) \in Nat /\ MessageLen \in Nat \ {0}
    BY <1>7, HeaderFacts DEF ParsePiece, IsMessage
  <2> DEFINE total == MessageLen - 9 + 13
             block == <<Number(response, 5), Number(response, 9), Slice(response, 13, total)>>
  <2>2. total \in Nat \ {0} /\ Pieces \in Seq(Nat \X Nat \X Seq(Byte))
    BY <2>1, PiecesFit
  <2>3. CASE Len(response) >= 13 /\ Parsed("pieces", Append(Pieces, block), total)
    <3>1. Number(response, 5) \in Nat /\ Number(response, 9) \in Nat
      BY <2>1, <2>3, NumberIsNatural DEF TypeOK
    <3>2. Slice(response, 13, total) \in Seq(Byte)
      BY <2>2, SliceBytes DEF TypeOK
    <3>3. block \in Nat \X Nat \X Seq(Byte)
      BY <3>1, <3>2
    <3> HIDE DEF block
    <3>4. Append(Pieces, block) \in Seq(Nat \X Nat \X Seq(Byte))
      BY <2>2, <3>3, AppendProperties
    <3>5. Fits("pieces", Append(Pieces, block))
      BY <3>4 DEF Fits, Keys
    <3>6. UNCHANGED <<stream, received>>
      BY <1>7 DEF ParsePiece
    <3> HIDE DEF total
    <3> QED
      BY <2>1, <2>2, <2>3, <3>5, <3>6, ParsedFits
  <2>4. CASE Fail /\ artifacts' = Updated("pieces", Pieces)
    <3>1. Fits("pieces", Pieces)
      BY <2>2 DEF Fits, Keys
    <3>2. ArtifactsOK'
      BY <2>4, <3>1, UpdateFits DEF TypeOK
    <3> QED
      BY <1>7, <2>1, <2>4, <3>2, FailFits DEF ParsePiece
  <2> QED
    BY <1>7, <2>3, <2>4 DEF ParsePiece
<1> QED
  BY <1>1, <1>2, <1>3, <1>4, <1>5, <1>6, <1>7 DEF Next

-----------------------------------------------------------------------------
Block == Nat \X Nat \X Seq(Byte)

(* The blocks of the first n messages.                                     *)
BlocksUpTo(n) == Joined([i \in DOMAIN stream |-> BlocksOf(i)])[n]

LEMMA BlocksOfFacts ==
  ASSUME CutInLast, NEW i \in 1 .. Len(stream)
  PROVE  BlocksOf(i) \in Seq(Block)
<1>1. /\ stream[i] \in Message /\ WellFormed(stream[i]) /\ Boundary(i - 1) \in Nat
      /\ received \in Nat
  <2>1. /\ Len(stream) \in Nat \ {0}
        /\ received \in Boundary(Len(stream) - 1) + 1 .. Boundary(Len(stream))
    BY DEF CutInLast
  <2>2. i - 1 \in 0 .. Len(stream) /\ Len(stream) - 1 \in 0 .. Len(stream)
        /\ Len(stream) \in 0 .. Len(stream)
    BY <2>1
  <2>3. Boundary(i - 1) \in Nat /\ Boundary(Len(stream) - 1) \in Nat
        /\ Boundary(Len(stream)) \in Nat
    BY <2>2, BoundaryFacts DEF CutInLast
  <2> QED
    BY <2>1, <2>3, BoundaryFacts DEF CutInLast
<1>2. CASE stream[i].kind = "piece"
  <2>1. stream[i].body \in Seq(Byte) /\ Len(stream[i].body) >= 8
    BY <1>1, <1>2 DEF Message, WellFormed
  <2>2. Len(stream[i].body) \in Nat
    BY <2>1, LenProperties
  <2>3. Number(stream[i].body, 0) \in Nat /\ Number(stream[i].body, 4) \in Nat
    BY <2>1, <2>2, NumberIsNatural
  <2>4. Slice(stream[i].body, 8, received - Boundary(i - 1) - 5) \in Seq(Byte)
    BY <1>1, <2>1, SliceBytes
  <2>5. BlockOf(i) \in Block
    BY <2>3, <2>4 DEF BlockOf, Block
  <2> HIDE DEF BlockOf
  <2> QED
    BY <2>5 DEF BlocksOf
<1>3. CASE stream[i].kind # "piece"
  BY <1>3, EmptySeq DEF BlocksOf
<1> QED
  BY <1>2, <1>3

LEMMA BlocksUpToFacts ==
  ASSUME CutInLast
  PROVE  /\ BlocksUpTo(0) = <<>> /\ BlocksUpTo(Len(stream)) = BlocksSent
         /\ \A i \in 0 .. Len(stream) : BlocksUpTo(i) \in Seq(Block)
         /\ \A i \in 1 .. Len(stream) : BlocksUpTo(i) = BlocksUpTo(i - 1) \o BlocksOf(i)
<1> DEFINE parts == [i \in DOMAIN stream |-> BlocksOf(i)]
           n == Len(stream)
<1>1. n \in Nat /\ DOMAIN stream = 1 .. n
  BY BoundaryFacts DEF CutInLast
<1>2. parts \in Seq(Seq(Block)) /\ Len(parts) = n /\ \A i \in 1 .. n : parts[i] = BlocksOf(i)
  <2>1. \A i \in 1 .. n : BlocksOf(i) \in Seq(Block)
    BY BlocksOfFacts
  <2> QED
    BY <1>1, <2>1
<1>3. (\A i : BlocksUpTo(i) = Joined(parts)[i]) /\ BlocksSent = BlocksUpTo(n)
  BY DEF BlocksUpTo, BlocksSent
<1> HIDE DEF parts, n
<1>4. /\ Joined(parts)[0] = <<>>
      /\ \A i \in 0 .. n : Joined(parts)[i] \in Seq(Block)
      /\ \A i \in 1 .. n : Joined(parts)[i] = Joined(parts)[i - 1] \o parts[i]
  BY <1>2, JoinedFacts
<1> QED
  BY <1>2, <1>3, <1>4 DEF n

(* After a message that is not handled there are no blocks that count.     *)
LEMMA NoMoreBlocks ==
  ASSUME CutInLast, NEW u \in 1 .. Len(stream), stream[u].kind \in Unhandled
  PROVE  BlocksSent = BlocksUpTo(u - 1)
<1> DEFINE n == Len(stream)
           bad == {i \in u - 1 .. n : BlocksUpTo(i) # BlocksUpTo(u - 1)}
<1>1. n \in Nat /\ u \in 1 .. n
  BY DEF CutInLast
<1>2. bad = {}
  <2> SUFFICES ASSUME bad # {} PROVE FALSE
    OBVIOUS
  <2>1. bad \in SUBSET Nat
    BY <1>1
  <2>2. PICK i \in bad : \A j \in bad : i <= j
    BY <2>1, LeastElement
  <2>3. i \in u .. n /\ i - 1 \in u - 1 .. n /\ i \in 1 .. n /\ i - 1 \in 0 .. n
    BY <1>1, <2>2
  <2>4. BlocksUpTo(i - 1) = BlocksUpTo(u - 1)
    <3>1. i - 1 \notin bad
      BY <2>2, <2>3
    <3> QED
      BY <2>3, <3>1
  <2>5. BlocksOf(i) = <<>>
    <3>1. CASE i = u
      BY <3>1 DEF BlocksOf, Unhandled
    <3>2. CASE i # u
      <4>1. u \in 1 .. i - 1
        BY <1>1, <2>3, <3>2
      <4>2. ~ Handled(i)
        BY <4>1 DEF Handled
      <4> QED
        BY <4>2 DEF BlocksOf
    <3> QED
      BY <3>1, <3>2
  <2>6. BlocksUpTo(i) = BlocksUpTo(i - 1) \o <<>> /\ BlocksUpTo(i - 1) \in Seq(Block)
    BY <2>3, <2>5, BlocksUpToFacts
  <2>7. BlocksUpTo(i) = BlocksUpTo(i - 1)
    BY <2>6, ConcatEmptySeq
  <2> QED
    BY <2>2, <2>4, <2>7
<1>3. n \in u - 1 .. n
  BY <1>1
<1> QED
  BY <1>2, <1>3, BlocksUpToFacts

-----------------------------------------------------------------------------
(* What an update does to the dict.                                        *)
LEMMA UpdateFacts ==
  ASSUME NEW key, NEW value, artifacts' = Updated(key, value)
  PROVE  /\ DOMAIN artifacts' = DOMAIN artifacts \cup {key} /\ artifacts'[key] = value
         /\ \A k \in DOMAIN artifacts \ {key} : artifacts'[k] = artifacts[k]
         /\ key = "pieces" => Pieces' = value
         /\ key # "pieces" => Pieces' = Pieces
<1>1. /\ DOMAIN artifacts' = DOMAIN artifacts \cup {key} /\ artifacts'[key] = value
      /\ \A k \in DOMAIN artifacts \ {key} : artifacts'[k] = artifacts[k]
  BY DEF Updated
<1> QED
  BY <1>1 DEF Pieces

(* What one iteration owes to the message it is at: the bytes of the       *)
(* message are dropped, or all there are; its block is appended, as far as *)
(* it was read; its entry is what it says; the other entries stay.         *)
Takes(i) ==
  LET m == stream[i] IN
  /\ \/ response' = Drop(response, Len(Encode(m)))
     \/ i = Len(stream) /\ response' = <<>>
  /\ Pieces' = Pieces \o BlocksOf(i)
  /\ DOMAIN artifacts \subseteq DOMAIN artifacts'
  /\ \A k \in DOMAIN artifacts \ {m.kind, "pieces"} : artifacts'[k] = artifacts[k]
  /\ m.kind # "piece" /\ Boundary(i) <= received => m.kind \in DOMAIN artifacts'
  /\ m.kind = "have" /\ Boundary(i) <= received => artifacts'["have"] = Number(m.body, 0)
  /\ m.kind = "bitfield" /\ Boundary(i - 1) + 5 <= received =>
       artifacts'["bitfield"] = Slice(m.body, 0, received - Boundary(i - 1) - 5)

(* A message without a block.                                              *)
LEMMA NoBlock ==
  ASSUME TypeOK, NEW i, BlocksOf(i) = <<>>
  PROVE  Pieces \o BlocksOf(i) = Pieces
BY PiecesFit, ConcatEmptySeq

(* A message is cut before its block or its value begins.                  *)
LEMMA TakesCut ==
  ASSUME TypeOK, CutInLast, NEW i, Reading(i), Fail,
         Len(response) < Len(Encode(stream[i])),
         stream[i].kind = "bitfield" => Len(response) < 5,
         stream[i].kind = "piece" => Len(response) < 13,
         Pieces' = Pieces, DOMAIN artifacts \subseteq DOMAIN artifacts',
         \A k \in DOMAIN artifacts \ {"pieces"} : artifacts'[k] = artifacts[k]
  PROVE  Takes(i)
<1>1. response \in Seq(Byte)
  BY DEF TypeOK
<1> DEFINE r == Len(response)
           size == Len(Encode(stream[i]))
           n == Len(stream)
           b == Boundary(i - 1)
<1>2. /\ r \in Nat /\ b \in Nat /\ received \in Nat /\ r = received - b /\ size \in Nat
      /\ Boundary(i) = b + size /\ (i # n => r > size)
  BY <1>1, ReadingFacts
<1> HIDE DEF r, size, n, b
<1>3. i = n /\ ~ (Boundary(i) <= received)
  BY <1>2 DEF r, size
<1>4. stream[i].kind = "bitfield" => ~ (b + 5 <= received)
  BY <1>2 DEF r
<1>5. BlocksOf(i) = <<>>
  BY <1>2 DEF BlocksOf, r, b
<1> QED
  BY <1>3, <1>4, <1>5, NoBlock DEF Takes, Fail, n, b

(* What was read of message i is as long as it was cut.                    *)
LEMMA CutFacts ==
  ASSUME TypeOK, CutInLast, NEW i, Reading(i)
  PROVE  /\ stream[i] \in Message /\ WellFormed(stream[i]) /\ stream[i].body \in Seq(Byte)
         /\ Len(stream[i].body) \in Nat
         /\ Len(response) \in Nat \ {0} /\ Len(Encode(stream[i])) \in Nat
         /\ Boundary(i - 1) \in Nat /\ received \in Nat
         /\ Len(response) = received - Boundary(i - 1)
         /\ Boundary(i) <= received <=> Len(response) >= Len(Encode(stream[i]))
<1> DEFINE r == Len(response)
           size == Len(Encode(stream[i]))
           b == Boundary(i - 1)
<1>1. /\ stream[i] \in Message /\ WellFormed(stream[i])
      /\ r \in Nat \ {0} /\ b \in Nat /\ received \in Nat /\ r = received - b
      /\ size \in Nat /\ Boundary(i) = b + size
  BY ReadingFacts DEF TypeOK
<1> HIDE DEF r, size, b
<1>2. stream[i].body \in Seq(Byte) /\ Len(stream[i].body) \in Nat
  BY <1>1, LenProperties DEF Message
<1>3. Boundary(i) <= received <=> r >= size
  BY <1>1
<1> QED
  BY <1>1, <1>2, <1>3 DEF r, size, b

(* A handshake, told by its first byte.                                    *)
LEMMA TakesHandshake ==
  ASSUME TypeOK, CutInLast, NEW i, Reading(i), Next, stream[i].kind = "handshake"
  PROVE  Takes(i)
<1>1. StartsWithHandshake /\ stream[i] \in Message /\ WellFormed(stream[i])
  BY HeaderRead, ReadingFacts DEF TypeOK
<1>2. Len(Encode(stream[i])) = HandshakeLength
  BY <1>1, EncodeFacts
<1>3. ParseHandshake
  BY <1>1 DEF Next, ParseHeaderCut, ParseKeepAlive, ParseUnknown, ParseChoke, ParseHave,
              ParseBitfield, ParsePiece, IsMessage, HasHeader
<1> DEFINE value == Slice(response, 0, HandshakeLength)
<1>4. artifacts' = Updated("handshake", value) /\ response' = Drop(response, HandshakeLength)
  BY <1>3 DEF ParseHandshake, Parsed
<1> HIDE DEF value
<1>5. BlocksOf(i) = <<>>
  BY DEF BlocksOf
<1> QED
  BY <1>2, <1>4, <1>5, UpdateFacts, NoBlock DEF Takes

(* Of the other messages the header is there, or nothing is taken.         *)
LEMMA TakesHeader ==
  ASSUME TypeOK, CutInLast, NEW i, Reading(i), Next,
         stream[i].kind \notin {"handshake"} \cup Unhandled
  PROVE  \/ Takes(i)
         \/ /\ HasHeader /\ Len(response) >= 5 /\ MessageLen = Len(stream[i].body) + 1
            /\ MessageLen # 0 /\ MessageId = Id[stream[i].kind]
            /\ Len(Encode(stream[i])) = Len(stream[i].body) + 5
            /\ \A k \in 1 .. Len(stream[i].body) :
                 5 + k <= Len(response) => response[5 + k] = stream[i].body[k]
            /\ ~ ParseHandshake /\ ~ ParseHeaderCut /\ ~ ParseKeepAlive /\ ~ ParseUnknown
            /\ stream[i].kind \in {"choke", "unchoke"} => ParseChoke
            /\ stream[i].kind = "have" => ParseHave
            /\ stream[i].kind = "bitfield" => ParseBitfield
            /\ stream[i].kind = "piece" => ParsePiece
<1> DEFINE m == stream[i]
           n == Len(m.body)
           e == Encode(m)
           r == Len(response)
<1>1. m \in Message /\ WellFormed(m) /\ m.body \in Seq(Byte) /\ n \in Nat /\ r \in Nat \ {0}
  BY CutFacts
<1>2. m.kind \in {"choke", "unchoke", "have", "bitfield", "piece"}
  BY <1>1 DEF Message, Kinds, Unhandled, Id
<1>3. /\ ~ StartsWithHandshake /\ (HasHeader <=> r >= 5)
      /\ HasHeader => MessageLen = n + 1 /\ MessageLen # 0 /\ MessageId = Id[m.kind]
  BY <1>2, HeaderRead DEF TypeOK
<1>4. /\ Len(e) = n + 5
      /\ \A k \in 1 .. n : 5 + k <= r => response[5 + k] = m.body[k]
  <2>1. Len(e) = n + 5 /\ \A k \in 1 .. n : e[5 + k] = m.body[k]
    BY <1>1, <1>2, EncodeFacts
  <2>2. \A k \in 1 .. r : k <= Len(e) => response[k] = e[k]
    BY ReadingFacts DEF TypeOK
  <2>3. ASSUME NEW k \in 1 .. n, 5 + k <= r PROVE response[5 + k] = m.body[k]
    <3>1. 5 + k \in 1 .. r /\ 5 + k <= Len(e)
      BY <1>1, <2>1, <2>3
    <3> QED
      BY <2>1, <2>2, <3>1
  <2> QED
    BY <2>1, <2>3
<1>5. CASE ~ HasHeader
  <2>1. ParseHeaderCut
    BY <1>3, <1>5 DEF Next, ParseHandshake, ParseKeepAlive, ParseUnknown, ParseChoke, ParseHave,
                      ParseBitfield, ParsePiece, IsMessage
  <2>2. Fail /\ artifacts' = artifacts /\ Pieces' = Pieces
    BY <2>1 DEF ParseHeaderCut, Pieces
  <2>3. r < 5 /\ r < Len(e)
    BY <1>1, <1>3, <1>4, <1>5
  <2> HIDE DEF e, r
  <2>4. r < 13
    BY <1>1, <2>3
  <2> QED
    BY <2>2, <2>3, <2>4, TakesCut DEF e, r
<1>6. CASE HasHeader
  <2>1. MessageId = Id[m.kind] /\ MessageLen # 0
    BY <1>3, <1>6
  <2>2. MessageId \in {0, 1, 4, 5, 7}
    BY <1>2, <2>1 DEF Id
  <2>3. ~ ParseHandshake /\ ~ ParseHeaderCut /\ ~ ParseKeepAlive /\ ~ ParseUnknown
    BY <1>3, <1>6, <2>1, <2>2 DEF ParseHandshake, ParseHeaderCut, ParseKeepAlive, ParseUnknown,
                                  IsMessage, KnownIds
  <2>4. ParseChoke \/ ParseHave \/ ParseBitfield \/ ParsePiece
    BY <2>3 DEF Next
  <2>5. /\ ParseChoke => MessageId \in {0, 1}
        /\ ParseHave => MessageId = 4
        /\ ParseBitfield => MessageId = 5
        /\ ParsePiece => MessageId = 7
    BY DEF ParseChoke, ParseHave, ParseBitfield, ParsePiece, IsMessage
  <2>6. /\ m.kind \in {"choke", "unchoke"} => MessageId \in {0, 1}
        /\ m.kind = "have" => MessageId = 4
        /\ m.kind = "bitfield" => MessageId = 5
        /\ m.kind = "piece" => MessageId = 7
    BY <2>1 DEF Id
  <2> HIDE DEF m, e, r, n
  <2>7. /\ m.kind \in {"choke", "unchoke"} => ParseChoke
        /\ m.kind = "have" => ParseHave
        /\ m.kind = "bitfield" => ParseBitfield
        /\ m.kind = "piece" => ParsePiece
    BY <2>4, <2>5, <2>6
  <2> QED
    BY <1>3, <1>4, <1>6, <2>1, <2>3, <2>7 DEF m, e, r, n
<1> QED
  BY <1>5, <1>6

(* A message without a body.                                               *)
LEMMA TakesFlag ==
  ASSUME TypeOK, CutInLast, NEW i, Reading(i), Next, stream[i].kind \in {"choke", "unchoke"}
  PROVE  Takes(i)
<1> SUFFICES ASSUME ~ Takes(i) PROVE FALSE
  OBVIOUS
<1>1. stream[i].kind \notin {"handshake"} \cup Unhandled
  BY DEF Unhandled
<1>2. /\ ParseChoke /\ MessageId = Id[stream[i].kind]
      /\ Len(Encode(stream[i])) = Len(stream[i].body) + 5
  BY <1>1, TakesHeader
<1>3. Len(stream[i].body) = 0 /\ Len(Encode(stream[i])) = 5
  BY <1>2, CutFacts DEF WellFormed
<1>4. Parsed(stream[i].kind, True, 5)
  BY <1>2 DEF ParseChoke, IsMessage, Id
<1>5. BlocksOf(i) = <<>>
  BY DEF BlocksOf
<1> DEFINE kind == stream[i].kind
<1>6. kind # "pieces" /\ artifacts' = Updated(kind, True) /\ response' = Drop(response, 5)
  BY <1>4 DEF Parsed
<1> HIDE DEF kind
<1>7. /\ Pieces' = Pieces /\ DOMAIN artifacts' = DOMAIN artifacts \cup {kind}
      /\ \A k \in DOMAIN artifacts \ {kind} : artifacts'[k] = artifacts[k]
  BY <1>6, UpdateFacts
<1>8. Takes(i)
  BY <1>3, <1>5, <1>6, <1>7, NoBlock DEF Takes, kind
<1> QED
  BY <1>8

LEMMA TakesHave ==
  ASSUME TypeOK, CutInLast, NEW i, Reading(i), Next, stream[i].kind = "have"
  PROVE  Takes(i)
<1> SUFFICES ASSUME ~ Takes(i) PROVE FALSE
  OBVIOUS
<1> DEFINE n == Len(stream[i].body)
           r == Len(response)
           size == Len(Encode(stream[i]))
<1>1. stream[i].kind \notin {"handshake"} \cup Unhandled
  BY DEF Unhandled
<1>2. /\ ParseHave /\ r >= 5 /\ size = n + 5
      /\ \A k \in 1 .. n : 5 + k <= r => response[5 + k] = stream[i].body[k]
  BY <1>1, TakesHeader
<1>3. n = 4 /\ size = 9 /\ r \in Nat /\ stream[i].body \in Seq(Byte) /\ response \in Seq(Byte)
  <2>1. WellFormed(stream[i]) /\ r \in Nat \ {0} /\ stream[i].body \in Seq(Byte)
    BY CutFacts
  <2>2. n = 4
    BY <2>1 DEF WellFormed
  <2>3. response \in Seq(Byte)
    BY DEF TypeOK
  <2> QED
    BY <1>2, <2>1, <2>2, <2>3
<1>4. BlocksOf(i) = <<>>
  BY DEF BlocksOf
<1>5. CASE r >= 9
  <2>1. \A o \in Nat : o + 4 <= n /\ o + 9 <= r =>
          Number(response, 5 + o) = Number(stream[i].body, o)
    BY <1>2, <1>3, BodyRead
  <2>2. 0 \in Nat /\ 0 + 4 <= n /\ 0 + 9 <= r /\ 5 + 0 = 5
    BY <1>3, <1>5
  <2>3. Parsed("have", Number(response, 5), 9)
    BY <1>2, <1>3, <1>5 DEF ParseHave
  <2> DEFINE value == Number(response, 5)
  <2> HIDE DEF n, r
  <2>4. Number(response, 5) = Number(stream[i].body, 0)
    BY <2>1, <2>2
  <2>5. artifacts' = Updated("have", value) /\ response' = Drop(response, 9)
        /\ value = Number(stream[i].body, 0)
    BY <2>3, <2>4 DEF Parsed
  <2> HIDE DEF value
  <2>6. /\ Pieces' = Pieces /\ DOMAIN artifacts' = DOMAIN artifacts \cup {"have"}
        /\ artifacts'["have"] = value
        /\ \A k \in DOMAIN artifacts \ {"have"} : artifacts'[k] = artifacts[k]
    BY <2>5, UpdateFacts
  <2>7. Takes(i)
    BY <1>3, <1>4, <2>5, <2>6, NoBlock DEF Takes
  <2> QED
    BY <2>7
<1>6. CASE r < 9
  <2>1. Fail /\ artifacts' = artifacts /\ Pieces' = Pieces
    BY <1>2, <1>3, <1>6 DEF ParseHave, Pieces
  <2>2. Takes(i)
    BY <1>3, <1>6, <2>1, TakesCut
  <2> QED
    BY <2>2
<1> QED
  BY <1>3, <1>5, <1>6

LEMMA TakesBitfield ==
  ASSUME TypeOK, CutInLast, NEW i, Reading(i), Next, stream[i].kind = "bitfield"
  PROVE  Takes(i)
<1> SUFFICES ASSUME ~ Takes(i) PROVE FALSE
  OBVIOUS
<1> DEFINE n == Len(stream[i].body)
           r == Len(response)
           size == Len(Encode(stream[i]))
           b == Boundary(i - 1)
<1>1. stream[i].kind \notin {"handshake"} \cup Unhandled
  BY DEF Unhandled
<1>2. /\ ParseBitfield /\ r >= 5 /\ size = n + 5 /\ MessageLen = n + 1 /\ MessageId = 5
      /\ \A k \in 1 .. n : 5 + k <= r => response[5 + k] = stream[i].body[k]
  BY <1>1, TakesHeader DEF Id
<1>3. /\ n \in Nat /\ r \in Nat /\ stream[i].body \in Seq(Byte) /\ response \in Seq(Byte)
      /\ b \in Nat /\ received \in Nat /\ r = received - b
  BY CutFacts DEF TypeOK
<1>4. BlocksOf(i) = <<>>
  BY DEF BlocksOf
<1>5. Slice(response, 5 + 0, n + 5) = Slice(stream[i].body, 0, r - 5)
  BY <1>2, <1>3, BodyRead
<1>6. MessageLen - 1 + MessageId = n + 5
  BY <1>2, <1>3
<1>7. Parsed("bitfield", Slice(response, 5, n + 5), n + 5)
  BY <1>2, <1>6 DEF ParseBitfield
<1> DEFINE value == Slice(response, 5, n + 5)
<1>8. Parsed("bitfield", value, size) /\ value = Slice(stream[i].body, 0, received - b - 5)
  BY <1>2, <1>3, <1>5, <1>7
<1> HIDE DEF value
<1>9. Takes(i)
  BY <1>4, <1>8, UpdateFacts, NoBlock DEF Takes, Parsed
<1> QED
  BY <1>9

LEMMA TakesPiece ==
  ASSUME TypeOK, CutInLast, NEW i, Reading(i), Handled(i), Next, stream[i].kind = "piece"
  PROVE  Takes(i)
<1> SUFFICES ASSUME ~ Takes(i) PROVE FALSE
  OBVIOUS
<1> DEFINE body == stream[i].body
           n == Len(body)
           r == Len(response)
           size == Len(Encode(stream[i]))
           b == Boundary(i - 1)
<1>1. stream[i].kind \notin {"handshake"} \cup Unhandled
  BY DEF Unhandled
<1>2. /\ ParsePiece /\ r >= 5 /\ size = n + 5 /\ MessageLen = n + 1
      /\ \A k \in 1 .. n : 5 + k <= r => response[5 + k] = body[k]
  BY <1>1, TakesHeader
<1>3. /\ n \in Nat /\ r \in Nat /\ body \in Seq(Byte) /\ response \in Seq(Byte)
      /\ b \in Nat /\ received \in Nat /\ r = received - b /\ n >= 8
  BY CutFacts DEF TypeOK, WellFormed
<1>4. MessageLen - 9 + 13 = n + 5
  BY <1>2, <1>3
<1> DEFINE block == <<Number(response, 5), Number(response, 9), Slice(response, 13, n + 5)>>
<1>5. \/ r >= 13 /\ Parsed("pieces", Append(Pieces, block), n + 5)
      \/ r < 13 /\ Fail /\ artifacts' = Updated("pieces", Pieces)
  BY <1>2, <1>4 DEF ParsePiece
<1>6. CASE r >= 13 /\ Parsed("pieces", Append(Pieces, block), n + 5)
  <2>1. /\ Number(response, 5) = Number(body, 0) /\ Number(response, 9) = Number(body, 4)
        /\ Slice(response, 13, n + 5) = Slice(body, 8, r - 5)
    <3>1. \A o \in Nat :
            /\ Slice(response, 5 + o, n + 5) = Slice(body, o, r - 5)
            /\ o + 4 <= n /\ o + 9 <= r => Number(response, 5 + o) = Number(body, o)
      BY <1>2, <1>3, BodyRead
    <3>2. 0 + 4 <= n /\ 0 + 9 <= r /\ 4 + 4 <= n /\ 4 + 9 <= r
      BY <1>3, <1>6
    <3> HIDE DEF n, r, body
    <3>3. Number(response, 5 + 0) = Number(body, 0)
      BY <3>1, <3>2
    <3>4. Number(response, 5 + 4) = Number(body, 4)
      BY <3>1, <3>2
    <3>5. Slice(response, 5 + 8, n + 5) = Slice(body, 8, r - 5)
      BY <3>1
    <3>6. 5 + 0 = 5 /\ 5 + 4 = 9 /\ 5 + 8 = 13
      OBVIOUS
    <3> QED
      BY <3>3, <3>4, <3>5, <3>6
  <2>2. block = BlockOf(i)
    BY <1>3, <2>1 DEF BlockOf
  <2>3. b + 13 <= received
    BY <1>3, <1>6
  <2>4. BlocksOf(i) = <<BlockOf(i)>>
    BY <2>3 DEF BlocksOf
  <2> HIDE DEF block
  <2>5. Pieces \in Seq(Block) /\ block \in Block
    <3>1. i \in 1 .. Len(stream)
      BY DEF Reading
    <3>2. BlocksOf(i) \in Seq(Block)
      BY <3>1, BlocksOfFacts
    <3>3. <<block>> \in Seq(Block)
      BY <2>2, <2>4, <3>2
    <3>4. Len(<<block>>) = 1 /\ <<block>>[1] = block
      OBVIOUS
    <3>5. <<block>>[1] \in Block
      BY <3>3, <3>4, ElementOfSeq
    <3> QED
      BY <3>4, <3>5, PiecesFit DEF Block
  <2>6. Append(Pieces, block) = Pieces \o BlocksOf(i)
    BY <2>2, <2>4, <2>5, AppendIsConcat
  <2> HIDE DEF body, n, r, size, b
  <2>7. Parsed("pieces", Pieces \o BlocksOf(i), size)
    BY <1>2, <1>6, <2>6
  <2>8. Takes(i)
    BY <2>7, UpdateFacts DEF Takes, Parsed, size
  <2> QED
    BY <2>8
<1>7. CASE r < 13 /\ Fail /\ artifacts' = Updated("pieces", Pieces)
  <2>1. /\ Pieces' = Pieces /\ DOMAIN artifacts \subseteq DOMAIN artifacts'
        /\ \A k \in DOMAIN artifacts \ {"pieces"} : artifacts'[k] = artifacts[k]
    BY <1>7, UpdateFacts
  <2>2. r < size
    BY <1>2, <1>3, <1>7
  <2>3. Takes(i)
    BY <1>7, <2>1, <2>2, TakesCut
  <2> QED
    BY <2>3
<1> QED
  BY <1>5, <1>6, <1>7

(* The iteration at a message that is handled takes it.                    *)
LEMMA TakesMessage ==
  ASSUME TypeOK, CutInLast, NEW i, Reading(i), Handled(i), Next, stream[i].kind \notin Unhandled
  PROVE  Takes(i)
<1>1. stream[i].kind \in {"handshake", "choke", "unchoke", "have", "bitfield", "piece"}
  BY CutFacts DEF Message, Kinds, Unhandled, Id
<1> QED
  BY <1>1, TakesHandshake, TakesFlag, TakesHave, TakesBitfield, TakesPiece

-----------------------------------------------------------------------------
(* Every complete message that has an entry left one.                      *)
KeysKept(n) ==
  \A j \in 1 .. n :
    stream[j].kind \notin {"piece"} \cup Unhandled /\ Boundary(j) <= received =>
      stream[j].kind \in DOMAIN artifacts

(* The entry is that of the last message of its kind.                      *)
LatestOf(n) ==
  \A j \in 1 .. n :
    (\A l \in j + 1 .. n : stream[l].kind # stream[j].kind) =>
      /\ stream[j].kind = "have" /\ Boundary(j) <= received =>
           artifacts["have"] = Number(stream[j].body, 0)
      /\ stream[j].kind = "bitfield" /\ Boundary(j - 1) + 5 <= received =>
           artifacts["bitfield"] = Slice(stream[j].body, 0, received - Boundary(j - 1) - 5)

(* The dict says what the first n messages say.                            *)
Kept(n) == Pieces = BlocksUpTo(n) /\ KeysKept(n) /\ LatestOf(n)

(* Message u is the first that is not handled. What was parsed before it   *)
(* is kept; the rest is dropped, or read from inside of a later message.   *)
OutOfStep(u) ==
  /\ u \in 1 .. Len(stream) /\ Handled(u) /\ stream[u].kind \in Unhandled
  /\ KeysKept(u - 1) /\ Prefix(BlocksUpTo(u - 1), Pieces)
  /\ response = <<>> \/ (stream[u].kind = "keep_alive" /\ Boundary(u) < Consumed)

(* The inductive invariant: the loop is at the beginning of a message and  *)
(* has kept those before it, or it is done with all, or out of step.       *)
Progress ==
  /\ TypeOK /\ CutInLast
  /\ \/ \E i \in 1 .. Len(stream) : Reading(i) /\ Handled(i) /\ Kept(i - 1)
     \/ response = <<>> /\ Handled(Len(stream) + 1) /\ Kept(Len(stream))
     \/ \E u \in 1 .. Len(stream) : OutOfStep(u)

(* What was sent and how far it was read does not change.                  *)
LEMMA SameStream ==
  ASSUME CutInLast, UNCHANGED <<stream, received>>
  PROVE  /\ CutInLast' /\ Len(stream)' = Len(stream)
         /\ \A i : /\ Boundary(i)' = Boundary(i) /\ BlocksUpTo(i)' = BlocksUpTo(i)
                   /\ Handled(i)' <=> Handled(i)
<1>1. \A i : Boundary(i)' = Boundary(i)
  BY DEF Boundary
<1>2. \A i : Handled(i)' <=> Handled(i)
  BY DEF Handled
<1>3. \A i : BlocksUpTo(i)' = BlocksUpTo(i)
  BY DEF BlocksUpTo, BlocksOf, BlockOf, Boundary, Handled
<1>4. CutInLast'
  BY <1>1 DEF CutInLast
<1> QED
  BY <1>1, <1>2, <1>3, <1>4

(* Taking a message keeps it, and those before it.                         *)
LEMMA TakenIsKept ==
  ASSUME CutInLast, NEW i \in 1 .. Len(stream), Kept(i - 1), Takes(i), Handled(i),
         stream[i].kind \notin Unhandled, UNCHANGED <<stream, received>>
  PROVE  Kept(i)'
<1>1. Len(stream) \in Nat /\ i \in 1 .. Len(stream)
  BY DEF CutInLast
<1>2. Pieces' = BlocksUpTo(i)
  BY BlocksUpToFacts DEF Kept, Takes
<1>3. \A j : Boundary(j)' = Boundary(j) /\ BlocksUpTo(j)' = BlocksUpTo(j)
  BY SameStream
<1>4. (Pieces = BlocksUpTo(i))'
  BY <1>2, <1>3
<1>5. KeysKept(i)'
  <2> SUFFICES ASSUME NEW j \in 1 .. i, stream[j].kind \notin {"piece"} \cup Unhandled,
                      Boundary(j) <= received
               PROVE  stream[j].kind \in DOMAIN artifacts'
    BY <1>3 DEF KeysKept
  <2>1. CASE j = i
    BY <2>1 DEF Takes
  <2>2. CASE j # i
    <3>1. j \in 1 .. i - 1
      BY <1>1, <2>2
    <3> QED
      BY <3>1 DEF Kept, KeysKept, Takes
  <2> QED
    BY <2>1, <2>2
<1>6. LatestOf(i)'
  <2> SUFFICES ASSUME NEW j \in 1 .. i, \A l \in j + 1 .. i : stream[l].kind # stream[j].kind
               PROVE  /\ stream[j].kind = "have" /\ Boundary(j) <= received =>
                           artifacts'["have"] = Number(stream[j].body, 0)
                      /\ stream[j].kind = "bitfield" /\ Boundary(j - 1) + 5 <= received =>
                           artifacts'["bitfield"] =
                             Slice(stream[j].body, 0, received - Boundary(j - 1) - 5)
    BY <1>3 DEF LatestOf
  <2>1. CASE j = i
    BY <2>1 DEF Takes
  <2>2. CASE j # i
    <3>1. j \in 1 .. i - 1 /\ i \in j + 1 .. i /\ j + 1 .. i - 1 \subseteq j + 1 .. i
      BY <1>1, <2>2
    <3>2. /\ stream[j].kind = "have" /\ Boundary(j) <= received =>
               artifacts["have"] = Number(stream[j].body, 0)
          /\ stream[j].kind = "bitfield" /\ Boundary(j - 1) + 5 <= received =>
               artifacts["bitfield"] = Slice(stream[j].body, 0, received - Boundary(j - 1) - 5)
      BY <3>1 DEF Kept, LatestOf
    <3>3. stream[j].kind # stream[i].kind
      BY <3>1
    <3>4. Boundary(j) <= received
      <4>1. /\ Len(stream) - 1 \in j .. Len(stream) /\ j \in 0 .. Len(stream)
            /\ Len(stream) - 1 \in 0 .. Len(stream) /\ Len(stream) \in 0 .. Len(stream)
        BY <1>1, <3>1
      <4>2. /\ Boundary(j) <= Boundary(Len(stream) - 1) /\ Boundary(j) \in Nat
            /\ Boundary(Len(stream) - 1) \in Nat /\ Boundary(Len(stream)) \in Nat
        BY <4>1, BoundaryFacts DEF CutInLast
      <4>3. received \in Boundary(Len(stream) - 1) + 1 .. Boundary(Len(stream))
        BY DEF CutInLast
      <4> QED
        BY <4>2, <4>3
    <3>5. ASSUME stream[j].kind \in {"have", "bitfield"}
          PROVE  artifacts'[stream[j].kind] = artifacts[stream[j].kind]
      <4>1. stream[j].kind \in DOMAIN artifacts
        BY <3>1, <3>4, <3>5 DEF Kept, KeysKept, Unhandled
      <4>2. stream[j].kind \in DOMAIN artifacts \ {stream[i].kind, "pieces"}
        BY <3>3, <3>5, <4>1
      <4> QED
        BY <4>2 DEF Takes
    <3> QED
      BY <3>2, <3>5
  <2> QED
    BY <2>1, <2>2
<1> QED
  BY <1>4, <1>5, <1>6 DEF Kept

(* Whatever an iteration takes a byte for, no entry is removed and no      *)
(* block but appended.                                                     *)
LEMMA OnlyGrows ==
  ASSUME TypeOK, Next
  PROVE  /\ UNCHANGED <<stream, received>> /\ response # <<>>
         /\ DOMAIN artifacts \subseteq DOMAIN artifacts' /\ Prefix(Pieces, Pieces')
<1>1. UNCHANGED <<stream, received>> /\ response # <<>>
  BY DEF Next, ParseHandshake, ParseHeaderCut, ParseKeepAlive, ParseUnknown, ParseChoke,
         ParseHave, ParseBitfield, ParsePiece, IsMessage, HasHeader, StartsWithHandshake
<1>2. Pieces \in Seq(Block)
  BY PiecesFit DEF Block
<1>3. Len(Pieces) \in Nat /\ Prefix(Pieces, Pieces)
  BY <1>2, LenProperties DEF Prefix
<1>4. ASSUME NEW key, NEW value, key # "pieces", artifacts' = Updated(key, value)
      PROVE  DOMAIN artifacts \subseteq DOMAIN artifacts' /\ Pieces' = Pieces
  BY <1>4, UpdateFacts
<1>5. ASSUME artifacts' = artifacts
      PROVE  DOMAIN artifacts \subseteq DOMAIN artifacts' /\ Pieces' = Pieces
  BY <1>5 DEF Pieces
<1>6. CASE ParseHandshake \/ ParseKeepAlive \/ ParseChoke \/ ParseBitfield
  <2>1. \E key, value : key # "pieces" /\ artifacts' = Updated(key, value)
    BY <1>6, Zenon DEF ParseHandshake, ParseKeepAlive, ParseChoke, ParseBitfield, Parsed
  <2> QED
    BY <1>1, <1>3, <1>4, <2>1
<1>7. CASE ParseHeaderCut \/ ParseUnknown
  BY <1>1, <1>3, <1>5, <1>7 DEF ParseHeaderCut, ParseUnknown
<1>8. CASE ParseHave
  <2>1. artifacts' = Updated("have", Number(response, 5)) \/ artifacts' = artifacts
    BY <1>8 DEF ParseHave, Parsed
  <2> DEFINE value == Number(response, 5)
  <2>2. artifacts' = Updated("have", value) \/ artifacts' = artifacts
    BY <2>1
  <2> HIDE DEF value
  <2> QED
    BY <1>1, <1>3, <1>4, <1>5, <2>2
<1>9. CASE ParsePiece
  <2> DEFINE total == MessageLen - 9 + 13
             block == <<Number(response, 5), Number(response, 9), Slice(response, 13, total)>>
  <2>1. /\ HasHeader
        /\ \/ Len(response) >= 13 /\ artifacts' = Updated("pieces", Append(Pieces, block))
           \/ artifacts' = Updated("pieces", Pieces)
    BY <1>9 DEF ParsePiece, Parsed, IsMessage
  <2>2. CASE artifacts' = Updated("pieces", Pieces)
    BY <1>1, <1>3, <2>2, UpdateFacts
  <2>3. CASE Len(response) >= 13 /\ artifacts' = Updated("pieces", Append(Pieces, block))
    <3>1. MessageLen \in Nat /\ Len(response) \in Nat /\ response \in Seq(Byte)
      BY <2>1, HeaderFacts DEF TypeOK
    <3>2. Number(response, 5) \in Nat /\ Number(response, 9) \in Nat
      BY <2>3, <3>1, NumberIsNatural
    <3>3. Slice(response, 13, total) \in Seq(Byte)
      BY <3>1, SliceBytes
    <3>4. block \in Block
      BY <3>2, <3>3 DEF Block
    <3> HIDE DEF block
    <3>5. Pieces' = Append(Pieces, block) /\ DOMAIN artifacts \subseteq DOMAIN artifacts'
      BY <2>3, UpdateFacts
    <3>6. /\ Len(Append(Pieces, block)) = Len(Pieces) + 1
          /\ \A k \in 1 .. Len(Pieces) : Append(Pieces, block)[k] = Pieces[k]
      BY <1>2, <3>4, AppendProperties
    <3>7. Prefix(Pieces, Pieces')
      BY <1>3, <3>5, <3>6 DEF Prefix
    <3> QED
      BY <1>1, <3>5, <3>7
  <2> QED
    BY <2>1, <2>2, <2>3
<1> QED
  BY <1>6, <1>7, <1>8, <1>9 DEF Next

(* Nothing is parsed yet.                                                  *)
LEMMA ProgressInitially == Init => Progress
<1> SUFFICES ASSUME Init PROVE Progress
  OBVIOUS
<1>1. TypeOK /\ CutInLast
  BY Initially
<1>2. /\ Len(stream) \in Nat \ {0} /\ Boundary(0) = 0 /\ received \in Nat \ {0}
      /\ Wire(stream) \in Seq(Byte) /\ received <= Len(Wire(stream))
  <2>1. /\ Len(stream) \in Nat \ {0} /\ stream \in Streams
        /\ received \in Boundary(Len(stream) - 1) + 1 .. Boundary(Len(stream))
    BY <1>1 DEF CutInLast
  <2>2. Len(stream) - 1 \in 0 .. Len(stream) /\ Len(stream) \in 0 .. Len(stream)
    BY <2>1
  <2>3. Boundary(Len(stream) - 1) \in Nat /\ Boundary(Len(stream)) \in Nat /\ Boundary(0) = 0
    BY <2>1, <2>2, BoundaryFacts
  <2>4. Wire(stream) \in Seq(Byte) /\ Len(Wire(stream)) = Boundary(Len(stream))
    BY <2>1, WireBytes
  <2> QED
    BY <2>1, <2>3, <2>4
<1>3. response = SubSeq(Wire(stream), 1, received)
  BY DEF Init
<1>4. Len(response) = received /\ response # <<>>
  <2>1. Len(response) = received
    BY <1>2, <1>3, SubSeqBytes
  <2> QED
    BY <1>2, <2>1, EmptySeq
<1>5. Consumed = 0
  BY <1>2, <1>4 DEF Consumed
<1>6. Reading(1)
  BY <1>2, <1>3, <1>4, <1>5 DEF Reading
<1>7. Handled(1) /\ KeysKept(0) /\ LatestOf(0)
  BY DEF Handled, KeysKept, LatestOf
<1>8. Pieces = BlocksUpTo(0)
  BY <1>1, BlocksUpToFacts DEF Init, Pieces
<1>9. 1 \in 1 .. Len(stream) /\ 1 - 1 = 0
  BY <1>2
<1> QED
  BY <1>1, <1>6, <1>7, <1>8, <1>9 DEF Progress, Kept

(* A message that is handled: the loop is at the next one, or done.        *)
LEMMA HandledOnward ==
  ASSUME TypeOK, CutInLast, Next, NEW i \in 1 .. Len(stream), Reading(i), Handled(i),
         Kept(i - 1), stream[i].kind \notin Unhandled
  PROVE  \/ \E j \in 1 .. Len(stream) : (Reading(j) /\ Handled(j) /\ Kept(j - 1))'
         \/ (response = <<>> /\ Handled(Len(stream) + 1) /\ Kept(Len(stream)))'
<1>1. UNCHANGED <<stream, received>>
  BY OnlyGrows
<1>2. Takes(i)
  BY TakesMessage
<1>3. Kept(i)'
  BY <1>1, <1>2, TakenIsKept
<1>4. Len(stream) \in Nat
  BY DEF CutInLast
<1>5. Handled(i + 1)'
  <2>1. \A j \in 1 .. i + 1 - 1 : j \in 1 .. i - 1 \/ j = i
    BY <1>4
  <2>2. Handled(i + 1)
    BY <2>1 DEF Handled
  <2> QED
    BY <1>1, <2>2, SameStream
<1>6. i = Len(stream) => response' = <<>>
  BY <1>1, <1>2, Advance DEF Takes, TypeOK
<1>7. i # Len(stream) => Reading(i + 1)'
  BY <1>1, <1>2, Advance DEF Takes, TypeOK
<1>8. CASE i = Len(stream)
  <2>1. (Handled(Len(stream) + 1))' /\ (Kept(Len(stream)))'
    <3>1. Len(stream') = i
      BY <1>1, <1>8
    <3> QED
      BY <1>3, <1>5, <3>1
  <2> QED
    BY <1>6, <1>8, <2>1
<1>9. CASE i # Len(stream)
  <2>1. i + 1 \in 1 .. Len(stream) /\ i + 1 - 1 = i
    BY <1>4, <1>9
  <2> QED
    BY <1>3, <1>5, <1>7, <1>9, <2>1
<1> QED
  BY <1>8, <1>9

(* A message that is not: the response is dropped, or too much of it.      *)
LEMMA UnhandledOnward ==
  ASSUME TypeOK, CutInLast, Next, NEW i \in 1 .. Len(stream), Reading(i), Handled(i),
         Kept(i - 1), stream[i].kind \in Unhandled
  PROVE  OutOfStep(i)'
<1> DEFINE r == Len(response)
           b == Boundary(i - 1)
<1>1. /\ UNCHANGED <<stream, received>> /\ DOMAIN artifacts \subseteq DOMAIN artifacts'
      /\ Prefix(Pieces, Pieces')
  BY OnlyGrows
<1>2. \A j : Boundary(j)' = Boundary(j) /\ BlocksUpTo(j)' = BlocksUpTo(j)
             /\ (Handled(j)' <=> Handled(j))
  BY <1>1, SameStream
<1>3. KeysKept(i - 1)'
  BY <1>1, <1>2 DEF Kept, KeysKept
<1>4. Prefix(BlocksUpTo(i - 1), Pieces)'
  BY <1>1, <1>2 DEF Kept
<1>5. /\ response \in Seq(Byte) /\ r \in Nat \ {0} /\ b \in Nat /\ received \in Nat
      /\ r = received - b /\ stream[i] \in Message /\ WellFormed(stream[i])
      /\ Boundary(i) = b + Len(Encode(stream[i]))
  BY ReadingFacts DEF TypeOK
<1>6. ~ StartsWithHandshake
  BY HeaderRead DEF TypeOK, Unhandled
<1>7. response' = <<>> \/ (stream[i].kind = "keep_alive" /\ Boundary(i) < Consumed')
  <2>1. CASE ~ HasHeader
    BY <1>6, <2>1 DEF Next, ParseHandshake, ParseHeaderCut, ParseKeepAlive, ParseUnknown,
                      ParseChoke, ParseHave, ParseBitfield, ParsePiece, IsMessage, Fail
  <2>2. CASE HasHeader /\ stream[i].kind = "keep_alive"
    <3>1. MessageLen = 0
      BY <2>2, HeaderRead DEF TypeOK
    <3>2. response' = Drop(response, 8)
      BY <1>6, <2>2, <3>1 DEF Next, ParseHandshake, ParseHeaderCut, ParseKeepAlive, Parsed,
                      ParseUnknown, ParseChoke, ParseHave, ParseBitfield, ParsePiece, IsMessage
    <3>3. Boundary(i) = b + 4
      BY <1>5, <2>2, EncodeFacts
    <3>4. CASE r <= 8
      <4>1. response' = SubSeq(response, 9, r) /\ r < 9 /\ 9 \in Int /\ r \in Int
        BY <1>5, <3>2, <3>4 DEF Drop
      <4> QED
        BY <4>1, SubSeqEmpty
    <3>5. CASE r > 8
      <4>1. /\ response' = SubSeq(response, 9, r)
            /\ 9 \in Nat \ {0} /\ r \in Int /\ r <= Len(response)
        BY <1>5, <3>2 DEF Drop
      <4>2. Len(response') = r - 8
        BY <1>5, <3>5, <4>1, SubSeqBytes
      <4>3. Consumed' = b + 8
        BY <1>1, <1>5, <4>2 DEF Consumed
      <4> QED
        BY <1>5, <2>2, <3>3, <4>3
    <3> QED
      BY <1>5, <3>4, <3>5
  <2>3. CASE HasHeader /\ stream[i].kind # "keep_alive"
    <3>1. stream[i].kind \in {"interested", "not_interested", "port"}
      BY <2>3 DEF Unhandled
    <3>2. MessageLen # 0 /\ MessageId = Id[stream[i].kind]
      BY <2>3, <3>1, HeaderRead DEF TypeOK
    <3>3. MessageId \in {2, 3, 9}
      BY <3>1, <3>2 DEF Id
    <3>4. ParseUnknown
      BY <1>6, <2>3, <3>2, <3>3 DEF Next, ParseHandshake, ParseHeaderCut, ParseKeepAlive,
                      ParseChoke, ParseHave, ParseBitfield, ParsePiece, IsMessage
    <3> QED
      BY <3>4 DEF ParseUnknown, Fail
  <2> QED
    BY <2>1, <2>2, <2>3
<1>8. (response = <<>> \/ (stream[i].kind = "keep_alive" /\ Boundary(i) < Consumed))'
  BY <1>1, <1>2, <1>7
<1> QED
  BY <1>1, <1>2, <1>3, <1>4, <1>8 DEF OutOfStep

(* Out of step it stays, further on.                                       *)
LEMMA StillOutOfStep ==
  ASSUME TypeOK, CutInLast, Next, NEW u, OutOfStep(u)
  PROVE  OutOfStep(u)'
<1>1. /\ UNCHANGED <<stream, received>> /\ DOMAIN artifacts \subseteq DOMAIN artifacts'
      /\ Prefix(Pieces, Pieces') /\ response # <<>>
  BY OnlyGrows
<1>2. \A j : Boundary(j)' = Boundary(j) /\ BlocksUpTo(j)' = BlocksUpTo(j)
             /\ (Handled(j)' <=> Handled(j))
  BY <1>1, SameStream
<1>3. KeysKept(u - 1)'
  BY <1>1, <1>2 DEF OutOfStep, KeysKept
<1>4. Prefix(BlocksUpTo(u - 1), Pieces)'
  BY <1>1, <1>2, PrefixOfPrefix DEF OutOfStep
<1>5. stream[u].kind = "keep_alive" /\ Boundary(u) < Consumed
  BY <1>1 DEF OutOfStep
<1>6. Boundary(u) < Consumed'
  <2>1. Len(response') < Len(response) /\ response \in Seq(Byte) /\ response' \in Seq(Byte)
    BY Iteration DEF TypeOK
  <2>2. Len(response) \in Nat /\ Len(response') \in Nat /\ received \in Nat
    BY <2>1, LenProperties DEF TypeOK
  <2>3. Boundary(u) \in Nat
    <3>1. u \in 0 .. Len(stream)
      BY DEF OutOfStep, CutInLast
    <3> QED
      BY <3>1, BoundaryFacts DEF CutInLast
  <2> QED
    BY <1>1, <1>5, <2>1, <2>2, <2>3 DEF Consumed
<1> QED
  BY <1>1, <1>2, <1>3, <1>4, <1>5, <1>6 DEF OutOfStep

(* Each iteration keeps the invariant.                                     *)
LEMMA ProgressKept == Progress /\ [Next]_vars => Progress'
<1> SUFFICES ASSUME Progress, [Next]_vars PROVE Progress'
  OBVIOUS
<1>1. CASE Next
  <2>1. TypeOK /\ CutInLast
    BY DEF Progress
  <2>2. UNCHANGED <<stream, received>> /\ response # <<>> /\ TypeOK'
    BY <1>1, <2>1, OnlyGrows, Iteration
  <2>3. CutInLast' /\ Len(stream)' = Len(stream)
    BY <2>1, <2>2, SameStream
  <2>4. CASE \E i \in 1 .. Len(stream) : Reading(i) /\ Handled(i) /\ Kept(i - 1)
    <3>1. PICK i \in 1 .. Len(stream) : Reading(i) /\ Handled(i) /\ Kept(i - 1)
      BY <2>4
    <3>2. CASE stream[i].kind \notin Unhandled
      <4>1. \/ \E j \in 1 .. Len(stream) : (Reading(j) /\ Handled(j) /\ Kept(j - 1))'
            \/ (response = <<>> /\ Handled(Len(stream) + 1) /\ Kept(Len(stream)))'
        BY <1>1, <2>1, <3>1, <3>2, HandledOnward
      <4> QED
        BY <2>2, <2>3, <4>1 DEF Progress
    <3>3. CASE stream[i].kind \in Unhandled
      <4>1. OutOfStep(i)'
        BY <1>1, <2>1, <3>1, <3>3, UnhandledOnward
      <4> QED
        BY <2>2, <2>3, <3>1, <4>1 DEF Progress
    <3> QED
      BY <3>2, <3>3
  <2>5. CASE \E u \in 1 .. Len(stream) : OutOfStep(u)
    <3>1. PICK u \in 1 .. Len(stream) : OutOfStep(u)
      BY <2>5
    <3>2. OutOfStep(u)'
      BY <1>1, <2>1, <3>1, StillOutOfStep
    <3> QED
      BY <2>2, <2>3, <3>1, <3>2 DEF Progress
  <2> QED
    BY <2>2, <2>4, <2>5 DEF Progress
<1>2. CASE UNCHANGED vars
  <2>1. UNCHANGED <<stream, received>> /\ artifacts' = artifacts /\ response' = response
    BY <1>2 DEF vars
  <2>2. TypeOK /\ CutInLast
    BY DEF Progress
  <2>3. TypeOK'
    BY <2>1, <2>2 DEF TypeOK, ArtifactsOK
  <2>4. /\ CutInLast' /\ Len(stream)' = Len(stream)
        /\ \A j : Boundary(j)' = Boundary(j) /\ BlocksUpTo(j)' = BlocksUpTo(j)
                  /\ (Handled(j)' <=> Handled(j))
    BY <2>1, <2>2, SameStream
  <2>5. Consumed' = Consumed /\ Pieces' = Pieces
    BY <2>1 DEF Consumed, Pieces
  <2>6. \A i : Reading(i) => Reading(i)'
    BY <2>1, <2>4, <2>5 DEF Reading
  <2>7. \A n : KeysKept(n) => KeysKept(n)'
    BY <2>1, <2>4 DEF KeysKept
  <2>8. \A n : LatestOf(n) => LatestOf(n)'
    BY <2>1, <2>4 DEF LatestOf
  <2>9. \A n : Kept(n) => Kept(n)'
    BY <2>4, <2>5, <2>7, <2>8 DEF Kept
  <2>10. \A u : OutOfStep(u) => OutOfStep(u)'
    BY <2>1, <2>4, <2>5, <2>7 DEF OutOfStep
  <2>11. Kept(Len(stream)) => (Kept(Len(stream)))'
    BY <2>1, <2>9
  <2>12. Handled(Len(stream) + 1) => (Handled(Len(stream) + 1))'
    BY <2>1, <2>4
  <2> QED
    BY <2>1, <2>3, <2>4, <2>6, <2>9, <2>10, <2>11, <2>12 DEF Progress
<1> QED
  BY <1>1, <1>2

(* The blocks and the entries, once there is nothing left to parse.        *)
LEMMA AllKept == Progress => InStep /\ BlocksKept /\ LatestKept
<1> SUFFICES ASSUME Progress PROVE InStep /\ BlocksKept /\ LatestKept
  OBVIOUS
<1> DEFINE n == Len(stream)
<1>1. /\ TypeOK /\ CutInLast /\ n \in Nat \ {0} /\ DOMAIN stream = 1 .. n
  BY BoundaryFacts DEF Progress, CutInLast
<1>2. CASE \E i \in 1 .. n : Reading(i) /\ Handled(i) /\ Kept(i - 1)
  BY <1>1, <1>2 DEF Reading, InStep, BlocksKept, LatestKept
<1>3. CASE response = <<>> /\ Handled(n + 1) /\ Kept(n)
  <2>1. Pieces = BlocksSent /\ BlocksSent \in Seq(Block)
    <3>1. n \in 0 .. n
      BY <1>1
    <3> QED
      BY <1>1, <1>3, <3>1, BlocksUpToFacts DEF Kept
  <2>2. IsPrefix(BlocksSent, Pieces)
    <3>1. Len(BlocksSent) \in Nat
      BY <2>1, LenProperties
    <3> QED
      BY <2>1, <3>1 DEF IsPrefix
  <2>3. InStep /\ BlocksKept
    BY <1>3, <2>1, <2>2 DEF InStep, BlocksKept
  <2>4. KeysKept(n) /\ LatestOf(n)
    BY <1>3 DEF Kept
  <2>5. LatestKept
    BY <1>1, <2>4 DEF LatestKept, KeysKept, LatestOf
  <2> QED
    BY <2>3, <2>5
<1>4. CASE \E u \in 1 .. n : OutOfStep(u)
  <2>1. PICK u \in 1 .. n : OutOfStep(u)
    BY <1>4
  <2>2. InStep
    BY <1>1, <2>1 DEF InStep, OutOfStep
  <2>3. \A i \in 1 .. n + 1 : Handled(i) => i <= u
    <3> SUFFICES ASSUME NEW i \in 1 .. n + 1, Handled(i), ~ (i <= u) PROVE FALSE
      OBVIOUS
    <3>1. u \in 1 .. i - 1
      BY <1>1
    <3> QED
      BY <2>1, <3>1 DEF Handled, OutOfStep
  <2>4. ~ Handled(n + 1)
    <3>1. n + 1 \in 1 .. n + 1 /\ ~ (n + 1 <= u)
      BY <1>1
    <3> QED
      BY <2>3, <3>1
  <2>5. IsPrefix(BlocksSent, Pieces)
    <3>1. Prefix(BlocksSent, Pieces)
      BY <1>1, <2>1, NoMoreBlocks DEF OutOfStep
    <3>2. BlocksSent \in Seq(Block) /\ Pieces \in Seq(Block)
      <4>1. n \in 0 .. n
        BY <1>1
      <4> QED
        BY <1>1, <4>1, BlocksUpToFacts, PiecesFit DEF Block
    <3> QED
      BY <3>1, <3>2, PrefixIsPrefix
  <2>6. BlocksKept
    BY <2>4, <2>5 DEF BlocksKept
  <2>7. LatestKept
    <3>1. ASSUME NEW i \in 1 .. n, Handled(i), Boundary(i) <= received,
                 stream[i].kind \notin {"piece"} \cup Unhandled
          PROVE  stream[i].kind \in DOMAIN artifacts
      <4>1. i <= u /\ i # u
        BY <1>1, <2>1, <2>3, <3>1 DEF OutOfStep
      <4>2. i \in 1 .. u - 1
        BY <1>1, <4>1
      <4> QED
        BY <2>1, <3>1, <4>2 DEF OutOfStep, KeysKept
    <3> QED
      BY <1>1, <2>4, <3>1 DEF LatestKept
  <2> QED
    BY <2>2, <2>6, <2>7
<1> QED
  BY <1>2, <1>3, <1>4 DEF Progress

-----------------------------------------------------------------------------
(* The dict has the form the handlers take for granted, whatever was read: *)
(* a block is always an index, an offset and data, never a part of them.   *)
THEOREM ParserTypeCorrect == Spec => []TypeOK
<1>1. TypeOK /\ UNCHANGED vars => TypeOK'
  BY DEF TypeOK, ArtifactsOK, vars
<1>2. TypeOK /\ [Next]_vars => TypeOK'
  BY <1>1, Iteration
<1> QED
  BY Initially, <1>2, PTL DEF Spec

(* Every iteration of parse consumes something, whatever the bytes mean,   *)
(* so that no response makes it loop for ever.                             *)
THEOREM AlwaysShrinks == Spec => Shrinks
<1>1. TypeOK /\ [Next]_vars => [Len(response') < Len(response)]_vars
  BY Iteration
<1> QED
  BY ParserTypeCorrect, <1>1, PTL DEF Spec, Shrinks

LEMMA AlwaysProgress == Spec => []Progress
  BY ProgressInitially, ProgressKept, PTL DEF Spec

(* The loop reads a length only where a message begins, unless a           *)
(* keep-alive came before: for any messages and any cut of the last one,   *)
(* no bytes of a body are taken for a header.                              *)
THEOREM InStepAlways == Spec => []InStep
  BY AlwaysProgress, AllKept, PTL

(* When parse returns, the blocks in its result are those that were sent   *)
(* and received, in their order and with their bytes, the one that the     *)
(* timeout cut as far as it was received.                                  *)
THEOREM BlocksAlwaysKept == Spec => []BlocksKept
  BY AlwaysProgress, AllKept, PTL

(* When parse returns, each complete message has an entry in its result,   *)
(* and have and bitfield are those of the latest message of the kind.      *)
THEOREM LatestAlwaysKept == Spec => []LatestKept
  BY AlwaysProgress, AllKept, PTL
=============================================================================
