-------------------------- MODULE ByteStreamProofs --------------------------
(***************************************************************************)
(* Theorems about the bytes on the wire, for every number and size of      *)
(* messages, every buffer and every way of splitting reads.                *)
(*                                                                         *)
(* The invariant IInv says where on the wire the messages lie; bytes are   *)
(* only ever added at its end, so what was true of a read stays true.  The *)
(* messages lie there in their order (OrderInv), so those that were read   *)
(* to their end are the first ones (TakenInv), and at most one begins      *)
(* where a read does (GotInv): a read is then a step of MessageStream.     *)
(***************************************************************************)
EXTENDS ByteStream, TextsProofs

-----------------------------------------------------------------------------
(* The codec *)

\* A number below 2^16 is made of its two bytes, and one below 2^32 of two such
\* numbers.
LEMMA BytesMakeNumber ==
  ASSUME NEW n \in Nat
  PROVE  /\ ByteOf(n, 1) \in Byte
         /\ ByteOf(n, 256) \in Byte
         /\ ByteOf(n, 65536) \in Byte
         /\ ByteOf(n, 16777216) \in Byte
         /\ n < 65536 => Number(ByteOf(n, 1), ByteOf(n, 256)) = n
         /\ n \in Long =>
              /\ Number(ByteOf(n, 1), ByteOf(n, 256)) = n % 65536
              /\ Number(ByteOf(n, 65536), ByteOf(n, 16777216)) = n \div 65536
<1>1. n % 256 \in 0..255 /\ n \div 1 = n
  BY SMT
<1>2. /\ (n \div 256) % 256 \in 0..255
      /\ (n \div 65536) % 256 \in 0..255
      /\ (n \div 16777216) % 256 \in 0..255
  BY SMT
<1>3. n < 65536 => (n % 256) + 256 * ((n \div 256) % 256) = n
  BY SMT
<1>4. (n % 256) + 256 * ((n \div 256) % 256) = n % 65536
  BY SMT
<1>5. n \div 65536 < 65536 =>
        ((n \div 65536) % 256) + 256 * ((n \div 16777216) % 256) = n \div 65536
  BY SMT
<1>6. n \in Long => n \div 65536 < 65536
  BY DEF Long, Short
<1> QED BY <1>1, <1>2, <1>3, <1>4, <1>5, <1>6 DEF ByteOf, Byte, Number

\* The fields of a message.
LEMMA MessageFields ==
  ASSUME NEW msg \in Message
  PROVE  /\ msg.type \in Byte /\ msg.rpc \in Byte
         /\ msg.id \in Nat /\ msg.id < 65536
         /\ msg.payload \in Seq(Byte)
         /\ Len(msg.payload) \in Nat
<1>1. msg \in [type : Byte, id : Short, rpc : Byte, payload : Seq(Byte)]
  BY DEF Message
<1>2. /\ msg.type \in Byte /\ msg.rpc \in Byte /\ msg.id \in Short
      /\ msg.payload \in Seq(Byte)
  BY <1>1
<1>3. Len(msg.payload) \in Nat
  BY <1>2, LenProperties
<1> QED BY <1>2, <1>3 DEF Short

\* A message with another payload.
LEMMA OtherPayload ==
  ASSUME NEW msg \in Message, NEW text
  PROVE  [msg EXCEPT !.payload = text] =
           [type |-> msg.type, id |-> msg.id, rpc |-> msg.rpc, payload |-> text]
  BY DEF Message

\* The header is eight bytes.
LEMMA HeaderType ==
  ASSUME NEW msg \in Message
  PROVE  Header(msg) \in Seq(Byte) /\ Len(Header(msg)) = HeaderSize
<1> DEFINE n == Len(msg.payload)
<1>1. /\ n \in Nat
      /\ msg.id \in Nat
      /\ msg.type \in Byte
      /\ msg.rpc \in Byte
  BY MessageFields
<1>2. /\ ByteOf(msg.id, 1) \in Byte /\ ByteOf(msg.id, 256) \in Byte
      /\ ByteOf(n, 1) \in Byte /\ ByteOf(n, 256) \in Byte
      /\ ByteOf(n, 65536) \in Byte /\ ByteOf(n, 16777216) \in Byte
  BY <1>1, BytesMakeNumber
<1>3. Header(msg) = <<msg.type, ByteOf(msg.id, 1), ByteOf(msg.id, 256), msg.rpc,
                      ByteOf(n, 1), ByteOf(n, 256),
                      ByteOf(n, 65536), ByteOf(n, 16777216)>>
  BY DEF Header
<1> HIDE DEF n
<1> QED BY <1>1, <1>2, <1>3 DEF HeaderSize

\* The bytes of a message: the header, and the payload.
LEMMA SerializeType ==
  ASSUME NEW msg \in Message
  PROVE  /\ Serialize(msg) \in Seq(Byte)
         /\ Len(Serialize(msg)) = HeaderSize + Len(msg.payload)
         /\ \A i \in 1..HeaderSize : Serialize(msg)[i] = Header(msg)[i]
         /\ \A i \in 1..Len(msg.payload) :
              Serialize(msg)[HeaderSize + i] = msg.payload[i]
<1>1. msg.payload \in Seq(Byte) /\ Len(msg.payload) \in Nat
  BY MessageFields
<1>2. Header(msg) \in Seq(Byte) /\ Len(Header(msg)) = HeaderSize
  BY HeaderType
<1>3. /\ Serialize(msg) \in Seq(Byte)
      /\ Len(Serialize(msg)) = HeaderSize + Len(msg.payload)
      /\ \A i \in 1 .. HeaderSize + Len(msg.payload) : Serialize(msg)[i] =
           IF i <= HeaderSize THEN Header(msg)[i] ELSE msg.payload[i - HeaderSize]
  BY <1>1, <1>2, ConcatProperties DEF Serialize
<1>4. \A i \in 1..Len(msg.payload) :
        /\ HeaderSize + i \in 1 .. HeaderSize + Len(msg.payload)
        /\ ~(HeaderSize + i <= HeaderSize)
        /\ (HeaderSize + i) - HeaderSize = i
  BY <1>1 DEF HeaderSize
<1>5. \A i \in 1..HeaderSize : i \in 1 .. HeaderSize + Len(msg.payload) /\ i <= HeaderSize
  BY <1>1 DEF HeaderSize
<1> QED BY <1>3, <1>4, <1>5

\* Decoding a message with any bytes behind it: no exception, no reading beyond
\* the end, and the message, with those bytes at the end of its payload.
THEOREM GluedDecoding ==
  ASSUME NEW msg \in Message, Fits(msg), NEW rest \in Seq(Byte)
  PROVE  /\ ~Throws(Serialize(msg) \o rest)
         /\ ~ReadsBeyond(Serialize(msg) \o rest)
         /\ Deserialize(Serialize(msg) \o rest) =
              [msg EXCEPT !.payload = @ \o rest]
<1> DEFINE n == Len(msg.payload)
           bytes == Serialize(msg) \o rest
<1>1. /\ n \in Long /\ n \in Nat /\ Len(rest) \in Nat
      /\ msg.payload \in Seq(Byte)
      /\ msg.id \in Nat /\ msg.id < 65536
  <2>1. Len(rest) \in Nat
    BY LenProperties
  <2>2. n \in Long
    BY DEF Fits
  <2> QED BY <2>1, <2>2, MessageFields
<1>2. /\ bytes \in Seq(Byte)
      /\ Len(bytes) = HeaderSize + n + Len(rest)
      /\ \A i \in 1..HeaderSize : bytes[i] = Header(msg)[i]
      /\ \A i \in 1..n : bytes[HeaderSize + i] = msg.payload[i]
      /\ \A i \in 1..Len(rest) : bytes[HeaderSize + n + i] = rest[i]
  <2>1. /\ Serialize(msg) \in Seq(Byte)
        /\ Len(Serialize(msg)) = HeaderSize + n
        /\ \A i \in 1..HeaderSize : Serialize(msg)[i] = Header(msg)[i]
        /\ \A i \in 1..n : Serialize(msg)[HeaderSize + i] = msg.payload[i]
    BY SerializeType
  <2>2. /\ bytes \in Seq(Byte)
        /\ Len(bytes) = Len(Serialize(msg)) + Len(rest)
        /\ \A i \in 1..Len(Serialize(msg)) : bytes[i] = Serialize(msg)[i]
        /\ \A i \in 1..Len(rest) : bytes[Len(Serialize(msg)) + i] = rest[i]
    <3>1. PICK s \in Seq(Byte) : s = Serialize(msg)
      BY <2>1
    <3>2. /\ s \o rest \in Seq(Byte)
          /\ Len(s \o rest) = Len(s) + Len(rest)
          /\ \A i \in 1..Len(s) : (s \o rest)[i] = s[i]
          /\ \A i \in 1..Len(rest) : (s \o rest)[Len(s) + i] = rest[i]
      BY ConcatHalves
    <3> QED BY <3>1, <3>2, Zenon
  <2> HIDE DEF n, bytes
  <2>3. HeaderSize + n \in Nat /\ HeaderSize + n >= HeaderSize
    BY <1>1 DEF HeaderSize
  <2>4. /\ Len(bytes) = HeaderSize + n + Len(rest)
        /\ \A i \in 1..HeaderSize + n : bytes[i] = Serialize(msg)[i]
        /\ \A i \in 1..Len(rest) : bytes[HeaderSize + n + i] = rest[i]
    BY <2>1, <2>2, Zenon
  <2>5. ASSUME NEW i \in 1..HeaderSize PROVE bytes[i] = Header(msg)[i]
    <3>1. i \in 1..HeaderSize + n
      BY <1>1 DEF HeaderSize
    <3> QED BY <2>1, <2>4, <3>1, Zenon
  <2>6. ASSUME NEW i \in 1..n PROVE bytes[HeaderSize + i] = msg.payload[i]
    <3>1. HeaderSize + i \in 1..HeaderSize + n
      BY <1>1 DEF HeaderSize
    <3> QED BY <2>1, <2>4, <3>1, Zenon
  <2> QED BY <2>2, <2>4, <2>5, <2>6, Zenon
<1>3. /\ bytes[1] = msg.type
      /\ bytes[2] = ByteOf(msg.id, 1) /\ bytes[3] = ByteOf(msg.id, 256)
      /\ bytes[4] = msg.rpc
      /\ bytes[5] = ByteOf(n, 1) /\ bytes[6] = ByteOf(n, 256)
      /\ bytes[7] = ByteOf(n, 65536) /\ bytes[8] = ByteOf(n, 16777216)
  <2>1. Header(msg) = <<msg.type, ByteOf(msg.id, 1), ByteOf(msg.id, 256), msg.rpc,
                        ByteOf(n, 1), ByteOf(n, 256),
                        ByteOf(n, 65536), ByteOf(n, 16777216)>>
    BY DEF Header
  <2> HIDE DEF n, bytes
  <2> QED BY <1>2, <2>1 DEF HeaderSize
<1>4. ~Throws(bytes)
  <2> HIDE DEF n, bytes
  <2> QED BY <1>1, <1>2 DEF Throws, HeaderSize
<1>5. ~ReadsBeyond(bytes)
  <2>1. /\ Number(bytes[5], bytes[6]) = n % 65536
        /\ Number(bytes[7], bytes[8]) = n \div 65536
    <3> HIDE DEF n, bytes
    <3> QED BY <1>1, <1>3, BytesMakeNumber
  <2>2. Len(bytes) - HeaderSize = n + Len(rest)
    BY <1>1, <1>2 DEF HeaderSize
  <2>3. \A m \in Nat : /\ n \div 65536 <= (n + m) \div 65536
                       /\ n \div 65536 = (n + m) \div 65536
                            => n % 65536 <= (n + m) % 65536
    <3> HIDE DEF n
    <3> QED BY <1>1, SMT
  <2> HIDE DEF n, bytes
  <2>4. LET total == n + Len(rest)
        IN  /\ ~(n \div 65536 > total \div 65536)
            /\ ~(n \div 65536 = total \div 65536 /\ n % 65536 > total % 65536)
    BY <1>1, <2>3
  <2> QED BY <2>1, <2>2, <2>4 DEF ReadsBeyond
<1>6. Number(bytes[2], bytes[3]) = msg.id
  <2> HIDE DEF n, bytes
  <2>1. msg.id \in Nat /\ msg.id < 65536
    BY DEF Message, Short
  <2> QED BY <1>3, <2>1, BytesMakeNumber
<1>7. SubSeq(bytes, HeaderSize + 1, Len(bytes)) = msg.payload \o rest
  <2> DEFINE tail == SubSeq(bytes, HeaderSize + 1, Len(bytes))
  <2>1. /\ msg.payload \o rest \in Seq(Byte)
        /\ Len(msg.payload \o rest) = n + Len(rest)
        /\ \A i \in 1 .. n + Len(rest) : (msg.payload \o rest)[i] =
             IF i <= n THEN msg.payload[i] ELSE rest[i - n]
    BY <1>1, ConcatProperties
  <2> HIDE DEF n, bytes
  <2>2. \A i \in HeaderSize + 1 .. Len(bytes) : bytes[i] \in Byte
    BY <1>1, <1>2, ElementOfSeq DEF HeaderSize
  <2>3. /\ tail \in Seq(Byte)
        /\ Len(tail) = n + Len(rest)
        /\ \A i \in 1 .. n + Len(rest) : tail[i] = bytes[HeaderSize + i]
    BY <1>1, <1>2, <2>2, SubSeqProperties DEF HeaderSize
  <2>4. \A i \in 1 .. n + Len(rest) : tail[i] = (msg.payload \o rest)[i]
    <3> TAKE i \in 1 .. n + Len(rest)
    <3>1. CASE i <= n
      BY <1>1, <1>2, <2>1, <2>3, <3>1
    <3>2. CASE ~(i <= n)
      <4>1. i - n \in 1..Len(rest) /\ HeaderSize + i = HeaderSize + n + (i - n)
        BY <1>1, <3>2 DEF HeaderSize
      <4>2. bytes[HeaderSize + n + (i - n)] = rest[i - n]
        BY <1>2, <4>1
      <4> QED BY <2>1, <2>3, <3>2, <4>1, <4>2
    <3> QED BY <3>1, <3>2
  <2> HIDE DEF tail
  <2>5. tail = msg.payload \o rest
    BY <2>1, <2>3, <2>4, SeqEqual
  <2> QED BY <2>5 DEF tail
<1>8. Deserialize(bytes) = [msg EXCEPT !.payload = @ \o rest]
  <2>1. [msg EXCEPT !.payload = msg.payload \o rest] =
          [type |-> msg.type, id |-> msg.id, rpc |-> msg.rpc,
           payload |-> msg.payload \o rest]
    BY OtherPayload
  <2>2. Deserialize(bytes) =
          [type |-> msg.type, id |-> msg.id, rpc |-> msg.rpc,
           payload |-> msg.payload \o rest]
    <3> HIDE DEF n, bytes
    <3>1. bytes[1] = msg.type /\ bytes[4] = msg.rpc
      BY <1>3
    <3> QED BY <1>6, <1>7, <3>1, Zenon DEF Deserialize
  <2>3. [msg EXCEPT !.payload = @ \o rest] = [msg EXCEPT !.payload = msg.payload \o rest]
    BY DEF Message
  <2> QED BY <2>1, <2>2, <2>3, Zenon
<1> QED BY <1>4, <1>5, <1>8

\* Decoding enough bytes gives a message.
LEMMA DeserializeType ==
  ASSUME NEW bytes \in Seq(Byte), ~Throws(bytes)
  PROVE  Deserialize(bytes) \in Message
<1>1. Len(bytes) \in Nat /\ Len(bytes) >= HeaderSize
  BY LenProperties DEF Throws, HeaderSize
<1>2. \A i \in 1..HeaderSize : bytes[i] \in Byte
  BY <1>1, ElementOfSeq DEF HeaderSize
<1>3. \A low, high \in Byte : Number(low, high) \in Short
  BY DEF Byte, Number, Short
<1>4. Number(bytes[2], bytes[3]) \in Short
  BY <1>2, <1>3 DEF HeaderSize
<1>5. SubSeq(bytes, HeaderSize + 1, Len(bytes)) \in Seq(Byte)
  <2>1. \A i \in HeaderSize + 1 .. Len(bytes) : bytes[i] \in Byte
    BY <1>1, ElementOfSeq DEF HeaderSize
  <2> QED BY <1>1, <2>1, SubSeqProperties DEF HeaderSize
<1>6. bytes[1] \in Byte /\ bytes[4] \in Byte
  BY <1>2 DEF HeaderSize
<1> QED BY <1>4, <1>5, <1>6 DEF Deserialize, Message

-----------------------------------------------------------------------------
(* The wire *)

\* A deal is a message that fits.
LEMMA DealMessageType ==
  ASSUME NEW cards \in Deals, NEW tail \in Tails
  PROVE  DealMessage(cards, tail) \in Message /\ Fits(DealMessage(cards, tail))
<1>1. cards \in Seq(Seq(Byte)) /\ tail \in Seq(Byte)
  <2>1. Seq(Byte) \ {<<>>} \subseteq Seq(Byte)
    OBVIOUS
  <2> QED BY <2>1, CardsAssumption, SeqMonotonic
<1>2. JoinStrings(cards, tail) \in Seq(Byte)
  <2>1. CASE cards = <<>>
    BY <2>1, JoinNone, EmptySeq
  <2>2. CASE cards # <<>>
    <3>1. Slash \in Byte
      BY DEF Slash, Byte
    <3>2. PICK a \in Seq(Byte) : Unpopped(cards, tail) = a \o <<Slash>> \o tail
      BY <1>1, <2>2, <3>1, JoinedTexts
    <3>3. Popped(Byte, a, tail, cards)
      BY <1>1, <3>1, <3>2, JoinedFront
    <3> QED BY <3>3 DEF Popped
  <2> QED BY <2>1, <2>2
<1>3. DealMessage(cards, tail) \in Message
  BY <1>2 DEF DealMessage, Message, MessageType, RPCType, Byte, Short
<1> QED BY <1>3, DealsAssumption

SentRecord == [msg : {m \in Message : Fits(m)},
               cards : Deals \cup {<<>>}, tail : Tails \cup {<<>>}]

\* Each message lies on the wire between its two boundaries.
WireInv ==
  /\ wire \in Seq(Byte)
  /\ consumed \in 0..Len(wire)
  /\ alive \in BOOLEAN
  /\ sent \in Seq(SentRecord)
  /\ ends \in Seq(Nat)
  /\ Len(ends) = Len(sent)
  /\ Boundary(Len(sent)) = Len(wire)
  /\ \A i \in 1..Len(sent) :
       /\ Boundary(i - 1) \in Nat
       /\ Boundary(i) \in Nat
       /\ Boundary(i - 1) <= Boundary(i)
       /\ Boundary(i) <= Len(wire)
       /\ Chunk(Boundary(i - 1), Boundary(i)) = Serialize(sent[i].msg)

\* The last read is what decoding its bytes gives.
LastInv ==
  \/ last = NoRead
  \/ /\ last \in [from : Nat, to : Nat, msg : Message \cup {NoMessage}]
     /\ last.from <= last.to
     /\ last.to <= Len(wire)
     /\ \/ /\ ~Throws(Chunk(last.from, last.to))
           /\ last.msg = Deserialize(Chunk(last.from, last.to))
        \/ Throws(Chunk(last.from, last.to)) \/ ReadsBeyond(Chunk(last.from, last.to))

IInv == WireInv /\ LastInv

\* A part of the wire.
LEMMA ChunkType ==
  ASSUME wire \in Seq(Byte), NEW from \in Nat, NEW to \in Nat, to <= Len(wire)
  PROVE  Chunk(from, to) \in Seq(Byte)
<1>1. Len(wire) \in Nat
  BY LenProperties
<1>2. \A i \in from + 1 .. to : wire[i] \in Byte
  BY <1>1, ElementOfSeq
<1> QED BY <1>2, SubSeqProperties DEF Chunk

\* It is made of two parts that meet.
LEMMA ChunkSplit ==
  ASSUME wire \in Seq(Byte), NEW from \in Nat, NEW mid \in Nat, NEW to \in Nat,
         from <= mid, mid <= to, to <= Len(wire)
  PROVE  Chunk(from, to) = Chunk(from, mid) \o Chunk(mid, to)
<1>1. Len(wire) \in Nat
  BY LenProperties
<1>2. /\ from + 1 \in 1 .. Len(wire) + 1
      /\ mid \in (from + 1) - 1 .. Len(wire)
      /\ to \in mid .. Len(wire)
  BY <1>1
<1>3. SubSeq(wire, from + 1, mid) \o SubSeq(wire, mid + 1, to)
        = SubSeq(wire, from + 1, to)
  BY <1>2, ConcatAdjacentSubSeq
<1> QED BY <1>3 DEF Chunk

\* It does not change when bytes are added at the end.
LEMMA ChunkKept ==
  ASSUME wire \in Seq(Byte), NEW more \in Seq(Byte),
         NEW from \in Nat, NEW to \in Nat, from <= to, to <= Len(wire)
  PROVE  SubSeq(wire \o more, from + 1, to) = Chunk(from, to)
<1>1. Len(wire) \in Nat
  BY LenProperties
<1>2. CASE from = to
  BY <1>2, SubSeqEmpty DEF Chunk
<1>3. CASE from < to
  <2>1. from + 1 \in 1..Len(wire) /\ to \in 1..Len(wire)
    BY <1>1, <1>3
  <2> QED BY <2>1, SubSeqOfConcat1 DEF Chunk
<1> QED BY <1>2, <1>3

\* What has been added is the part behind it.
LEMMA ChunkAdded ==
  ASSUME NEW old \in Seq(Byte), NEW more \in Seq(Byte)
  PROVE  SubSeq(old \o more, Len(old) + 1, Len(old) + Len(more)) = more
<1>1. Len(old) \in Nat /\ Len(more) \in Nat
  BY LenProperties
<1>2. CASE Len(more) = 0
  <2>1. more = <<>>
    BY <1>2, EmptySeq
  <2> QED BY <1>1, <1>2, <2>1, SubSeqEmpty
<1>3. CASE Len(more) > 0
  <2>1. /\ Len(old) + 1 \in Len(old) + 1 .. Len(old) + Len(more)
        /\ Len(old) + Len(more) \in Len(old) + 1 .. Len(old) + Len(more)
        /\ Len(old) + 1 - Len(old) = 1
        /\ Len(old) + Len(more) - Len(old) = Len(more)
    BY <1>1, <1>3
  <2>2. SubSeq(old \o more, Len(old) + 1, Len(old) + Len(more))
          = SubSeq(more, 1, Len(more))
    BY <2>1, SubSeqOfConcat2
  <2> QED BY <2>2, SubSeqFull
<1> QED BY <1>1, <1>2, <1>3

\* The initial states satisfy the invariant.
LEMMA InitIInv == Init => IInv
<1> SUFFICES ASSUME Init PROVE IInv
  OBVIOUS
<1>1. wire = <<>> /\ consumed = 0 /\ sent = <<>> /\ ends = <<>> /\ last = NoRead
      /\ alive = TRUE
  BY DEF Init
<1>2. /\ Len(sent) = 0 /\ Len(ends) = 0 /\ Len(wire) = 0
      /\ wire \in Seq(Byte) /\ sent \in Seq(SentRecord) /\ ends \in Seq(Nat)
  BY <1>1, EmptySeq
<1>3. WireInv
  BY <1>1, <1>2 DEF WireInv, Boundary
<1> QED BY <1>1, <1>3 DEF IInv, LastInv

\* Writing a message that fits.
LEMMA PutIInv ==
  ASSUME IInv,
         NEW msg \in Message, Fits(msg),
         NEW cards \in Deals \cup {<<>>}, NEW tail \in Tails \cup {<<>>},
         Put(msg, cards, tail)
  PROVE  IInv'
<1> DEFINE more == Serialize(msg)
           record == [msg |-> msg, cards |-> cards, tail |-> tail]
<1>0. PICK k \in Nat : k = Len(sent)
  BY LenProperties DEF IInv, WireInv
<1>1. /\ more \in Seq(Byte)
      /\ Len(more) \in Nat
  <2>1. more \in Seq(Byte)
    BY SerializeType
  <2> QED BY <2>1, LenProperties
<1>2. /\ wire \in Seq(Byte) /\ Len(wire) \in Nat
      /\ sent \in Seq(SentRecord) /\ k \in Nat
      /\ ends \in Seq(Nat) /\ Len(ends) = k
      /\ consumed \in 0..Len(wire)
  BY <1>0, LenProperties DEF IInv, WireInv
<1>3. /\ wire' = wire \o more
      /\ sent' = Append(sent, record)
      /\ ends' = Append(ends, Len(wire'))
      /\ consumed' = consumed /\ last' = last /\ alive' = alive
  BY DEF Put
<1>4. wire' \in Seq(Byte) /\ Len(wire') = Len(wire) + Len(more)
  <2> HIDE DEF more
  <2> QED BY <1>1, <1>2, <1>3, ConcatProperties
<1>5. /\ sent' \in Seq(SentRecord)
      /\ Len(sent') = k + 1
      /\ \A i \in 1..k : sent'[i] = sent[i]
      /\ sent'[k + 1] = record
  <2>1. record \in SentRecord
    BY DEF SentRecord
  <2> HIDE DEF record
  <2> QED BY <1>0, <1>2, <1>3, <2>1, AppendProperties
<1>6. /\ ends' \in Seq(Nat)
      /\ Len(ends') = k + 1
      /\ \A i \in 1..k : ends'[i] = ends[i]
      /\ ends'[k + 1] = Len(wire')
  <2>1. Len(wire') \in Nat
    BY <1>1, <1>2, <1>4
  <2> QED BY <1>2, <1>3, <2>1, AppendProperties
<1>7. \A i \in 0..k : Boundary(i)' = Boundary(i)
  BY <1>2, <1>6 DEF Boundary
<1>8. Boundary(k + 1)' = Len(wire')
  BY <1>2, <1>6 DEF Boundary
<1>9. Boundary(k) = Len(wire)
  BY <1>0 DEF IInv, WireInv
<1> HIDE DEF more, record
<1>10. ASSUME NEW i \in 1..k + 1
       PROVE  /\ Boundary(i - 1)' \in Nat
              /\ Boundary(i)' \in Nat
              /\ Boundary(i - 1)' <= Boundary(i)'
              /\ Boundary(i)' <= Len(wire')
              /\ Chunk(Boundary(i - 1), Boundary(i))' = Serialize(sent'[i].msg)
  <2>1. CASE i \in 1..k
    <3>1. /\ Boundary(i - 1) \in Nat /\ Boundary(i) \in Nat
          /\ Boundary(i - 1) <= Boundary(i) /\ Boundary(i) <= Len(wire)
          /\ Chunk(Boundary(i - 1), Boundary(i)) = Serialize(sent[i].msg)
      BY <1>0, <2>1 DEF IInv, WireInv
    <3>2. Boundary(i - 1)' = Boundary(i - 1) /\ Boundary(i)' = Boundary(i)
      BY <1>2, <1>7, <2>1
    <3>3. SubSeq(wire \o more, Boundary(i - 1) + 1, Boundary(i))
            = Chunk(Boundary(i - 1), Boundary(i))
      BY <1>1, <1>2, <3>1, ChunkKept
    <3>4. Chunk(Boundary(i - 1), Boundary(i))'
            = SubSeq(wire \o more, Boundary(i - 1) + 1, Boundary(i))
      BY <1>3, <3>2 DEF Chunk
    <3>5. Chunk(Boundary(i - 1), Boundary(i))' = Serialize(sent'[i].msg)
      <4>1. sent'[i] = sent[i]
        BY <1>5, <2>1
      <4> QED BY <3>1, <3>3, <3>4, <4>1, Zenon
    <3>6. \A b \in Nat : b <= Len(wire) => b <= Len(wire')
      BY <1>1, <1>2, <1>4
    <3> QED BY <3>1, <3>2, <3>5, <3>6
  <2>2. CASE i = k + 1
    <3>1. Boundary(i - 1)' = Len(wire) /\ Boundary(i)' = Len(wire) + Len(more)
      BY <1>2, <1>4, <1>7, <1>8, <1>9, <2>2
    <3>2. Chunk(Boundary(i - 1), Boundary(i))'
            = SubSeq(wire \o more, Len(wire) + 1, Len(wire) + Len(more))
      BY <1>3, <3>1 DEF Chunk
    <3>3. Chunk(Boundary(i - 1), Boundary(i))' = more
      BY <1>1, <1>2, <3>2, ChunkAdded
    <3>4. more = Serialize(sent'[i].msg)
      BY <1>5, <2>2 DEF more, record
    <3> QED BY <1>1, <1>2, <1>4, <3>1, <3>3, <3>4
  <2> QED BY <1>2, <2>1, <2>2
<1>11. WireInv'
  <2>1. consumed' \in 0..Len(wire')
    BY <1>1, <1>2, <1>3, <1>4
  <2>2. Boundary(Len(sent))' = Len(wire')
    BY <1>5, <1>8
  <2>3. alive' \in BOOLEAN
    BY <1>3 DEF IInv, WireInv
  <2>4. \A i \in 1..Len(sent') :
          /\ Boundary(i - 1)' \in Nat
          /\ Boundary(i)' \in Nat
          /\ Boundary(i - 1)' <= Boundary(i)'
          /\ Boundary(i)' <= Len(wire')
          /\ Chunk(Boundary(i - 1), Boundary(i))' = Serialize(sent'[i].msg)
    BY <1>5, <1>10
  <2> QED BY <1>4, <1>5, <1>6, <2>1, <2>2, <2>3, <2>4 DEF WireInv
<1>12. LastInv'
  <2>1. CASE last = NoRead
    BY <1>3, <2>1 DEF LastInv
  <2>2. CASE last # NoRead
    <3>1. /\ last \in [from : Nat, to : Nat, msg : Message \cup {NoMessage}]
          /\ last.from <= last.to /\ last.to <= Len(wire)
      BY <2>2 DEF IInv, LastInv
    <3>2. last.from \in Nat /\ last.to \in Nat
      BY <3>1
    <3>3. SubSeq(wire \o more, last.from + 1, last.to) = Chunk(last.from, last.to)
      BY <1>1, <1>2, <3>1, <3>2, ChunkKept
    <3>4. Chunk(last.from, last.to)' = Chunk(last.from, last.to)
      BY <1>3, <3>3 DEF Chunk
    <3>5. last.to <= Len(wire')
      BY <1>1, <1>2, <1>4, <3>1, <3>2
    <3>6. \/ /\ ~Throws(Chunk(last.from, last.to))
             /\ last.msg = Deserialize(Chunk(last.from, last.to))
          \/ Throws(Chunk(last.from, last.to)) \/ ReadsBeyond(Chunk(last.from, last.to))
      BY <2>2 DEF IInv, LastInv
    <3> QED BY <1>3, <3>1, <3>4, <3>5, <3>6 DEF LastInv
  <2> QED BY <2>1, <2>2
<1> QED BY <1>11, <1>12 DEF IInv

\* What a read leaves on record.
LEMMA ReadLast ==
  ASSUME IInv, NEW n \in 1..BufferSize, Read(n)
  PROVE  /\ last'.from = consumed /\ last'.to = consumed + n
         /\ last' \in [from : Nat, to : Nat, msg : Message \cup {NoMessage}]
         /\ LET bytes == Chunk(consumed, consumed + n)
            IN  \/ ~Throws(bytes) /\ last'.msg = Deserialize(bytes)
                \/ Throws(bytes) \/ ReadsBeyond(bytes)
<1> DEFINE bytes == Chunk(consumed, consumed + n)
<1>1. /\ wire \in Seq(Byte) /\ Len(wire) \in Nat
      /\ consumed \in Nat /\ n \in Nat /\ consumed + n \in Nat
  BY BufferAssumption, LenProperties DEF IInv, WireInv
<1>2. consumed + n <= Len(wire)
  BY DEF Read
<1>3. bytes \in Seq(Byte)
  BY <1>1, <1>2, ChunkType
<1>4. CASE ~Throws(bytes) /\ last' = [from |-> consumed, to |-> consumed + n,
                                     msg |-> Deserialize(bytes)]
  <2>1. Deserialize(bytes) \in Message
    BY <1>3, <1>4, DeserializeType
  <2> HIDE DEF bytes
  <2>2. /\ last'.from = consumed /\ last'.to = consumed + n
        /\ last' \in [from : Nat, to : Nat, msg : Message \cup {NoMessage}]
        /\ ~Throws(bytes) /\ last'.msg = Deserialize(bytes)
    BY <1>1, <1>4, <2>1
  <2> QED BY <2>2 DEF bytes
<1>5. CASE /\ Throws(bytes) \/ ReadsBeyond(bytes)
           /\ last' = [from |-> consumed, to |-> consumed + n, msg |-> NoMessage]
  <2> HIDE DEF bytes
  <2>1. /\ last'.from = consumed /\ last'.to = consumed + n
        /\ last' \in [from : Nat, to : Nat, msg : Message \cup {NoMessage}]
        /\ Throws(bytes) \/ ReadsBeyond(bytes)
    BY <1>1, <1>5
  <2> QED BY <2>1 DEF bytes
<1> QED BY <1>4, <1>5 DEF Read

\* A read.
LEMMA ReadIInv ==
  ASSUME IInv, NEW n \in 1..BufferSize, Read(n)
  PROVE  IInv'
<1> DEFINE bytes == Chunk(consumed, consumed + n)
<1>1. /\ wire \in Seq(Byte) /\ Len(wire) \in Nat
      /\ consumed \in Nat /\ n \in Nat /\ n > 0
  BY BufferAssumption, LenProperties DEF IInv, WireInv
<1>2. /\ consumed + n <= Len(wire)
      /\ consumed' = consumed + n
      /\ wire' = wire /\ sent' = sent /\ ends' = ends
  BY DEF Read
<1>3. \/ /\ ~Throws(bytes)
         /\ last' = [from |-> consumed, to |-> consumed + n, msg |-> Deserialize(bytes)]
         /\ alive' = alive
      \/ /\ Throws(bytes) \/ ReadsBeyond(bytes)
         /\ last' = [from |-> consumed, to |-> consumed + n, msg |-> NoMessage]
         /\ alive' = FALSE
  BY DEF Read
<1>5. WireInv'
  <2>1. consumed' \in 0..Len(wire') /\ alive' \in BOOLEAN
    <3>1. alive' \in BOOLEAN
      BY <1>3 DEF IInv, WireInv
    <3> HIDE DEF bytes
    <3> QED BY <1>1, <1>2, <3>1
  <2>2. \A i \in Nat : Boundary(i)' = Boundary(i)
    BY <1>2 DEF Boundary
  <2>3. \A from, to : SubSeq(wire', from + 1, to) = SubSeq(wire, from + 1, to)
    BY <1>2
  <2> QED BY <1>2, <2>1, <2>3 DEF IInv, WireInv, Boundary, Chunk
<1>6. LastInv'
  <2>1. /\ last'.from = consumed /\ last'.to = consumed + n
        /\ last' \in [from : Nat, to : Nat, msg : Message \cup {NoMessage}]
        /\ \/ ~Throws(bytes) /\ last'.msg = Deserialize(bytes)
           \/ Throws(bytes) \/ ReadsBeyond(bytes)
    BY ReadLast
  <2>2. Chunk(last.from, last.to)' = bytes
    BY <1>2, <2>1 DEF Chunk
  <2>3. last'.from <= last'.to /\ last'.to <= Len(wire')
    BY <1>1, <1>2, <2>1
  <2> HIDE DEF bytes
  <2> QED BY <2>1, <2>2, <2>3 DEF LastInv
<1> QED BY <1>5, <1>6 DEF IInv

\* Every step preserves the invariant.
LEMMA NextIInv == IInv /\ [Next]_vars => IInv'
<1> SUFFICES ASSUME IInv, [Next]_vars PROVE IInv'
  OBVIOUS
<1>1. ASSUME Write PROVE IInv'
  <2>1. PICK msg \in Plain : Put(msg, <<>>, <<>>)
    BY <1>1 DEF Write
  <2>2. msg \in Message /\ Fits(msg)
    BY PlainAssumption
  <2> QED BY <2>1, <2>2, PutIInv
<1>2. ASSUME Deal PROVE IInv'
  <2>1. PICK cards \in Deals, tail \in Tails : Put(DealMessage(cards, tail), cards, tail)
    BY <1>2 DEF Deal
  <2>2. DealMessage(cards, tail) \in Message /\ Fits(DealMessage(cards, tail))
    BY DealMessageType
  <2> QED BY <2>1, <2>2, PutIInv
<1>3. ASSUME NEW n \in 1..BufferSize, Read(n) PROVE IInv'
  BY <1>3, ReadIInv
<1>4. CASE UNCHANGED vars
  BY <1>4 DEF vars, IInv, WireInv, LastInv, Boundary, Chunk
<1> QED BY <1>1, <1>2, <1>3, <1>4 DEF Next

\* The invariant implies the types.
LEMMA IInvTypes == IInv => TypeOK
<1> SUFFICES ASSUME IInv PROVE TypeOK
  OBVIOUS
<1>1. sent \in Seq([msg : Message, cards : Deals \cup {<<>>}, tail : Tails \cup {<<>>}])
  <2>1. SentRecord \subseteq
          [msg : Message, cards : Deals \cup {<<>>}, tail : Tails \cup {<<>>}]
    BY DEF SentRecord
  <2>2. sent \in Seq(SentRecord)
    BY DEF IInv, WireInv
  <2>3. \A S, T : S \subseteq T => Seq(S) \subseteq Seq(T)
    BY SeqDef
  <2> QED BY <2>1, <2>2, <2>3, Zenon
<1> QED BY <1>1 DEF IInv, WireInv, LastInv, TypeOK

\* The invariant implies that whole reads deliver.
LEMMA IInvDelivers == IInv => WholeReadsDeliver
<1> SUFFICES ASSUME IInv, last # NoRead, NEW i \in 1..Len(sent),
                    last.from = Boundary(i - 1), last.to >= Boundary(i)
             PROVE  last.msg =
                      [sent[i].msg EXCEPT !.payload = @ \o Chunk(Boundary(i), last.to)]
  BY DEF WholeReadsDeliver
<1> DEFINE msg == sent[i].msg
           rest == Chunk(Boundary(i), last.to)
<1>1. /\ wire \in Seq(Byte) /\ Len(wire) \in Nat
      /\ Boundary(i - 1) \in Nat /\ Boundary(i) \in Nat
      /\ Boundary(i - 1) <= Boundary(i) /\ Boundary(i) <= Len(wire)
      /\ Chunk(Boundary(i - 1), Boundary(i)) = Serialize(msg)
  BY LenProperties DEF IInv, WireInv
<1>2. msg \in Message /\ Fits(msg)
  <2>1. sent[i] \in SentRecord
    BY ElementOfSeq DEF IInv, WireInv
  <2> QED BY <2>1 DEF SentRecord
<1>3. /\ last.to \in Nat /\ last.to <= Len(wire)
      /\ \/ ~Throws(Chunk(last.from, last.to))
            /\ last.msg = Deserialize(Chunk(last.from, last.to))
         \/ Throws(Chunk(last.from, last.to)) \/ ReadsBeyond(Chunk(last.from, last.to))
  BY DEF IInv, LastInv
<1>4. rest \in Seq(Byte)
  BY <1>1, <1>3, ChunkType
<1>5. Chunk(last.from, last.to) = Serialize(msg) \o rest
  <2>1. Chunk(last.from, last.to)
          = Chunk(last.from, Boundary(i)) \o Chunk(Boundary(i), last.to)
    BY <1>1, <1>3, ChunkSplit
  <2> QED BY <1>1, <2>1
<1> HIDE DEF msg, rest
<1>6. last.msg = Deserialize(Serialize(msg) \o rest)
  BY <1>2, <1>3, <1>4, <1>5, GluedDecoding
<1>7. last.msg = [msg EXCEPT !.payload = @ \o rest]
  BY <1>2, <1>4, <1>6, GluedDecoding
<1> QED BY <1>7 DEF msg, rest

\* The wire is the messages that were written, end to end, as write_to_client puts
\* them there; and what was read last is decoded from its place on it.
THEOREM WireLayout == Spec => []IInv
<1>1. IInv /\ [Next]_vars => IInv'
  BY NextIInv
<1> QED BY <1>1, InitIInv, PTL DEF Spec

\* Types: what has been read has been written, and decoding gives messages.
THEOREM TypeCorrect == Spec => []TypeOK
BY WireLayout, IInvTypes, PTL

\* However the reads are split, one that begins where a message does and has all
\* of it is survived and gives that message, with what was read behind it glued
\* to the payload (the handlers of async_read_some, and
\* deserialize_message).
THEOREM WholeReadsDeliverHolds == Spec => []WholeReadsDeliver
BY WireLayout, IInvDelivers, PTL

-----------------------------------------------------------------------------
(* The order of the messages on the wire *)

\* Messages end in the order in which they were written, none where another does.
OrderInv == \A i, j \in 0..Len(sent) : i < j => Boundary(i) < Boundary(j)

\* Those that end where the reading has come to, or before, are the first.
TakenInv ==
  /\ Taken \in 0..Len(sent)
  /\ \A i \in 0..Len(sent) : Boundary(i) <= consumed <=> i <= Taken

\* The length of a part of the wire.
LEMMA ChunkLength ==
  ASSUME wire \in Seq(Byte), NEW from \in Nat, NEW to \in Nat, from <= to, to <= Len(wire)
  PROVE  Len(Chunk(from, to)) = to - from
<1>1. Len(wire) \in Nat
  BY LenProperties
<1>2. \A i \in from + 1 .. to : wire[i] \in Byte
  BY <1>1, ElementOfSeq
<1>3. from + 1 \in Int /\ to \in Int
  OBVIOUS
<1>4. Len(SubSeq(wire, from + 1, to)) = IF from + 1 <= to THEN to - (from + 1) + 1 ELSE 0
  BY <1>2, <1>3, SubSeqProperties
<1>5. CASE from + 1 <= to
  BY <1>4, <1>5 DEF Chunk
<1>6. CASE ~(from + 1 <= to)
  BY <1>4, <1>6 DEF Chunk
<1> QED BY <1>5, <1>6

\* Where messages begin and end.
LEMMA Boundaries ==
  ASSUME IInv
  PROVE  /\ Len(sent) \in Nat /\ Len(wire) \in Nat /\ consumed \in Nat /\ consumed <= Len(wire)
         /\ Boundary(0) = 0 /\ Boundary(Len(sent)) = Len(wire)
         /\ \A i \in 0..Len(sent) : Boundary(i) \in Nat /\ Boundary(i) <= Len(wire)
<1>1. Len(sent) \in Nat /\ Len(wire) \in Nat /\ consumed \in Nat /\ consumed <= Len(wire)
  BY LenProperties DEF IInv, WireInv
<1>2. Boundary(0) = 0 /\ Boundary(Len(sent)) = Len(wire)
  BY DEF IInv, WireInv, Boundary
<1>3. ASSUME NEW i \in 1..Len(sent) PROVE Boundary(i) \in Nat /\ Boundary(i) <= Len(wire)
  BY DEF IInv, WireInv
<1>4. \A i \in 0..Len(sent) : i = 0 \/ i \in 1..Len(sent)
  BY <1>1
<1> QED BY <1>1, <1>2, <1>3, <1>4

\* What writing a message does.
LEMMA PutStep ==
  ASSUME IInv, NEW msg \in Message, NEW cards, NEW tail, Put(msg, cards, tail),
         NEW k, k = Len(sent)
  PROVE  /\ alive /\ UNCHANGED <<consumed, last, alive>>
         /\ Len(sent') = k + 1
         /\ sent'[k + 1] = [msg |-> msg, cards |-> cards, tail |-> tail]
         /\ \A i \in 1..k : sent'[i] = sent[i]
         /\ \A i \in 0..k : Boundary(i)' = Boundary(i)
         /\ Boundary(k + 1)' > Len(wire)
         /\ Boundary(k + 1)' \in Nat
<1> DEFINE more == Serialize(msg)
           record == [msg |-> msg, cards |-> cards, tail |-> tail]
<1>1. /\ more \in Seq(Byte) /\ Len(more) \in Nat /\ Len(more) > 0
  BY SerializeType, MessageFields DEF HeaderSize
<1>2. PICK S : sent \in Seq(S) /\ record \in S
  <2>1. sent \in Seq(SentRecord)
    BY DEF IInv, WireInv
  <2>2. SentRecord \subseteq SentRecord \cup {record}
    OBVIOUS
  <2> HIDE DEF record
  <2>3. sent \in Seq(SentRecord \cup {record})
    BY <2>1, <2>2, SeqMonotonic
  <2> QED BY <2>3
<1>3. k \in Nat
  BY <1>2, LenProperties
<1>4. /\ wire \in Seq(Byte) /\ Len(wire) \in Nat
      /\ ends \in Seq(Nat) /\ Len(ends) = k
  BY <1>3, LenProperties DEF IInv, WireInv
<1>5. /\ alive /\ UNCHANGED <<consumed, last, alive>>
      /\ wire' = wire \o more
      /\ sent' = Append(sent, record)
      /\ ends' = Append(ends, Len(wire'))
  BY DEF Put
<1> HIDE DEF more, record
<1>6. Len(wire') = Len(wire) + Len(more)
  BY <1>1, <1>4, <1>5, ConcatProperties
<1>7. Len(wire') \in Nat /\ Len(wire') > Len(wire)
  BY <1>1, <1>4, <1>6
<1>8. /\ Len(sent') = k + 1 /\ sent'[k + 1] = record
      /\ \A i \in 1..k : sent'[i] = sent[i]
  BY <1>2, <1>3, <1>5, AppendProperties
<1>9. /\ \A i \in 1..k : ends'[i] = ends[i]
      /\ ends'[k + 1] = Len(wire')
  BY <1>4, <1>5, <1>7, AppendProperties
<1>10. \A i \in 0..k : Boundary(i)' = Boundary(i)
  BY <1>9 DEF Boundary
<1>11. Boundary(k + 1)' = Len(wire')
  BY <1>3, <1>9 DEF Boundary
<1> QED BY <1>3, <1>5, <1>7, <1>8, <1>10, <1>11 DEF record

\* A message is no shorter than its header, so the order is kept.
LEMMA NextOrder ==
  ASSUME IInv, OrderInv, [Next]_vars
  PROVE  OrderInv'
<1>1. CASE UNCHANGED <<sent, ends>>
  BY <1>1 DEF OrderInv, Boundary
<1>2. ASSUME NEW msg \in Message, NEW cards, NEW tail, Put(msg, cards, tail)
      PROVE  OrderInv'
  <2>1. PICK k \in Nat : k = Len(sent)
    BY Boundaries
  <2>2. /\ Len(sent') = k + 1
        /\ \A i \in 0..k : Boundary(i)' = Boundary(i)
        /\ Boundary(k + 1)' > Len(wire) /\ Boundary(k + 1)' \in Nat
    BY <1>2, <2>1, PutStep
  <2>3. /\ \A i \in 0..k : Boundary(i) \in Nat /\ Boundary(i) <= Len(wire)
        /\ Len(wire) \in Nat
    BY <2>1, Boundaries
  <2> SUFFICES ASSUME NEW i \in 0..k + 1, NEW j \in 0..k + 1, i < j
               PROVE  Boundary(i)' < Boundary(j)'
    BY <2>2 DEF OrderInv
  <2>4. CASE j \in 0..k
    <3>1. i \in 0..k
      BY <2>4
    <3> QED BY <2>1, <2>2, <2>4, <3>1 DEF OrderInv
  <2>5. CASE j = k + 1
    <3>1. i \in 0..k
      BY <2>5
    <3> QED BY <2>2, <2>3, <2>5, <3>1
  <2> QED BY <2>4, <2>5
<1>3. ASSUME NEW n \in 1..BufferSize, Read(n) PROVE OrderInv'
  BY <1>1, <1>3 DEF Read
<1>4. Write => OrderInv'
  BY <1>2, PlainAssumption DEF Write
<1>5. Deal => OrderInv'
  BY <1>2, DealMessageType DEF Deal
<1> QED BY <1>1, <1>3, <1>4, <1>5 DEF Next, vars

\* So the messages that have been read to their end are the first ones.
LEMMA TakenFirst ==
  ASSUME IInv, OrderInv
  PROVE  TakenInv
<1> DEFINE S == {i \in 1..Len(sent) : ends[i] <= consumed}
<1>1. Len(sent) \in Nat /\ consumed \in Nat
  BY Boundaries
<1>2. \A i \in 1..Len(sent) : Boundary(i) = ends[i] /\ Boundary(i) \in Nat
  BY Boundaries DEF Boundary
<1>3. ASSUME NEW i \in S, NEW j \in 1..Len(sent), j < i PROVE j \in S
  <2>1. Boundary(j) < Boundary(i)
    BY <1>1, <1>3 DEF OrderInv
  <2> QED BY <1>1, <1>2, <2>1
<1>4. Taken = Cardinality(S)
  BY DEF Taken
<1>5. S \in SUBSET (1..Len(sent))
  OBVIOUS
<1> HIDE DEF S
<1>6. Taken \in 0..Len(sent) /\ S = 1..Taken
  BY <1>1, <1>3, <1>4, <1>5, Initial
<1>7. \A i \in 1..Len(sent) : Boundary(i) <= consumed <=> i <= Taken
  BY <1>1, <1>2, <1>6 DEF S
<1>8. Boundary(0) <= consumed /\ 0 <= Taken
  BY <1>1, <1>6, Boundaries
<1>9. \A i \in 0..Len(sent) : i = 0 \/ i \in 1..Len(sent)
  BY <1>1
<1> QED BY <1>6, <1>7, <1>8, <1>9 DEF TakenInv

-----------------------------------------------------------------------------
(* The bytes implement the stream of messages *)

\* The last read began where the i-th message does and has all of it.
Whole(i) == last.from = Boundary(i - 1) /\ last.to >= Boundary(i)

\* What the last read was decoded as: such a message, or nothing that counts.
GotInv ==
  /\ \A i \in 1..Len(sent) :
       last # NoRead /\ Whole(i) =>
         Got = [msg |-> sent[i].msg, spoiled |-> last.to > Boundary(i)]
  /\ last = NoRead \/ (\A i \in 1..Len(sent) : ~Whole(i)) => Got = Garbled

\* A message with something behind it, or nothing, cut where its payload ends.
LEMMA CutPayload ==
  ASSUME NEW msg \in Message, NEW rest \in Seq(Byte), NEW got,
         got = [msg EXCEPT !.payload = @ \o rest]
  PROVE  /\ [got EXCEPT !.payload = SubSeq(@, 1, Len(msg.payload))] = msg
         /\ msg # got <=> rest # <<>>
<1> DEFINE n == Len(msg.payload)
           long == msg.payload \o rest
<1>1. msg.payload \in Seq(Byte) /\ n \in Nat
  BY MessageFields
<1>2. msg = [type |-> msg.type, id |-> msg.id, rpc |-> msg.rpc, payload |-> msg.payload]
  BY DEF Message
<1>3. got = [type |-> msg.type, id |-> msg.id, rpc |-> msg.rpc, payload |-> long]
  BY DEF Message
<1>4. SubSeq(long, 1, n) = msg.payload
  <2>1. CASE n = 0
    <3>1. msg.payload = <<>>
      BY <1>1, <2>1, EmptySeq
    <3>2. SubSeq(long, 1, 0) = <<>>
      BY SubSeqEmpty
    <3> QED BY <2>1, <3>1, <3>2
  <2>2. CASE n > 0
    <3>1. 1 \in 1..n /\ n \in 1..n
      BY <1>1, <2>2
    <3>2. SubSeq(long, 1, n) = SubSeq(msg.payload, 1, n)
      BY <1>1, <3>1, SubSeqOfConcat1
    <3> QED BY <1>1, <3>2, SubSeqFull
  <2> QED BY <1>1, <2>1, <2>2
<1>5. long = msg.payload <=> rest = <<>>
  BY <1>1, ConcatEqualIffEmpty
<1>6. got.payload = long
  BY <1>3
<1>7. [got EXCEPT !.payload = SubSeq(@, 1, n)] =
        [type |-> msg.type, id |-> msg.id, rpc |-> msg.rpc, payload |-> SubSeq(long, 1, n)]
  <2>1. long \in Seq(Byte)
    BY <1>1, ConcatProperties
  <2> HIDE DEF n, long
  <2>2. got \in Message
    <3>1. msg.type \in Byte /\ msg.rpc \in Byte /\ msg.id \in Short
      BY MessageFields DEF Short
    <3>2. \A type, rpc \in Byte : \A id \in Short : \A text \in Seq(Byte) :
            [type |-> type, id |-> id, rpc |-> rpc, payload |-> text] \in Message
      BY DEF Message
    <3>3. [type |-> msg.type, id |-> msg.id, rpc |-> msg.rpc, payload |-> long] \in Message
      BY <2>1, <3>1, <3>2, Zenon
    <3> QED BY <1>3, <3>3, Zenon
  <2>3. got.type = msg.type /\ got.id = msg.id /\ got.rpc = msg.rpc
    BY <1>3
  <2>4. [got EXCEPT !.payload = SubSeq(long, 1, n)] =
          [type |-> got.type, id |-> got.id, rpc |-> got.rpc, payload |-> SubSeq(long, 1, n)]
    BY <2>2, OtherPayload
  <2>5. [got EXCEPT !.payload = SubSeq(@, 1, n)] = [got EXCEPT !.payload = SubSeq(long, 1, n)]
    BY <1>6, <2>2 DEF Message
  <2> QED BY <2>3, <2>4, <2>5, Zenon
<1> HIDE DEF n, long
<1>8. [got EXCEPT !.payload = SubSeq(@, 1, n)] = msg
  BY <1>2, <1>4, <1>7
<1>9. msg = got <=> rest = <<>>
  <2>1. msg = got => msg.payload = long
    BY <1>6
  <2>2. long = msg.payload => msg = got
    BY <1>2, <1>3
  <2> QED BY <1>5, <2>1, <2>2
<1> QED BY <1>8, <1>9 DEF n

\* At most one message begins where a read does.
LEMMA GotOf ==
  ASSUME IInv, OrderInv
  PROVE  GotInv
<1>1. Len(sent) \in Nat
  BY Boundaries
<1>2. ASSUME last = NoRead \/ (\A i \in 1..Len(sent) : ~Whole(i))
      PROVE  Got = Garbled
  BY <1>2 DEF Got, Whole
<1>3. ASSUME last # NoRead, NEW i \in 1..Len(sent), Whole(i)
      PROVE  Got = [msg |-> sent[i].msg, spoiled |-> last.to > Boundary(i)]
  <2> DEFINE whole == {j \in 1..Len(sent) : /\ last.from = Boundary(j - 1)
                                            /\ last.to >= Boundary(j)}
             msg == sent[i].msg
             First == [last.msg EXCEPT !.payload = SubSeq(@, 1, Len(msg.payload))]
             rest == Chunk(Boundary(i), last.to)
  <2>1. whole = {i}
    <3>1. i \in whole
      BY <1>3 DEF Whole
    <3>2. ASSUME NEW j \in whole PROVE j = i
      <4>1. Boundary(j - 1) = Boundary(i - 1)
        BY <1>3 DEF Whole
      <4>2. i - 1 \in 0..Len(sent) /\ j - 1 \in 0..Len(sent) /\ i \in Nat /\ j \in Nat
        BY <1>1
      <4>3. ~(i - 1 < j - 1) /\ ~(j - 1 < i - 1)
        <5>1. PICK a \in 0..Len(sent) : a = i - 1
          BY <4>2
        <5>2. PICK b \in 0..Len(sent) : b = j - 1
          BY <4>2
        <5>3. Boundary(a) = Boundary(b) /\ Boundary(a) \in Nat
          BY <4>1, <5>1, <5>2, Boundaries
        <5>4. ~(Boundary(a) < Boundary(b)) /\ ~(Boundary(b) < Boundary(a))
          BY <5>3
        <5> QED BY <5>1, <5>2, <5>4 DEF OrderInv
      <4> QED BY <4>2, <4>3
    <3> QED BY <3>1, <3>2
  <2>2. Got = [msg |-> First, spoiled |-> First # last.msg]
    <3>1. (CHOOSE j \in whole : TRUE) = i
      BY <2>1
    <3> QED BY <1>3, <2>1, <3>1 DEF Got
  <2>3. msg \in Message
    <3>1. sent[i] \in SentRecord
      BY ElementOfSeq DEF IInv, WireInv
    <3> QED BY <3>1 DEF SentRecord
  <2>4. last.msg = [msg EXCEPT !.payload = @ \o rest]
    BY <1>3, IInvDelivers DEF WholeReadsDeliver, Whole
  <2>5. /\ Boundary(i) \in Nat /\ last.to \in Nat /\ last.to <= Len(wire)
        /\ last.to >= Boundary(i) /\ wire \in Seq(Byte)
    <3>1. Boundary(i) \in Nat /\ wire \in Seq(Byte)
      BY DEF IInv, WireInv
    <3>2. last.to \in Nat /\ last.to <= Len(wire)
      BY <1>3 DEF IInv, LastInv
    <3> QED BY <1>3, <3>1, <3>2 DEF Whole
  <2>6. rest \in Seq(Byte) /\ Len(rest) = last.to - Boundary(i)
    BY <2>5, ChunkType, ChunkLength
  <2>7. rest # <<>> <=> last.to > Boundary(i)
    <3>1. rest = <<>> <=> Len(rest) = 0
      BY <2>6, EmptySeq
    <3> HIDE DEF rest
    <3> QED BY <2>5, <2>6, <3>1
  <2> HIDE DEF msg, rest
  <2>8. First = msg /\ (msg # last.msg <=> rest # <<>>)
    BY <2>3, <2>4, <2>6, CutPayload
  <2>9. (First # last.msg) = (last.to > Boundary(i))
    BY <2>7, <2>8
  <2> QED BY <2>2, <2>8, <2>9 DEF msg
<1> QED BY <1>2, <1>3 DEF GotInv

\* Everything that is known of the bytes.
StreamInv == IInv /\ OrderInv /\ TakenInv /\ GotInv

\* To write a message is to write it.
LEMMA PutRefines ==
  ASSUME StreamInv, StreamInv', NEW msg \in Message, NEW cards, NEW tail,
         Put(msg, cards, tail)
  PROVE  Messages!Write(msg)
<1>1. PICK k \in Nat : k = Len(sent)
  BY Boundaries DEF StreamInv
<1>2. /\ alive /\ UNCHANGED <<consumed, last, alive>>
      /\ Len(sent') = k + 1
      /\ sent'[k + 1] = [msg |-> msg, cards |-> cards, tail |-> tail]
      /\ \A i \in 1..k : sent'[i] = sent[i]
      /\ \A i \in 0..k : Boundary(i)' = Boundary(i)
      /\ Boundary(k + 1)' > Len(wire)
      /\ Boundary(k + 1)' \in Nat
  <2>1. IInv
    BY DEF StreamInv
  <2> QED BY <1>1, <2>1, PutStep
<1>3. /\ consumed \in Nat /\ Len(wire) \in Nat /\ consumed <= Len(wire)
      /\ \A i \in 0..k : Boundary(i) \in Nat
  BY <1>1, Boundaries DEF StreamInv
<1>4. PICK t : t = Taken
  OBVIOUS
<1>5. PICK u : u = Taken'
  OBVIOUS
<1>6. t \in 0..k /\ \A i \in 0..k : Boundary(i) <= consumed <=> i <= t
  BY <1>1, <1>4 DEF StreamInv, TakenInv
<1>7. u \in 0..k + 1 /\ \A i \in 0..k + 1 : Boundary(i)' <= consumed <=> i <= u
  BY <1>2, <1>5 DEF StreamInv, TakenInv
<1>8. ~(Boundary(k + 1)' <= consumed) /\ k + 1 \in 0..k + 1 /\ 0..k \subseteq 0..k + 1
  BY <1>2, <1>3
<1>9. u \in 0..k
  BY <1>1, <1>7, <1>8
<1>10. \A i \in 0..k : i <= t <=> i <= u
  BY <1>2, <1>6, <1>7, <1>8
<1>11. t = u
  BY <1>1, <1>6, <1>9, <1>10
<1>12. (consumed # Boundary(t)) = (consumed' # Boundary(t)')
  BY <1>2, <1>6
<1>13. Got' = Got
  <2>1. CASE last = NoRead
    BY <1>2, <2>1 DEF StreamInv, GotInv
  <2>2. CASE last # NoRead
    <3>1. last.to \in Nat /\ last.to <= Len(wire)
      BY <2>2 DEF StreamInv, IInv, LastInv
    <3>2. last'.to = last.to /\ last'.from = last.from /\ last' # NoRead
      BY <1>2, <2>2
    <3>3. \A i \in 1..k : Whole(i)' <=> Whole(i)
      <4> TAKE i \in 1..k
      <4>1. Boundary(i)' = Boundary(i)
        BY <1>2
      <4>2. Boundary(i - 1)' = Boundary(i - 1)
        BY <1>1, <1>2
      <4> QED BY <3>2, <4>1, <4>2 DEF Whole
    <3>4. ~Whole(k + 1)'
      <4>1. ~(last.to >= Boundary(k + 1)')
        BY <1>2, <1>3, <3>1
      <4> QED BY <3>2, <4>1 DEF Whole
    <3>5. CASE \E i \in 1..k : Whole(i)
      <4>1. PICK i \in 1..k : Whole(i)
        BY <3>5
      <4>2. Got = [msg |-> sent[i].msg, spoiled |-> last.to > Boundary(i)]
        BY <1>1, <2>2, <4>1 DEF StreamInv, GotInv
      <4>3. Whole(i)' /\ i \in 1..Len(sent')
        BY <1>1, <1>2, <3>3, <4>1
      <4>4. Got' = [msg |-> sent'[i].msg, spoiled |-> last'.to > Boundary(i)']
        BY <3>2, <4>3 DEF StreamInv, GotInv
      <4>5. sent'[i] = sent[i] /\ Boundary(i)' = Boundary(i)
        BY <1>2
      <4> QED BY <3>2, <4>2, <4>4, <4>5
    <3>6. CASE \A i \in 1..k : ~Whole(i)
      <4>1. Got = Garbled
        BY <1>1, <3>6 DEF StreamInv, GotInv
      <4>2. \A i \in 1..k + 1 : i \in 1..k \/ i = k + 1
        BY <1>1
      <4>3. \A i \in 1..Len(sent') : ~Whole(i)'
        BY <1>2, <3>3, <3>4, <3>6, <4>2
      <4>4. Got' = Garbled
        BY <4>3 DEF StreamInv, GotInv
      <4> QED BY <4>1, <4>4
    <3> QED BY <3>5, <3>6
  <2> QED BY <2>1, <2>2
<1>14. [i \in 1..Len(sent') |-> sent'[i].msg] = Append([i \in 1..Len(sent) |-> sent[i].msg], msg)
  <2> DEFINE old == [i \in 1..k |-> sent[i].msg]
             new == [i \in 1..k + 1 |-> sent'[i].msg]
             S == {sent[i].msg : i \in 1..k} \cup {msg}
  <2>1. old \in [1..k -> S] /\ new \in [1..k + 1 -> S]
    <3>1. \A i \in 1..k : sent'[i].msg = sent[i].msg
      BY <1>2
    <3>2. sent'[k + 1].msg = msg
      BY <1>2
    <3>3. \A i \in 1..k + 1 : i \in 1..k \/ i = k + 1
      BY <1>1
    <3>4. \A i \in 1..k + 1 : sent'[i].msg \in S
      BY <3>1, <3>2, <3>3
    <3> QED BY <3>4
  <2>2. /\ \A i \in 1..k : new[i] = old[i]
        /\ new[k + 1] = msg
    BY <1>1, <1>2
  <2>3. msg \in S
    OBVIOUS
  <2> HIDE DEF old, new, S
  <2>4. old \in Seq(S) /\ Len(old) = k /\ new \in Seq(S) /\ Len(new) = k + 1
    <3>1. old \in Seq(S) /\ new \in Seq(S)
      BY <1>1, <2>1, SeqDef
    <3>2. DOMAIN old = 1..k /\ DOMAIN new = 1..k + 1
      BY <2>1
    <3> QED BY <1>1, <3>1, <3>2, LenProperties
  <2>5. /\ Append(old, msg) \in Seq(S) /\ Len(Append(old, msg)) = k + 1
        /\ \A i \in 1..k : Append(old, msg)[i] = old[i]
        /\ Append(old, msg)[k + 1] = msg
    BY <2>3, <2>4, AppendProperties
  <2>6. \A i \in 1..k + 1 : new[i] = Append(old, msg)[i]
    <3>1. \A i \in 1..k + 1 : i \in 1..k \/ i = k + 1
      BY <1>1
    <3> QED BY <2>2, <2>5, <3>1
  <2>7. new = Append(old, msg)
    BY <2>4, <2>5, <2>6, SeqEqual
  <2> QED BY <1>1, <1>2, <2>7 DEF old, new
<1>15. (consumed # Boundary(Taken))' = (consumed # Boundary(Taken))
  BY <1>4, <1>5, <1>11, <1>12 DEF Boundary
<1>16. Taken' = Taken
  BY <1>4, <1>5, <1>11
<1> QED BY <1>2, <1>13, <1>14, <1>15, <1>16 DEF Messages!Write

\* A read that has all of a message from its beginning is survived.
LEMMA WholeSurvived ==
  ASSUME IInv, NEW i \in 1..Len(sent), NEW to \in Nat, to >= Boundary(i), to <= Len(wire)
  PROVE  LET bytes == Chunk(Boundary(i - 1), to)
         IN  ~Throws(bytes) /\ ~ReadsBeyond(bytes)
<1> DEFINE msg == sent[i].msg
           rest == Chunk(Boundary(i), to)
<1>1. /\ wire \in Seq(Byte) /\ Len(wire) \in Nat
      /\ Boundary(i - 1) \in Nat /\ Boundary(i) \in Nat
      /\ Boundary(i - 1) <= Boundary(i) /\ Boundary(i) <= Len(wire)
      /\ Chunk(Boundary(i - 1), Boundary(i)) = Serialize(msg)
  BY LenProperties DEF IInv, WireInv
<1>2. msg \in Message /\ Fits(msg)
  <2>1. sent[i] \in SentRecord
    BY ElementOfSeq DEF IInv, WireInv
  <2> QED BY <2>1 DEF SentRecord
<1>3. rest \in Seq(Byte)
  BY <1>1, ChunkType
<1>4. Chunk(Boundary(i - 1), to) = Serialize(msg) \o rest
  <2>1. Chunk(Boundary(i - 1), to)
          = Chunk(Boundary(i - 1), Boundary(i)) \o Chunk(Boundary(i), to)
    BY <1>1, ChunkSplit
  <2> QED BY <1>1, <2>1
<1> HIDE DEF msg, rest
<1>5. ~Throws(Serialize(msg) \o rest) /\ ~ReadsBeyond(Serialize(msg) \o rest)
  BY <1>2, <1>3, GluedDecoding
<1> QED BY <1>4, <1>5

\* To read bytes is to read messages, or parts of them.
LEMMA ReadRefines ==
  ASSUME StreamInv, StreamInv', NEW n \in 1..BufferSize, Read(n)
  PROVE  Messages!ReadMessages \/ Messages!ReadParts
<1> DEFINE bar == [i \in 1..Len(sent) |-> sent[i].msg]
<1>0. IInv /\ OrderInv /\ GotInv' /\ IInv'
  BY DEF StreamInv
<1>1. PICK k \in Nat : k = Len(sent)
  BY <1>0, Boundaries
<1>2. /\ consumed \in Nat /\ n \in Nat /\ n > 0 /\ Len(wire) \in Nat
      /\ \A i \in 0..k : Boundary(i) \in Nat /\ Boundary(i) <= Len(wire)
      /\ Boundary(k) = Len(wire)
  BY <1>0, <1>1, Boundaries, BufferAssumption
<1>3. /\ alive
      /\ consumed' = consumed + n /\ consumed' <= Len(wire)
      /\ wire' = wire /\ sent' = sent /\ ends' = ends
  BY DEF Read
<1>4. \A i \in 0..k : Boundary(i)' = Boundary(i)
  BY <1>3 DEF Boundary
<1>5. last' # NoRead /\ last'.from = consumed /\ last'.to = consumed'
  BY <1>0, <1>3, ReadLast, NoReadAssumption
<1>6. PICK t : t = Taken
  OBVIOUS
<1>7. PICK u : u = Taken'
  OBVIOUS
<1>8. t \in 0..k /\ \A i \in 0..k : Boundary(i) <= consumed <=> i <= t
  BY <1>1, <1>6 DEF StreamInv, TakenInv
<1>9. u \in 0..k /\ \A i \in 0..k : Boundary(i) <= consumed' <=> i <= u
  BY <1>1, <1>3, <1>4, <1>7 DEF StreamInv, TakenInv
<1>10. t <= u
  <2>1. Boundary(t) <= consumed
    BY <1>8
  <2>2. Boundary(t) <= consumed'
    BY <1>2, <1>3, <1>8, <2>1
  <2> QED BY <1>8, <1>9, <2>2
<1>11. Len(bar) = k /\ \A i \in 1..k : bar[i] = sent[i].msg
  <2>1. bar \in [1..k -> {sent[i].msg : i \in 1..k}]
    BY <1>1
  <2>2. bar \in Seq({sent[i].msg : i \in 1..k}) /\ DOMAIN bar = 1..k
    BY <1>1, <2>1, SeqDef
  <2> QED BY <1>1, <2>2, LenProperties
<1>12. u = k => consumed' = Boundary(u)
  BY <1>2, <1>3, <1>9
<1>13. /\ (consumed # Boundary(Taken)) = (consumed # Boundary(t))
       /\ (consumed # Boundary(Taken))' = (consumed' # Boundary(u))
  BY <1>3, <1>6, <1>7 DEF Boundary
<1>14. ASSUME NEW i \in 1..k
       PROVE  /\ Whole(i)' <=> consumed = Boundary(i - 1) /\ consumed' >= Boundary(i)
              /\ Whole(i)' => Got' = [msg |-> sent[i].msg, spoiled |-> consumed' > Boundary(i)]
  <2>1. Boundary(i - 1)' = Boundary(i - 1) /\ Boundary(i)' = Boundary(i)
    BY <1>1, <1>4
  <2>2. Whole(i)' <=> consumed = Boundary(i - 1) /\ consumed' >= Boundary(i)
    BY <1>5, <2>1 DEF Whole
  <2>3. Whole(i)' => Got' = [msg |-> sent'[i].msg, spoiled |-> last'.to > Boundary(i)']
    BY <1>0, <1>1, <1>3, <1>5 DEF GotInv
  <2> QED BY <1>3, <1>5, <2>1, <2>2, <2>3
<1>15. (\A i \in 1..k : ~Whole(i)') => Got' = Garbled
  BY <1>0, <1>1, <1>3 DEF GotInv
<1>16. CASE consumed = Boundary(t) /\ t < k /\ consumed' >= Boundary(t + 1)
  <2>1. PICK i \in 1..k : i = t + 1
    BY <1>1, <1>8, <1>16
  <2>2. i - 1 = t /\ i \in 0..k
    BY <1>1, <1>8, <2>1
  <2>3. Got' = [msg |-> sent[i].msg, spoiled |-> consumed' > Boundary(i)]
    BY <1>14, <1>16, <2>1, <2>2
  <2>4. i <= u
    BY <1>9, <1>16, <2>1, <2>2
  <2>5. alive' = alive
    <3>1. /\ ~Throws(Chunk(consumed, consumed + n))
          /\ ~ReadsBeyond(Chunk(consumed, consumed + n))
      <4>1. consumed + n \in Nat /\ consumed + n >= Boundary(i) /\ consumed + n <= Len(wire)
        BY <1>2, <1>3, <1>16, <2>1
      <4>2. consumed = Boundary(i - 1)
        BY <1>16, <2>2
      <4> QED BY <1>0, <1>1, <4>1, <4>2, WholeSurvived
    <3> QED BY <3>1 DEF Read
  <2>6. (consumed' > Boundary(i)) = (u > i \/ consumed' # Boundary(u))
    <3>1. CASE u = i
      <4>1. consumed' \in Nat /\ Boundary(i) \in Nat /\ consumed' >= Boundary(i)
        BY <1>2, <1>3, <1>16, <2>1, <2>2
      <4> QED BY <3>1, <4>1
    <3>2. CASE u > i
      <4>1. Boundary(i) < Boundary(u) /\ Boundary(u) <= consumed'
        BY <1>0, <1>1, <1>9, <2>2, <3>2 DEF OrderInv
      <4>2. Boundary(i) \in Nat /\ Boundary(u) \in Nat /\ consumed' \in Nat
        BY <1>2, <1>3, <1>9, <2>2
      <4> QED BY <3>2, <4>1, <4>2
    <3>3. i \in Nat /\ u \in Nat
      BY <1>9, <2>2
    <3> QED BY <2>4, <3>1, <3>2, <3>3
  <2>7. Taken' \in Taken + 1 .. Len(bar)
    BY <1>6, <1>7, <1>8, <1>9, <1>11, <2>1, <2>4
  <2>8. (consumed # Boundary(Taken))' \in IF Taken' = Len(bar) THEN {FALSE} ELSE BOOLEAN
    BY <1>7, <1>11, <1>12, <1>13
  <2>9. Got' = [msg |-> bar[Taken + 1],
                spoiled |-> Taken' > Taken + 1 \/ (consumed # Boundary(Taken))']
    <3>1. bar[Taken + 1] = sent[i].msg
      BY <1>6, <1>11, <2>1
    <3>2. (Taken' > Taken + 1 \/ (consumed # Boundary(Taken))') = (consumed' > Boundary(i))
      BY <1>6, <1>7, <1>13, <2>1, <2>6
    <3> QED BY <2>3, <3>1, <3>2
  <2>10. ~(consumed # Boundary(Taken)) /\ bar' = bar
    BY <1>3, <1>13, <1>16
  <2>11. Messages!ReadMessages
    BY <1>3, <2>5, <2>7, <2>8, <2>9, <2>10 DEF Messages!ReadMessages
  <2> QED BY <2>11
<1>17. CASE ~(consumed = Boundary(t) /\ t < k /\ consumed' >= Boundary(t + 1))
  <2>1. \A i \in 1..k : ~Whole(i)'
    <3> SUFFICES ASSUME NEW i \in 1..k, consumed = Boundary(i - 1), consumed' >= Boundary(i)
                 PROVE  FALSE
      BY <1>14
    <3>1. PICK j \in 0..k : j = i - 1
      BY <1>1
    <3>2. j <= t
      BY <1>2, <1>8, <3>1
    <3>3. ~(j < t)
      <4>1. Boundary(t) <= Boundary(j)
        BY <1>8, <3>1
      <4>2. Boundary(t) \in Nat /\ Boundary(j) \in Nat
        BY <1>2, <1>8
      <4> QED BY <1>0, <1>1, <1>8, <4>1, <4>2 DEF OrderInv
    <3>4. j = t /\ i = t + 1 /\ t < k
      BY <1>1, <1>8, <3>1, <3>2, <3>3
    <3> QED BY <1>17, <3>1, <3>4
  <2>2. Got' = Garbled
    BY <1>15, <2>1
  <2>3. consumed # Boundary(t) \/ (u = t /\ consumed' # Boundary(u))
    <3> SUFFICES ASSUME consumed = Boundary(t)
                 PROVE  u = t /\ consumed' # Boundary(u)
      OBVIOUS
    <3>1. t < k
      <4>1. t # k
        BY <1>2, <1>3
      <4> QED BY <1>1, <1>8, <4>1
    <3>2. ~(Boundary(t + 1) <= consumed')
      BY <1>2, <1>3, <1>17, <3>1
    <3>3. t + 1 \in 0..k
      BY <1>1, <1>8, <3>1
    <3>4. ~(t + 1 <= u)
      BY <1>9, <3>2, <3>3
    <3>5. u = t
      BY <1>8, <1>9, <1>10, <3>4
    <3> QED BY <1>2, <1>3, <1>8, <3>5
  <2>4. Taken' \in Taken .. Len(bar)
    BY <1>6, <1>7, <1>8, <1>9, <1>10, <1>11
  <2>5. (consumed # Boundary(Taken))' \in IF Taken' = Len(bar) THEN {FALSE} ELSE BOOLEAN
    BY <1>7, <1>11, <1>12, <1>13
  <2>6. consumed # Boundary(Taken) \/ (Taken' = Taken /\ (consumed # Boundary(Taken))')
    BY <1>6, <1>7, <1>13, <2>3
  <2>7. bar' = bar
    BY <1>3
  <2>8. alive' \in BOOLEAN
    BY <1>0 DEF IInv, WireInv
  <2>9. Messages!ReadParts
    BY <1>3, <2>2, <2>4, <2>5, <2>6, <2>7, <2>8 DEF Messages!ReadParts
  <2> QED BY <2>9
<1> QED BY <1>16, <1>17

\* Nothing is written or read at first.
LEMMA InitRefines == Init => Messages!Init
<1> SUFFICES ASSUME Init PROVE Messages!Init
  OBVIOUS
<1>1. wire = <<>> /\ consumed = 0 /\ sent = <<>> /\ ends = <<>> /\ last = NoRead
      /\ alive = TRUE
  BY DEF Init
<1>2. Len(sent) = 0 /\ 1..0 = {}
  BY <1>1
<1>3. [i \in 1..Len(sent) |-> sent[i].msg] = <<>>
  <2> DEFINE bar == [i \in 1..Len(sent) |-> sent[i].msg]
  <2>1. bar \in [1..0 -> {}]
    BY <1>2
  <2> HIDE DEF bar
  <2>2. bar \in Seq({}) /\ DOMAIN bar = 1..0
    BY <2>1, SeqDef
  <2>3. Len(bar) = 0
    BY <2>2, LenProperties
  <2>4. bar = <<>>
    BY <2>2, <2>3, EmptySeq
  <2> QED BY <2>4 DEF bar
<1>4. Taken = 0
  <2>1. {i \in 1..Len(sent) : ends[i] <= consumed} = {}
    BY <1>2
  <2> QED BY <2>1, FS_EmptySet DEF Taken
<1>5. ~(consumed # Boundary(Taken))
  BY <1>1, <1>4 DEF Boundary
<1>6. Got = Garbled
  BY <1>1 DEF Got
<1> QED BY <1>1, <1>3, <1>4, <1>5, <1>6 DEF Messages!Init

\* No messages are in order.
LEMMA InitOrder == Init => OrderInv
<1> SUFFICES ASSUME Init PROVE OrderInv
  OBVIOUS
<1>1. Len(sent) = 0
  BY DEF Init
<1> QED BY <1>1 DEF OrderInv

\* All that the mapping needs holds always.
LEMMA StreamInvAlways == Spec => []StreamInv
<1>1. IInv /\ OrderInv /\ [Next]_vars => OrderInv'
  BY NextOrder
<1>2. IInv /\ OrderInv => StreamInv
  BY TakenFirst, GotOf DEF StreamInv
<1> QED BY <1>1, <1>2, InitOrder, WireLayout, PTL DEF Spec

\* Every step of the bytes is one of the stream of messages, or none.
LEMMA NextRefines ==
  ASSUME StreamInv, StreamInv', [Next]_vars
  PROVE  [Messages!Next]_(Messages!vars)
<1> DEFINE M == Plain \cup {DealMessage(cards, tail) : cards \in Deals, tail \in Tails}
<1>1. ASSUME Write PROVE Messages!Next
  <2>1. PICK msg \in Plain : Put(msg, <<>>, <<>>)
    BY <1>1 DEF Write
  <2>2. Messages!Write(msg)
    BY <2>1, PutRefines, PlainAssumption
  <2>3. msg \in M
    OBVIOUS
  <2> QED BY <2>2, <2>3 DEF Messages!Next
<1>2. ASSUME Deal PROVE Messages!Next
  <2>1. PICK cards \in Deals, tail \in Tails : Put(DealMessage(cards, tail), cards, tail)
    BY <1>2 DEF Deal
  <2>2. PICK msg : msg = DealMessage(cards, tail)
    OBVIOUS
  <2>3. Messages!Write(msg)
    BY <2>1, <2>2, PutRefines, DealMessageType
  <2>4. msg \in M
    BY <2>2
  <2> QED BY <2>3, <2>4 DEF Messages!Next
<1>3. ASSUME NEW n \in 1..BufferSize, Read(n) PROVE Messages!Next
  BY <1>3, ReadRefines DEF Messages!Next
<1>4. CASE UNCHANGED vars
  <2>1. /\ Taken' = Taken /\ Got' = Got
        /\ (consumed # Boundary(Taken))' = (consumed # Boundary(Taken))
    BY <1>4 DEF vars, Taken, Got, Boundary
  <2> QED BY <1>4, <2>1 DEF vars, Messages!vars
<1> QED BY <1>1, <1>2, <1>3, <1>4 DEF Next

\* The byte stream implements the stream of messages that the game is modelled
\* on: messages in the order in which they were written, none skipped, and a read
\* that begins at the beginning of one and has all of it is decoded as that one,
\* after however many reads that were split elsewhere.
THEOREM RefinesMessageStreamHolds == Spec => RefinesMessageStream
<1>1. StreamInv /\ StreamInv' /\ [Next]_vars => [Messages!Next]_(Messages!vars)
  BY NextRefines
<1> QED BY <1>1, InitRefines, StreamInvAlways, PTL
        DEF Spec, RefinesMessageStream, Messages!Spec

-----------------------------------------------------------------------------
(* Deals *)

\* The cards on record with a message are those it was made of.
DealInv ==
  \A i \in 1..Len(sent) :
    sent[i].cards # <<>> =>
      /\ sent[i].cards \in Deals /\ sent[i].tail \in Tails
      /\ sent[i].msg = DealMessage(sent[i].cards, sent[i].tail)

\* Every step keeps them.
LEMMA NextDeal ==
  ASSUME IInv, DealInv, [Next]_vars
  PROVE  DealInv'
<1>1. CASE UNCHANGED sent
  BY <1>1 DEF DealInv
<1>2. ASSUME NEW msg \in Message, NEW cards, NEW tail, Put(msg, cards, tail),
             cards # <<>> => /\ cards \in Deals /\ tail \in Tails
                             /\ msg = DealMessage(cards, tail)
      PROVE  DealInv'
  <2>1. PICK k \in Nat : k = Len(sent)
    BY Boundaries
  <2>2. /\ Len(sent') = k + 1
        /\ sent'[k + 1] = [msg |-> msg, cards |-> cards, tail |-> tail]
        /\ \A i \in 1..k : sent'[i] = sent[i]
    BY <1>2, <2>1, PutStep
  <2>3. ASSUME NEW i \in 1..k + 1, sent'[i].cards # <<>>
        PROVE  /\ sent'[i].cards \in Deals /\ sent'[i].tail \in Tails
               /\ sent'[i].msg = DealMessage(sent'[i].cards, sent'[i].tail)
    <3>1. CASE i \in 1..k
      BY <2>1, <2>2, <2>3, <3>1 DEF DealInv
    <3>2. CASE i = k + 1
      BY <1>2, <2>2, <2>3, <3>2
    <3> QED BY <2>1, <3>1, <3>2
  <2> QED BY <2>2, <2>3 DEF DealInv
<1>3. ASSUME NEW n \in 1..BufferSize, Read(n) PROVE DealInv'
  BY <1>1, <1>3 DEF Read
<1>4. Write => DealInv'
  BY <1>2, PlainAssumption DEF Write
<1>5. Deal => DealInv'
  <2> SUFFICES ASSUME Deal PROVE DealInv'
    OBVIOUS
  <2>1. PICK cards \in Deals, tail \in Tails : Put(DealMessage(cards, tail), cards, tail)
    BY DEF Deal
  <2>2. PICK msg : msg = DealMessage(cards, tail)
    OBVIOUS
  <2>3. msg \in Message /\ Put(msg, cards, tail)
    BY <2>1, <2>2, DealMessageType
  <2> QED BY <1>2, <2>2, <2>3
<1> QED BY <1>1, <1>3, <1>4, <1>5 DEF Next, vars

\* A deal that is read as it was written is decoded as the payload that was dealt.
LEMMA DealRead ==
  ASSUME IInv, DealInv
  PROVE  DealArrives
<1> SUFFICES ASSUME NEW i \in 1..Len(sent), ReadAsWritten(i), sent[i].cards # <<>>
             PROVE  SplitString(last.msg.payload) = sent[i].cards
                      <=> Separable(sent[i].cards, sent[i].tail)
  BY DEF DealArrives
<1>0. last # NoRead /\ last.from = Boundary(i - 1) /\ last.to = Boundary(i)
  BY DEF ReadAsWritten
<1> DEFINE msg == sent[i].msg
           rest == Chunk(Boundary(i), last.to)
<1>1. Boundary(i) \in Nat /\ Boundary(i) <= Len(wire) /\ wire \in Seq(Byte)
  BY DEF IInv, WireInv
<1>2. rest = <<>>
  BY <1>0, <1>1, SubSeqEmpty DEF Chunk
<1>3. msg \in Message
  <2>1. sent[i] \in SentRecord
    BY ElementOfSeq DEF IInv, WireInv
  <2> QED BY <2>1 DEF SentRecord
<1>4. last.to >= Boundary(i)
  BY <1>0, <1>1
<1>5. last.msg = [msg EXCEPT !.payload = @ \o rest]
  BY <1>0, <1>4, IInvDelivers DEF WholeReadsDeliver
<1>6. msg # last.msg <=> rest # <<>>
  <2>1. rest \in Seq(Byte)
    BY <1>2, EmptySeq
  <2> HIDE DEF msg, rest
  <2> QED BY <1>3, <1>5, <2>1, CutPayload
<1>7. last.msg = DealMessage(sent[i].cards, sent[i].tail)
  BY <1>0, <1>2, <1>6 DEF DealInv
<1>8. last.msg.payload = JoinStrings(sent[i].cards, sent[i].tail)
  BY <1>7 DEF DealMessage
<1>9. sent[i].cards \in Deals /\ sent[i].tail \in Tails
  BY DEF DealInv
<1>10. PICK cards \in Seq(Seq(Byte) \ {<<>>}), tail \in Seq(Byte) :
         cards = sent[i].cards /\ tail = sent[i].tail
  BY <1>9, CardsAssumption
<1>11. cards # <<>> /\ Slash \in Byte
  BY <1>10 DEF Slash, Byte
<1>12. SplitString(JoinStrings(cards, tail)) = cards
         <=> Slashless(cards) /\ (tail = <<>> \/ OneSpare(cards, tail))
  BY <1>11, SplitUndoesJoin
<1>13. Slashless(cards) /\ (tail = <<>> \/ OneSpare(cards, tail)) <=> Separable(cards, tail)
  BY DEF Slashless, OneSpare, Separable
<1> QED BY <1>8, <1>10, <1>12, <1>13, Zenon

\* A deal that is read as it was written comes out as the cards that were dealt if, and
\* only if, the delimiter keeps them apart, whatever was written and read before
\* (deal_cards, join_strings, split_string).
THEOREM DealArrivesHolds == Spec => []DealArrives
<1>1. Init => DealInv
  <2> SUFFICES ASSUME Init PROVE DealInv
    OBVIOUS
  <2>1. Len(sent) = 0
    BY DEF Init
  <2> QED BY <2>1 DEF DealInv
<1>2. IInv /\ DealInv /\ [Next]_vars => DealInv'
  BY NextDeal
<1>3. IInv /\ DealInv => DealArrives
  BY DealRead
<1> QED BY <1>1, <1>2, <1>3, WireLayout, PTL DEF Spec
=============================================================================
