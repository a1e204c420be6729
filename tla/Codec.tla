------------------------------- MODULE Codec -------------------------------
(***************************************************************************)
(* Messages as bytes: Network::serialize_message and deserialize_message.  *)
(*                                                                         *)
(* A message on the wire is                                                *)
(*     type (1)   id (2)   rpc_type (1)   size of the payload (4)   payload *)
(* the numbers with their low byte first, as memcpy leaves them on the     *)
(* machines the game is built for.  Nothing marks where a message ends but *)
(* the size, and deserialize_message does not go by it: the payload is     *)
(* whatever lies behind the header.                                        *)
(***************************************************************************)
EXTENDS Texts

Byte == 0..255
Short == {n \in Nat : n < 65536}    \* unsigned short

\* enum class MessageType, RPCType : uint8_t
MessageType == [Request |-> 1, Response |-> 2]
RPCType == [DealCard |-> 0, Vote |-> 1, NewConnection |-> 2, StartGame |-> 3,
            NewRound |-> 4, PlayCard |-> 5, LoadGame |-> 6, EnterWaiting |-> 7,
            DontCare |-> 8]

Long == {n \in Nat : n \div 65536 \in Short}    \* uint32_t

\* A Message, with any value its fields can hold.
Message == [type : Byte, id : Short, rpc : Byte, payload : Seq(Byte)]

\* The size of the payload fits in the uint32_t of the header.
Fits(msg) == Len(msg.payload) \in Long

HeaderSize == 8

\* The byte of a number that counts for unit.
ByteOf(n, unit) == (n \div unit) % 256
Number(low, high) == low + 256 * high

\* What memcpy leaves of an unsigned short, and of the low four bytes of a size_t.
Header(msg) ==
  LET size == Len(msg.payload)
  IN  <<msg.type, ByteOf(msg.id, 1), ByteOf(msg.id, 256), msg.rpc,
        ByteOf(size, 1), ByteOf(size, 256),
        ByteOf(size, 65536), ByteOf(size, 16777216)>>

\* serialize_message
Serialize(msg) == Header(msg) \o msg.payload

\* Mutant: the payload begins where the size does.
DeserializeWithSize(bytes) ==
  [type |-> bytes[1], id |-> Number(bytes[2], bytes[3]), rpc |-> bytes[4],
   payload |-> SubSeq(bytes, HeaderSize - 3, Len(bytes))]

\* deserialize_message of at least HeaderSize bytes
Deserialize(bytes) ==
  [type |-> bytes[1], id |-> Number(bytes[2], bytes[3]), rpc |-> bytes[4],
   payload |-> SubSeq(bytes, HeaderSize + 1, Len(bytes))]

\* Of fewer, payload_slice is given a range that ends before it begins, and its
\* constructor throws.
Throws(bytes) == Len(bytes) < HeaderSize

\* payload_slicez is copied from as many bytes as the header declares, which may
\* be more than were read: undefined behaviour, which may go well as nobody reads
\* the copy.  (The size is compared by halves, high half first.)
ReadsBeyond(bytes) ==
  /\ ~Throws(bytes)
  /\ LET rest == Len(bytes) - HeaderSize
         low  == Number(bytes[5], bytes[6])
         high == Number(bytes[7], bytes[8])
     IN  \/ high > rest \div 65536
         \/ high = rest \div 65536 /\ low > rest % 65536
=============================================================================
