----------------------------- MODULE ByteStream -----------------------------
(***************************************************************************)
(* One direction of a connection in bytes: write_to_client (or             *)
(* send_message_test) at one end, at the other the handler of              *)
(* async_read_some with its buffer.  Both handlers decode what one read    *)
(* returned as one message; TCP returns any number of the bytes that are   *)
(* there, up to the size of the buffer.                                    *)
(***************************************************************************)
EXTENDS Codec, FiniteSets

CONSTANTS BufferSize,    \* 1024
          Plain,         \* messages that carry no cards
          Deals,         \* sequences of cards, each a text, to be dealt
          Tails,         \* what may follow the delimiter of join_strings in memory
          NoMessage,     \* decoding a read has ended the process
          NoRead,        \* before the first read
          MaxMessages    \* bound: the messages written

DealMessage(cards, tail) ==
  [type |-> MessageType.Response, id |-> 2048, rpc |-> RPCType.DealCard,
   payload |-> JoinStrings(cards, tail)]

ASSUME BufferAssumption == BufferSize \in Nat \ {0}
ASSUME BoundAssumption == MaxMessages \in Nat
ASSUME PlainAssumption == \A msg \in Plain : msg \in Message /\ Fits(msg)
ASSUME CardsAssumption == /\ Deals \subseteq Seq(Seq(Byte) \ {<<>>})    \* no card is empty
                          /\ Tails \subseteq Seq(Byte)
ASSUME DealsAssumption == \A cards \in Deals, tail \in Tails :
                            Fits(DealMessage(cards, tail))
ASSUME NoMessageAssumption == NoMessage \notin Message
ASSUME NoReadAssumption ==
         NoRead \notin [from : Nat, to : Nat, msg : Message \cup {NoMessage}]

VARIABLES wire,        \* all bytes ever written to the socket
          consumed,    \* how many of them have been read
          sent,        \* history: the messages written, in order
          ends,        \* history: ends[i] is where sent[i] ends on the wire
          last,        \* history: the last read, from where to where, decoded
          alive        \* the process that reads

vars == <<wire, consumed, sent, ends, last, alive>>

Init ==
  /\ wire = <<>>
  /\ consumed = 0
  /\ sent = <<>>
  /\ ends = <<>>
  /\ last = NoRead
  /\ alive = TRUE

\* Where the i-th message ends and the next begins.
Boundary(i) == IF i = 0 THEN 0 ELSE ends[i]

\* What is written to a process that ended is dropped.  cards and tail are kept
\* for a message that deals.
Put(msg, cards, tail) ==
  /\ alive
  /\ Len(sent) < MaxMessages
  /\ wire' = wire \o Serialize(msg)
  /\ sent' = Append(sent, [msg |-> msg, cards |-> cards, tail |-> tail])
  /\ ends' = Append(ends, Len(wire'))
  /\ UNCHANGED <<consumed, last, alive>>

Write == \E msg \in Plain : Put(msg, <<>>, <<>>)

\* deal_cards
Deal == \E cards \in Deals, tail \in Tails :
          Put(DealMessage(cards, tail), cards, tail)

Chunk(from, to) == SubSeq(wire, from + 1, to)

\* Mutant: the first byte of what comes next is read with it and lost.
ReadOneMore(n) ==
  /\ alive
  /\ n <= BufferSize
  /\ consumed + n < Len(wire)
  /\ consumed' = consumed + n + 1
  /\ ~Throws(Chunk(consumed, consumed + n))
  /\ last' = [from |-> consumed, to |-> consumed + n,
              msg |-> Deserialize(Chunk(consumed, consumed + n))]
  /\ UNCHANGED <<wire, sent, ends, alive>>

\* Mutant: the whole buffer counts as read, whatever bytes_transferred says.
ReadWholeBuffer(n) ==
  /\ alive
  /\ n <= BufferSize
  /\ consumed + n <= Len(wire)
  /\ consumed' = consumed + BufferSize
  /\ ~Throws(Chunk(consumed, consumed + n))
  /\ last' = [from |-> consumed, to |-> consumed + n,
              msg |-> Deserialize(Chunk(consumed, consumed + n))]
  /\ UNCHANGED <<wire, sent, ends, alive>>

\* A read that returns n bytes, decoded; nothing catches what the decoding
\* throws.
Read(n) ==
  /\ alive
  /\ n <= BufferSize
  /\ consumed + n <= Len(wire)
  /\ consumed' = consumed + n
  /\ LET bytes == Chunk(consumed, consumed + n)
     IN  \/ /\ ~Throws(bytes)
            /\ last' = [from |-> consumed, to |-> consumed + n,
                        msg |-> Deserialize(bytes)]
            /\ UNCHANGED alive
         \/ /\ Throws(bytes) \/ ReadsBeyond(bytes)
            /\ last' = [from |-> consumed, to |-> consumed + n, msg |-> NoMessage]
            /\ alive' = FALSE
  /\ UNCHANGED <<wire, sent, ends>>

Next == Write \/ Deal \/ \E n \in 1..BufferSize : Read(n)

Spec == Init /\ [][Next]_vars

-----------------------------------------------------------------------------
(* Types *)

\* The types; what has been read has been written, and the process ends only
\* in a read.
TypeOK ==
  /\ wire \in Seq(Byte)
  /\ consumed \in 0..Len(wire)
  /\ sent \in Seq([msg : Message, cards : Deals \cup {<<>>}, tail : Tails \cup {<<>>}])
  /\ ends \in Seq(Nat)
  /\ \/ last = NoRead
     \/ last \in [from : Nat, to : Nat, msg : Message \cup {NoMessage}]
  /\ alive \in BOOLEAN

-----------------------------------------------------------------------------
(* What a read delivers *)

\* A read that begins where a message does and has all of it, whatever else it
\* has, is survived and decoded as that message; the bytes behind it are glued
\* to its payload.  This holds again after reads that were split elsewhere.
WholeReadsDeliver ==
  last # NoRead =>
    \A i \in 1..Len(sent) :
      last.from = Boundary(i - 1) /\ last.to >= Boundary(i) =>
        last.msg = [sent[i].msg EXCEPT !.payload = @ \o Chunk(Boundary(i), last.to)]

\* The last read returned the i-th message as it was written.
ReadAsWritten(i) ==
  /\ last # NoRead
  /\ last.from = Boundary(i - 1)
  /\ last.to = Boundary(i)

\* No card has a slash in it, and nothing follows the delimiter in memory; or what
\* follows it is one character and is popped off the only card.
Separable(cards, tail) ==
  /\ \A j \in 1..Len(cards) : \A k \in 1..Len(cards[j]) : cards[j][k] # Slash
  /\ tail = <<>> \/ (Len(cards) = 1 /\ Len(tail) = 1)

\* A deal that is read as it was written comes out of split_string as the cards
\* that went into join_strings, in their order and no others, if the delimiter
\* keeps them apart, and only then: no two faults make up for each other.
DealArrives ==
  \A i \in 1..Len(sent) :
    ReadAsWritten(i) /\ sent[i].cards # <<>> =>
      (SplitString(last.msg.payload) = sent[i].cards
         <=> Separable(sent[i].cards, sent[i].tail))

-----------------------------------------------------------------------------
(* The stream of messages *)

Taken == Cardinality({i \in 1..Len(sent) : ends[i] <= consumed})

\* What the last read was decoded as, in terms of MessageStream: the message,
\* with the payload up to its end.
Garbled == [spoiled |-> TRUE]
Got ==
  LET whole == {i \in 1..Len(sent) : /\ last.from = Boundary(i - 1)
                                     /\ last.to >= Boundary(i)}
      First(size) == [last.msg EXCEPT !.payload = SubSeq(@, 1, size)]
  IN  IF last = NoRead \/ whole = {} THEN Garbled
      ELSE LET i == CHOOSE i \in whole : TRUE
           IN  [msg |-> First(Len(sent[i].msg.payload)),
                spoiled |-> First(Len(sent[i].msg.payload)) # last.msg]

Messages == INSTANCE MessageStream
  WITH Message <- Plain \cup {DealMessage(cards, tail) : cards \in Deals, tail \in Tails},
       sent <- [i \in 1..Len(sent) |-> sent[i].msg],
       taken <- Taken,
       split <- consumed # Boundary(Taken),
       got <- Got

\* The bytes implement the stream of messages: in order, none skipped, and
\* after a read that was split the next whole one is decoded right.
RefinesMessageStream == Messages!Spec
=============================================================================
