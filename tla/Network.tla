------------------------------ MODULE Network -------------------------------
(***************************************************************************)
(* What lies between the host and the players: the processes of the        *)
(* players, the connections waiting to be accepted, and for each player a  *)
(* TCP stream in either direction.  A stream is the sequence of the        *)
(* messages written to it and not yet read, in order and without loss, as  *)
(* TCP delivers them; how many of them one read returns is up to the       *)
(* network (ReadMax bounds it).                                            *)
(***************************************************************************)
EXTENDS Messages, FiniteSets

CONSTANT ReadMax    \* bound: the messages one read may return

ASSUME ReadMaxAssumption == ReadMax \in Nat \ {0}

VARIABLES process,    \* process[c]: "off", "up" or "gone" (it ended)
          backlog,    \* connected, not yet accepted
          toServer,   \* toServer[c]: written by c, not yet read by the host
          toClient    \* toClient[c]: written by the host, not yet read by c

networkVars == <<process, backlog, toServer, toClient>>

NetworkTypeOK ==
  /\ process \in [Client -> {"off", "up", "gone"}]
  /\ backlog \in Seq(Client)
  /\ toServer \in [Client -> Seq(ClientMessage)]
  /\ toClient \in [Client -> Seq(ServerMessage)]

NetworkInit ==
  /\ process = [c \in Client |-> "off"]
  /\ backlog = <<>>
  /\ toServer = [c \in Client |-> <<>>]
  /\ toClient = [c \in Client |-> <<>>]

\* The numbers of messages that one read of the stream may return.
ReadSizes(stream) == {k \in 1..ReadMax : k <= Len(stream)}

\* The stream without its first k messages.
Unread(stream, k) == SubSeq(stream, k + 1, Len(stream))

\* write_to_client: what is written to a player that ended is dropped (the
\* write reports an error, which is only logged).
Sent(c, msg) ==
  IF process[c] = "up" THEN [toClient EXCEPT ![c] = Append(@, msg)]
                       ELSE toClient
=============================================================================
