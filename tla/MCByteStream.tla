---------------------------- MODULE MCByteStream ----------------------------
(* Small instance of ByteStream: texts of one to three letters, a buffer in   *)
(* which some two messages fit and a deal with something between its cards    *)
(* does not.                                                                  *)
EXTENDS ByteStream

Request(rpc, id, payload) ==
  [type |-> MessageType.Request, id |-> id, rpc |-> rpc, payload |-> payload]

\* a count, as the host (port 2048) sends it, and a report of a player
MCPlain == {Request(RPCType.NewConnection, 2048, <<50>>),
            Request(RPCType.StartGame, 40001, <<82, 101>>)}

\* none, "A", "A" and "D", and a card with a slash in it between them
MCDeals == {<<>>, <<<<65>>>>, <<<<65>>, <<68>>>>,
            <<<<65>>, <<66, Slash, 67>>, <<68>>>>}

\* "", "x", "/", "xy"
MCTails == {<<>>, <<120>>, <<Slash>>, <<120, 121>>}
=============================================================================
