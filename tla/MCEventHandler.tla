--------------------------- MODULE MCEventHandler ---------------------------
(* A small instance of EventHandler: the events of the host's lobby. *)
EXTENDS EventHandler

CONSTANTS PlayerJoined, CardRequest, SynchronizeGame, m1, m2

MCEvent   == {PlayerJoined, CardRequest, SynchronizeGame}
MCPopping == {PlayerJoined, CardRequest}
MCMessage == {m1, m2}
=============================================================================
