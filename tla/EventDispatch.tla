---------------------------- MODULE EventDispatch ----------------------------
(***************************************************************************)
(* What the shared event queue promises to the game loop, with no thread,  *)
(* lock or intermediate step in sight: the network thread stores event     *)
(* messages, and the game loop takes them one at a time, each handed to    *)
(* the callback of its own event, in the order they were stored.           *)
(*                                                                         *)
(* EventHandler.tla is the code; it is checked to implement this.          *)
(***************************************************************************)
EXTENDS Naturals, Sequences

CONSTANTS Event,     \* the events of enum Event that the network thread stores
          Message    \* the messages they come with

VARIABLES queue,     \* stored, not yet taken: a sequence of event messages
          handled    \* taken, oldest first, with the event whose callback ran

vars == <<queue, handled>>

EventMessage == [event : Event, message : Message]

TypeOK == /\ queue \in Seq(EventMessage)
          /\ handled \in Seq(EventMessage)

Init == /\ queue = <<>>
        /\ handled = <<>>

Store == \E em \in EventMessage : /\ queue' = Append(queue, em)
                                  /\ UNCHANGED handled

Handle == /\ queue # <<>>
          /\ handled' = Append(handled, Head(queue))
          /\ queue' = Tail(queue)

Next == Store \/ Handle

Spec == Init /\ [][Next]_vars
=============================================================================
