---------------------------- MODULE EventHandler ----------------------------
(***************************************************************************)
(* Core::Gameplay::EventHandler and the loop that drains it.               *)
(*                                                                         *)
(* Two threads share eventmsg_queue: the io thread runs                    *)
(* store_eventmessage, and the main thread runs Game::process_events,      *)
(* which takes the lock three separate times for one event: to test that   *)
(* the queue is not empty, to read the event at its front, and, inside the *)
(* callback of that event, to take the message off.  Each critical section *)
(* is one action here, so the io thread can store between any two.         *)
(***************************************************************************)
EXTENDS Naturals, Sequences

CONSTANTS Event,       \* the events the io thread stores
          Message,     \* the messages they come with
          Popping,     \* the events whose callback takes the message off
          Nothing,     \* what read/get return on an empty queue: {}
          MaxStored    \* bound: how many event messages are ever stored

ASSUME PoppingAssumption == Popping \subseteq Event
ASSUME NothingAssumption == Nothing \notin Event
ASSUME MaxStoredAssumption == MaxStored \in Nat

VARIABLES eventmsg_queue,   \* std::queue<std::tuple<Event, Message>>
          pc,               \* where the main thread is in process_events
          event,            \* process_events' local: the event it read
          handled           \* history: <<event of the callback, message it took>>

vars == <<eventmsg_queue, pc, event, handled>>

EventMessage == [event : Event, message : Message]

TypeOK == /\ eventmsg_queue \in Seq(EventMessage)
          /\ pc \in {"test", "read", "trigger"}
          /\ event \in Event \cup {Nothing}
          /\ handled \in Seq(EventMessage)

Init == /\ eventmsg_queue = <<>>
        /\ pc = "test"
        /\ event = Nothing
        /\ handled = <<>>

-----------------------------------------------------------------------------
\* io thread

store_eventmessage(em) ==
  /\ Len(eventmsg_queue) + Len(handled) < MaxStored
  /\ eventmsg_queue' = Append(eventmsg_queue, em)
  /\ UNCHANGED <<pc, event, handled>>

-----------------------------------------------------------------------------
\* main thread

\* while (!eventmsg_empty()): an empty queue leaves the loop, which the game
\* loop enters again at once.
eventmsg_empty ==
  /\ pc = "test"
  /\ eventmsg_queue # <<>>
  /\ pc' = "read"
  /\ UNCHANGED <<eventmsg_queue, event, handled>>

\* Mutant: it reads the latest event, as its name says.
read_latest_event_back ==
  /\ pc = "read"
  /\ event' = IF eventmsg_queue # <<>>
               THEN eventmsg_queue[Len(eventmsg_queue)].event ELSE Nothing
  /\ pc' = "trigger"
  /\ UNCHANGED <<eventmsg_queue, handled>>

\* Mutant: the call that process_events has commented out, which also pops.
read_latest_event_pop ==
  /\ pc = "read"
  /\ event' = IF eventmsg_queue # <<>> THEN Head(eventmsg_queue).event
                                       ELSE Nothing
  /\ eventmsg_queue' = IF eventmsg_queue # <<>> THEN Tail(eventmsg_queue)
                                                ELSE eventmsg_queue
  /\ pc' = "trigger"
  /\ UNCHANGED handled

\* Despite its name it reads the oldest event, and leaves it in the queue.
read_latest_event ==
  /\ pc = "read"
  /\ event' = IF eventmsg_queue # <<>> THEN Head(eventmsg_queue).event
                                       ELSE Nothing
  /\ pc' = "trigger"
  /\ UNCHANGED <<eventmsg_queue, handled>>

\* What get_eventmessage returns and what it leaves in the queue.
Front     == IF eventmsg_queue # <<>> THEN Head(eventmsg_queue).message
                                      ELSE Nothing
WithFrontPopped == IF eventmsg_queue # <<>> THEN Tail(eventmsg_queue)
                                            ELSE eventmsg_queue

\* Mutant: a callback that forgets to take its message off.
get_eventmessage_forgotten ==
  /\ pc = "trigger"
  /\ event \in Popping
  /\ pc' = "test"
  /\ UNCHANGED <<eventmsg_queue, event, handled>>

\* The callback registered for the event starts by taking a message off: the
\* one at the front now, which it believes to be the one that was read.
get_eventmessage ==
  /\ pc = "trigger"
  /\ event \in Popping
  /\ handled' = Append(handled, [event |-> event, message |-> Front])
  /\ eventmsg_queue' = WithFrontPopped
  /\ pc' = "test"
  /\ UNCHANGED event

\* Mutant: an event without a callback is discarded.
trigger_event_discard ==
  /\ pc = "trigger"
  /\ event \notin Popping
  /\ eventmsg_queue' = WithFrontPopped
  /\ pc' = "test"
  /\ UNCHANGED <<event, handled>>

\* No callback is registered for the event, or one that takes nothing off.
trigger_event ==
  /\ pc = "trigger"
  /\ event \notin Popping
  /\ pc' = "test"
  /\ UNCHANGED <<eventmsg_queue, event, handled>>

process_events ==
  \/ eventmsg_empty
  \/ read_latest_event
  \/ get_eventmessage
  \/ trigger_event

Next == \/ \E em \in EventMessage : store_eventmessage(em)
        \/ process_events

\* The main thread never blocks for long: the lock is held for a few
\* instructions and the loop is infinite.  Nothing makes messages arrive.
Spec == Init /\ [][Next]_vars /\ WF_vars(process_events)

-----------------------------------------------------------------------------
(* Properties *)

Abstract == INSTANCE EventDispatch WITH queue <- eventmsg_queue

\* The loop that tests, reads and takes in three critical sections hands every
\* message to the callback of its own event and in the order of arrival, as if
\* it had taken it in one: process_events implements EventDispatch.
RefinesEventDispatch == Abstract!Spec

\* What was read still is at the front when the callback takes it: no
\* interleaving of store_eventmessage slips between read_latest_event and
\* get_eventmessage, although the lock is released in between.
ReadIsFront ==
  /\ pc \in {"read", "trigger"} => eventmsg_queue # <<>>
  /\ pc = "trigger" => event = Head(eventmsg_queue).event

\* The loop gets through everything that can be taken: time and again the
\* queue is empty or has an event at its front that no callback takes off.
EventuallyDrained ==
  []<>(eventmsg_queue = <<>> \/ Head(eventmsg_queue).event \notin Popping)

\* An event that no callback takes off blocks everything behind it for good:
\* nothing is handled any more, and the queue only grows.
HeadOfLineBlocks ==
  [][ (eventmsg_queue # <<>> /\ Head(eventmsg_queue).event \notin Popping)
      => /\ handled' = handled
         /\ eventmsg_queue' # <<>>
         /\ Head(eventmsg_queue') = Head(eventmsg_queue) ]_vars

=============================================================================
