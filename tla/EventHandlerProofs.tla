------------------------- MODULE EventHandlerProofs -------------------------
(***************************************************************************)
(* EventHandler implements EventDispatch, for every set of events and of   *)
(* messages.                                                               *)
(*                                                                         *)
(* The one fact needed is ReadIsFront: between the test and the take, the  *)
(* queue is not empty and what was read is still at its front, because the *)
(* other thread only appends.                                              *)
(***************************************************************************)
EXTENDS EventHandler, SequenceTheorems, TLAPS

IInv == TypeOK /\ ReadIsFront

\* A store leaves the front of a queue that is not empty where it is.
LEMMA AppendKeepsHead ==
  ASSUME NEW S, NEW q \in Seq(S), NEW x \in S
  PROVE  /\ Append(q, x) \in Seq(S)
         /\ Append(q, x) # <<>>
         /\ q # <<>> => Head(Append(q, x)) = Head(q)
  BY AppendProperties

\* The head of a queue that is not empty is one of its elements, and the rest
\* is a queue.
LEMMA HeadAndTail ==
  ASSUME NEW S, NEW q \in Seq(S), q # <<>>
  PROVE  Head(q) \in S /\ Tail(q) \in Seq(S)
  BY HeadTailProperties

\* Initially there is no event.
LEMMA InitIInv == Init => IInv
  BY DEF Init, IInv, TypeOK, ReadIsFront

\* Every step keeps what was read at the front.
LEMMA NextIInv == IInv /\ [Next]_vars => IInv'
<1> SUFFICES ASSUME IInv, [Next]_vars PROVE IInv'
  OBVIOUS
<1> USE DEF IInv, TypeOK, ReadIsFront
<1>1. ASSUME NEW em \in EventMessage, store_eventmessage(em) PROVE IInv'
  <2>1. /\ Append(eventmsg_queue, em) \in Seq(EventMessage)
        /\ Append(eventmsg_queue, em) # <<>>
        /\ eventmsg_queue # <<>>
             => Head(Append(eventmsg_queue, em)) = Head(eventmsg_queue)
    BY <1>1, AppendKeepsHead
  <2> QED BY <1>1, <2>1 DEF store_eventmessage
<1>2. CASE eventmsg_empty
  BY <1>2 DEF eventmsg_empty
<1>3. CASE read_latest_event
  <2>1. eventmsg_queue # <<>> /\ Head(eventmsg_queue) \in EventMessage
    BY <1>3, HeadAndTail DEF read_latest_event
  <2> QED BY <1>3, <2>1 DEF read_latest_event, EventMessage
<1>4. CASE get_eventmessage
  <2>1. /\ eventmsg_queue # <<>>
        /\ event = Head(eventmsg_queue).event
        /\ Head(eventmsg_queue) \in EventMessage
        /\ Tail(eventmsg_queue) \in Seq(EventMessage)
    BY <1>4, HeadAndTail DEF get_eventmessage
  <2>2. [event |-> event, message |-> Front] \in EventMessage
    BY <2>1 DEF Front, EventMessage
  <2>3. handled' \in Seq(EventMessage)
    BY <1>4, <2>2, AppendProperties DEF get_eventmessage
  <2> QED BY <1>4, <2>1, <2>3 DEF get_eventmessage, WithFrontPopped
<1>5. CASE trigger_event
  BY <1>5 DEF trigger_event
<1>6. CASE UNCHANGED vars
  BY <1>6 DEF vars
<1> QED BY <1>1, <1>2, <1>3, <1>4, <1>5, <1>6 DEF Next, process_events

\* The types, and with them that what is handled are events with their messages:
\* no callback of process_events is ever given what an empty queue is read as.
THEOREM TypeCorrect == Spec => []TypeOK
<1>1. Spec => []IInv
  BY InitIInv, NextIInv, PTL DEF Spec
<1> QED BY <1>1, PTL DEF IInv

\* Types, and the message that is taken off belongs to the event that was read.
THEOREM ReadIsFrontAlways == Spec => [](TypeOK /\ ReadIsFront)
<1>1. Spec => []IInv
  BY InitIInv, NextIInv, PTL DEF Spec
<1> QED BY <1>1, PTL DEF IInv

-----------------------------------------------------------------------------
\* Taking an event off is a Handle step of EventDispatch, storing one is a Store
\* step, and every other step is invisible to it.
LEMMA StepRefines == IInv /\ [Next]_vars => [Abstract!Next]_(Abstract!vars)
<1> SUFFICES ASSUME IInv, [Next]_vars
             PROVE  Abstract!Next \/ UNCHANGED Abstract!vars
  OBVIOUS
<1> USE DEF Abstract!Next, Abstract!vars
<1>1. ASSUME NEW em \in EventMessage, store_eventmessage(em)
      PROVE  Abstract!Store
  BY <1>1 DEF store_eventmessage, Abstract!Store, EventMessage,
              Abstract!EventMessage
<1>2. CASE eventmsg_empty
  BY <1>2 DEF eventmsg_empty
<1>3. CASE read_latest_event
  BY <1>3 DEF read_latest_event
<1>4. CASE get_eventmessage
  <2>1. /\ eventmsg_queue # <<>>
        /\ event = Head(eventmsg_queue).event
        /\ Head(eventmsg_queue) \in EventMessage
    BY <1>4, HeadAndTail DEF get_eventmessage, IInv, TypeOK, ReadIsFront
  <2>2. [event |-> event, message |-> Front] = Head(eventmsg_queue)
    BY <2>1 DEF Front, EventMessage
  <2>3. Abstract!Handle
    BY <1>4, <2>1, <2>2 DEF get_eventmessage, WithFrontPopped, Abstract!Handle
  <2> QED BY <2>3
<1>5. CASE trigger_event
  BY <1>5 DEF trigger_event
<1>6. CASE UNCHANGED vars
  BY <1>6 DEF vars
<1> QED BY <1>1, <1>2, <1>3, <1>4, <1>5, <1>6 DEF Next, process_events

\* process_events, in its three critical sections, implements the atomic dispatch
\* of EventDispatch.
THEOREM ImplementsEventDispatch == Spec => RefinesEventDispatch
<1>1. Init => Abstract!Init
  BY DEF Init, Abstract!Init
<1>2. Spec => []IInv
  BY InitIInv, NextIInv, PTL DEF Spec
<1> QED BY <1>1, <1>2, StepRefines, PTL DEF Spec, RefinesEventDispatch, Abstract!Spec
=============================================================================
