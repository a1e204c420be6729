--------------------------- MODULE MessageStream ---------------------------
(***************************************************************************)
(* What a connection promises in terms of messages, seen from one end: the *)
(* messages come in the order they were written, and a read that begins at *)
(* the beginning of a message and has all of it is decoded as that message *)
(* (spoiled, if the read goes on into the next).  Of any other read        *)
(* nothing is promised, not even that the process survives it.             *)
(*                                                                         *)
(* Network takes reads to begin and end with a message: that is            *)
(* ReadMessages with split = FALSE.                                        *)
(***************************************************************************)
EXTENDS Integers, Sequences

CONSTANTS Message,
          Garbled    \* what a read is decoded as of which nothing is promised

VARIABLES sent,      \* the messages written, in order
          taken,     \* how many of them have been read to their end
          split,     \* the one after these has been read in part
          got,       \* what the last read was decoded as
          alive      \* the process that reads

vars == <<sent, taken, split, got, alive>>

\* A message as it is decoded: with the payload it was sent with, or spoiled.
Decoded == [msg : Message, spoiled : BOOLEAN]

Init ==
  /\ sent = <<>>
  /\ taken = 0
  /\ split = FALSE
  /\ got = Garbled
  /\ alive = TRUE

Write(msg) ==
  /\ alive
  /\ sent' = Append(sent, msg)
  /\ UNCHANGED <<taken, split, got, alive>>

ReadMessages ==
  /\ alive
  /\ ~split
  /\ taken' \in taken + 1 .. Len(sent)
  /\ split' \in IF taken' = Len(sent) THEN {FALSE} ELSE BOOLEAN
  /\ got' = [msg |-> sent[taken + 1], spoiled |-> taken' > taken + 1 \/ split']
  /\ UNCHANGED <<sent, alive>>

ReadParts ==
  /\ alive
  /\ taken' \in taken .. Len(sent)
  /\ split' \in IF taken' = Len(sent) THEN {FALSE} ELSE BOOLEAN
  /\ split \/ (taken' = taken /\ split')
  /\ got' = Garbled
  /\ alive' \in BOOLEAN
  /\ UNCHANGED sent

Next == (\E msg \in Message : Write(msg)) \/ ReadMessages \/ ReadParts

Spec == Init /\ [][Next]_vars
=============================================================================
