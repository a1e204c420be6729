------------------------------- MODULE Texts -------------------------------
(***************************************************************************)
(* Several texts in one payload: Network::join_strings and split_string.   *)
(* A text is a sequence of characters, whatever these are: bytes where a   *)
(* connection is modelled byte by byte (Codec), whole names of cards where *)
(* only the cards matter (Messages).                                       *)
(***************************************************************************)
EXTENDS Integers, Sequences, SequencesExt

Slash == 47    \* the delimiter '/'

\* Mutant: nothing is popped off the end.
JoinStringsOpen(vec, tail) ==
  FlattenSeq([i \in 1..Len(vec) |-> vec[i] \o <<Slash>> \o tail])

\* join_strings: each text and, behind it, the C string at the address of the
\* delimiter, which goes on with whatever follows in memory up to a zero (tail);
\* then one character is popped.
JoinStrings(vec, tail) ==
  LET joined == FlattenSeq([i \in 1..Len(vec) |-> vec[i] \o <<Slash>> \o tail])
  IN  IF joined = <<>> THEN <<>> ELSE Front(joined)

\* The texts between the delimiters: a delimiter begins another text, and any other
\* character goes on with the last one.
Tokens(text) ==
  LET upTo[n \in 0..Len(text)] ==
        IF n = 0 THEN << <<>> >>
        ELSE IF text[n] = Slash THEN Append(upTo[n - 1], <<>>)
        ELSE Append(Front(upTo[n - 1]), Append(Last(upTo[n - 1]), text[n]))
  IN  upTo[Len(text)]

\* getline finds nothing behind a delimiter at the end.
WithoutLastEmpty(texts) == IF Last(texts) = <<>> THEN Front(texts) ELSE texts

\* split_string
SplitString(text) == WithoutLastEmpty(Tokens(text))
=============================================================================
