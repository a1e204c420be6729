----------------------------- MODULE MCCardGame -----------------------------
(* Small instances of CardGame: four red cards, two green cards. *)
EXTENDS CardGame

CONSTANTS r1, r2, r3, r4, g1, g2
MCRedCard == {r1, r2, r3, r4}
MCRedDeck == <<r1, r2, r3, r4>>
MCGreenCard == {g1, g2}
MCGreenDeck == <<g1, g2>>

\* In some runs there is a slash in one of the cards.
MCNoSlashes == [card \in MCRedCard |-> 0]
MCOneSlash == [card \in MCRedCard |-> IF card = r2 THEN 1 ELSE 0]

\* Behind the delimiter of join_strings is a zero; or two characters and a zero.
MCNoTail == {<<>>}
MCTail == {<<Spoiled, Spoiled>>}

\* The clients are interchangeable when all or none of them may quit.
MCSymmetry == Permutations(Client)
=============================================================================
