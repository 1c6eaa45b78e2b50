------------------------------- MODULE Letters -------------------------------
(***************************************************************************)
(* What the programs share: the letters that have a code (the first        *)
(* NLetters of the alphabet) and bytes as strings of bits.                 *)
(***************************************************************************)
EXTENDS LetterIndexer

CONSTANT NLetters  \* letters of the alphabet (56 in the source)

ASSUME NLettersAssumption == NLetters \in 2 .. 56

data == SubSeq(letters, 1, NLetters)

\* The eight bits of a byte, the most significant first.
byte_to_str(b) ==
    [k \in 1 .. 8 |-> (b \div <<128, 64, 32, 16, 8, 4, 2, 1>>[k]) % 2]
=============================================================================
