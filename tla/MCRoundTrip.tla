----------------------------- MODULE MCRoundTrip -----------------------------
EXTENDS RoundTrip

\* Every text of up to three characters, one of them ('0') without a code, and
\* texts that are skewed so that the tree is as deep as it can be.
Alphabet == {65, 66, 67, 68}
ShortTexts ==
    UNION {[1 .. n -> Alphabet \cup {48}] : n \in 0 .. 3}
      \cup UNION {[1 .. 4 -> {65, 67, 68}]}
SkewedTexts ==
    { <<68, 68, 68, 68, 67, 67, 66>>, <<65, 65, 65, 65, 66, 66, 67>>,
      <<65, 66, 67, 68, 65, 66, 67, 68>>, <<67, 65, 65, 65, 66, 66, 65, 65>> }
SomeTexts == ShortTexts \cup SkewedTexts

\* Nothing, letters that change the frequencies, and one without a code.
SomeTails == { <<>>, <<66, 66, 66>>, <<68, 48>> }

\* The codes of four letters a tree can give.
AllTables ==
    [Alphabet -> UNION {[1 .. n -> Bit] : n \in 1 .. 3}]
=============================================================================
