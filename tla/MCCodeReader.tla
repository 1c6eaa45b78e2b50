----------------------------- MODULE MCCodeReader -----------------------------
EXTENDS CodeReaderBench

\* Two table entries at 0 and 4; the strings "01" at 8 and "1" at 11, in either
\* order, and once the empty string.
Image(p, q) ==
    [a \in 0 .. 13 |->
        <<p, 0, 0, 0, q, 0, 0, 0, 48, 49, 0, 49, 0, 0>>[a + 1]]

TwoStrings == {Image(8, 11), Image(11, 8), Image(10, 9)}
=============================================================================
