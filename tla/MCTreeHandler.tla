---------------------------- MODULE MCTreeHandler ----------------------------
EXTENDS TreeHandlerBench

\* A description of up to three characters at 1 (and its tail at 2), preceded
\* and followed by stale bytes; the file begins at 5 or later.
Image(s) ==
    [a \in 0 .. 20 |->
        IF a \in 1 .. Len(s) THEN s[a] ELSE IF a = Len(s) + 1 THEN 0 ELSE 7]

SmallContents == {Image(<<>>), Image(<<65>>), Image(<<49, 65, 48>>)}
=============================================================================
