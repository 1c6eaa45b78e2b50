----------------------------- MODULE MCCodeWriter -----------------------------
EXTENDS CodeWriterBench

\* An empty code, one of seven bits, which leaves every number of bits over in
\* turn, and the longest one the register can take behind seven left-over bits.
SomeCodes ==
    {<<>>, <<1, 0, 0, 1, 0, 1, 1>>,
     [i \in 1 .. MaxCodeLen |-> (i \div 3) % 2]}
=============================================================================
