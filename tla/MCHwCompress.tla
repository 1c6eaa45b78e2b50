----------------------------- MODULE MCHwCompress -----------------------------
EXTENDS HwCompress

\* An alphabet of two letters, 'A' and 'B', and codes of different lengths.
JobAB ==
    [codes |-> << <<0>>, <<1, 0, 1>> >>, tree |-> <<49, 48>>,
     text |-> <<65, 66>>]

\* Other codes, another tree and a text whose bits fill a byte.
JobBBB ==
    [codes |-> << <<1, 1>>, <<0, 1, 1>> >>, tree |-> <<50>>,
     text |-> <<66, 66, 65>>]

\* An empty text.
JobEmpty ==
    [codes |-> << <<0>>, <<1>> >>, tree |-> <<49>>, text |-> <<>>]

TwoJobs == {JobAB, JobBBB}
AllJobs == {JobAB, JobBBB, JobEmpty}
OneJob == {JobAB}

\* Whatever the latches hold: an answer or none, with a data byte that is a NUL
\* or a code character.
AnyLatch == [wait : BOOLEAN, data : {0, 49}]

\* The latches closed while waitrequest was high.
BusyLatch == {[wait |-> TRUE, data |-> 0]}

NoTail == {<<>>}

\* A stray 'B' behind the text, or nothing.
StrayTail == {<<>>, <<66>>}
=============================================================================
