------------------------------ MODULE RoundTrip ------------------------------
(***************************************************************************)
(* The programs as a whole: the frequencies of a text's letters, the       *)
(* Huffman tree, its codes and its description, then one of the three      *)
(* coders and the program decompress (CodedFile), which rebuilds the tree. *)
(***************************************************************************)
EXTENDS CodedFile, Huffman

VARIABLES
    freq,   \* frequencies
    heap,   \* the heap of subtrees
    stage   \* "count", "heap", "merge" or "code"

huffmanVars == <<freq, heap, stage>>
vars == <<codedVars, huffmanVars>>

Init ==
    /\ CodedInit
    /\ freq = <<>> /\ heap = <<>> /\ stage = "count"

-----------------------------------------------------------------------------
(* Huffman coding *)

Count ==
    /\ stage = "count"
    /\ freq' = prepare_frequencies(text \o tail)
    /\ stage' = "heap"
    /\ UNCHANGED <<codedVars, heap>>

CreateHeap ==
    /\ stage = "heap"
    /\ heap' = create_HF_Heap(freq)
    /\ stage' = "merge"
    /\ UNCHANGED <<codedVars, freq>>

MergeTwo ==
    /\ stage = "merge" /\ Len(heap) > 1
    /\ heap' = Merge(heap)
    /\ UNCHANGED <<codedVars, freq, stage>>

\* The tree is complete: its codes and its description.
HuffmanCodes ==
    /\ stage = "merge" /\ Len(heap) = 1
    /\ CodesReady(get_codes(heap[1]), HF_tree_to_string(heap[1]))
    /\ stage' = "code"
    /\ UNCHANGED <<freq, heap>>

-----------------------------------------------------------------------------
(* The coder and decompress *)

Code ==
    /\ Encode \/ DeliverSoft \/ DeliverHard
    /\ UNCHANGED huffmanVars

Rebuilding ==
    /\ Open(get_codes(rebuild_tree(tree_string)))
    /\ UNCHANGED <<coderVars, tail, tree, huffmanVars>>

Decompressing ==
    /\ Decode
    /\ UNCHANGED huffmanVars

Next ==
    \/ Count \/ CreateHeap \/ MergeTwo \/ HuffmanCodes
    \/ Code \/ Rebuilding \/ Decompressing

Spec == Init /\ [][Next]_vars

\* The loops run on.
FairSpec == Spec /\ WF_vars(Code) /\ WF_vars(Decompressing)

-----------------------------------------------------------------------------
(* Properties of the Huffman coding *)

\* The lengths a prefix code can have, by Kraft's inequality.
KraftLengths ==
    {len \in [1 .. NLetters -> 1 .. MaxCode] :
        MapThenSumSet(LAMBDA l : 2 ^ (MaxCode - len[l]), 1 .. NLetters)
            <= 2 ^ MaxCode}

Bill(len) == MapThenSumSet(LAMBDA l : freq[l] * len[l], 1 .. NLetters)

\* No prefix code encodes a text with these frequencies in fewer bits.
Optimal ==
    codes # <<>> =>
        LET own == Bill([l \in 1 .. NLetters |-> Len(codes[data[l]])])
        IN  \A len \in KraftLengths : own <= Bill(len)

\* No code is the beginning of another and none is longer than a tree of all
\* letters is deep: what the coders' buffers and the decoder rely on
\* (huffman.h:155-179).
GoodCodes == codes # <<>> => codes \in CodeTables /\ PrefixCode(codes)

\* Both loops end, decompress's while(matches) too: no code is empty
\* (handlers.c:200-221, decompress.c:58-78).
LoopsEnd ==
    /\ coder = "run" ~> coder # "run"
    /\ decoder \in {"read", "match"} ~> decoder \in {"done", "runaway"}
=============================================================================
