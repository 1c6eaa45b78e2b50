------------------------------ MODULE CodedFile ------------------------------
(***************************************************************************)
(* A text becomes an .hfc file, made by one of the three coders (compress  *)
(* of the server, the program compress, the accelerator), and a text again *)
(* by the program decompress, for whatever prefix code the Huffman coding  *)
(* comes up with.                                                          *)
(*                                                                         *)
(* This is what the coders and decompress rely on: a prefix code of all    *)
(* letters and a description from which decompress rebuilds it.  RoundTrip *)
(* puts the Huffman coding in its place and is shown to implement it.      *)
(*                                                                         *)
(* The accelerator enters as the file that hw_compress is shown to return  *)
(* (HwCompress, CompressService).  The text is read into a buffer without  *)
(* a terminator: tail is what a C string function finds behind it.         *)
(***************************************************************************)
EXTENDS SoftCoder, Decompress

CONSTANT Tails  \* what may follow the text on the heap, up to a NUL

\* '1' and the letter for each leaf, '0' for each inner node.
TreeLength == 3 * NLetters - 1

ASSUME TailsAssumption == Tails \subseteq Seq(Nat)
ASSUME CharactersAssumption ==
    \A s \in Texts \cup Tails : \A k \in 1 .. Len(s) :
        s[k] \in 1 .. 255 /\ Index(s[k]) < NLetters
\* decompress counts the bytes of a body and the letters it stores in an int.
ASSUME FileAssumption ==
    \A s \in Texts, u \in Tails :
        /\ Len(s) + Len(u) + 8 <= 2147483647
        /\ 12 + TreeLength + (MaxCode * (Len(s) + Len(u))) \div 8 + 1 <= 2147483647

VARIABLES
    tail,  \* see above
    tree   \* str_rep, the description of the tree

codedVars == <<coderVars, decoderVars, tail, tree>>

CodedInit ==
    /\ prog \in {"server", "tool", "hardware"}
    /\ text \in Texts /\ tail \in Tails
    /\ codes = <<>> /\ CoderRest /\ coder = "idle"
    /\ DecoderRest
    /\ tree = <<>>

-----------------------------------------------------------------------------
(* The code *)

\* Every letter has a code and no code is the beginning of another.
PrefixCode(table) ==
    /\ DOMAIN table = ToSet(data)
    /\ \A c, d \in DOMAIN table : c # d => ~IsPrefix(table[c], table[d])

\* The codes and their description are there and the coder begins.
CodesReady(table, description) ==
    /\ codes' = table
    /\ tree' = description
    /\ coder' = IF prog = "hardware" THEN "idle" ELSE "run"
    /\ UNCHANGED <<prog, text, pos, working, out, fed, decoderVars, tail>>

Coding ==
    /\ codes = <<>>
    /\ codes' \in CodeTables /\ PrefixCode(codes')
    /\ tree' \in Seq(Byte) /\ Len(tree') = TreeLength
    /\ CodesReady(codes', tree')

-----------------------------------------------------------------------------
(* The file *)

\* One turn of the coder's loop.
Encode ==
    /\ CoderNext
    /\ UNCHANGED <<decoderVars, tail, tree>>

\* Mutant: the header is left out of the total length.
SoftFile_NoHeader ==
    LET total == IF coder = "done" THEN Len(tree) + Len(out) ELSE 0
    IN  LittleEndian(total) \o LittleEndian(Len(tree)) \o
        LittleEndian(Len(text)) \o tree \o out

\* A tool that gave up leaves the total length zero.
SoftFile ==
    LET total == IF coder = "done" THEN 12 + Len(tree) + Len(out) ELSE 0
    IN  LittleEndian(total) \o LittleEndian(Len(tree)) \o
        LittleEndian(Len(text)) \o tree \o out

HardFile ==
    HfcFile([codes |-> [k \in 1 .. NLetters |-> codes[data[k]]],
             tree |-> tree, text |-> text \o tail])

Deliver(bytes) ==
    /\ codes # <<>> /\ decoder = "idle"
    /\ file' = bytes
    /\ decoder' = "open"
    /\ UNCHANGED <<coderVars, rebuilt, bytesRead, dwork, j, matches, stored,
                   tail, tree>>

\* A coder that met undefined behaviour delivers nothing.
DeliverSoft == coder \in {"done", "invalid"} /\ Deliver(SoftFile)
DeliverHard == prog = "hardware" /\ Deliver(HardFile)

\* decompress rebuilds the codes that made the file.
OpenFile ==
    /\ Open(codes)
    /\ UNCHANGED <<coderVars, tail, tree>>

Decode ==
    /\ DecoderLoop
    /\ UNCHANGED <<coderVars, tail, tree>>

CodedNext ==
    \/ Coding \/ Encode
    \/ DeliverSoft \/ DeliverHard
    \/ OpenFile \/ Decode

\* The Huffman coding gives the coders and decompress what they rely on: its
\* codes are a prefix code of all letters, none longer than a tree of all
\* letters is deep, and the tree that is rebuilt from its description has the
\* same codes (huffman.h:155-179, 230-259).
CodedSpec == CodedInit /\ [][CodedNext]_codedVars

-----------------------------------------------------------------------------
(* Properties *)

\* What the accelerator encodes: all it finds up to a NUL, and an 'A' for a
\* character that has no code.
HardText ==
    [k \in 1 .. Len(text \o tail) |->
        IF (text \o tail)[k] \in DOMAIN codes THEN (text \o tail)[k] ELSE 65]

\* Both strings called working_string hold their bits and a terminator, which
\* strcpy checks nowhere: the coder's the bits of seven characters left over
\* and the longest code, the decoder's what no code has matched and one byte
\* more (handlers.c:208, decompress.c:61).
BuffersFit == WorkingFits /\ Len(dwork) + 1 <= WorkingSize

\* The decompressed text is the text, whatever followed it in memory while its
\* letters were counted, and whichever of the coders made the file.
TextReturns ==
    decoder = "done" =>
        Shown = IF prog = "hardware" THEN HardText ELSE text

\* Only the file of a tool that gave up makes decompress run past its end:
\* each complete one has the length it says (decompress.c:58).
ReadsOnlyFile == decoder = "runaway" => coder = "invalid"

\* Padding can decode to letters.  They are stored behind the text, up to seven
\* of them for the coders in C and eight for the accelerator, in a buffer that
\* has one place more than the text (decompress.c:53, 71).
OverrunBounded ==
    decoder \notin {"idle", "open", "runaway"} /\ coder # "invalid" =>
        Len(stored) - uncompressed_len <= IF prog = "hardware" THEN 8 ELSE 7
=============================================================================
