------------------------------- MODULE HfcFormat -------------------------------
(***************************************************************************)
(* The .hfc file as decompress.c reads it: three little-endian words (the  *)
(* length of the file, of the tree description and of the text), the tree  *)
(* description, and the code bits of the text.  The accelerator always     *)
(* pads with eight zero bits and drops the last partial byte               *)
(* (text_handler.vhd:290-302).                                             *)
(*                                                                         *)
(* A job is what prepare_frequencies and HuffmanCodes make of a text:      *)
(* codes (one bit sequence per letter of the alphabet, in its order), tree *)
(* (the tree description) and text, both as characters.                    *)
(***************************************************************************)
EXTENDS Integers, Sequences, SequencesExt, Sdram, LetterIndexer

LittleEndian(w) == [k \in 1 .. 4 |-> WordByte(w, k - 1)]

CodeBits(job) ==
    FlattenSeq([i \in 1 .. Len(job.text) |-> job.codes[Index(job.text[i]) + 1]])

\* The whole bytes of the code bits followed by eight zero bits.
Packed(bits) ==
    LET padded == bits \o [i \in 1 .. 8 |-> 0]
    IN  [j \in 1 .. Len(padded) \div 8 |->
            PackByte(SubSeq(padded, 8 * j - 7, 8 * j))]

HfcFile(job) ==
    LET body == Packed(CodeBits(job))
    IN  LittleEndian(12 + Len(job.tree) + Len(body)) \o
        LittleEndian(Len(job.tree)) \o LittleEndian(Len(job.text)) \o
        job.tree \o body
=============================================================================
