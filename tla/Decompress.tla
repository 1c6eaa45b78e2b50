------------------------------ MODULE Decompress ------------------------------
(***************************************************************************)
(* linux_program/src/decompress.c: the program that turns an .hfc file     *)
(* back into its text.                                                     *)
(*                                                                         *)
(* The tree description is read into a buffer without room for a           *)
(* terminator.  Of 56 letters it always has 167 bytes; calloc then returns *)
(* (and clears) 168 or 172, so the string does end where the file's        *)
(* description ends, and the model lets it.                                *)
(***************************************************************************)
EXTENDS HfcFormat, Letters

VARIABLES
    file,      \* the bytes of the input file
    rebuilt,   \* the codes of the rebuilt tree
    bytesRead, \* bytes read behind the description
    dwork,     \* the bits of working_string
    j,         \* the letter to be compared
    matches,   \* whether this search found a letter
    stored,    \* all letters stored from uncompressed_string[0] on
    decoder    \* "idle", "open", "read", "match", "done" or "runaway"

decoderVars == <<file, rebuilt, bytesRead, dwork, j, matches, stored, decoder>>

DecoderRest ==
    /\ file = <<>> /\ rebuilt = <<>> /\ bytesRead = 0
    /\ dwork = <<>> /\ j = 0 /\ matches = FALSE /\ stored = <<>>
    /\ decoder = "idle"

-----------------------------------------------------------------------------
(* The file *)

HeaderWord(k) == WordAt(file, 4 * k + 1)
total_len == HeaderWord(0)
header_len == HeaderWord(1)
uncompressed_len == HeaderWord(2)

\* Mutant: the last byte is not taken for a part of the body.
BodyBytes_OneLess == total_len - 13 - header_len

BodyBytes == total_len - 12 - header_len

-----------------------------------------------------------------------------
(* The program *)

\* The description of the tree in the file.
tree_string == SubSeq(file, 13, 12 + header_len)

\* table holds the codes of the tree that is rebuilt from the description.
Open(table) ==
    /\ decoder = "open"
    /\ rebuilt' = table
    /\ decoder' = "read"
    /\ UNCHANGED <<file, bytesRead, dwork, j, matches, stored>>

ReadByte ==
    /\ decoder = "read"
    /\ bytesRead < BodyBytes /\ 12 + header_len + bytesRead < Len(file)
    /\ dwork' = dwork \o byte_to_str(file[13 + header_len + bytesRead])
    /\ bytesRead' = bytesRead + 1
    /\ decoder' = "match"
    /\ UNCHANGED <<file, rebuilt, j, matches, stored>>

\* The body is longer than the file; a total length below that of the header
\* wraps around to nearly 2^32 bytes.  fread then changes nothing and the last
\* byte is decoded again and again.
ReadBehindEnd ==
    /\ decoder = "read"
    /\ \/ BodyBytes < 0
       \/ bytesRead < BodyBytes /\ 12 + header_len + bytesRead >= Len(file)
    /\ decoder' = "runaway"
    /\ UNCHANGED <<file, rebuilt, bytesRead, dwork, j, matches, stored>>

NoMatch ==
    /\ decoder = "match" /\ j < NLetters
    /\ ~IsPrefix(rebuilt[data[j + 1]], dwork)
    /\ j' = j + 1
    /\ UNCHANGED <<file, rebuilt, bytesRead, dwork, stored, matches, decoder>>

\* Mutant: the code stays at the front of working_string.
Match_Stays ==
    /\ decoder = "match" /\ j < NLetters
    /\ IsPrefix(rebuilt[data[j + 1]], dwork)
    /\ stored' = Append(stored, data[j + 1])
    /\ matches' = TRUE
    /\ j' = j + 1
    /\ UNCHANGED <<file, rebuilt, bytesRead, dwork, decoder>>

\* The code of letter j is at the front.  The search goes on with the letters
\* behind j and what is then at the front.
Match ==
    /\ decoder = "match" /\ j < NLetters
    /\ IsPrefix(rebuilt[data[j + 1]], dwork)
    /\ stored' = Append(stored, data[j + 1])
    /\ dwork' = SubSeq(dwork, Len(rebuilt[data[j + 1]]) + 1, Len(dwork))
    /\ matches' = TRUE
    /\ j' = j + 1
    /\ UNCHANGED <<file, rebuilt, bytesRead, decoder>>

\* Mutant: the search is repeated whatever it found.
NextSearch_Forever ==
    /\ decoder = "match" /\ j = NLetters
    /\ j' = 0 /\ matches' = FALSE
    /\ UNCHANGED <<file, rebuilt, bytesRead, dwork, stored, decoder>>

\* Another search if this one found a letter.
NextSearch ==
    /\ decoder = "match" /\ j = NLetters
    /\ j' = 0 /\ matches' = FALSE
    /\ decoder' = IF matches THEN "match" ELSE "read"
    /\ UNCHANGED <<file, rebuilt, bytesRead, dwork, stored>>

Terminate ==
    /\ decoder = "read" /\ bytesRead = BodyBytes
    /\ decoder' = "done"
    /\ UNCHANGED <<file, rebuilt, bytesRead, dwork, j, matches, stored>>

DecoderLoop ==
    \/ ReadByte \/ ReadBehindEnd
    \/ NoMatch \/ Match \/ NextSearch
    \/ Terminate

\* What it prints: the letters up to the terminator behind uncompressed_len (0
\* stands for a place that was never stored to).
Shown ==
    [k \in 1 .. uncompressed_len |-> IF k <= Len(stored) THEN stored[k] ELSE 0]
=============================================================================
