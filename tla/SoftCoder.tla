------------------------------ MODULE SoftCoder ------------------------------
(***************************************************************************)
(* The loop that packs the codes of a text into bytes, in compress of      *)
(* linux_program/src/handlers.c and in linux_program/src/compress.c.       *)
(*                                                                         *)
(* working is the C string working_string (its length is offset), a buffer *)
(* of WorkingSize characters that is never checked.                        *)
(***************************************************************************)
EXTENDS Sdram

CONSTANTS
    Texts,        \* the texts to encode
    CodeTables,   \* the codes: functions from the letters to bits
    MaxCode,      \* the longest code (55 in the source, a tree of 56 leaves)
    WorkingSize   \* characters of working_string (64 in the source)

ASSUME TextsAssumption == Texts \subseteq Seq(Nat)
ASSUME CodeTablesAssumption ==
    \A table \in CodeTables :
        \A c \in DOMAIN table : table[c] \in Bits /\ Len(table[c]) <= MaxCode
ASSUME WorkingAssumption ==
    /\ MaxCode \in Nat /\ WorkingSize \in Nat
    /\ MaxCode + 8 <= WorkingSize

VARIABLES
    prog,     \* "server", or "tool" for the program compress
    text,     \* the file_size bytes of the input
    codes,    \* the code table
    pos,      \* characters encoded
    working,  \* the bits not yet written
    out,      \* the bytes written
    fed,      \* history: all the bits put into working
    coder     \* "idle", "run", or how it ended: "done", "invalid", "fault"

coderVars == <<prog, text, codes, pos, working, out, fed, coder>>
inputVars == <<prog, text, codes>>

CoderRest ==
    /\ pos = 0 /\ working = <<>> /\ out = <<>> /\ fed = <<>>

CoderInit ==
    /\ prog \in {"server", "tool"}
    /\ text \in Texts
    /\ codes \in CodeTables
    /\ CoderRest
    /\ coder = "run"

-----------------------------------------------------------------------------
(* The loop *)

\* Mutant: the next code is added while whole bytes are pending.
AddCode_Eager ==
    /\ coder = "run" /\ pos < Len(text)
    /\ text[pos + 1] \in DOMAIN codes
    /\ working' = working \o codes[text[pos + 1]]
    /\ fed' = fed \o codes[text[pos + 1]]
    /\ pos' = pos + 1
    /\ UNCHANGED <<inputVars, out, coder>>

\* The code of the next character is put behind the pending bits.
AddCode ==
    /\ coder = "run" /\ Len(working) < 8 /\ pos < Len(text)
    /\ text[pos + 1] \in DOMAIN codes
    /\ working' = working \o codes[text[pos + 1]]
    /\ fed' = fed \o codes[text[pos + 1]]
    /\ pos' = pos + 1
    /\ UNCHANGED <<inputVars, out, coder>>

\* A character that has no code: the tool gives up, the server reads the code
\* behind the table's end and its further behaviour is undefined.
Outside ==
    /\ coder = "run" /\ Len(working) < 8 /\ pos < Len(text)
    /\ text[pos + 1] \notin DOMAIN codes
    /\ coder' = IF prog = "tool" THEN "invalid" ELSE "fault"
    /\ UNCHANGED <<inputVars, pos, working, out, fed>>

\* Mutant: the byte is made of what is left over.
OutByte_AfterShift ==
    /\ coder = "run" /\ Len(working) >= 8
    /\ working' = SubSeq(working, 9, Len(working))
    /\ out' = Append(out, PackByte(working' \o working))
    /\ UNCHANGED <<inputVars, pos, fed, coder>>

\* The first eight characters become a byte and the rest is moved up.
OutByte ==
    /\ coder = "run" /\ Len(working) >= 8
    /\ out' = Append(out, PackByte(working))
    /\ working' = SubSeq(working, 9, Len(working))
    /\ UNCHANGED <<inputVars, pos, fed, coder>>

\* Bits left over are padded: behind their end str_to_byte finds no '1'.
Finish ==
    /\ coder = "run" /\ Len(working) < 8 /\ pos = Len(text)
    /\ out' = IF working = <<>> THEN out
              ELSE Append(out, PackByte(working \o [k \in 1 .. 8 |-> 0]))
    /\ coder' = "done"
    /\ UNCHANGED <<inputVars, pos, working, fed>>

CoderNext == AddCode \/ Outside \/ OutByte \/ Finish

CoderSpec == CoderInit /\ [][CoderNext]_coderVars

-----------------------------------------------------------------------------
(* Properties *)

CoderTypeOK ==
    /\ prog \in {"server", "tool"}
    /\ text \in Texts
    /\ codes \in CodeTables
    /\ pos \in 0 .. Len(text)
    /\ working \in Bits /\ fed \in Bits
    /\ out \in Seq(Byte)
    /\ coder \in {"run", "done", "invalid", "fault"}

\* The bits of seven characters left over, the longest code and a terminator
\* fit into working_string, which strcpy does not check (handlers.c:208).
WorkingFits == Len(working) + 1 <= WorkingSize

\* No bit of a code is lost, repeated or moved: what is pending is exactly what
\* was fed and is not yet written (handlers.c:208-219).
BitsKept ==
    coder # "done" =>
        /\ 8 * Len(out) + Len(working) = Len(fed)
        /\ \A k \in 1 .. Len(working) : working[k] = fed[8 * Len(out) + k]

\* The stream, with the zeros behind its end.
StreamBit(k) == IF k <= Len(fed) THEN fed[k] ELSE 0

\* Every byte written packs its own eight bits of the stream, the last one
\* with zeros behind the end (handlers.c:213-228).
BytesPacked ==
    \A k \in 1 .. Len(out) :
        out[k] = PackByte([i \in 1 .. 8 |-> StreamBit(8 * (k - 1) + i)])

\* When the loop ends normally the bytes cover the whole stream, and less than
\* a byte more.
AllWritten ==
    coder = "done" => 8 * Len(out) - Len(fed) \in 0 .. 7
=============================================================================
