-------------------------------- MODULE Sdram --------------------------------
(***************************************************************************)
(* The FPGA's SDRAM as the encoder and the Linux driver use it: a byte     *)
(* array, little-endian 32-bit words, NUL-terminated strings and the       *)
(* Avalon memory-mapped rule for when a transfer happens.                  *)
(* Source: linux_program/src/hardware.c and the Avalon ports of hw/hdl.    *)
(***************************************************************************)
EXTENDS Integers, Sequences

Bit  == {0, 1}
Byte == 0..255
Bits == Seq(Bit)

\* Byte k (0 is the least significant) of a 32-bit word.
WordByte(w, k) == (w \div <<1, 256, 65536, 16777216>>[k + 1]) % 256

\* The 32-bit little-endian word at address a.
WordAt(m, a) ==
    m[a] + 256 * m[a + 1] + 65536 * m[a + 2] + 16777216 * m[a + 3]

\* The memory after the word w is stored at address a (alt_write_word).
PutWord(m, a, w) ==
    [x \in DOMAIN m |-> IF x \in a .. a + 3 THEN WordByte(w, x - a) ELSE m[x]]

\* The bytes of m from address a on, n of them.
Bytes(m, a, n) == [i \in 1 .. n |-> m[a + i - 1]]

\* Length of the NUL-terminated string at address a (str_len_mem).
StrLen(m, a) ==
    CHOOSE n \in DOMAIN m : m[a + n] = 0 /\ \A i \in 0 .. n - 1 : m[a + i] # 0

\* The memory after the string s and its NUL are stored at address a
\* (copy_str_to_mem).
PutStr(m, a, s) ==
    [x \in DOMAIN m |-> IF x \in a .. a + Len(s) - 1 THEN s[x - a + 1]
                        ELSE IF x = a + Len(s) THEN 0
                        ELSE m[x]]

\* What a read of address a returns; memory beyond the modelled part is zero.
Fetch(m, a) == IF a \in DOMAIN m THEN m[a] ELSE 0

\* Eight bits, most significant first, as a byte.
PackByte(b) ==
    128 * b[1] + 64 * b[2] + 32 * b[3] + 16 * b[4] + 8 * b[5] + 4 * b[6]
      + 2 * b[7] + b[8]

\* A write transfer completes at a clock edge with write high and waitrequest
\* low, and then stores one byte; otherwise the memory keeps its contents.
Commit(m, write, wait, addr, data) ==
    IF write /\ ~wait THEN [m EXCEPT ![addr] = data] ELSE m
=============================================================================
