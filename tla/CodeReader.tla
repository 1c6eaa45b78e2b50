------------------------------ MODULE CodeReader ------------------------------
(***************************************************************************)
(* hw/hdl/code_reader.vhd: reads the 32-bit pointer to a code string, then *)
(* the string of '0' and '1' characters it points to.  cr is the register  *)
(* bank; each action is one rising edge.                                   *)
(*                                                                         *)
(* The four pairs RD_CODE_ADDR_i(_WAIT) are RD_CODE_ADDR(_WAIT) with       *)
(* k = i - 1.  CodeReg and Offset are one bit sequence, bits, of length    *)
(* Offset; length_o and bit_rep_o are one bit sequence, code.              *)
(***************************************************************************)
EXTENDS Integers, Sequences, Sdram

VARIABLE cr

States == {"IDLE", "RD_CODE_ADDR", "RD_CODE_ADDR_WAIT", "SET_RD_ADDR",
           "READ_WAIT", "LAST"}

Char0 == 48
Char1 == 49

Reset ==
    [state |-> "IDLE", at |-> 0, ptr |-> [i \in 0 .. 3 |-> 0], k |-> 0,
     bits |-> <<>>, done |-> FALSE, code |-> <<>>, addr |-> 0, read |-> FALSE]

Init == cr = Reset

\* The pointer assembled from the four bytes read.
CodeAddr == WordAt(cr.ptr, 0)

\* Mutant: Offset is not cleared.
Begin_KeepsBits(start, at) ==
    /\ cr.state = "IDLE" /\ start
    /\ cr' = [cr EXCEPT !.at = at, !.k = 0, !.state = "RD_CODE_ADDR"]

Begin(start, at) ==
    /\ cr.state = "IDLE" /\ start
    /\ cr' = [cr EXCEPT !.at = at, !.bits = <<>>, !.k = 0,
                        !.state = "RD_CODE_ADDR"]

Rest(start) ==
    /\ cr.state = "IDLE" /\ ~start
    /\ cr' = [cr EXCEPT !.done = FALSE, !.addr = 0, !.read = FALSE]

RdCodeAddr ==
    /\ cr.state = "RD_CODE_ADDR"
    /\ cr' = [cr EXCEPT !.addr = cr.at + cr.k, !.read = TRUE,
                        !.state = "RD_CODE_ADDR_WAIT"]

\* Mutant: a fifth pointer byte is read.
RdCodeAddrWait_Five(wait, rdata) ==
    /\ cr.state = "RD_CODE_ADDR_WAIT" /\ ~wait
    /\ cr' = [cr EXCEPT !.ptr = IF cr.k < 4 THEN [@ EXCEPT ![cr.k] = rdata] ELSE @,
                        !.read = FALSE,
                        !.k = IF cr.k < 4 THEN cr.k + 1 ELSE cr.k,
                        !.state = IF cr.k < 4 THEN "RD_CODE_ADDR"
                                  ELSE "SET_RD_ADDR"]

RdCodeAddrWait(wait, rdata) ==
    /\ cr.state = "RD_CODE_ADDR_WAIT" /\ ~wait
    /\ cr' = [cr EXCEPT !.ptr[cr.k] = rdata, !.read = FALSE,
                        !.k = IF cr.k < 3 THEN cr.k + 1 ELSE cr.k,
                        !.state = IF cr.k < 3 THEN "RD_CODE_ADDR"
                                  ELSE "SET_RD_ADDR"]

SetRdAddr ==
    /\ cr.state = "SET_RD_ADDR"
    /\ cr' = [cr EXCEPT !.addr = CodeAddr + Len(cr.bits), !.read = TRUE,
                        !.state = "READ_WAIT"]

\* A '0' or '1' is one more bit; any other character ends the code.
ReadBit(wait, rdata) ==
    /\ cr.state = "READ_WAIT" /\ ~wait /\ rdata \in {Char0, Char1}
    /\ cr' = [cr EXCEPT !.bits = Append(@, rdata - Char0), !.read = FALSE,
                        !.state = "SET_RD_ADDR"]

\* Mutant: the transition is missing.
ReadEnd_Stays(wait, rdata) ==
    /\ cr.state = "READ_WAIT" /\ ~wait /\ rdata \notin {Char0, Char1}
    /\ cr' = cr

ReadEnd(wait, rdata) ==
    /\ cr.state = "READ_WAIT" /\ ~wait /\ rdata \notin {Char0, Char1}
    /\ cr' = [cr EXCEPT !.read = FALSE, !.state = "LAST"]

\* length_o has six bits.
Last ==
    /\ cr.state = "LAST"
    /\ cr' = [cr EXCEPT !.code = SubSeq(cr.bits, 1, Len(cr.bits) % 64),
                        !.done = TRUE, !.state = "IDLE"]

Stall(wait) ==
    /\ cr.state \in {"RD_CODE_ADDR_WAIT", "READ_WAIT"} /\ wait
    /\ cr' = cr

\* One rising edge with the given input signals.
Tick(start, at, wait, rdata) ==
    \/ Begin(start, at)
    \/ Rest(start)
    \/ RdCodeAddr
    \/ RdCodeAddrWait(wait, rdata)
    \/ SetRdAddr
    \/ ReadBit(wait, rdata)
    \/ ReadEnd(wait, rdata)
    \/ Last
    \/ Stall(wait)
=============================================================================
