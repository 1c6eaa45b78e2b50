------------------------------ MODULE CodeWriter ------------------------------
(***************************************************************************)
(* hw/hdl/code_writer.vhd: packs the bits of the codes it is fed into      *)
(* bytes and writes every full byte to memory.  cw is the register bank of *)
(* the entity; each action is one rising clock edge.                       *)
(*                                                                         *)
(* WIP_Reg and WIP_Idx are one bit sequence, wip: its length is            *)
(* 63 - WIP_Idx and its first element is WIP_Reg(63).  Code and CodeLen    *)
(* are one bit sequence too.  The register bits beyond those lengths never *)
(* reach an output and are left out.                                       *)
(***************************************************************************)
EXTENDS Integers, Sequences, Sdram

VARIABLE cw

States == {"IDLE", "ADD_CODE", "WRITE_CODE", "WRITE_CODE_EXTRA_1",
           "WRITE_CODE_WAIT", "DONE"}

\* The longest code that still fits behind seven pending bits in 64.
MaxCodeLen == 57

Reset ==
    [state |-> "IDLE", code |-> <<>>, wip |-> <<>>, dst |-> 0, off |-> 0,
     done |-> FALSE, size |-> 0, addr |-> 0, write |-> FALSE, data |-> 0]

Init == cw = Reset

\* IDLE, write_i: a new destination, an empty register.
Load(write, dst) ==
    /\ cw.state = "IDLE" /\ write
    /\ cw' = [cw EXCEPT !.dst = dst, !.off = 0, !.wip = <<>>]

\* IDLE, start_i: the code is latched.  done_o keeps its value.
Accept(write, start, code) ==
    /\ cw.state = "IDLE" /\ ~write /\ start
    /\ cw' = [cw EXCEPT !.code = code, !.state = "ADD_CODE"]

\* Mutant: done_o is not taken back.
Rest_KeepsDone(write, start) ==
    /\ cw.state = "IDLE" /\ ~write /\ ~start
    /\ cw' = [cw EXCEPT !.addr = 0, !.write = FALSE, !.data = 0]

\* IDLE, no request: the outputs fall back to zero.
Rest(write, start) ==
    /\ cw.state = "IDLE" /\ ~write /\ ~start
    /\ cw' = [cw EXCEPT !.done = FALSE, !.addr = 0, !.write = FALSE, !.data = 0]

AddCode ==
    /\ cw.state = "ADD_CODE"
    /\ cw' = [cw EXCEPT !.wip = @ \o cw.code, !.state = "WRITE_CODE"]

\* Mutant: WIP_Idx < 55.
FullByte_OffByOne == Len(cw.wip) > 8

\* At least eight bits are pending: WIP_Idx < 56.
FullByte == Len(cw.wip) >= 8

\* Mutant: the offset is not added to the destination.
PutByte_NoOffset ==
    /\ cw.state = "WRITE_CODE" /\ FullByte
    /\ cw' = [cw EXCEPT !.addr = cw.dst, !.data = PackByte(cw.wip),
                        !.write = TRUE, !.state = "WRITE_CODE_EXTRA_1"]

\* The first eight pending bits are offered to the memory.
PutByte ==
    /\ cw.state = "WRITE_CODE" /\ FullByte
    /\ cw' = [cw EXCEPT !.addr = cw.dst + cw.off, !.data = PackByte(cw.wip),
                        !.write = TRUE, !.state = "WRITE_CODE_EXTRA_1"]

KeepRest ==
    /\ cw.state = "WRITE_CODE" /\ ~FullByte
    /\ cw' = [cw EXCEPT !.state = "DONE"]

\* Mutant: the transition is missing.
Extra_Stays == cw.state = "WRITE_CODE_EXTRA_1" /\ cw' = cw

\* One clock with write high in which waitrequest is not looked at.
Extra ==
    /\ cw.state = "WRITE_CODE_EXTRA_1"
    /\ cw' = [cw EXCEPT !.state = "WRITE_CODE_WAIT"]

Stall(wait) ==
    /\ cw.state = "WRITE_CODE_WAIT" /\ wait
    /\ cw' = cw

\* Mutant: the register is shifted by seven.
Written_ShiftSeven(wait) ==
    /\ cw.state = "WRITE_CODE_WAIT" /\ ~wait
    /\ cw' = [cw EXCEPT !.write = FALSE, !.off = @ + 1,
                        !.wip = SubSeq(@, 8, Len(@)), !.state = "WRITE_CODE"]

\* Mutant: waitrequest is not looked at.
Written_Impatient(wait) ==
    /\ cw.state = "WRITE_CODE_WAIT"
    /\ cw' = [cw EXCEPT !.write = FALSE, !.off = @ + 1,
                        !.wip = SubSeq(@, 9, Len(@)), !.state = "WRITE_CODE"]

Written(wait) ==
    /\ cw.state = "WRITE_CODE_WAIT" /\ ~wait
    /\ cw' = [cw EXCEPT !.write = FALSE, !.off = @ + 1,
                        !.wip = SubSeq(@, 9, Len(@)), !.state = "WRITE_CODE"]

\* Mutant: the size is the index of the last byte.
Finish_LastIndex ==
    /\ cw.state = "DONE"
    /\ cw' = [cw EXCEPT !.size = cw.off - 1, !.done = TRUE, !.state = "IDLE"]

Finish ==
    /\ cw.state = "DONE"
    /\ cw' = [cw EXCEPT !.size = cw.off, !.done = TRUE, !.state = "IDLE"]

\* One rising edge with the given input signals.
Tick(write, dst, start, code, wait) ==
    \/ Load(write, dst)
    \/ Accept(write, start, code)
    \/ Rest(write, start)
    \/ AddCode
    \/ PutByte
    \/ KeepRest
    \/ Extra
    \/ Stall(wait)
    \/ Written(wait)
    \/ Finish
=============================================================================
