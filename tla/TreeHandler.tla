------------------------------ MODULE TreeHandler ------------------------------
(***************************************************************************)
(* hw/hdl/tree_handler.vhd: copies the NUL-terminated tree description     *)
(* behind the 12-byte header of the file and writes its length into the    *)
(* header.  tree is the register bank; each action is one rising edge.     *)
(*                                                                         *)
(* The four pairs WR_LEN_i, WR_LEN_i_WAIT are the states WR_LEN and        *)
(* WR_LEN_WAIT with k = i - 1.                                             *)
(***************************************************************************)
EXTENDS Integers, Sequences, Sdram

VARIABLE tree

States == {"IDLE", "SET_RD_ADDR", "READ_WAIT", "CHECK_END", "SET_WR_ADDR",
           "WRITE_WAIT_EXTRA", "WRITE_WAIT", "INCREMENT", "WR_LEN",
           "WR_LEN_WAIT"}

Reset ==
    [state |-> "IDLE", src |-> 0, dst |-> 0, off |-> 0, char |-> 0, k |-> 0,
     done |-> FALSE, size |-> 0,
     addr |-> 0, read |-> FALSE, write |-> FALSE, data |-> 0]

Init == tree = Reset

\* write_i wins over the state machine, in every state, and holds it.
Load(write, src, dst) ==
    /\ write
    /\ tree' = [tree EXCEPT !.src = src, !.dst = dst, !.off = 0]

Idle(start) ==
    /\ tree.state = "IDLE"
    /\ tree' = [tree EXCEPT !.state = IF start THEN "SET_RD_ADDR" ELSE @,
                            !.done = FALSE]

SetRdAddr ==
    /\ tree.state = "SET_RD_ADDR"
    /\ tree' = [tree EXCEPT !.addr = tree.src + tree.off, !.read = TRUE,
                            !.state = "READ_WAIT"]

ReadWait(wait, rdata) ==
    /\ tree.state = "READ_WAIT" /\ ~wait
    /\ tree' = [tree EXCEPT !.char = rdata, !.read = FALSE,
                            !.state = "CHECK_END"]

CheckEnd ==
    /\ tree.state = "CHECK_END"
    /\ tree' = IF tree.char = 0
               THEN [tree EXCEPT !.state = "WR_LEN", !.k = 0]
               ELSE [tree EXCEPT !.state = "SET_WR_ADDR"]

\* Mutant: the header counts eight bytes.
SetWrAddr_ShortHeader ==
    /\ tree.state = "SET_WR_ADDR"
    /\ tree' = [tree EXCEPT !.addr = tree.dst + 8 + tree.off,
                            !.data = tree.char, !.write = TRUE,
                            !.state = "WRITE_WAIT_EXTRA"]

SetWrAddr ==
    /\ tree.state = "SET_WR_ADDR"
    /\ tree' = [tree EXCEPT !.addr = tree.dst + 12 + tree.off,
                            !.data = tree.char, !.write = TRUE,
                            !.state = "WRITE_WAIT_EXTRA"]

WriteWaitExtra ==
    /\ tree.state = "WRITE_WAIT_EXTRA"
    /\ tree' = [tree EXCEPT !.state = "WRITE_WAIT"]

WriteWait(wait) ==
    /\ tree.state = "WRITE_WAIT" /\ ~wait
    /\ tree' = [tree EXCEPT !.write = FALSE, !.state = "INCREMENT"]

\* Mutant: the transition is missing.
Increment_Stays ==
    /\ tree.state = "INCREMENT"
    /\ tree' = tree

Increment ==
    /\ tree.state = "INCREMENT"
    /\ tree' = [tree EXCEPT !.off = @ + 1, !.state = "SET_RD_ADDR"]

WrLen ==
    /\ tree.state = "WR_LEN"
    /\ tree' = [tree EXCEPT !.addr = tree.dst + 4 + tree.k,
                            !.data = WordByte(tree.off, tree.k),
                            !.write = TRUE, !.state = "WR_LEN_WAIT"]

WrLenWait(wait) ==
    /\ tree.state = "WR_LEN_WAIT" /\ ~wait /\ tree.k < 3
    /\ tree' = [tree EXCEPT !.write = FALSE, !.k = @ + 1, !.state = "WR_LEN"]

\* Mutant: done_o rises without waiting for the last byte.
WrLenLast_Impatient(wait) ==
    /\ tree.state = "WR_LEN_WAIT" /\ tree.k = 3
    /\ tree' = [tree EXCEPT !.write = FALSE, !.done = TRUE, !.size = tree.off,
                            !.state = "IDLE"]

WrLenLast(wait) ==
    /\ tree.state = "WR_LEN_WAIT" /\ ~wait /\ tree.k = 3
    /\ tree' = [tree EXCEPT !.write = FALSE, !.done = TRUE, !.size = tree.off,
                            !.state = "IDLE"]

\* waitrequest high: the states that wait for a transfer stay.
Stall(wait) ==
    /\ tree.state \in {"READ_WAIT", "WRITE_WAIT", "WR_LEN_WAIT"} /\ wait
    /\ tree' = tree

\* One rising edge with the given input signals.
Tick(write, src, dst, start, wait, rdata) ==
    \/ Load(write, src, dst)
    \/ /\ ~write
       /\ \/ Idle(start)
          \/ SetRdAddr
          \/ ReadWait(wait, rdata)
          \/ CheckEnd
          \/ SetWrAddr
          \/ WriteWaitExtra
          \/ WriteWait(wait)
          \/ Increment
          \/ WrLen
          \/ WrLenWait(wait)
          \/ WrLenLast(wait)
          \/ Stall(wait)
=============================================================================
