------------------------------- MODULE Encoder -------------------------------
(***************************************************************************)
(* hw/hdl/encoder.vhd: the accelerator.  ctl is the register bank of the   *)
(* slave process ctrl, enc the one of the process encode, which runs the   *)
(* tree handler, then the text handler, then writes the total length; tree,*)
(* text, cr and cw are the register banks of the entities below it.  One   *)
(* rising edge (Tick) moves all of them.                                   *)
(*                                                                         *)
(* Control is the set of the numbers of its bits that are one; Status is   *)
(* its bit 0.  WR_TOTAL_LEN_i(_WAIT) are WR_TOTAL_LEN(_WAIT) with k = i-1. *)
(***************************************************************************)
EXTENDS Integers, Sequences, Sdram

VARIABLES ctl, enc, tree, text, cr, cw

Tree == INSTANCE TreeHandler
Text == INSTANCE TextHandler

hwVars == <<ctl, enc, tree, text, cr, cw>>

States == {"IDLE", "TREE_WR_INPUT", "TREE_START", "TREE_WAIT",
           "TEXT_WR_INPUT", "TEXT_START", "TEXT_WAIT",
           "WR_TOTAL_LEN", "WR_TOTAL_LEN_WAIT"}

Muxes == {"NONE", "OWN", "TREE", "TXT"}

\* The slave's register numbers.
CODES == 0
TREE_STR == 1
TEXT_SRC == 2
DST == 3
CONTROL == 4
STATUS == 5

Reset ==
    [state |-> "IDLE", mux |-> "NONE", writeTree |-> FALSE,
     startTree |-> FALSE, writeText |-> FALSE, startText |-> FALSE,
     total |-> 0, k |-> 0, done |-> FALSE,
     addr |-> 0, write |-> FALSE, data |-> 0]

\* After the board's reset pulse; the pulse leaves reset = 1 for one clock.
Init ==
    /\ ctl = [reg |-> [r \in CODES .. DST |-> 0], control |-> {},
              status |-> FALSE, rdata |-> FALSE, start |-> FALSE, reset |-> TRUE]
    /\ enc = Reset
    /\ Tree!Init
    /\ Text!Init

-----------------------------------------------------------------------------
(* The process ctrl *)

NoOp == [op |-> "none", reg |-> 0, val |-> 0]
Write(reg, val) == [op |-> "write", reg |-> reg, val |-> val]
ReadStatus == [op |-> "read", reg |-> STATUS, val |-> 0]

\* Control as the slave access and the two pulses leave it: reset is served
\* first, and a value written in this clock loses the bit that is served.
NextControl(slv) ==
    LET written == IF slv.op = "write" /\ slv.reg = CONTROL
                   THEN slv.val ELSE ctl.control
    IN  IF ctl.reset THEN {}
        ELSE IF 0 \in ctl.control THEN written \ {0}
        ELSE IF 1 \in ctl.control THEN written \ {1}
        ELSE written

\* Mutant: neither reset nor start clears Status.
NextStatus_Sticky == enc.done \/ ctl.status

NextStatus ==
    \/ enc.done
    \/ ctl.status /\ ~ctl.reset /\ ~(0 \notin ctl.control /\ 1 \in ctl.control)

\* Mutant: the default assignment reset <= '0' is missing.
Ctrl_StickyReset(slv) ==
    ctl' = [reg |-> IF slv.op = "write" /\ slv.reg \in CODES .. DST
                    THEN [ctl.reg EXCEPT ![slv.reg] = slv.val] ELSE ctl.reg,
            control |-> NextControl(slv),
            status  |-> NextStatus,
            rdata   |-> IF slv.op = "read" THEN ctl.status ELSE ctl.rdata,
            start   |-> 0 \notin ctl.control /\ 1 \in ctl.control,
            reset   |-> ctl.reset \/ 0 \in ctl.control]

Ctrl(slv) ==
    ctl' = [reg |-> IF slv.op = "write" /\ slv.reg \in CODES .. DST
                    THEN [ctl.reg EXCEPT ![slv.reg] = slv.val] ELSE ctl.reg,
            control |-> NextControl(slv),
            status  |-> NextStatus,
            rdata   |-> IF slv.op = "read" THEN ctl.status ELSE ctl.rdata,
            start   |-> 0 \notin ctl.control /\ 1 \in ctl.control,
            reset   |-> 0 \in ctl.control]

-----------------------------------------------------------------------------
(* The process encode *)

\* The reset pulse: only the state goes back, nothing else does.
ResetState ==
    /\ ctl.reset
    /\ enc' = [enc EXCEPT !.state = "IDLE"]

Idle ==
    /\ enc.state = "IDLE"
    /\ enc' = [enc EXCEPT !.state = IF ctl.start THEN "TREE_WR_INPUT" ELSE @,
                          !.done = FALSE]

TreeWrInput ==
    /\ enc.state = "TREE_WR_INPUT"
    /\ enc' = [enc EXCEPT !.writeTree = TRUE, !.state = "TREE_START"]

\* Mutant: the bus is not switched.
TreeStart_NoMux ==
    /\ enc.state = "TREE_START"
    /\ enc' = [enc EXCEPT !.writeTree = FALSE, !.startTree = TRUE,
                          !.state = "TREE_WAIT"]

TreeStart ==
    /\ enc.state = "TREE_START"
    /\ enc' = [enc EXCEPT !.mux = "TREE", !.writeTree = FALSE,
                          !.startTree = TRUE, !.state = "TREE_WAIT"]

TreeWait ==
    /\ enc.state = "TREE_WAIT"
    /\ enc' = IF tree.done
              THEN [enc EXCEPT !.startTree = FALSE, !.state = "TEXT_WR_INPUT",
                               !.mux = "TXT"]
              ELSE [enc EXCEPT !.startTree = FALSE]

TextWrInput ==
    /\ enc.state = "TEXT_WR_INPUT"
    /\ enc' = [enc EXCEPT !.writeText = TRUE, !.state = "TEXT_START"]

TextStart ==
    /\ enc.state = "TEXT_START"
    /\ enc' = [enc EXCEPT !.writeText = FALSE, !.startText = TRUE,
                          !.state = "TEXT_WAIT"]

\* Mutant: the header is left out of the total.
TextWait_NoHeader ==
    /\ enc.state = "TEXT_WAIT"
    /\ enc' = IF text.done
              THEN [enc EXCEPT !.startText = FALSE, !.mux = "OWN",
                               !.state = "WR_TOTAL_LEN", !.k = 0,
                               !.total = tree.size + cw.size]
              ELSE [enc EXCEPT !.startText = FALSE]

TextWait ==
    /\ enc.state = "TEXT_WAIT"
    /\ enc' = IF text.done
              THEN [enc EXCEPT !.startText = FALSE, !.mux = "OWN",
                               !.state = "WR_TOTAL_LEN", !.k = 0,
                               !.total = 12 + tree.size + cw.size]
              ELSE [enc EXCEPT !.startText = FALSE]

WrTotalLen ==
    /\ enc.state = "WR_TOTAL_LEN"
    /\ enc' = [enc EXCEPT !.addr = ctl.reg[DST] + enc.k,
                          !.data = WordByte(enc.total, enc.k),
                          !.write = TRUE, !.state = "WR_TOTAL_LEN_WAIT"]

\* Mutant: the bus is kept at the end.
WrTotalLenWait_KeepsMux(wait) ==
    /\ enc.state = "WR_TOTAL_LEN_WAIT" /\ ~wait
    /\ enc' = IF enc.k < 3
              THEN [enc EXCEPT !.write = FALSE, !.k = @ + 1,
                               !.state = "WR_TOTAL_LEN"]
              ELSE [enc EXCEPT !.write = FALSE, !.state = "IDLE",
                               !.done = TRUE]

WrTotalLenWait(wait) ==
    /\ enc.state = "WR_TOTAL_LEN_WAIT" /\ ~wait
    /\ enc' = IF enc.k < 3
              THEN [enc EXCEPT !.write = FALSE, !.k = @ + 1,
                               !.state = "WR_TOTAL_LEN"]
              ELSE [enc EXCEPT !.write = FALSE, !.state = "IDLE",
                               !.done = TRUE, !.mux = "NONE"]

Stall(wait) ==
    /\ enc.state = "WR_TOTAL_LEN_WAIT" /\ wait
    /\ enc' = enc

Encode(wait) ==
    \/ ResetState
    \/ /\ ~ctl.reset
       /\ \/ Idle
          \/ TreeWrInput
          \/ TreeStart
          \/ TreeWait
          \/ TextWrInput
          \/ TextStart
          \/ TextWait
          \/ WrTotalLen
          \/ WrTotalLenWait(wait)
          \/ Stall(wait)

-----------------------------------------------------------------------------
(* The multiplexer of the three masters, and the entity *)

\* What the encoder drives on its Avalon master port.
Bus ==
    CASE enc.mux = "NONE" ->
            [addr |-> 0, read |-> FALSE, write |-> FALSE, data |-> 0]
      [] enc.mux = "OWN" ->
            [addr |-> enc.addr, read |-> FALSE, write |-> enc.write,
             data |-> enc.data]
      [] enc.mux = "TREE" ->
            [addr |-> tree.addr, read |-> tree.read, write |-> tree.write,
             data |-> tree.data]
      [] enc.mux = "TXT" -> Text!Bus

Seen(m, answer, latch) == IF enc.mux = m THEN answer ELSE latch

\* One rising edge: slv is the access on the slave port, answer is the memory's
\* [wait, data], latch what the unselected masters see.
Tick(slv, answer, latch) ==
    /\ Ctrl(slv)
    /\ Encode(Seen("OWN", answer, latch).wait)
    /\ LET seen == Seen("TREE", answer, latch)
       IN  Tree!Tick(enc.writeTree, ctl.reg[TREE_STR], ctl.reg[DST],
                     enc.startTree, seen.wait, seen.data)
    /\ Text!Tick(enc.writeText, ctl.reg[CODES], ctl.reg[TEXT_SRC],
                 ctl.reg[DST], tree.size, enc.startText,
                 Seen("TXT", answer, latch), latch)
=============================================================================
