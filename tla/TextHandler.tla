------------------------------ MODULE TextHandler ------------------------------
(***************************************************************************)
(* hw/hdl/text_handler.vhd: for each character of the text, looks up its   *)
(* code through the code reader and passes it to the code writer; then     *)
(* pads, and writes the text length into the header.  text is its own      *)
(* register bank, cr and cw are those of the two entities it instantiates; *)
(* one rising edge moves all three.                                        *)
(*                                                                         *)
(* The four pairs WR_LEN_i, WR_LEN_i_WAIT are WR_LEN and WR_LEN_WAIT with  *)
(* k = i - 1.  An inactive master sees its waitrequest and its data through*)
(* a latch the multiplexer infers (364-403): latch stands for its content, *)
(* which nothing here constrains.                                          *)
(***************************************************************************)
EXTENDS Integers, Sequences, Sdram, LetterIndexer

VARIABLES text, cr, cw

CR == INSTANCE CodeReader
CW == INSTANCE CodeWriter

States == {"IDLE", "SET_RD_ADDR", "READ_WAIT", "CHECK_END", "READ_CODE",
           "READ_CODE_START", "READ_CODE_WAIT", "WRITE_CODE",
           "WRITE_CODE_WAIT", "ADD_PADDING", "WAIT_PADDING", "WR_LEN",
           "WR_LEN_WAIT"}

Muxes == {"NONE", "TEXT_HANDLER", "CODE_RD", "CODE_WR"}

Padding == [i \in 1 .. 8 |-> 0]

Reset ==
    [state |-> "IDLE", mux |-> "NONE", codes |-> 0, src |-> 0, dst |-> 0,
     hdr |-> 0, off |-> 0, char |-> 0, k |-> 0, codeAddr |-> 0,
     startCR |-> FALSE, writeCW |-> FALSE, startCW |-> FALSE, dstCW |-> 0,
     wrCode |-> <<>>, done |-> FALSE,
     addr |-> 0, read |-> FALSE, write |-> FALSE, data |-> 0]

Init == text = Reset /\ CR!Init /\ CW!Init

\* write_i wins over the state machine, in every state, and holds it.
Load(write, codes, src, dst, hdr) ==
    /\ write
    /\ text' = [text EXCEPT !.codes = codes, !.src = src, !.dst = dst,
                            !.off = 0, !.codeAddr = 0, !.hdr = hdr]

Begin(start) ==
    /\ text.state = "IDLE" /\ start
    /\ text' = [text EXCEPT !.state = "SET_RD_ADDR", !.mux = "TEXT_HANDLER",
                            !.dstCW = text.dst + 12 + text.hdr,
                            !.writeCW = TRUE]

Rest(start) ==
    /\ text.state = "IDLE" /\ ~start
    /\ text' = [text EXCEPT !.done = FALSE, !.startCR = FALSE,
                            !.writeCW = FALSE, !.startCW = FALSE]

SetRdAddr ==
    /\ text.state = "SET_RD_ADDR"
    /\ text' = [text EXCEPT !.addr = text.src + text.off, !.read = TRUE,
                            !.writeCW = FALSE, !.state = "READ_WAIT"]

ReadWait(wait, rdata) ==
    /\ text.state = "READ_WAIT" /\ ~wait
    /\ text' = [text EXCEPT !.char = rdata, !.read = FALSE,
                            !.state = "CHECK_END"]

CheckEnd ==
    /\ text.state = "CHECK_END"
    /\ text' = IF text.char = 0
               THEN [text EXCEPT !.state = "ADD_PADDING"]
               ELSE [text EXCEPT !.off = @ + 1, !.state = "READ_CODE",
                                 !.mux = "CODE_RD"]

ReadCode ==
    /\ text.state = "READ_CODE"
    /\ text' = [text EXCEPT !.codeAddr = text.codes + Index(text.char) * 4,
                            !.state = "READ_CODE_START"]

ReadCodeStart ==
    /\ text.state = "READ_CODE_START"
    /\ text' = [text EXCEPT !.startCR = TRUE, !.state = "READ_CODE_WAIT"]

ReadCodeWait ==
    /\ text.state = "READ_CODE_WAIT"
    /\ text' = IF cr.done
               THEN [text EXCEPT !.startCR = FALSE, !.state = "WRITE_CODE",
                                 !.mux = "CODE_WR", !.wrCode = cr.code]
               ELSE [text EXCEPT !.startCR = FALSE]

WriteCode ==
    /\ text.state = "WRITE_CODE"
    /\ text' = [text EXCEPT !.startCW = TRUE, !.state = "WRITE_CODE_WAIT"]

WriteCodeWait ==
    /\ text.state = "WRITE_CODE_WAIT"
    /\ text' = IF cw.done
               THEN [text EXCEPT !.startCW = FALSE, !.state = "SET_RD_ADDR",
                                 !.mux = "TEXT_HANDLER"]
               ELSE [text EXCEPT !.startCW = FALSE]

AddPadding ==
    /\ text.state = "ADD_PADDING"
    /\ text' = [text EXCEPT !.wrCode = Padding, !.startCW = TRUE,
                            !.mux = "CODE_WR", !.state = "WAIT_PADDING"]

WaitPadding ==
    /\ text.state = "WAIT_PADDING"
    /\ text' = IF cw.done
               THEN [text EXCEPT !.startCW = FALSE, !.state = "WR_LEN",
                                 !.k = 0, !.mux = "TEXT_HANDLER"]
               ELSE [text EXCEPT !.startCW = FALSE]

WrLen ==
    /\ text.state = "WR_LEN"
    /\ text' = [text EXCEPT !.addr = text.dst + 8 + text.k,
                            !.data = WordByte(text.off, text.k),
                            !.write = TRUE, !.state = "WR_LEN_WAIT"]

WrLenWait(wait) ==
    /\ text.state = "WR_LEN_WAIT" /\ ~wait
    /\ text' = IF text.k < 3
               THEN [text EXCEPT !.write = FALSE, !.k = @ + 1,
                                 !.state = "WR_LEN"]
               ELSE [text EXCEPT !.write = FALSE, !.done = TRUE,
                                 !.state = "IDLE"]

\* waitrequest high: the states that wait for a transfer stay.
Stall(wait) ==
    /\ text.state \in {"READ_WAIT", "WR_LEN_WAIT"} /\ wait
    /\ text' = text

\* The process encode_text.
EncodeText(write, codes, src, dst, hdr, start, wait, rdata) ==
    \/ Load(write, codes, src, dst, hdr)
    \/ /\ ~write
       /\ \/ Begin(start)
          \/ Rest(start)
          \/ SetRdAddr
          \/ ReadWait(wait, rdata)
          \/ CheckEnd
          \/ ReadCode
          \/ ReadCodeStart
          \/ ReadCodeWait
          \/ WriteCode
          \/ WriteCodeWait
          \/ AddPadding
          \/ WaitPadding
          \/ WrLen
          \/ WrLenWait(wait)
          \/ Stall(wait)

-----------------------------------------------------------------------------
(* The multiplexer of the three masters *)

\* What this entity drives on its own master port.
Bus ==
    CASE text.mux = "NONE" ->
            [addr |-> 0, read |-> FALSE, write |-> FALSE, data |-> 0]
      [] text.mux = "TEXT_HANDLER" ->
            [addr |-> text.addr, read |-> text.read, write |-> text.write,
             data |-> text.data]
      [] text.mux = "CODE_RD" ->
            [addr |-> cr.addr, read |-> cr.read, write |-> FALSE, data |-> 0]
      [] text.mux = "CODE_WR" ->
            [addr |-> cw.addr, read |-> FALSE, write |-> cw.write,
             data |-> cw.data]

\* What master m sees: the port's answer if it is selected, else its latch.
Seen(m, answer, latch) == IF text.mux = m THEN answer ELSE latch

\* One rising edge of the entity; answer is [wait, data] from its port.
Tick(write, codes, src, dst, hdr, start, answer, latch) ==
    /\ LET own == Seen("TEXT_HANDLER", answer, latch)
       IN  EncodeText(write, codes, src, dst, hdr, start, own.wait, own.data)
    /\ LET crd == Seen("CODE_RD", answer, latch)
       IN  CR!Tick(text.startCR, text.codeAddr, crd.wait, crd.data)
    /\ CW!Tick(text.writeCW, text.dstCW, text.startCW, text.wrCode,
               Seen("CODE_WR", answer, latch).wait)
=============================================================================
