--------------------------- MODULE HwCompressProofs ---------------------------
(***************************************************************************)
(* Theorems about HwCompress: the driver of hardware.c, the encoder's six  *)
(* state machines and the bus between them, for any alphabet, jobs, tails, *)
(* memory and number of requests, and for every behaviour of waitrequest   *)
(* and of the latches.                                                     *)
(*                                                                         *)
(* The first half is about control: who works, who waits for whom, and who *)
(* has the bus (Control).  The second half is about data: what the driver  *)
(* has put into the memory, what each machine has read and written, and    *)
(* that the file is the one CompressService promises (Data).               *)
(***************************************************************************)
EXTENDS HwCompress, BitLemmas, TLAPS

-----------------------------------------------------------------------------
(* Control: who works, who waits for whom, and who has the bus *)

\* One request at a time, as the driver is written for: one thread, and no
\* restart that leaves the accelerator at work.  An access over the bridge of
\* the two chips takes longer than the three clocks in which a pulse on
\* start or reset gets through.
Undisturbed ==
    /\ \E t : Threads = {t}
    /\ MaxCrashes = 0
    /\ MinGap >= 3

ThreadVars == {"pc", "i", "job", "text", "total", "file"}

\* The registers of each bank.
CtlRegs == {"reg", "control", "status", "rdata", "start", "reset"}
EncRegs == {"state", "mux", "writeTree", "startTree", "writeText", "startText",
            "total", "k", "done", "addr", "write", "data"}
TreeRegs == {"state", "src", "dst", "off", "char", "k", "done", "size", "addr",
             "read", "write", "data"}
TextRegs == {"state", "mux", "codes", "src", "dst", "hdr", "off", "char", "k",
             "codeAddr", "startCR", "writeCW", "startCW", "dstCW", "wrCode",
             "done", "addr", "read", "write", "data"}
CRRegs == {"state", "at", "ptr", "k", "bits", "done", "code", "addr", "read"}
CWRegs == {"state", "code", "wip", "dst", "off", "done", "size", "addr",
           "write", "data"}

TreeResting == tree.state = "IDLE" /\ ~tree.done
TreeBusy == tree.state # "IDLE" /\ ~tree.done
TreeDone == tree.state = "IDLE" /\ tree.done

CRResting == cr.state = "IDLE" /\ ~cr.done
CRBusy == cr.state # "IDLE" /\ ~cr.done
CRDone == cr.state = "IDLE" /\ cr.done

CWResting == cw.state = "IDLE" /\ ~cw.done
CWBusy == cw.state # "IDLE" /\ ~cw.done
CWDone == cw.state = "IDLE" /\ cw.done

TextResting == text.state = "IDLE" /\ ~text.done
TextBusy == text.state # "IDLE" /\ ~text.done
TextDone == text.state = "IDLE" /\ text.done

TreeShape ==
    /\ DOMAIN tree = TreeRegs
    /\ tree.state \in Hw!Tree!States
    /\ tree.read \in BOOLEAN /\ (tree.read <=> tree.state = "READ_WAIT")
    /\ tree.write \in BOOLEAN /\ (tree.write <=> tree.state \in {"WRITE_WAIT_EXTRA", "WRITE_WAIT", "WR_LEN_WAIT"})
    /\ tree.k \in 0 .. 3
    /\ tree.done \in BOOLEAN /\ (tree.done => tree.state = "IDLE")

CRShape ==
    /\ DOMAIN cr = CRRegs
    /\ cr.state \in Hw!Text!CR!States
    /\ cr.read \in BOOLEAN /\ (cr.read <=> cr.state \in {"RD_CODE_ADDR_WAIT", "READ_WAIT"})
    /\ cr.k \in 0 .. 3
    /\ cr.done \in BOOLEAN /\ (cr.done => cr.state = "IDLE")

CWShape ==
    /\ DOMAIN cw = CWRegs
    /\ cw.state \in Hw!Text!CW!States
    /\ cw.write \in BOOLEAN /\ (cw.write <=> cw.state \in {"WRITE_CODE_EXTRA_1", "WRITE_CODE_WAIT"})
    /\ cw.done \in BOOLEAN /\ (cw.done => cw.state = "IDLE")

\* The text handler has the bus where it transfers, and has given it to the
\* entity it waits for elsewhere.
TextShape ==
    /\ DOMAIN text = TextRegs
    /\ text.state \in Hw!Text!States /\ text.mux \in Hw!Text!Muxes
    /\ text.read \in BOOLEAN /\ (text.read <=> text.state = "READ_WAIT")
    /\ text.write \in BOOLEAN /\ (text.write <=> text.state = "WR_LEN_WAIT")
    /\ text.k \in 0 .. 3
    /\ text.done \in BOOLEAN /\ (text.done => text.state = "IDLE")
    /\ text.startCR \in BOOLEAN /\ text.startCW \in BOOLEAN /\ text.writeCW \in BOOLEAN
    /\ text.state \in {"SET_RD_ADDR", "READ_WAIT", "CHECK_END", "WR_LEN", "WR_LEN_WAIT"} =>
          text.mux = "TEXT_HANDLER"
    /\ text.state \in {"READ_CODE", "READ_CODE_START", "READ_CODE_WAIT"} =>
          text.mux = "CODE_RD"
    /\ text.state \in {"WRITE_CODE", "WRITE_CODE_WAIT", "WAIT_PADDING"} =>
          text.mux = "CODE_WR"

\* Each entity is started once, works, reports once, and rests.
ReaderPart ==
    IF text.state = "READ_CODE_WAIT"
    THEN IF text.startCR THEN CRResting
         ELSE (CRBusy \/ CRDone) /\ cr.at = text.codeAddr
    ELSE ~text.startCR /\ CRResting

WriterPart ==
    IF text.state \in {"WRITE_CODE_WAIT", "WAIT_PADDING"}
    THEN /\ ~text.writeCW
         /\ IF text.startCW THEN CWResting
            ELSE (CWBusy \/ CWDone) /\ cw.code = text.wrCode
    ELSE /\ ~text.startCW /\ CWResting
         /\ text.writeCW => text.state = "SET_RD_ADDR"

TextPart == TextShape /\ CRShape /\ CWShape /\ ReaderPart /\ WriterPart

EncShape ==
    /\ DOMAIN enc = EncRegs
    /\ enc.state \in Hw!States
    /\ enc.state \in {"IDLE", "TREE_WR_INPUT", "TREE_START"} => enc.mux = "NONE"
    /\ enc.state = "TREE_WAIT" => enc.mux = "TREE"
    /\ enc.state \in {"TEXT_WR_INPUT", "TEXT_START", "TEXT_WAIT"} => enc.mux = "TXT"
    /\ enc.state \in {"WR_TOTAL_LEN", "WR_TOTAL_LEN_WAIT"} => enc.mux = "OWN"
    /\ enc.write \in BOOLEAN /\ (enc.write <=> enc.state = "WR_TOTAL_LEN_WAIT")
    /\ enc.writeTree \in BOOLEAN /\ (enc.writeTree <=> enc.state = "TREE_START")
    /\ enc.writeText \in BOOLEAN /\ (enc.writeText <=> enc.state = "TEXT_START")
    /\ enc.startTree \in BOOLEAN /\ enc.startText \in BOOLEAN
    /\ enc.k \in 0 .. 3
    /\ enc.done \in BOOLEAN
    /\ enc.done => enc.state = "IDLE"

EncPart ==
    /\ EncShape
    /\ IF enc.state = "TREE_WAIT"
       THEN IF enc.startTree THEN TreeResting
            ELSE TreeBusy \/ TreeDone
       ELSE ~enc.startTree /\ TreeResting
    /\ IF enc.state = "TEXT_WAIT"
       THEN IF enc.startText THEN TextResting
            ELSE TextBusy \/ TextDone
       ELSE ~enc.startText /\ TextResting

\* No part of the top-level process has anything to do.
EncQuiet == enc.state = "IDLE" /\ ~enc.done

\* The reset pulse and the start pulse each get through before the next access,
\* and Status tells of the request it is polled for.
DriverAt(t) ==
    LET pc == thread[t].pc
    IN  /\ DOMAIN thread[t] = ThreadVars
        /\ pc \in Pcs /\ thread[t].i \in 0 .. 3
        /\ pc # "wait" => EncQuiet /\ ~ctl.start /\ ctl.control # {1}
        /\ pc # "start" => ctl.control # {0}
        /\ pc = "start" => /\ gap = 1 <=> ctl.control = {0}
                           /\ gap = 2 <=> ctl.reset
                           /\ gap > 2 => ~ctl.status
        /\ ctl.control = {1} => EncQuiet /\ ~ctl.start
        /\ ctl.start => EncQuiet /\ ctl.control = {}
        /\ ctl.reset =>
              /\ ctl.control = {}
              /\ \/ pc \in {"idle", "codes", "tree", "text", "start"}
                 \/ pc = "addrs" /\ thread[t].i = 0
        /\ pc = "wait" /\ ctl.status => EncQuiet /\ ~ctl.start /\ ctl.control = {}

CtlShape ==
    /\ DOMAIN ctl = CtlRegs
    /\ ctl.start \in BOOLEAN /\ ctl.reset \in BOOLEAN /\ ctl.status \in BOOLEAN
    /\ ctl.control \in {{}, {0}, {1}}

DriverPart ==
    /\ gap \in 1 .. MinGap
    /\ \A t \in Threads : DriverAt(t)

Control ==
    /\ DOMAIN thread = Threads
    /\ crashes = 0
    /\ TreeShape /\ TextPart /\ EncPart /\ CtlShape /\ DriverPart

-----------------------------------------------------------------------------
(* One clock of each entity *)

\* A clock of the tree handler, whatever its inputs are.
LEMMA TreeTick ==
    ASSUME TreeShape, NEW write \in BOOLEAN, NEW src, NEW dst, NEW start \in BOOLEAN,
           NEW wait, NEW rdata,
           Hw!Tree!Tick(write, src, dst, start, wait, rdata)
    PROVE  /\ TreeShape'
           /\ TreeResting /\ (write \/ ~start) => TreeResting'
           /\ TreeResting /\ ~write /\ start => TreeBusy'
           /\ TreeBusy /\ ~write => TreeBusy' \/ TreeDone'
           /\ TreeDone /\ ~write /\ ~start => TreeResting'
<1>1. CASE Hw!Tree!Load(write, src, dst)
  <2>1. /\ DOMAIN tree' = TreeRegs
        /\ tree'.state = tree.state
        /\ tree'.done = tree.done
        /\ tree'.read = tree.read
        /\ tree'.write = tree.write
        /\ tree'.k = tree.k
    BY SMT, <1>1 DEF Hw!Tree!Load, TreeRegs, TreeShape, Hw!Tree!States
  <2>2. TreeShape'
    BY SMT, <1>1, <2>1 DEF Hw!Tree!Load, TreeShape, Hw!Tree!States
  <2> QED
    BY SMT, <1>1, <2>1, <2>2 DEF Hw!Tree!Load, TreeShape, TreeResting, TreeBusy, TreeDone, Hw!Tree!States
<1>2. CASE ~write /\ Hw!Tree!Idle(start)
  <2>1. /\ DOMAIN tree' = TreeRegs
        /\ tree'.state = (IF start THEN "SET_RD_ADDR" ELSE tree.state)
        /\ ~tree'.done
        /\ tree'.read = tree.read
        /\ tree'.write = tree.write
        /\ tree'.k = tree.k
    BY SMT, <1>2 DEF Hw!Tree!Idle, TreeRegs, TreeShape, Hw!Tree!States
  <2>2. TreeShape'
    BY SMT, <1>2, <2>1 DEF Hw!Tree!Idle, TreeShape, Hw!Tree!States
  <2> QED
    BY SMT, <1>2, <2>1, <2>2 DEF Hw!Tree!Idle, TreeShape, TreeResting, TreeBusy, TreeDone, Hw!Tree!States
<1>3. CASE ~write /\ Hw!Tree!SetRdAddr
  <2>1. /\ DOMAIN tree' = TreeRegs
        /\ tree'.state = "READ_WAIT"
        /\ tree'.done = tree.done
        /\ tree'.read
        /\ tree'.write = tree.write
        /\ tree'.k = tree.k
    BY SMT, <1>3 DEF Hw!Tree!SetRdAddr, TreeRegs, TreeShape, Hw!Tree!States
  <2>2. TreeShape'
    BY SMT, <1>3, <2>1 DEF Hw!Tree!SetRdAddr, TreeShape, Hw!Tree!States
  <2> QED
    BY SMT, <1>3, <2>1, <2>2 DEF Hw!Tree!SetRdAddr, TreeShape, TreeResting, TreeBusy, TreeDone, Hw!Tree!States
<1>4. CASE ~write /\ Hw!Tree!ReadWait(wait, rdata)
  <2>1. /\ DOMAIN tree' = TreeRegs
        /\ tree'.state = "CHECK_END"
        /\ tree'.done = tree.done
        /\ ~tree'.read
        /\ tree'.write = tree.write
        /\ tree'.k = tree.k
    BY SMT, <1>4 DEF Hw!Tree!ReadWait, TreeRegs, TreeShape, Hw!Tree!States
  <2>2. TreeShape'
    BY SMT, <1>4, <2>1 DEF Hw!Tree!ReadWait, TreeShape, Hw!Tree!States
  <2> QED
    BY SMT, <1>4, <2>1, <2>2 DEF Hw!Tree!ReadWait, TreeShape, TreeResting, TreeBusy, TreeDone, Hw!Tree!States
<1>5. CASE ~write /\ Hw!Tree!CheckEnd
  <2>1. /\ DOMAIN tree' = TreeRegs
        /\ tree'.state = (IF tree.char = 0 THEN "WR_LEN" ELSE "SET_WR_ADDR")
        /\ tree'.done = tree.done
        /\ tree'.read = tree.read
        /\ tree'.write = tree.write
        /\ tree'.k = (IF tree.char = 0 THEN 0 ELSE tree.k)
    BY SMT, <1>5 DEF Hw!Tree!CheckEnd, TreeRegs, TreeShape, Hw!Tree!States
  <2>2. TreeShape'
    BY SMT, <1>5, <2>1 DEF Hw!Tree!CheckEnd, TreeShape, Hw!Tree!States
  <2> QED
    BY SMT, <1>5, <2>1, <2>2 DEF Hw!Tree!CheckEnd, TreeShape, TreeResting, TreeBusy, TreeDone, Hw!Tree!States
<1>6. CASE ~write /\ Hw!Tree!SetWrAddr
  <2>1. /\ DOMAIN tree' = TreeRegs
        /\ tree'.state = "WRITE_WAIT_EXTRA"
        /\ tree'.done = tree.done
        /\ tree'.read = tree.read
        /\ tree'.write
        /\ tree'.k = tree.k
    BY SMT, <1>6 DEF Hw!Tree!SetWrAddr, TreeRegs, TreeShape, Hw!Tree!States
  <2>2. TreeShape'
    BY SMT, <1>6, <2>1 DEF Hw!Tree!SetWrAddr, TreeShape, Hw!Tree!States
  <2> QED
    BY SMT, <1>6, <2>1, <2>2 DEF Hw!Tree!SetWrAddr, TreeShape, TreeResting, TreeBusy, TreeDone, Hw!Tree!States
<1>7. CASE ~write /\ Hw!Tree!WriteWaitExtra
  <2>1. /\ DOMAIN tree' = TreeRegs
        /\ tree'.state = "WRITE_WAIT"
        /\ tree'.done = tree.done
        /\ tree'.read = tree.read
        /\ tree'.write = tree.write
        /\ tree'.k = tree.k
    BY SMT, <1>7 DEF Hw!Tree!WriteWaitExtra, TreeRegs, TreeShape, Hw!Tree!States
  <2>2. TreeShape'
    BY SMT, <1>7, <2>1 DEF Hw!Tree!WriteWaitExtra, TreeShape, Hw!Tree!States
  <2> QED
    BY SMT, <1>7, <2>1, <2>2 DEF Hw!Tree!WriteWaitExtra, TreeShape, TreeResting, TreeBusy, TreeDone, Hw!Tree!States
<1>8. CASE ~write /\ Hw!Tree!WriteWait(wait)
  <2>1. /\ DOMAIN tree' = TreeRegs
        /\ tree'.state = "INCREMENT"
        /\ tree'.done = tree.done
        /\ tree'.read = tree.read
        /\ ~tree'.write
        /\ tree'.k = tree.k
    BY SMT, <1>8 DEF Hw!Tree!WriteWait, TreeRegs, TreeShape, Hw!Tree!States
  <2>2. TreeShape'
    BY SMT, <1>8, <2>1 DEF Hw!Tree!WriteWait, TreeShape, Hw!Tree!States
  <2> QED
    BY SMT, <1>8, <2>1, <2>2 DEF Hw!Tree!WriteWait, TreeShape, TreeResting, TreeBusy, TreeDone, Hw!Tree!States
<1>9. CASE ~write /\ Hw!Tree!Increment
  <2>1. /\ DOMAIN tree' = TreeRegs
        /\ tree'.state = "SET_RD_ADDR"
        /\ tree'.done = tree.done
        /\ tree'.read = tree.read
        /\ tree'.write = tree.write
        /\ tree'.k = tree.k
    BY SMT, <1>9 DEF Hw!Tree!Increment, TreeRegs, TreeShape, Hw!Tree!States
  <2>2. TreeShape'
    BY SMT, <1>9, <2>1 DEF Hw!Tree!Increment, TreeShape, Hw!Tree!States
  <2> QED
    BY SMT, <1>9, <2>1, <2>2 DEF Hw!Tree!Increment, TreeShape, TreeResting, TreeBusy, TreeDone, Hw!Tree!States
<1>10. CASE ~write /\ Hw!Tree!WrLen
  <2>1. /\ DOMAIN tree' = TreeRegs
        /\ tree'.state = "WR_LEN_WAIT"
        /\ tree'.done = tree.done
        /\ tree'.read = tree.read
        /\ tree'.write
        /\ tree'.k = tree.k
    BY SMT, <1>10 DEF Hw!Tree!WrLen, TreeRegs, TreeShape, Hw!Tree!States
  <2>2. TreeShape'
    BY SMT, <1>10, <2>1 DEF Hw!Tree!WrLen, TreeShape, Hw!Tree!States
  <2> QED
    BY SMT, <1>10, <2>1, <2>2 DEF Hw!Tree!WrLen, TreeShape, TreeResting, TreeBusy, TreeDone, Hw!Tree!States
<1>11. CASE ~write /\ Hw!Tree!WrLenWait(wait)
  <2>1. /\ DOMAIN tree' = TreeRegs
        /\ tree'.state = "WR_LEN"
        /\ tree'.done = tree.done
        /\ tree'.read = tree.read
        /\ ~tree'.write
        /\ tree'.k = tree.k + 1
    BY SMT, <1>11 DEF Hw!Tree!WrLenWait, TreeRegs, TreeShape, Hw!Tree!States
  <2>2. TreeShape'
    BY SMT, <1>11, <2>1 DEF Hw!Tree!WrLenWait, TreeShape, Hw!Tree!States
  <2> QED
    BY SMT, <1>11, <2>1, <2>2 DEF Hw!Tree!WrLenWait, TreeShape, TreeResting, TreeBusy, TreeDone, Hw!Tree!States
<1>12. CASE ~write /\ Hw!Tree!WrLenLast(wait)
  <2>1. /\ DOMAIN tree' = TreeRegs
        /\ tree'.state = "IDLE"
        /\ tree'.done
        /\ tree'.read = tree.read
        /\ ~tree'.write
        /\ tree'.k = tree.k
    BY SMT, <1>12 DEF Hw!Tree!WrLenLast, TreeRegs, TreeShape, Hw!Tree!States
  <2>2. TreeShape'
    BY SMT, <1>12, <2>1 DEF Hw!Tree!WrLenLast, TreeShape, Hw!Tree!States
  <2> QED
    BY SMT, <1>12, <2>1, <2>2 DEF Hw!Tree!WrLenLast, TreeShape, TreeResting, TreeBusy, TreeDone, Hw!Tree!States
<1>13. CASE ~write /\ Hw!Tree!Stall(wait)
  <2>1. /\ DOMAIN tree' = TreeRegs
        /\ tree'.state = tree.state
        /\ tree'.done = tree.done
        /\ tree'.read = tree.read
        /\ tree'.write = tree.write
        /\ tree'.k = tree.k
    BY SMT, <1>13 DEF Hw!Tree!Stall, TreeRegs, TreeShape, Hw!Tree!States
  <2>2. TreeShape'
    BY SMT, <1>13, <2>1 DEF Hw!Tree!Stall, TreeShape, Hw!Tree!States
  <2> QED
    BY SMT, <1>13, <2>1, <2>2 DEF Hw!Tree!Stall, TreeShape, TreeResting, TreeBusy, TreeDone, Hw!Tree!States
<1> QED
  BY <1>1, <1>2, <1>3, <1>4, <1>5, <1>6, <1>7, <1>8, <1>9, <1>10, <1>11, <1>12, <1>13 DEF Hw!Tree!Tick

\* A clock of the code reader.
LEMMA CRTick ==
    ASSUME CRShape, NEW start \in BOOLEAN, NEW at, NEW wait, NEW rdata,
           cr.done => ~start,
           Hw!Text!CR!Tick(start, at, wait, rdata)
    PROVE  /\ CRShape'
           /\ CRResting /\ ~start => CRResting'
           /\ CRResting /\ start => CRBusy' /\ cr'.at = at
           /\ CRBusy => (CRBusy' \/ CRDone') /\ cr'.at = cr.at
           /\ CRDone /\ ~start => CRResting'
<1>1. CASE Hw!Text!CR!Begin(start, at)
  <2>1. /\ DOMAIN cr' = CRRegs
        /\ cr'.state = "RD_CODE_ADDR"
        /\ cr'.done = cr.done
        /\ cr'.read = cr.read
        /\ cr'.k = 0
        /\ cr'.at = at
    BY SMT, <1>1 DEF Hw!Text!CR!Begin, CRRegs, CRShape, Hw!Text!CR!States
  <2>2. CRShape'
    BY SMT, <1>1, <2>1 DEF Hw!Text!CR!Begin, CRShape, Hw!Text!CR!States
  <2> QED
    BY SMT, <1>1, <2>1, <2>2 DEF Hw!Text!CR!Begin, CRShape, CRResting, CRBusy, CRDone, Hw!Text!CR!States
<1>2. CASE Hw!Text!CR!Rest(start)
  <2>1. /\ DOMAIN cr' = CRRegs
        /\ cr'.state = cr.state
        /\ ~cr'.done
        /\ ~cr'.read
        /\ cr'.k = cr.k
        /\ cr'.at = cr.at
    BY SMT, <1>2 DEF Hw!Text!CR!Rest, CRRegs, CRShape, Hw!Text!CR!States
  <2>2. CRShape'
    BY SMT, <1>2, <2>1 DEF Hw!Text!CR!Rest, CRShape, Hw!Text!CR!States
  <2> QED
    BY SMT, <1>2, <2>1, <2>2 DEF Hw!Text!CR!Rest, CRShape, CRResting, CRBusy, CRDone, Hw!Text!CR!States
<1>3. CASE Hw!Text!CR!RdCodeAddr
  <2>1. /\ DOMAIN cr' = CRRegs
        /\ cr'.state = "RD_CODE_ADDR_WAIT"
        /\ cr'.done = cr.done
        /\ cr'.read
        /\ cr'.k = cr.k
        /\ cr'.at = cr.at
    BY SMT, <1>3 DEF Hw!Text!CR!RdCodeAddr, CRRegs, CRShape, Hw!Text!CR!States
  <2>2. CRShape'
    BY SMT, <1>3, <2>1 DEF Hw!Text!CR!RdCodeAddr, CRShape, Hw!Text!CR!States
  <2> QED
    BY SMT, <1>3, <2>1, <2>2 DEF Hw!Text!CR!RdCodeAddr, CRShape, CRResting, CRBusy, CRDone, Hw!Text!CR!States
<1>4. CASE Hw!Text!CR!RdCodeAddrWait(wait, rdata)
  <2>1. /\ DOMAIN cr' = CRRegs
        /\ cr'.state = (IF cr.k < 3 THEN "RD_CODE_ADDR" ELSE "SET_RD_ADDR")
        /\ cr'.done = cr.done
        /\ ~cr'.read
        /\ cr'.k = (IF cr.k < 3 THEN cr.k + 1 ELSE cr.k)
        /\ cr'.at = cr.at
    BY SMT, <1>4 DEF Hw!Text!CR!RdCodeAddrWait, CRRegs, CRShape, Hw!Text!CR!States
  <2>2. CRShape'
    BY SMT, <1>4, <2>1 DEF Hw!Text!CR!RdCodeAddrWait, CRShape, Hw!Text!CR!States
  <2> QED
    BY SMT, <1>4, <2>1, <2>2 DEF Hw!Text!CR!RdCodeAddrWait, CRShape, CRResting, CRBusy, CRDone, Hw!Text!CR!States
<1>5. CASE Hw!Text!CR!SetRdAddr
  <2>1. /\ DOMAIN cr' = CRRegs
        /\ cr'.state = "READ_WAIT"
        /\ cr'.done = cr.done
        /\ cr'.read
        /\ cr'.k = cr.k
        /\ cr'.at = cr.at
    BY SMT, <1>5 DEF Hw!Text!CR!SetRdAddr, CRRegs, CRShape, Hw!Text!CR!States
  <2>2. CRShape'
    BY SMT, <1>5, <2>1 DEF Hw!Text!CR!SetRdAddr, CRShape, Hw!Text!CR!States
  <2> QED
    BY SMT, <1>5, <2>1, <2>2 DEF Hw!Text!CR!SetRdAddr, CRShape, CRResting, CRBusy, CRDone, Hw!Text!CR!States
<1>6. CASE Hw!Text!CR!ReadBit(wait, rdata)
  <2>1. /\ DOMAIN cr' = CRRegs
        /\ cr'.state = "SET_RD_ADDR"
        /\ cr'.done = cr.done
        /\ ~cr'.read
        /\ cr'.k = cr.k
        /\ cr'.at = cr.at
    BY SMT, <1>6 DEF Hw!Text!CR!ReadBit, CRRegs, CRShape, Hw!Text!CR!States
  <2>2. CRShape'
    BY SMT, <1>6, <2>1 DEF Hw!Text!CR!ReadBit, CRShape, Hw!Text!CR!States
  <2> QED
    BY SMT, <1>6, <2>1, <2>2 DEF Hw!Text!CR!ReadBit, CRShape, CRResting, CRBusy, CRDone, Hw!Text!CR!States
<1>7. CASE Hw!Text!CR!ReadEnd(wait, rdata)
  <2>1. /\ DOMAIN cr' = CRRegs
        /\ cr'.state = "LAST"
        /\ cr'.done = cr.done
        /\ ~cr'.read
        /\ cr'.k = cr.k
        /\ cr'.at = cr.at
    BY SMT, <1>7 DEF Hw!Text!CR!ReadEnd, CRRegs, CRShape, Hw!Text!CR!States
  <2>2. CRShape'
    BY SMT, <1>7, <2>1 DEF Hw!Text!CR!ReadEnd, CRShape, Hw!Text!CR!States
  <2> QED
    BY SMT, <1>7, <2>1, <2>2 DEF Hw!Text!CR!ReadEnd, CRShape, CRResting, CRBusy, CRDone, Hw!Text!CR!States
<1>8. CASE Hw!Text!CR!Last
  <2>1. /\ DOMAIN cr' = CRRegs
        /\ cr'.state = "IDLE"
        /\ cr'.done
        /\ cr'.read = cr.read
        /\ cr'.k = cr.k
        /\ cr'.at = cr.at
    BY SMT, <1>8 DEF Hw!Text!CR!Last, CRRegs, CRShape, Hw!Text!CR!States
  <2>2. CRShape'
    BY SMT, <1>8, <2>1 DEF Hw!Text!CR!Last, CRShape, Hw!Text!CR!States
  <2> QED
    BY SMT, <1>8, <2>1, <2>2 DEF Hw!Text!CR!Last, CRShape, CRResting, CRBusy, CRDone, Hw!Text!CR!States
<1>9. CASE Hw!Text!CR!Stall(wait)
  <2>1. /\ DOMAIN cr' = CRRegs
        /\ cr'.state = cr.state
        /\ cr'.done = cr.done
        /\ cr'.read = cr.read
        /\ cr'.k = cr.k
        /\ cr'.at = cr.at
    BY SMT, <1>9 DEF Hw!Text!CR!Stall, CRRegs, CRShape, Hw!Text!CR!States
  <2>2. CRShape'
    BY SMT, <1>9, <2>1 DEF Hw!Text!CR!Stall, CRShape, Hw!Text!CR!States
  <2> QED
    BY SMT, <1>9, <2>1, <2>2 DEF Hw!Text!CR!Stall, CRShape, CRResting, CRBusy, CRDone, Hw!Text!CR!States
<1> QED
  BY <1>1, <1>2, <1>3, <1>4, <1>5, <1>6, <1>7, <1>8, <1>9 DEF Hw!Text!CR!Tick

\* A clock of the code writer.
LEMMA CWTick ==
    ASSUME CWShape, NEW write \in BOOLEAN, NEW dst, NEW start \in BOOLEAN, NEW code, NEW wait,
           cw.done => write \/ ~start,
           Hw!Text!CW!Tick(write, dst, start, code, wait)
    PROVE  /\ CWShape'
           /\ CWResting /\ (write \/ ~start) => CWResting'
           /\ CWResting /\ ~write /\ start => CWBusy' /\ cw'.code = code
           /\ CWBusy => (CWBusy' \/ CWDone') /\ cw'.code = cw.code
           /\ CWDone /\ ~write /\ ~start => CWResting'
<1>1. CASE Hw!Text!CW!Load(write, dst)
  <2>1. /\ DOMAIN cw' = CWRegs
        /\ cw'.state = cw.state
        /\ cw'.done = cw.done
        /\ cw'.write = cw.write
        /\ cw'.code = cw.code
    BY SMT, <1>1 DEF Hw!Text!CW!Load, CWRegs, CWShape, Hw!Text!CW!States
  <2>2. CWShape'
    BY SMT, <1>1, <2>1 DEF Hw!Text!CW!Load, CWShape, Hw!Text!CW!States
  <2> QED
    BY SMT, <1>1, <2>1, <2>2 DEF Hw!Text!CW!Load, CWShape, CWResting, CWBusy, CWDone, Hw!Text!CW!States
<1>2. CASE Hw!Text!CW!Accept(write, start, code)
  <2>1. /\ DOMAIN cw' = CWRegs
        /\ cw'.state = "ADD_CODE"
        /\ cw'.done = cw.done
        /\ cw'.write = cw.write
        /\ cw'.code = code
    BY SMT, <1>2 DEF Hw!Text!CW!Accept, CWRegs, CWShape, Hw!Text!CW!States
  <2>2. CWShape'
    BY SMT, <1>2, <2>1 DEF Hw!Text!CW!Accept, CWShape, Hw!Text!CW!States
  <2> QED
    BY SMT, <1>2, <2>1, <2>2 DEF Hw!Text!CW!Accept, CWShape, CWResting, CWBusy, CWDone, Hw!Text!CW!States
<1>3. CASE Hw!Text!CW!Rest(write, start)
  <2>1. /\ DOMAIN cw' = CWRegs
        /\ cw'.state = cw.state
        /\ ~cw'.done
        /\ ~cw'.write
        /\ cw'.code = cw.code
    BY SMT, <1>3 DEF Hw!Text!CW!Rest, CWRegs, CWShape, Hw!Text!CW!States
  <2>2. CWShape'
    BY SMT, <1>3, <2>1 DEF Hw!Text!CW!Rest, CWShape, Hw!Text!CW!States
  <2> QED
    BY SMT, <1>3, <2>1, <2>2 DEF Hw!Text!CW!Rest, CWShape, CWResting, CWBusy, CWDone, Hw!Text!CW!States
<1>4. CASE Hw!Text!CW!AddCode
  <2>1. /\ DOMAIN cw' = CWRegs
        /\ cw'.state = "WRITE_CODE"
        /\ cw'.done = cw.done
        /\ cw'.write = cw.write
        /\ cw'.code = cw.code
    BY SMT, <1>4 DEF Hw!Text!CW!AddCode, CWRegs, CWShape, Hw!Text!CW!States
  <2>2. CWShape'
    BY SMT, <1>4, <2>1 DEF Hw!Text!CW!AddCode, CWShape, Hw!Text!CW!States
  <2> QED
    BY SMT, <1>4, <2>1, <2>2 DEF Hw!Text!CW!AddCode, CWShape, CWResting, CWBusy, CWDone, Hw!Text!CW!States
<1>5. CASE Hw!Text!CW!PutByte
  <2>1. /\ DOMAIN cw' = CWRegs
        /\ cw'.state = "WRITE_CODE_EXTRA_1"
        /\ cw'.done = cw.done
        /\ cw'.write
        /\ cw'.code = cw.code
    BY SMT, <1>5 DEF Hw!Text!CW!PutByte, CWRegs, CWShape, Hw!Text!CW!States
  <2>2. CWShape'
    BY SMT, <1>5, <2>1 DEF Hw!Text!CW!PutByte, CWShape, Hw!Text!CW!States
  <2> QED
    BY SMT, <1>5, <2>1, <2>2 DEF Hw!Text!CW!PutByte, CWShape, CWResting, CWBusy, CWDone, Hw!Text!CW!States
<1>6. CASE Hw!Text!CW!KeepRest
  <2>1. /\ DOMAIN cw' = CWRegs
        /\ cw'.state = "DONE"
        /\ cw'.done = cw.done
        /\ cw'.write = cw.write
        /\ cw'.code = cw.code
    BY SMT, <1>6 DEF Hw!Text!CW!KeepRest, CWRegs, CWShape, Hw!Text!CW!States
  <2>2. CWShape'
    BY SMT, <1>6, <2>1 DEF Hw!Text!CW!KeepRest, CWShape, Hw!Text!CW!States
  <2> QED
    BY SMT, <1>6, <2>1, <2>2 DEF Hw!Text!CW!KeepRest, CWShape, CWResting, CWBusy, CWDone, Hw!Text!CW!States
<1>7. CASE Hw!Text!CW!Extra
  <2>1. /\ DOMAIN cw' = CWRegs
        /\ cw'.state = "WRITE_CODE_WAIT"
        /\ cw'.done = cw.done
        /\ cw'.write = cw.write
        /\ cw'.code = cw.code
    BY SMT, <1>7 DEF Hw!Text!CW!Extra, CWRegs, CWShape, Hw!Text!CW!States
  <2>2. CWShape'
    BY SMT, <1>7, <2>1 DEF Hw!Text!CW!Extra, CWShape, Hw!Text!CW!States
  <2> QED
    BY SMT, <1>7, <2>1, <2>2 DEF Hw!Text!CW!Extra, CWShape, CWResting, CWBusy, CWDone, Hw!Text!CW!States
<1>8. CASE Hw!Text!CW!Stall(wait)
  <2>1. /\ DOMAIN cw' = CWRegs
        /\ cw'.state = cw.state
        /\ cw'.done = cw.done
        /\ cw'.write = cw.write
        /\ cw'.code = cw.code
    BY SMT, <1>8 DEF Hw!Text!CW!Stall, CWRegs, CWShape, Hw!Text!CW!States
  <2>2. CWShape'
    BY SMT, <1>8, <2>1 DEF Hw!Text!CW!Stall, CWShape, Hw!Text!CW!States
  <2> QED
    BY SMT, <1>8, <2>1, <2>2 DEF Hw!Text!CW!Stall, CWShape, CWResting, CWBusy, CWDone, Hw!Text!CW!States
<1>9. CASE Hw!Text!CW!Written(wait)
  <2>1. /\ DOMAIN cw' = CWRegs
        /\ cw'.state = "WRITE_CODE"
        /\ cw'.done = cw.done
        /\ ~cw'.write
        /\ cw'.code = cw.code
    BY SMT, <1>9 DEF Hw!Text!CW!Written, CWRegs, CWShape, Hw!Text!CW!States
  <2>2. CWShape'
    BY SMT, <1>9, <2>1 DEF Hw!Text!CW!Written, CWShape, Hw!Text!CW!States
  <2> QED
    BY SMT, <1>9, <2>1, <2>2 DEF Hw!Text!CW!Written, CWShape, CWResting, CWBusy, CWDone, Hw!Text!CW!States
<1>10. CASE Hw!Text!CW!Finish
  <2>1. /\ DOMAIN cw' = CWRegs
        /\ cw'.state = "IDLE"
        /\ cw'.done
        /\ cw'.write = cw.write
        /\ cw'.code = cw.code
    BY SMT, <1>10 DEF Hw!Text!CW!Finish, CWRegs, CWShape, Hw!Text!CW!States
  <2>2. CWShape'
    BY SMT, <1>10, <2>1 DEF Hw!Text!CW!Finish, CWShape, Hw!Text!CW!States
  <2> QED
    BY SMT, <1>10, <2>1, <2>2 DEF Hw!Text!CW!Finish, CWShape, CWResting, CWBusy, CWDone, Hw!Text!CW!States
<1> QED
  BY <1>1, <1>2, <1>3, <1>4, <1>5, <1>6, <1>7, <1>8, <1>9, <1>10 DEF Hw!Text!CW!Tick

\* A clock of the text handler with the reader and the writer it drives.
LEMMA TextTick ==
    ASSUME TextPart, NEW write \in BOOLEAN, NEW codes, NEW src, NEW dst, NEW hdr,
           NEW start \in BOOLEAN, NEW answer, NEW latch,
           write => TextResting, text.done => ~start,
           Hw!Text!Tick(write, codes, src, dst, hdr, start, answer, latch)
    PROVE  /\ TextPart'
           /\ TextResting /\ (write \/ ~start) => TextResting'
           /\ TextResting /\ ~write /\ start => TextBusy'
           /\ TextBusy => TextBusy' \/ TextDone'
           /\ TextDone /\ ~start => TextResting'
<1> DEFINE own == Hw!Text!Seen("TEXT_HANDLER", answer, latch)
           crd == Hw!Text!Seen("CODE_RD", answer, latch)
           cwd == Hw!Text!Seen("CODE_WR", answer, latch)
           Goal == /\ TextShape' /\ ReaderPart' /\ WriterPart'
                   /\ TextResting /\ (write \/ ~start) => TextResting'
                   /\ TextResting /\ ~write /\ start => TextBusy'
                   /\ TextBusy => TextBusy' \/ TextDone'
                   /\ TextDone /\ ~start => TextResting'
<1>1. TextShape /\ CRShape /\ CWShape /\ ReaderPart /\ WriterPart
  BY DEF TextPart
<1>2. /\ Hw!Text!EncodeText(write, codes, src, dst, hdr, start, own.wait, own.data)
      /\ Hw!Text!CR!Tick(text.startCR, text.codeAddr, crd.wait, crd.data)
      /\ Hw!Text!CW!Tick(text.writeCW, text.dstCW, text.startCW, text.wrCode, cwd.wait)
  BY DEF Hw!Text!Tick
<1> HIDE DEF own, crd, cwd
<1>3. /\ text.startCR \in BOOLEAN /\ text.startCW \in BOOLEAN /\ text.writeCW \in BOOLEAN
      /\ cr.done => ~text.startCR
      /\ cw.done => text.writeCW \/ ~text.startCW
  BY <1>1 DEF TextShape, ReaderPart, WriterPart, CRResting, CWResting
<1>4. /\ CRShape'
      /\ CRResting /\ ~text.startCR => CRResting'
      /\ CRResting /\ text.startCR => CRBusy' /\ cr'.at = text.codeAddr
      /\ CRBusy => (CRBusy' \/ CRDone') /\ cr'.at = cr.at
      /\ CRDone /\ ~text.startCR => CRResting'
  <2> HIDE DEF CRShape, CRResting, CRBusy, CRDone
  <2> QED BY <1>1, <1>2, <1>3, CRTick
<1>5. /\ CWShape'
      /\ CWResting /\ (text.writeCW \/ ~text.startCW) => CWResting'
      /\ CWResting /\ ~text.writeCW /\ text.startCW => CWBusy' /\ cw'.code = text.wrCode
      /\ CWBusy => (CWBusy' \/ CWDone') /\ cw'.code = cw.code
      /\ CWDone /\ ~text.writeCW /\ ~text.startCW => CWResting'
  <2> HIDE DEF CWShape, CWResting, CWBusy, CWDone
  <2> QED BY <1>1, <1>2, <1>3, CWTick
<1> SUFFICES Goal
  BY <1>4, <1>5 DEF TextPart
<1>6. CASE Hw!Text!Load(write, codes, src, dst, hdr)
  <2>1. /\ DOMAIN text' = TextRegs
        /\ text'.state = text.state
        /\ text'.mux = text.mux
        /\ text'.done = text.done
        /\ text'.read = text.read
        /\ text'.write = text.write
        /\ text'.k = text.k
        /\ text'.startCR = text.startCR
        /\ text'.writeCW = text.writeCW
        /\ text'.startCW = text.startCW
        /\ text'.codeAddr = 0
        /\ text'.wrCode = text.wrCode
    BY SMT, <1>1, <1>6 DEF Hw!Text!Load, TextRegs, TextShape, Hw!Text!States, Hw!Text!Muxes
  <2>2. TextShape'
    BY SMT, <1>1, <1>6, <2>1 DEF Hw!Text!Load, TextShape, Hw!Text!States, Hw!Text!Muxes, TextResting
  <2>3. ReaderPart'
    BY SMT, <1>1, <1>4, <1>6, <2>1, <2>2 DEF Hw!Text!Load, ReaderPart, TextShape, Hw!Text!States, Hw!Text!Muxes, CRResting, CRBusy, CRDone, TextResting
  <2>4. WriterPart'
    BY SMT, <1>1, <1>5, <1>6, <2>1, <2>2 DEF Hw!Text!Load, WriterPart, TextShape, Hw!Text!States, Hw!Text!Muxes, CWResting, CWBusy, CWDone, TextResting
  <2> QED
    BY SMT, <1>1, <1>6, <2>1, <2>2, <2>3, <2>4 DEF Hw!Text!Load, TextShape, Hw!Text!States, Hw!Text!Muxes, TextResting, TextBusy, TextDone
<1>7. CASE ~write /\ Hw!Text!Begin(start)
  <2>1. /\ DOMAIN text' = TextRegs
        /\ text'.state = "SET_RD_ADDR"
        /\ text'.mux = "TEXT_HANDLER"
        /\ text'.done = text.done
        /\ text'.read = text.read
        /\ text'.write = text.write
        /\ text'.k = text.k
        /\ text'.startCR = text.startCR
        /\ text'.writeCW
        /\ text'.startCW = text.startCW
        /\ text'.codeAddr = text.codeAddr
        /\ text'.wrCode = text.wrCode
    BY SMT, <1>1, <1>7 DEF Hw!Text!Begin, TextRegs, TextShape, Hw!Text!States, Hw!Text!Muxes
  <2>2. TextShape'
    BY SMT, <1>1, <1>7, <2>1 DEF Hw!Text!Begin, TextShape, Hw!Text!States, Hw!Text!Muxes, TextResting
  <2>3. ReaderPart'
    BY SMT, <1>1, <1>4, <1>7, <2>1, <2>2 DEF Hw!Text!Begin, ReaderPart, TextShape, Hw!Text!States, Hw!Text!Muxes, CRResting, CRBusy, CRDone, TextResting
  <2>4. WriterPart'
    BY SMT, <1>1, <1>5, <1>7, <2>1, <2>2 DEF Hw!Text!Begin, WriterPart, TextShape, Hw!Text!States, Hw!Text!Muxes, CWResting, CWBusy, CWDone, TextResting
  <2> QED
    BY SMT, <1>1, <1>7, <2>1, <2>2, <2>3, <2>4 DEF Hw!Text!Begin, TextShape, Hw!Text!States, Hw!Text!Muxes, TextResting, TextBusy, TextDone
<1>8. CASE ~write /\ Hw!Text!Rest(start)
  <2>1. /\ DOMAIN text' = TextRegs
        /\ text'.state = text.state
        /\ text'.mux = text.mux
        /\ ~text'.done
        /\ text'.read = text.read
        /\ text'.write = text.write
        /\ text'.k = text.k
        /\ ~text'.startCR
        /\ ~text'.writeCW
        /\ ~text'.startCW
        /\ text'.codeAddr = text.codeAddr
        /\ text'.wrCode = text.wrCode
    BY SMT, <1>1, <1>8 DEF Hw!Text!Rest, TextRegs, TextShape, Hw!Text!States, Hw!Text!Muxes
  <2>2. TextShape'
    BY SMT, <1>1, <1>8, <2>1 DEF Hw!Text!Rest, TextShape, Hw!Text!States, Hw!Text!Muxes, TextResting
  <2>3. ReaderPart'
    BY SMT, <1>1, <1>4, <1>8, <2>1, <2>2 DEF Hw!Text!Rest, ReaderPart, TextShape, Hw!Text!States, Hw!Text!Muxes, CRResting, CRBusy, CRDone, TextResting
  <2>4. WriterPart'
    BY SMT, <1>1, <1>5, <1>8, <2>1, <2>2 DEF Hw!Text!Rest, WriterPart, TextShape, Hw!Text!States, Hw!Text!Muxes, CWResting, CWBusy, CWDone, TextResting
  <2> QED
    BY SMT, <1>1, <1>8, <2>1, <2>2, <2>3, <2>4 DEF Hw!Text!Rest, TextShape, Hw!Text!States, Hw!Text!Muxes, TextResting, TextBusy, TextDone
<1>9. CASE ~write /\ Hw!Text!SetRdAddr
  <2>1. /\ DOMAIN text' = TextRegs
        /\ text'.state = "READ_WAIT"
        /\ text'.mux = text.mux
        /\ text'.done = text.done
        /\ text'.read
        /\ text'.write = text.write
        /\ text'.k = text.k
        /\ text'.startCR = text.startCR
        /\ ~text'.writeCW
        /\ text'.startCW = text.startCW
        /\ text'.codeAddr = text.codeAddr
        /\ text'.wrCode = text.wrCode
    BY SMT, <1>1, <1>9 DEF Hw!Text!SetRdAddr, TextRegs, TextShape, Hw!Text!States, Hw!Text!Muxes
  <2>2. TextShape'
    BY SMT, <1>1, <1>9, <2>1 DEF Hw!Text!SetRdAddr, TextShape, Hw!Text!States, Hw!Text!Muxes, TextResting
  <2>3. ReaderPart'
    BY SMT, <1>1, <1>4, <1>9, <2>1, <2>2 DEF Hw!Text!SetRdAddr, ReaderPart, TextShape, Hw!Text!States, Hw!Text!Muxes, CRResting, CRBusy, CRDone, TextResting
  <2>4. WriterPart'
    BY SMT, <1>1, <1>5, <1>9, <2>1, <2>2 DEF Hw!Text!SetRdAddr, WriterPart, TextShape, Hw!Text!States, Hw!Text!Muxes, CWResting, CWBusy, CWDone, TextResting
  <2> QED
    BY SMT, <1>1, <1>9, <2>1, <2>2, <2>3, <2>4 DEF Hw!Text!SetRdAddr, TextShape, Hw!Text!States, Hw!Text!Muxes, TextResting, TextBusy, TextDone
<1>10. CASE ~write /\ Hw!Text!ReadWait(own.wait, own.data)
  <2>1. /\ DOMAIN text' = TextRegs
        /\ text'.state = "CHECK_END"
        /\ text'.mux = text.mux
        /\ text'.done = text.done
        /\ ~text'.read
        /\ text'.write = text.write
        /\ text'.k = text.k
        /\ text'.startCR = text.startCR
        /\ text'.writeCW = text.writeCW
        /\ text'.startCW = text.startCW
        /\ text'.codeAddr = text.codeAddr
        /\ text'.wrCode = text.wrCode
    BY SMT, <1>1, <1>10 DEF Hw!Text!ReadWait, TextRegs, TextShape, Hw!Text!States, Hw!Text!Muxes
  <2>2. TextShape'
    BY SMT, <1>1, <1>10, <2>1 DEF Hw!Text!ReadWait, TextShape, Hw!Text!States, Hw!Text!Muxes, TextResting
  <2>3. ReaderPart'
    BY SMT, <1>1, <1>4, <1>10, <2>1, <2>2 DEF Hw!Text!ReadWait, ReaderPart, TextShape, Hw!Text!States, Hw!Text!Muxes, CRResting, CRBusy, CRDone, TextResting
  <2>4. WriterPart'
    BY SMT, <1>1, <1>5, <1>10, <2>1, <2>2 DEF Hw!Text!ReadWait, WriterPart, TextShape, Hw!Text!States, Hw!Text!Muxes, CWResting, CWBusy, CWDone, TextResting
  <2> QED
    BY SMT, <1>1, <1>10, <2>1, <2>2, <2>3, <2>4 DEF Hw!Text!ReadWait, TextShape, Hw!Text!States, Hw!Text!Muxes, TextResting, TextBusy, TextDone
<1>11. CASE ~write /\ Hw!Text!CheckEnd
  <2>1. /\ DOMAIN text' = TextRegs
        /\ text'.state = (IF text.char = 0 THEN "ADD_PADDING" ELSE "READ_CODE")
        /\ text'.mux = (IF text.char = 0 THEN text.mux ELSE "CODE_RD")
        /\ text'.done = text.done
        /\ text'.read = text.read
        /\ text'.write = text.write
        /\ text'.k = text.k
        /\ text'.startCR = text.startCR
        /\ text'.writeCW = text.writeCW
        /\ text'.startCW = text.startCW
        /\ text'.codeAddr = text.codeAddr
        /\ text'.wrCode = text.wrCode
    BY SMT, <1>1, <1>11 DEF Hw!Text!CheckEnd, TextRegs, TextShape, Hw!Text!States, Hw!Text!Muxes
  <2>2. TextShape'
    BY SMT, <1>1, <1>11, <2>1 DEF Hw!Text!CheckEnd, TextShape, Hw!Text!States, Hw!Text!Muxes, TextResting
  <2>3. ReaderPart'
    BY SMT, <1>1, <1>4, <1>11, <2>1, <2>2 DEF Hw!Text!CheckEnd, ReaderPart, TextShape, Hw!Text!States, Hw!Text!Muxes, CRResting, CRBusy, CRDone, TextResting
  <2>4. WriterPart'
    BY SMT, <1>1, <1>5, <1>11, <2>1, <2>2 DEF Hw!Text!CheckEnd, WriterPart, TextShape, Hw!Text!States, Hw!Text!Muxes, CWResting, CWBusy, CWDone, TextResting
  <2> QED
    BY SMT, <1>1, <1>11, <2>1, <2>2, <2>3, <2>4 DEF Hw!Text!CheckEnd, TextShape, Hw!Text!States, Hw!Text!Muxes, TextResting, TextBusy, TextDone
<1>12. CASE ~write /\ Hw!Text!ReadCode
  <2>1. /\ DOMAIN text' = TextRegs
        /\ text'.state = "READ_CODE_START"
        /\ text'.mux = text.mux
        /\ text'.done = text.done
        /\ text'.read = text.read
        /\ text'.write = text.write
        /\ text'.k = text.k
        /\ text'.startCR = text.startCR
        /\ text'.writeCW = text.writeCW
        /\ text'.startCW = text.startCW
        /\ text'.codeAddr = text.codes + Hw!Text!Index(text.char) * 4
        /\ text'.wrCode = text.wrCode
    BY SMT, <1>1, <1>12 DEF Hw!Text!ReadCode, TextRegs, TextShape, Hw!Text!States, Hw!Text!Muxes
  <2>2. TextShape'
    BY SMT, <1>1, <1>12, <2>1 DEF Hw!Text!ReadCode, TextShape, Hw!Text!States, Hw!Text!Muxes, TextResting
  <2>3. ReaderPart'
    BY SMT, <1>1, <1>4, <1>12, <2>1, <2>2 DEF Hw!Text!ReadCode, ReaderPart, TextShape, Hw!Text!States, Hw!Text!Muxes, CRResting, CRBusy, CRDone, TextResting
  <2>4. WriterPart'
    BY SMT, <1>1, <1>5, <1>12, <2>1, <2>2 DEF Hw!Text!ReadCode, WriterPart, TextShape, Hw!Text!States, Hw!Text!Muxes, CWResting, CWBusy, CWDone, TextResting
  <2> QED
    BY SMT, <1>1, <1>12, <2>1, <2>2, <2>3, <2>4 DEF Hw!Text!ReadCode, TextShape, Hw!Text!States, Hw!Text!Muxes, TextResting, TextBusy, TextDone
<1>13. CASE ~write /\ Hw!Text!ReadCodeStart
  <2>1. /\ DOMAIN text' = TextRegs
        /\ text'.state = "READ_CODE_WAIT"
        /\ text'.mux = text.mux
        /\ text'.done = text.done
        /\ text'.read = text.read
        /\ text'.write = text.write
        /\ text'.k = text.k
        /\ text'.startCR
        /\ text'.writeCW = text.writeCW
        /\ text'.startCW = text.startCW
        /\ text'.codeAddr = text.codeAddr
        /\ text'.wrCode = text.wrCode
    BY SMT, <1>1, <1>13 DEF Hw!Text!ReadCodeStart, TextRegs, TextShape, Hw!Text!States, Hw!Text!Muxes
  <2>2. TextShape'
    BY SMT, <1>1, <1>13, <2>1 DEF Hw!Text!ReadCodeStart, TextShape, Hw!Text!States, Hw!Text!Muxes, TextResting
  <2>3. ReaderPart'
    BY SMT, <1>1, <1>4, <1>13, <2>1, <2>2 DEF Hw!Text!ReadCodeStart, ReaderPart, TextShape, Hw!Text!States, Hw!Text!Muxes, CRResting, CRBusy, CRDone, TextResting
  <2>4. WriterPart'
    BY SMT, <1>1, <1>5, <1>13, <2>1, <2>2 DEF Hw!Text!ReadCodeStart, WriterPart, TextShape, Hw!Text!States, Hw!Text!Muxes, CWResting, CWBusy, CWDone, TextResting
  <2> QED
    BY SMT, <1>1, <1>13, <2>1, <2>2, <2>3, <2>4 DEF Hw!Text!ReadCodeStart, TextShape, Hw!Text!States, Hw!Text!Muxes, TextResting, TextBusy, TextDone
<1>14. CASE ~write /\ Hw!Text!ReadCodeWait
  <2>1. /\ DOMAIN text' = TextRegs
        /\ text'.state = (IF cr.done THEN "WRITE_CODE" ELSE text.state)
        /\ text'.mux = (IF cr.done THEN "CODE_WR" ELSE text.mux)
        /\ text'.done = text.done
        /\ text'.read = text.read
        /\ text'.write = text.write
        /\ text'.k = text.k
        /\ ~text'.startCR
        /\ text'.writeCW = text.writeCW
        /\ text'.startCW = text.startCW
        /\ text'.codeAddr = text.codeAddr
        /\ text'.wrCode = (IF cr.done THEN cr.code ELSE text.wrCode)
    BY SMT, <1>1, <1>14 DEF Hw!Text!ReadCodeWait, TextRegs, TextShape, Hw!Text!States, Hw!Text!Muxes
  <2>2. TextShape'
    BY SMT, <1>1, <1>14, <2>1 DEF Hw!Text!ReadCodeWait, TextShape, Hw!Text!States, Hw!Text!Muxes, TextResting
  <2>3. ReaderPart'
    BY SMT, <1>1, <1>4, <1>14, <2>1, <2>2 DEF Hw!Text!ReadCodeWait, ReaderPart, TextShape, Hw!Text!States, Hw!Text!Muxes, CRResting, CRBusy, CRDone, TextResting
  <2>4. WriterPart'
    BY SMT, <1>1, <1>5, <1>14, <2>1, <2>2 DEF Hw!Text!ReadCodeWait, WriterPart, TextShape, Hw!Text!States, Hw!Text!Muxes, CWResting, CWBusy, CWDone, TextResting
  <2> QED
    BY SMT, <1>1, <1>14, <2>1, <2>2, <2>3, <2>4 DEF Hw!Text!ReadCodeWait, TextShape, Hw!Text!States, Hw!Text!Muxes, TextResting, TextBusy, TextDone
<1>15. CASE ~write /\ Hw!Text!WriteCode
  <2>1. /\ DOMAIN text' = TextRegs
        /\ text'.state = "WRITE_CODE_WAIT"
        /\ text'.mux = text.mux
        /\ text'.done = text.done
        /\ text'.read = text.read
        /\ text'.write = text.write
        /\ text'.k = text.k
        /\ text'.startCR = text.startCR
        /\ text'.writeCW = text.writeCW
        /\ text'.startCW
        /\ text'.codeAddr = text.codeAddr
        /\ text'.wrCode = text.wrCode
    BY SMT, <1>1, <1>15 DEF Hw!Text!WriteCode, TextRegs, TextShape, Hw!Text!States, Hw!Text!Muxes
  <2>2. TextShape'
    BY SMT, <1>1, <1>15, <2>1 DEF Hw!Text!WriteCode, TextShape, Hw!Text!States, Hw!Text!Muxes, TextResting
  <2>3. ReaderPart'
    BY SMT, <1>1, <1>4, <1>15, <2>1, <2>2 DEF Hw!Text!WriteCode, ReaderPart, TextShape, Hw!Text!States, Hw!Text!Muxes, CRResting, CRBusy, CRDone, TextResting
  <2>4. WriterPart'
    BY SMT, <1>1, <1>5, <1>15, <2>1, <2>2 DEF Hw!Text!WriteCode, WriterPart, TextShape, Hw!Text!States, Hw!Text!Muxes, CWResting, CWBusy, CWDone, TextResting
  <2> QED
    BY SMT, <1>1, <1>15, <2>1, <2>2, <2>3, <2>4 DEF Hw!Text!WriteCode, TextShape, Hw!Text!States, Hw!Text!Muxes, TextResting, TextBusy, TextDone
<1>16. CASE ~write /\ Hw!Text!WriteCodeWait
  <2>1. /\ DOMAIN text' = TextRegs
        /\ text'.state = (IF cw.done THEN "SET_RD_ADDR" ELSE text.state)
        /\ text'.mux = (IF cw.done THEN "TEXT_HANDLER" ELSE text.mux)
        /\ text'.done = text.done
        /\ text'.read = text.read
        /\ text'.write = text.write
        /\ text'.k = text.k
        /\ text'.startCR = text.startCR
        /\ text'.writeCW = text.writeCW
        /\ ~text'.startCW
        /\ text'.codeAddr = text.codeAddr
        /\ text'.wrCode = text.wrCode
    BY SMT, <1>1, <1>16 DEF Hw!Text!WriteCodeWait, TextRegs, TextShape, Hw!Text!States, Hw!Text!Muxes
  <2>2. TextShape'
    BY SMT, <1>1, <1>16, <2>1 DEF Hw!Text!WriteCodeWait, TextShape, Hw!Text!States, Hw!Text!Muxes, TextResting
  <2>3. ReaderPart'
    BY SMT, <1>1, <1>4, <1>16, <2>1, <2>2 DEF Hw!Text!WriteCodeWait, ReaderPart, TextShape, Hw!Text!States, Hw!Text!Muxes, CRResting, CRBusy, CRDone, TextResting
  <2>4. WriterPart'
    BY SMT, <1>1, <1>5, <1>16, <2>1, <2>2 DEF Hw!Text!WriteCodeWait, WriterPart, TextShape, Hw!Text!States, Hw!Text!Muxes, CWResting, CWBusy, CWDone, TextResting
  <2> QED
    BY SMT, <1>1, <1>16, <2>1, <2>2, <2>3, <2>4 DEF Hw!Text!WriteCodeWait, TextShape, Hw!Text!States, Hw!Text!Muxes, TextResting, TextBusy, TextDone
<1>17. CASE ~write /\ Hw!Text!AddPadding
  <2>1. /\ DOMAIN text' = TextRegs
        /\ text'.state = "WAIT_PADDING"
        /\ text'.mux = "CODE_WR"
        /\ text'.done = text.done
        /\ text'.read = text.read
        /\ text'.write = text.write
        /\ text'.k = text.k
        /\ text'.startCR = text.startCR
        /\ text'.writeCW = text.writeCW
        /\ text'.startCW
        /\ text'.codeAddr = text.codeAddr
        /\ text'.wrCode = Hw!Text!Padding
    BY SMT, <1>1, <1>17 DEF Hw!Text!AddPadding, TextRegs, TextShape, Hw!Text!States, Hw!Text!Muxes
  <2>2. TextShape'
    BY SMT, <1>1, <1>17, <2>1 DEF Hw!Text!AddPadding, TextShape, Hw!Text!States, Hw!Text!Muxes, TextResting
  <2>3. ReaderPart'
    BY SMT, <1>1, <1>4, <1>17, <2>1, <2>2 DEF Hw!Text!AddPadding, ReaderPart, TextShape, Hw!Text!States, Hw!Text!Muxes, CRResting, CRBusy, CRDone, TextResting
  <2>4. WriterPart'
    BY SMT, <1>1, <1>5, <1>17, <2>1, <2>2 DEF Hw!Text!AddPadding, WriterPart, TextShape, Hw!Text!States, Hw!Text!Muxes, CWResting, CWBusy, CWDone, TextResting
  <2> QED
    BY SMT, <1>1, <1>17, <2>1, <2>2, <2>3, <2>4 DEF Hw!Text!AddPadding, TextShape, Hw!Text!States, Hw!Text!Muxes, TextResting, TextBusy, TextDone
<1>18. CASE ~write /\ Hw!Text!WaitPadding
  <2>1. /\ DOMAIN text' = TextRegs
        /\ text'.state = (IF cw.done THEN "WR_LEN" ELSE text.state)
        /\ text'.mux = (IF cw.done THEN "TEXT_HANDLER" ELSE text.mux)
        /\ text'.done = text.done
        /\ text'.read = text.read
        /\ text'.write = text.write
        /\ text'.k = (IF cw.done THEN 0 ELSE text.k)
        /\ text'.startCR = text.startCR
        /\ text'.writeCW = text.writeCW
        /\ ~text'.startCW
        /\ text'.codeAddr = text.codeAddr
        /\ text'.wrCode = text.wrCode
    BY SMT, <1>1, <1>18 DEF Hw!Text!WaitPadding, TextRegs, TextShape, Hw!Text!States, Hw!Text!Muxes
  <2>2. TextShape'
    BY SMT, <1>1, <1>18, <2>1 DEF Hw!Text!WaitPadding, TextShape, Hw!Text!States, Hw!Text!Muxes, TextResting
  <2>3. ReaderPart'
    BY SMT, <1>1, <1>4, <1>18, <2>1, <2>2 DEF Hw!Text!WaitPadding, ReaderPart, TextShape, Hw!Text!States, Hw!Text!Muxes, CRResting, CRBusy, CRDone, TextResting
  <2>4. WriterPart'
    BY SMT, <1>1, <1>5, <1>18, <2>1, <2>2 DEF Hw!Text!WaitPadding, WriterPart, TextShape, Hw!Text!States, Hw!Text!Muxes, CWResting, CWBusy, CWDone, TextResting
  <2> QED
    BY SMT, <1>1, <1>18, <2>1, <2>2, <2>3, <2>4 DEF Hw!Text!WaitPadding, TextShape, Hw!Text!States, Hw!Text!Muxes, TextResting, TextBusy, TextDone
<1>19. CASE ~write /\ Hw!Text!WrLen
  <2>1. /\ DOMAIN text' = TextRegs
        /\ text'.state = "WR_LEN_WAIT"
        /\ text'.mux = text.mux
        /\ text'.done = text.done
        /\ text'.read = text.read
        /\ text'.write
        /\ text'.k = text.k
        /\ text'.startCR = text.startCR
        /\ text'.writeCW = text.writeCW
        /\ text'.startCW = text.startCW
        /\ text'.codeAddr = text.codeAddr
        /\ text'.wrCode = text.wrCode
    BY SMT, <1>1, <1>19 DEF Hw!Text!WrLen, TextRegs, TextShape, Hw!Text!States, Hw!Text!Muxes
  <2>2. TextShape'
    BY SMT, <1>1, <1>19, <2>1 DEF Hw!Text!WrLen, TextShape, Hw!Text!States, Hw!Text!Muxes, TextResting
  <2>3. ReaderPart'
    BY SMT, <1>1, <1>4, <1>19, <2>1, <2>2 DEF Hw!Text!WrLen, ReaderPart, TextShape, Hw!Text!States, Hw!Text!Muxes, CRResting, CRBusy, CRDone, TextResting
  <2>4. WriterPart'
    BY SMT, <1>1, <1>5, <1>19, <2>1, <2>2 DEF Hw!Text!WrLen, WriterPart, TextShape, Hw!Text!States, Hw!Text!Muxes, CWResting, CWBusy, CWDone, TextResting
  <2> QED
    BY SMT, <1>1, <1>19, <2>1, <2>2, <2>3, <2>4 DEF Hw!Text!WrLen, TextShape, Hw!Text!States, Hw!Text!Muxes, TextResting, TextBusy, TextDone
<1>20. CASE ~write /\ Hw!Text!WrLenWait(own.wait) /\ text.k < 3
  <2>1. /\ DOMAIN text' = TextRegs
        /\ text'.state = "WR_LEN"
        /\ text'.mux = text.mux
        /\ text'.done = text.done
        /\ text'.read = text.read
        /\ ~text'.write
        /\ text'.k = text.k + 1
        /\ text'.startCR = text.startCR
        /\ text'.writeCW = text.writeCW
        /\ text'.startCW = text.startCW
        /\ text'.codeAddr = text.codeAddr
        /\ text'.wrCode = text.wrCode
    BY SMT, <1>1, <1>20 DEF Hw!Text!WrLenWait, TextRegs, TextShape, Hw!Text!States, Hw!Text!Muxes
  <2>2. TextShape'
    BY SMT, <1>1, <1>20, <2>1 DEF Hw!Text!WrLenWait, TextShape, Hw!Text!States, Hw!Text!Muxes, TextResting
  <2>3. ReaderPart'
    BY SMT, <1>1, <1>4, <1>20, <2>1, <2>2 DEF Hw!Text!WrLenWait, ReaderPart, TextShape, Hw!Text!States, Hw!Text!Muxes, CRResting, CRBusy, CRDone, TextResting
  <2>4. WriterPart'
    BY SMT, <1>1, <1>5, <1>20, <2>1, <2>2 DEF Hw!Text!WrLenWait, WriterPart, TextShape, Hw!Text!States, Hw!Text!Muxes, CWResting, CWBusy, CWDone, TextResting
  <2> QED
    BY SMT, <1>1, <1>20, <2>1, <2>2, <2>3, <2>4 DEF Hw!Text!WrLenWait, TextShape, Hw!Text!States, Hw!Text!Muxes, TextResting, TextBusy, TextDone
<1>21. CASE ~write /\ Hw!Text!WrLenWait(own.wait) /\ ~(text.k < 3)
  <2>1. /\ DOMAIN text' = TextRegs
        /\ text'.state = "IDLE"
        /\ text'.mux = text.mux
        /\ text'.done
        /\ text'.read = text.read
        /\ ~text'.write
        /\ text'.k = text.k
        /\ text'.startCR = text.startCR
        /\ text'.writeCW = text.writeCW
        /\ text'.startCW = text.startCW
        /\ text'.codeAddr = text.codeAddr
        /\ text'.wrCode = text.wrCode
    BY SMT, <1>1, <1>21 DEF Hw!Text!WrLenWait, TextRegs, TextShape, Hw!Text!States, Hw!Text!Muxes
  <2>2. TextShape'
    BY SMT, <1>1, <1>21, <2>1 DEF Hw!Text!WrLenWait, TextShape, Hw!Text!States, Hw!Text!Muxes, TextResting
  <2>3. ReaderPart'
    BY SMT, <1>1, <1>4, <1>21, <2>1, <2>2 DEF Hw!Text!WrLenWait, ReaderPart, TextShape, Hw!Text!States, Hw!Text!Muxes, CRResting, CRBusy, CRDone, TextResting
  <2>4. WriterPart'
    BY SMT, <1>1, <1>5, <1>21, <2>1, <2>2 DEF Hw!Text!WrLenWait, WriterPart, TextShape, Hw!Text!States, Hw!Text!Muxes, CWResting, CWBusy, CWDone, TextResting
  <2> QED
    BY SMT, <1>1, <1>21, <2>1, <2>2, <2>3, <2>4 DEF Hw!Text!WrLenWait, TextShape, Hw!Text!States, Hw!Text!Muxes, TextResting, TextBusy, TextDone
<1>22. CASE ~write /\ Hw!Text!Stall(own.wait)
  <2>1. /\ DOMAIN text' = TextRegs
        /\ text'.state = text.state
        /\ text'.mux = text.mux
        /\ text'.done = text.done
        /\ text'.read = text.read
        /\ text'.write = text.write
        /\ text'.k = text.k
        /\ text'.startCR = text.startCR
        /\ text'.writeCW = text.writeCW
        /\ text'.startCW = text.startCW
        /\ text'.codeAddr = text.codeAddr
        /\ text'.wrCode = text.wrCode
    BY SMT, <1>1, <1>22 DEF Hw!Text!Stall, TextRegs, TextShape, Hw!Text!States, Hw!Text!Muxes
  <2>2. TextShape'
    BY SMT, <1>1, <1>22, <2>1 DEF Hw!Text!Stall, TextShape, Hw!Text!States, Hw!Text!Muxes, TextResting
  <2>3. ReaderPart'
    BY SMT, <1>1, <1>4, <1>22, <2>1, <2>2 DEF Hw!Text!Stall, ReaderPart, TextShape, Hw!Text!States, Hw!Text!Muxes, CRResting, CRBusy, CRDone, TextResting
  <2>4. WriterPart'
    BY SMT, <1>1, <1>5, <1>22, <2>1, <2>2 DEF Hw!Text!Stall, WriterPart, TextShape, Hw!Text!States, Hw!Text!Muxes, CWResting, CWBusy, CWDone, TextResting
  <2> QED
    BY SMT, <1>1, <1>22, <2>1, <2>2, <2>3, <2>4 DEF Hw!Text!Stall, TextShape, Hw!Text!States, Hw!Text!Muxes, TextResting, TextBusy, TextDone
<1> QED
  BY <1>2, <1>6, <1>7, <1>8, <1>9, <1>10, <1>11, <1>12, <1>13, <1>14, <1>15, <1>16, <1>17, <1>18, <1>19, <1>20, <1>21, <1>22 DEF Hw!Text!EncodeText

\* A clock of the encoder's state machine with the two handlers it drives.
LEMMA EncTick ==
    ASSUME TreeShape, TextPart, EncPart,
           ctl.reset => EncQuiet, ctl.start => EncQuiet,
           NEW slv, NEW answer, NEW latch,
           Hw!Tick(slv, answer, latch)
    PROVE  /\ TreeShape' /\ TextPart' /\ EncPart'
           /\ EncQuiet /\ (ctl.reset \/ ~ctl.start) => EncQuiet'
           /\ enc.done => EncQuiet'
<1> DEFINE own == Hw!Seen("OWN", answer, latch)
           forTree == Hw!Seen("TREE", answer, latch)
           forText == Hw!Seen("TXT", answer, latch)
           TreeWaited(e, resting, busy, ready) ==
               IF e.state = "TREE_WAIT"
               THEN IF e.startTree THEN resting ELSE busy \/ ready
               ELSE ~e.startTree /\ resting
           TextWaited(e, resting, busy, ready) ==
               IF e.state = "TEXT_WAIT"
               THEN IF e.startText THEN resting ELSE busy \/ ready
               ELSE ~e.startText /\ resting
           Goal == /\ EncShape'
                   /\ TreeWaited(enc, TreeResting, TreeBusy, TreeDone)'
                   /\ TextWaited(enc, TextResting, TextBusy, TextDone)'
                   /\ EncQuiet /\ (ctl.reset \/ ~ctl.start) => EncQuiet'
                   /\ enc.done => EncQuiet'
<1>1. /\ EncShape
      /\ TreeWaited(enc, TreeResting, TreeBusy, TreeDone)
      /\ TextWaited(enc, TextResting, TextBusy, TextDone)
  BY DEF EncPart
<1>2. /\ Hw!Encode(own.wait)
      /\ Hw!Tree!Tick(enc.writeTree, ctl.reg[Hw!TREE_STR], ctl.reg[Hw!DST],
                      enc.startTree, forTree.wait, forTree.data)
      /\ Hw!Text!Tick(enc.writeText, ctl.reg[Hw!CODES], ctl.reg[Hw!TEXT_SRC],
                      ctl.reg[Hw!DST], tree.size, enc.startText, forText, latch)
  BY DEF Hw!Tick
<1> HIDE DEF own, forTree, forText
<1>3. /\ enc.writeTree \in BOOLEAN /\ enc.startTree \in BOOLEAN
      /\ enc.writeText \in BOOLEAN /\ enc.startText \in BOOLEAN
      /\ enc.writeTree => TreeResting /\ ~enc.startTree
      /\ enc.writeText => TextResting /\ ~enc.startText
      /\ text.done => ~enc.startText
  BY <1>1 DEF EncShape, TextResting
<1>4. /\ TreeShape'
      /\ TreeResting /\ ~enc.startTree => TreeResting'
      /\ TreeResting /\ enc.startTree => TreeBusy'
      /\ TreeBusy => TreeBusy' \/ TreeDone'
      /\ TreeDone /\ ~enc.startTree => TreeResting'
  <2> HIDE DEF TreeWaited, TextWaited, Goal
  <2>1. /\ TreeShape'
        /\ TreeResting /\ (enc.writeTree \/ ~enc.startTree) => TreeResting'
        /\ TreeResting /\ ~enc.writeTree /\ enc.startTree => TreeBusy'
        /\ TreeBusy /\ ~enc.writeTree => TreeBusy' \/ TreeDone'
        /\ TreeDone /\ ~enc.writeTree /\ ~enc.startTree => TreeResting'
    BY <1>2, <1>3, TreeTick
  <2>2. TreeBusy \/ TreeDone => ~TreeResting
    BY DEF TreeBusy, TreeDone, TreeResting
  <2> QED BY <1>3, <2>1, <2>2
<1>5. /\ TextPart'
      /\ TextResting /\ ~enc.startText => TextResting'
      /\ TextResting /\ enc.startText => TextBusy'
      /\ TextBusy => TextBusy' \/ TextDone'
      /\ TextDone /\ ~enc.startText => TextResting'
  <2> HIDE DEF TreeWaited, TextWaited, Goal
  <2>1. /\ TextPart'
        /\ TextResting /\ (enc.writeText \/ ~enc.startText) => TextResting'
        /\ TextResting /\ ~enc.writeText /\ enc.startText => TextBusy'
        /\ TextBusy => TextBusy' \/ TextDone'
        /\ TextDone /\ ~enc.startText => TextResting'
    BY <1>2, <1>3, TextTick
  <2> QED BY <1>3, <2>1
<1> SUFFICES Goal
  BY <1>4, <1>5 DEF EncPart
<1>6. CASE ctl.reset /\ Hw!ResetState
  <2>1. /\ DOMAIN enc' = EncRegs
        /\ enc'.state = "IDLE"
        /\ enc'.mux = enc.mux
        /\ enc'.done = enc.done
        /\ enc'.write = enc.write
        /\ enc'.k = enc.k
        /\ enc'.writeTree = enc.writeTree
        /\ enc'.startTree = enc.startTree
        /\ enc'.writeText = enc.writeText
        /\ enc'.startText = enc.startText
    BY SMT, <1>1, <1>6 DEF Hw!ResetState, EncRegs, EncShape, Hw!States
  <2>2. EncShape'
    BY SMT, <1>1, <1>6, <2>1 DEF Hw!ResetState, EncShape, Hw!States, EncQuiet
  <2>3. TreeWaited(enc, TreeResting, TreeBusy, TreeDone)'
    BY SMT, <1>1, <1>4, <1>6, <2>1, <2>2 DEF Hw!ResetState, EncShape, Hw!States, EncQuiet, TreeResting, TreeBusy, TreeDone
  <2>4. TextWaited(enc, TextResting, TextBusy, TextDone)'
    BY SMT, <1>1, <1>5, <1>6, <2>1, <2>2 DEF Hw!ResetState, EncShape, Hw!States, EncQuiet, TextResting, TextBusy, TextDone
  <2> QED
    BY SMT, <1>1, <1>6, <2>1, <2>2, <2>3, <2>4 DEF Hw!ResetState, EncShape, Hw!States, EncQuiet
<1>7. CASE ~ctl.reset /\ ctl.start /\ Hw!Idle
  <2>1. /\ DOMAIN enc' = EncRegs
        /\ enc'.state = "TREE_WR_INPUT"
        /\ enc'.mux = enc.mux
        /\ ~enc'.done
        /\ enc'.write = enc.write
        /\ enc'.k = enc.k
        /\ enc'.writeTree = enc.writeTree
        /\ enc'.startTree = enc.startTree
        /\ enc'.writeText = enc.writeText
        /\ enc'.startText = enc.startText
    BY SMT, <1>1, <1>7 DEF Hw!Idle, EncRegs, EncShape, Hw!States
  <2>2. EncShape'
    BY SMT, <1>1, <1>7, <2>1 DEF Hw!Idle, EncShape, Hw!States, EncQuiet
  <2>3. TreeWaited(enc, TreeResting, TreeBusy, TreeDone)'
    BY SMT, <1>1, <1>4, <1>7, <2>1, <2>2 DEF Hw!Idle, EncShape, Hw!States, EncQuiet, TreeResting, TreeBusy, TreeDone
  <2>4. TextWaited(enc, TextResting, TextBusy, TextDone)'
    BY SMT, <1>1, <1>5, <1>7, <2>1, <2>2 DEF Hw!Idle, EncShape, Hw!States, EncQuiet, TextResting, TextBusy, TextDone
  <2> QED
    BY SMT, <1>1, <1>7, <2>1, <2>2, <2>3, <2>4 DEF Hw!Idle, EncShape, Hw!States, EncQuiet
<1>8. CASE ~ctl.reset /\ ~ctl.start /\ Hw!Idle
  <2>1. /\ DOMAIN enc' = EncRegs
        /\ enc'.state = enc.state
        /\ enc'.mux = enc.mux
        /\ ~enc'.done
        /\ enc'.write = enc.write
        /\ enc'.k = enc.k
        /\ enc'.writeTree = enc.writeTree
        /\ enc'.startTree = enc.startTree
        /\ enc'.writeText = enc.writeText
        /\ enc'.startText = enc.startText
    BY SMT, <1>1, <1>8 DEF Hw!Idle, EncRegs, EncShape, Hw!States
  <2>2. EncShape'
    BY SMT, <1>1, <1>8, <2>1 DEF Hw!Idle, EncShape, Hw!States, EncQuiet
  <2>3. TreeWaited(enc, TreeResting, TreeBusy, TreeDone)'
    BY SMT, <1>1, <1>4, <1>8, <2>1, <2>2 DEF Hw!Idle, EncShape, Hw!States, EncQuiet, TreeResting, TreeBusy, TreeDone
  <2>4. TextWaited(enc, TextResting, TextBusy, TextDone)'
    BY SMT, <1>1, <1>5, <1>8, <2>1, <2>2 DEF Hw!Idle, EncShape, Hw!States, EncQuiet, TextResting, TextBusy, TextDone
  <2> QED
    BY SMT, <1>1, <1>8, <2>1, <2>2, <2>3, <2>4 DEF Hw!Idle, EncShape, Hw!States, EncQuiet
<1>9. CASE ~ctl.reset /\ Hw!TreeWrInput
  <2>1. /\ DOMAIN enc' = EncRegs
        /\ enc'.state = "TREE_START"
        /\ enc'.mux = enc.mux
        /\ enc'.done = enc.done
        /\ enc'.write = enc.write
        /\ enc'.k = enc.k
        /\ enc'.writeTree
        /\ enc'.startTree = enc.startTree
        /\ enc'.writeText = enc.writeText
        /\ enc'.startText = enc.startText
    BY SMT, <1>1, <1>9 DEF Hw!TreeWrInput, EncRegs, EncShape, Hw!States
  <2>2. EncShape'
    BY SMT, <1>1, <1>9, <2>1 DEF Hw!TreeWrInput, EncShape, Hw!States, EncQuiet
  <2>3. TreeWaited(enc, TreeResting, TreeBusy, TreeDone)'
    BY SMT, <1>1, <1>4, <1>9, <2>1, <2>2 DEF Hw!TreeWrInput, EncShape, Hw!States, EncQuiet, TreeResting, TreeBusy, TreeDone
  <2>4. TextWaited(enc, TextResting, TextBusy, TextDone)'
    BY SMT, <1>1, <1>5, <1>9, <2>1, <2>2 DEF Hw!TreeWrInput, EncShape, Hw!States, EncQuiet, TextResting, TextBusy, TextDone
  <2> QED
    BY SMT, <1>1, <1>9, <2>1, <2>2, <2>3, <2>4 DEF Hw!TreeWrInput, EncShape, Hw!States, EncQuiet
<1>10. CASE ~ctl.reset /\ Hw!TreeStart
  <2>1. /\ DOMAIN enc' = EncRegs
        /\ enc'.state = "TREE_WAIT"
        /\ enc'.mux = "TREE"
        /\ enc'.done = enc.done
        /\ enc'.write = enc.write
        /\ enc'.k = enc.k
        /\ ~enc'.writeTree
        /\ enc'.startTree
        /\ enc'.writeText = enc.writeText
        /\ enc'.startText = enc.startText
    BY SMT, <1>1, <1>10 DEF Hw!TreeStart, EncRegs, EncShape, Hw!States
  <2>2. EncShape'
    BY SMT, <1>1, <1>10, <2>1 DEF Hw!TreeStart, EncShape, Hw!States, EncQuiet
  <2>3. TreeWaited(enc, TreeResting, TreeBusy, TreeDone)'
    BY SMT, <1>1, <1>4, <1>10, <2>1, <2>2 DEF Hw!TreeStart, EncShape, Hw!States, EncQuiet, TreeResting, TreeBusy, TreeDone
  <2>4. TextWaited(enc, TextResting, TextBusy, TextDone)'
    BY SMT, <1>1, <1>5, <1>10, <2>1, <2>2 DEF Hw!TreeStart, EncShape, Hw!States, EncQuiet, TextResting, TextBusy, TextDone
  <2> QED
    BY SMT, <1>1, <1>10, <2>1, <2>2, <2>3, <2>4 DEF Hw!TreeStart, EncShape, Hw!States, EncQuiet
<1>11. CASE ~ctl.reset /\ Hw!TreeWait
  <2>1. /\ DOMAIN enc' = EncRegs
        /\ enc'.state = (IF tree.done THEN "TEXT_WR_INPUT" ELSE enc.state)
        /\ enc'.mux = (IF tree.done THEN "TXT" ELSE enc.mux)
        /\ enc'.done = enc.done
        /\ enc'.write = enc.write
        /\ enc'.k = enc.k
        /\ enc'.writeTree = enc.writeTree
        /\ ~enc'.startTree
        /\ enc'.writeText = enc.writeText
        /\ enc'.startText = enc.startText
    BY SMT, <1>1, <1>11 DEF Hw!TreeWait, EncRegs, EncShape, Hw!States
  <2>2. EncShape'
    BY SMT, <1>1, <1>11, <2>1 DEF Hw!TreeWait, EncShape, Hw!States, EncQuiet
  <2>3. TreeWaited(enc, TreeResting, TreeBusy, TreeDone)'
    BY SMT, <1>1, <1>4, <1>11, <2>1, <2>2 DEF Hw!TreeWait, EncShape, Hw!States, EncQuiet, TreeResting, TreeBusy, TreeDone
  <2>4. TextWaited(enc, TextResting, TextBusy, TextDone)'
    BY SMT, <1>1, <1>5, <1>11, <2>1, <2>2 DEF Hw!TreeWait, EncShape, Hw!States, EncQuiet, TextResting, TextBusy, TextDone
  <2> QED
    BY SMT, <1>1, <1>11, <2>1, <2>2, <2>3, <2>4 DEF Hw!TreeWait, EncShape, Hw!States, EncQuiet
<1>12. CASE ~ctl.reset /\ Hw!TextWrInput
  <2>1. /\ DOMAIN enc' = EncRegs
        /\ enc'.state = "TEXT_START"
        /\ enc'.mux = enc.mux
        /\ enc'.done = enc.done
        /\ enc'.write = enc.write
        /\ enc'.k = enc.k
        /\ enc'.writeTree = enc.writeTree
        /\ enc'.startTree = enc.startTree
        /\ enc'.writeText
        /\ enc'.startText = enc.startText
    BY SMT, <1>1, <1>12 DEF Hw!TextWrInput, EncRegs, EncShape, Hw!States
  <2>2. EncShape'
    BY SMT, <1>1, <1>12, <2>1 DEF Hw!TextWrInput, EncShape, Hw!States, EncQuiet
  <2>3. TreeWaited(enc, TreeResting, TreeBusy, TreeDone)'
    BY SMT, <1>1, <1>4, <1>12, <2>1, <2>2 DEF Hw!TextWrInput, EncShape, Hw!States, EncQuiet, TreeResting, TreeBusy, TreeDone
  <2>4. TextWaited(enc, TextResting, TextBusy, TextDone)'
    BY SMT, <1>1, <1>5, <1>12, <2>1, <2>2 DEF Hw!TextWrInput, EncShape, Hw!States, EncQuiet, TextResting, TextBusy, TextDone
  <2> QED
    BY SMT, <1>1, <1>12, <2>1, <2>2, <2>3, <2>4 DEF Hw!TextWrInput, EncShape, Hw!States, EncQuiet
<1>13. CASE ~ctl.reset /\ Hw!TextStart
  <2>1. /\ DOMAIN enc' = EncRegs
        /\ enc'.state = "TEXT_WAIT"
        /\ enc'.mux = enc.mux
        /\ enc'.done = enc.done
        /\ enc'.write = enc.write
        /\ enc'.k = enc.k
        /\ enc'.writeTree = enc.writeTree
        /\ enc'.startTree = enc.startTree
        /\ ~enc'.writeText
        /\ enc'.startText
    BY SMT, <1>1, <1>13 DEF Hw!TextStart, EncRegs, EncShape, Hw!States
  <2>2. EncShape'
    BY SMT, <1>1, <1>13, <2>1 DEF Hw!TextStart, EncShape, Hw!States, EncQuiet
  <2>3. TreeWaited(enc, TreeResting, TreeBusy, TreeDone)'
    BY SMT, <1>1, <1>4, <1>13, <2>1, <2>2 DEF Hw!TextStart, EncShape, Hw!States, EncQuiet, TreeResting, TreeBusy, TreeDone
  <2>4. TextWaited(enc, TextResting, TextBusy, TextDone)'
    BY SMT, <1>1, <1>5, <1>13, <2>1, <2>2 DEF Hw!TextStart, EncShape, Hw!States, EncQuiet, TextResting, TextBusy, TextDone
  <2> QED
    BY SMT, <1>1, <1>13, <2>1, <2>2, <2>3, <2>4 DEF Hw!TextStart, EncShape, Hw!States, EncQuiet
<1>14. CASE ~ctl.reset /\ Hw!TextWait
  <2>1. /\ DOMAIN enc' = EncRegs
        /\ enc'.state = (IF text.done THEN "WR_TOTAL_LEN" ELSE enc.state)
        /\ enc'.mux = (IF text.done THEN "OWN" ELSE enc.mux)
        /\ enc'.done = enc.done
        /\ enc'.write = enc.write
        /\ enc'.k = (IF text.done THEN 0 ELSE enc.k)
        /\ enc'.writeTree = enc.writeTree
        /\ enc'.startTree = enc.startTree
        /\ enc'.writeText = enc.writeText
        /\ ~enc'.startText
    BY SMT, <1>1, <1>14 DEF Hw!TextWait, EncRegs, EncShape, Hw!States
  <2>2. EncShape'
    BY SMT, <1>1, <1>14, <2>1 DEF Hw!TextWait, EncShape, Hw!States, EncQuiet
  <2>3. TreeWaited(enc, TreeResting, TreeBusy, TreeDone)'
    BY SMT, <1>1, <1>4, <1>14, <2>1, <2>2 DEF Hw!TextWait, EncShape, Hw!States, EncQuiet, TreeResting, TreeBusy, TreeDone
  <2>4. TextWaited(enc, TextResting, TextBusy, TextDone)'
    BY SMT, <1>1, <1>5, <1>14, <2>1, <2>2 DEF Hw!TextWait, EncShape, Hw!States, EncQuiet, TextResting, TextBusy, TextDone
  <2> QED
    BY SMT, <1>1, <1>14, <2>1, <2>2, <2>3, <2>4 DEF Hw!TextWait, EncShape, Hw!States, EncQuiet
<1>15. CASE ~ctl.reset /\ Hw!WrTotalLen
  <2>1. /\ DOMAIN enc' = EncRegs
        /\ enc'.state = "WR_TOTAL_LEN_WAIT"
        /\ enc'.mux = enc.mux
        /\ enc'.done = enc.done
        /\ enc'.write
        /\ enc'.k = enc.k
        /\ enc'.writeTree = enc.writeTree
        /\ enc'.startTree = enc.startTree
        /\ enc'.writeText = enc.writeText
        /\ enc'.startText = enc.startText
    BY SMT, <1>1, <1>15 DEF Hw!WrTotalLen, EncRegs, EncShape, Hw!States
  <2>2. EncShape'
    BY SMT, <1>1, <1>15, <2>1 DEF Hw!WrTotalLen, EncShape, Hw!States, EncQuiet
  <2>3. TreeWaited(enc, TreeResting, TreeBusy, TreeDone)'
    BY SMT, <1>1, <1>4, <1>15, <2>1, <2>2 DEF Hw!WrTotalLen, EncShape, Hw!States, EncQuiet, TreeResting, TreeBusy, TreeDone
  <2>4. TextWaited(enc, TextResting, TextBusy, TextDone)'
    BY SMT, <1>1, <1>5, <1>15, <2>1, <2>2 DEF Hw!WrTotalLen, EncShape, Hw!States, EncQuiet, TextResting, TextBusy, TextDone
  <2> QED
    BY SMT, <1>1, <1>15, <2>1, <2>2, <2>3, <2>4 DEF Hw!WrTotalLen, EncShape, Hw!States, EncQuiet
<1>16. CASE ~ctl.reset /\ enc.k < 3 /\ Hw!WrTotalLenWait(own.wait)
  <2>1. /\ DOMAIN enc' = EncRegs
        /\ enc'.state = "WR_TOTAL_LEN"
        /\ enc'.mux = enc.mux
        /\ enc'.done = enc.done
        /\ ~enc'.write
        /\ enc'.k = enc.k + 1
        /\ enc'.writeTree = enc.writeTree
        /\ enc'.startTree = enc.startTree
        /\ enc'.writeText = enc.writeText
        /\ enc'.startText = enc.startText
    BY SMT, <1>1, <1>16 DEF Hw!WrTotalLenWait, EncRegs, EncShape, Hw!States
  <2>2. EncShape'
    BY SMT, <1>1, <1>16, <2>1 DEF Hw!WrTotalLenWait, EncShape, Hw!States, EncQuiet
  <2>3. TreeWaited(enc, TreeResting, TreeBusy, TreeDone)'
    BY SMT, <1>1, <1>4, <1>16, <2>1, <2>2 DEF Hw!WrTotalLenWait, EncShape, Hw!States, EncQuiet, TreeResting, TreeBusy, TreeDone
  <2>4. TextWaited(enc, TextResting, TextBusy, TextDone)'
    BY SMT, <1>1, <1>5, <1>16, <2>1, <2>2 DEF Hw!WrTotalLenWait, EncShape, Hw!States, EncQuiet, TextResting, TextBusy, TextDone
  <2> QED
    BY SMT, <1>1, <1>16, <2>1, <2>2, <2>3, <2>4 DEF Hw!WrTotalLenWait, EncShape, Hw!States, EncQuiet
<1>17. CASE ~ctl.reset /\ ~(enc.k < 3) /\ Hw!WrTotalLenWait(own.wait)
  <2>1. /\ DOMAIN enc' = EncRegs
        /\ enc'.state = "IDLE"
        /\ enc'.mux = "NONE"
        /\ enc'.done
        /\ ~enc'.write
        /\ enc'.k = enc.k
        /\ enc'.writeTree = enc.writeTree
        /\ enc'.startTree = enc.startTree
        /\ enc'.writeText = enc.writeText
        /\ enc'.startText = enc.startText
    BY SMT, <1>1, <1>17 DEF Hw!WrTotalLenWait, EncRegs, EncShape, Hw!States
  <2>2. EncShape'
    BY SMT, <1>1, <1>17, <2>1 DEF Hw!WrTotalLenWait, EncShape, Hw!States, EncQuiet
  <2>3. TreeWaited(enc, TreeResting, TreeBusy, TreeDone)'
    BY SMT, <1>1, <1>4, <1>17, <2>1, <2>2 DEF Hw!WrTotalLenWait, EncShape, Hw!States, EncQuiet, TreeResting, TreeBusy, TreeDone
  <2>4. TextWaited(enc, TextResting, TextBusy, TextDone)'
    BY SMT, <1>1, <1>5, <1>17, <2>1, <2>2 DEF Hw!WrTotalLenWait, EncShape, Hw!States, EncQuiet, TextResting, TextBusy, TextDone
  <2> QED
    BY SMT, <1>1, <1>17, <2>1, <2>2, <2>3, <2>4 DEF Hw!WrTotalLenWait, EncShape, Hw!States, EncQuiet
<1>18. CASE ~ctl.reset /\ Hw!Stall(own.wait)
  <2>1. /\ DOMAIN enc' = EncRegs
        /\ enc'.state = enc.state
        /\ enc'.mux = enc.mux
        /\ enc'.done = enc.done
        /\ enc'.write = enc.write
        /\ enc'.k = enc.k
        /\ enc'.writeTree = enc.writeTree
        /\ enc'.startTree = enc.startTree
        /\ enc'.writeText = enc.writeText
        /\ enc'.startText = enc.startText
    BY SMT, <1>1, <1>18 DEF Hw!Stall, EncRegs, EncShape, Hw!States
  <2>2. EncShape'
    BY SMT, <1>1, <1>18, <2>1 DEF Hw!Stall, EncShape, Hw!States, EncQuiet
  <2>3. TreeWaited(enc, TreeResting, TreeBusy, TreeDone)'
    BY SMT, <1>1, <1>4, <1>18, <2>1, <2>2 DEF Hw!Stall, EncShape, Hw!States, EncQuiet, TreeResting, TreeBusy, TreeDone
  <2>4. TextWaited(enc, TextResting, TextBusy, TextDone)'
    BY SMT, <1>1, <1>5, <1>18, <2>1, <2>2 DEF Hw!Stall, EncShape, Hw!States, EncQuiet, TextResting, TextBusy, TextDone
  <2> QED
    BY SMT, <1>1, <1>18, <2>1, <2>2, <2>3, <2>4 DEF Hw!Stall, EncShape, Hw!States, EncQuiet
<1> HIDE DEF Goal
<1> QED
  BY <1>2, <1>6, <1>7, <1>8, <1>9, <1>10, <1>11, <1>12, <1>13, <1>14, <1>15, <1>16, <1>17, <1>18 DEF Hw!Encode, Hw!ResetState

-----------------------------------------------------------------------------
(* The driver *)

\* A clock of the register file, with or without an access to it.
LEMMA CtlTick ==
    ASSUME CtlShape, enc.done \in BOOLEAN, NEW slv, Hw!Ctrl(slv)
    PROVE  /\ DOMAIN ctl' = CtlRegs
           /\ ctl'.start \in BOOLEAN /\ (ctl'.start <=> ctl.control = {1})
           /\ ctl'.reset \in BOOLEAN /\ (ctl'.reset <=> ctl.control = {0})
           /\ ctl'.status \in BOOLEAN
           /\ ctl'.status <=> enc.done \/ (ctl.status /\ ~ctl.reset /\ ctl.control # {1})
           /\ ~(slv.op = "write" /\ slv.reg = 4) => ctl'.control = {}
           /\ slv.op = "write" /\ slv.reg = 4 /\ slv.val \in {{0}, {1}} /\ ctl.control = {} /\ ~ctl.reset =>
                 ctl'.control = slv.val
<1>1. ctl'.control = Hw!NextControl(slv)
  BY DEF Hw!Ctrl
<1>2. DOMAIN ctl' = CtlRegs
  BY SMT DEF Hw!Ctrl, CtlRegs
<1>3. /\ ctl'.start = (0 \notin ctl.control /\ 1 \in ctl.control)
      /\ ctl'.reset = (0 \in ctl.control)
      /\ ctl'.status = Hw!NextStatus
  BY SMT DEF Hw!Ctrl
<1>4. /\ (0 \in ctl.control) = (ctl.control = {0})
      /\ (0 \notin ctl.control /\ 1 \in ctl.control) = (ctl.control = {1})
  <2>1. CASE ctl.control = {}
    BY SMT, <2>1
  <2>2. CASE ctl.control = {0}
    BY SMT, <2>2
  <2>3. CASE ctl.control = {1}
    BY SMT, <2>3
  <2> QED BY <2>1, <2>2, <2>3 DEF CtlShape
<1>5. /\ ctl'.start = (ctl.control = {1})
      /\ ctl'.reset = (ctl.control = {0})
  BY <1>3, <1>4
<1>6. /\ ctl'.status \in BOOLEAN
      /\ ctl'.status <=> enc.done \/ (ctl.status /\ ~ctl.reset /\ ctl.control # {1})
  BY <1>3, <1>4 DEF Hw!NextStatus, CtlShape
<1>7. ~(slv.op = "write" /\ slv.reg = 4) => ctl'.control = {}
  BY SMT, <1>1 DEF Hw!NextControl, Hw!CONTROL, CtlShape
<1>8. slv.op = "write" /\ slv.reg = 4 /\ slv.val \in {{0}, {1}} /\ ctl.control = {} /\ ~ctl.reset =>
         ctl'.control = slv.val
  BY SMT, <1>1 DEF Hw!NextControl, Hw!CONTROL, CtlShape
<1> QED
  BY <1>2, <1>5, <1>6, <1>7, <1>8

\* What a clock edge does to the entities does not depend on the driver.
LEMMA EdgeKeeps ==
    ASSUME TreeShape, TextPart, EncPart, CtlShape, NEW t, DriverAt(t),
           NEW slv, NEW wait, NEW latch, FpgaEdge(slv, wait, latch)
    PROVE  /\ TreeShape' /\ TextPart' /\ EncPart'
           /\ EncQuiet /\ (ctl.reset \/ ~ctl.start) => EncQuiet'
           /\ enc.done => EncQuiet'
           /\ enc.done \in BOOLEAN /\ Hw!Ctrl(slv)
           /\ crashes' = crashes
<1> DEFINE answer == [wait |-> wait, data |-> Fetch(mem, Hw!Bus.addr)]
<1>1. Hw!Tick(slv, answer, latch) /\ crashes' = crashes
  BY DEF FpgaEdge
<1> HIDE DEF answer
<1>2. (ctl.reset => EncQuiet) /\ (ctl.start => EncQuiet)
  BY DEF DriverAt
<1>3. Hw!Ctrl(slv)
  BY <1>1 DEF Hw!Tick
<1>4. enc.done \in BOOLEAN
  BY DEF EncPart, EncShape
<1> QED
  BY <1>1, <1>2, <1>3, <1>4, EncTick

\* The driver's place after an edge without an access.
LEMMA EdgeDriver ==
    ASSUME Control, NEW t, Threads = {t}, MinGap \in Nat, MinGap >= 3,
           NEW wait, NEW latch, Edge(wait, latch)
    PROVE  Control'
<1>1. /\ TreeShape /\ TextPart /\ EncPart /\ CtlShape /\ DriverAt(t)
      /\ DOMAIN thread = Threads /\ crashes = 0 /\ gap \in 1 .. MinGap
  BY DEF Control, DriverPart
<1>2. /\ FpgaEdge(Hw!NoOp, wait, latch) /\ thread' = thread
      /\ gap' = IF gap < MinGap THEN gap + 1 ELSE gap
  BY DEF Edge
<1>3. /\ TreeShape' /\ TextPart' /\ EncPart'
      /\ EncQuiet /\ (ctl.reset \/ ~ctl.start) => EncQuiet'
      /\ enc.done => EncQuiet'
      /\ enc.done \in BOOLEAN /\ Hw!Ctrl(Hw!NoOp)
      /\ crashes' = crashes
  BY <1>1, <1>2, EdgeKeeps
<1>4. ~(Hw!NoOp.op = "write" /\ Hw!NoOp.reg = 4)
  BY SMT DEF Hw!NoOp
<1>5. /\ DOMAIN ctl' = CtlRegs
      /\ ctl'.start \in BOOLEAN /\ (ctl'.start <=> ctl.control = {1})
      /\ ctl'.reset \in BOOLEAN /\ (ctl'.reset <=> ctl.control = {0})
      /\ ctl'.status \in BOOLEAN
      /\ ctl'.status <=> enc.done \/ (ctl.status /\ ~ctl.reset /\ ctl.control # {1})
      /\ ctl'.control = {}
  BY <1>1, <1>3, <1>4, CtlTick
<1>6. CtlShape'
  BY <1>5 DEF CtlShape
<1>7. gap' \in 1 .. MinGap /\ gap' # 1 /\ (gap' = 2 <=> gap = 1) /\ (gap' > 2 => gap >= 2)
  BY SMT, <1>1, <1>2
<1>8. DriverAt(t)'
  <2>1. DOMAIN thread'[t] = ThreadVars /\ thread'[t].pc \in Pcs /\ thread'[t].i \in 0 .. 3
    BY <1>1, <1>2 DEF DriverAt
  <2>2. thread'[t].pc # "wait" => EncQuiet' /\ ~ctl'.start /\ ctl'.control # {1}
    BY <1>1, <1>2, <1>3, <1>5 DEF DriverAt
  <2>3. thread'[t].pc = "start" => /\ gap' = 1 <=> ctl'.control = {0}
                                   /\ gap' = 2 <=> ctl'.reset
                                   /\ gap' > 2 => ~ctl'.status
    <3> SUFFICES ASSUME thread[t].pc = "start"
                 PROVE /\ gap' = 1 <=> ctl'.control = {0}
                       /\ gap' = 2 <=> ctl'.reset
                       /\ gap' > 2 => ~ctl'.status
      BY <1>2
    <3>1. /\ EncQuiet
          /\ gap = 1 <=> ctl.control = {0}
          /\ gap = 2 <=> ctl.reset
          /\ gap > 2 => ~ctl.status
      BY <1>1 DEF DriverAt
    <3>2. gap' > 2 => gap = 2 \/ gap > 2
      BY SMT, <1>1, <1>2
    <3> QED
      BY <1>5, <1>7, <3>1, <3>2 DEF EncQuiet
  <2>4. ctl'.start => EncQuiet'
    BY <1>1, <1>3, <1>5 DEF DriverAt
  <2>5. ctl'.reset => thread'[t].pc = "start"
    BY <1>1, <1>2, <1>5 DEF DriverAt
  <2>6. thread'[t].pc = "wait" /\ ctl'.status => EncQuiet' /\ ~ctl'.start
    BY <1>1, <1>2, <1>3, <1>5 DEF DriverAt, EncQuiet
  <2> QED
    BY <1>5, <2>1, <2>2, <2>3, <2>4, <2>5, <2>6 DEF DriverAt
<1> QED
  BY <1>1, <1>2, <1>3, <1>6, <1>7, <1>8 DEF Control, DriverPart

\* The driver's place after an edge with an access.
LEMMA AccessDriver ==
    ASSUME Control, NEW t, Threads = {t}, MinGap \in Nat, MinGap >= 3,
           NEW wait, NEW latch, AccessEdge(t, wait, latch)
    PROVE  Control'
<1>1. /\ TreeShape /\ TextPart /\ EncPart /\ CtlShape /\ DriverAt(t)
      /\ DOMAIN thread = Threads /\ crashes = 0 /\ gap \in 1 .. MinGap
  BY DEF Control, DriverPart
<1>2. /\ FpgaEdge(Access(t), wait, latch) /\ AfterAccess(t)
      /\ thread[t].pc \in SlavePcs /\ gap > 2 /\ gap # 1 /\ gap # 2 /\ gap' = 1
  BY SMT, <1>1 DEF AccessEdge
<1>3. /\ TreeShape' /\ TextPart' /\ EncPart'
      /\ EncQuiet /\ (ctl.reset \/ ~ctl.start) => EncQuiet'
      /\ enc.done => EncQuiet'
      /\ enc.done \in BOOLEAN /\ Hw!Ctrl(Access(t))
      /\ crashes' = crashes
  BY <1>1, <1>2, EdgeKeeps
<1> DEFINE slv == Access(t)
<1>4. /\ DOMAIN ctl' = CtlRegs
      /\ ctl'.start \in BOOLEAN /\ (ctl'.start <=> ctl.control = {1})
      /\ ctl'.reset \in BOOLEAN /\ (ctl'.reset <=> ctl.control = {0})
      /\ ctl'.status \in BOOLEAN
      /\ ctl'.status <=> enc.done \/ (ctl.status /\ ~ctl.reset /\ ctl.control # {1})
      /\ ~(slv.op = "write" /\ slv.reg = 4) => ctl'.control = {}
      /\ slv.op = "write" /\ slv.reg = 4 /\ slv.val \in {{0}, {1}} /\ ctl.control = {} /\ ~ctl.reset =>
            ctl'.control = slv.val
  <2> HIDE DEF slv
  <2> QED BY <1>1, <1>3, CtlTick DEF slv
<1>5. gap' \in 1 .. MinGap
  BY SMT, <1>2
<1>6. /\ DOMAIN thread' = Threads /\ DOMAIN thread'[t] = ThreadVars
      /\ thread'[t].i = (IF thread[t].pc = "addrs" /\ thread[t].i < 3 THEN thread[t].i + 1 ELSE thread[t].i)
      /\ thread[t].pc = "addrs" => thread'[t].pc = IF thread[t].i < 3 THEN "addrs" ELSE "reset"
      /\ thread[t].pc = "reset" => thread'[t].pc = "start"
      /\ thread[t].pc = "start" => thread'[t].pc = "wait"
      /\ thread[t].pc = "wait" => thread'[t].pc = IF ctl.status THEN "total" ELSE "wait"
  BY SMT, <1>1, <1>2 DEF AfterAccess, DriverAt, ThreadVars
<1>7. thread'[t].pc \in Pcs /\ thread'[t].i \in 0 .. 3
  BY SMT, <1>1, <1>2, <1>6 DEF SlavePcs, Pcs, DriverAt
<1>8. DriverAt(t)' /\ CtlShape'
  <2>1. CASE thread[t].pc = "addrs"
    <3>1. slv.op = "write" /\ slv.reg = thread[t].i /\ slv.reg # 4
      BY SMT, <1>1, <2>1 DEF Access, Hw!Write, DriverAt
    <3>2. ctl'.control = {} /\ EncQuiet' /\ ~ctl'.start /\ ~ctl'.reset
      BY <1>1, <1>3, <1>4, <2>1, <3>1 DEF DriverAt
    <3>3. thread'[t].pc \in {"addrs", "reset"}
      BY <1>6, <2>1
    <3> QED BY <1>4, <1>6, <1>7, <3>2, <3>3 DEF DriverAt, CtlShape
  <2>2. CASE thread[t].pc = "reset"
    <3>1. slv.op = "write" /\ slv.reg = 4 /\ slv.val = {0}
      BY SMT, <2>2 DEF Access, Hw!Write, Hw!CONTROL
    <3>2. ctl.control = {} /\ ~ctl.reset /\ EncQuiet /\ ~ctl.start
      BY <1>1, <2>2 DEF DriverAt, CtlShape
    <3>3. ctl'.control = {0} /\ EncQuiet' /\ ~ctl'.start /\ ~ctl'.reset
      BY <1>3, <1>4, <3>1, <3>2
    <3>4. {0} # {1} /\ {0} # {}
      OBVIOUS
    <3> QED BY <1>2, <1>4, <1>6, <1>7, <2>2, <3>3, <3>4 DEF DriverAt, CtlShape
  <2>3. CASE thread[t].pc = "start"
    <3>1. slv.op = "write" /\ slv.reg = 4 /\ slv.val = {1}
      BY SMT, <2>3 DEF Access, Hw!Write, Hw!CONTROL
    <3>2. ctl.control = {} /\ ~ctl.reset /\ EncQuiet /\ ~ctl.start /\ ~ctl.status
      BY <1>1, <1>2, <2>3 DEF DriverAt, CtlShape
    <3>3. ctl'.control = {1} /\ EncQuiet' /\ ~ctl'.start /\ ~ctl'.reset /\ ~ctl'.status
      BY <1>3, <1>4, <3>1, <3>2 DEF EncQuiet
    <3>4. {0} # {1} /\ {1} # {}
      OBVIOUS
    <3> QED BY <1>4, <1>6, <1>7, <2>3, <3>3, <3>4 DEF DriverAt, CtlShape
  <2>4. CASE thread[t].pc = "wait"
    <3>1. ~(slv.op = "write" /\ slv.reg = 4)
      BY SMT, <2>4 DEF Access, Hw!ReadStatus
    <3>2. /\ ctl'.control = {} /\ ~ctl'.reset
          /\ ctl'.start => EncQuiet'
          /\ ctl.status => EncQuiet' /\ ~ctl'.start
          /\ ctl'.status => EncQuiet' /\ ~ctl'.start
      BY <1>1, <1>3, <1>4, <2>4, <3>1 DEF DriverAt, EncQuiet
    <3> QED BY <1>4, <1>6, <1>7, <2>4, <3>2 DEF DriverAt, CtlShape
  <2> QED BY <1>2, <2>1, <2>2, <2>3, <2>4 DEF SlavePcs
<1> QED
  BY <1>1, <1>3, <1>5, <1>6, <1>8 DEF Control, DriverPart

\* The driver's steps between the edges.
LEMMA StepDriver ==
    ASSUME Control, NEW t, Threads = {t},
           \/ \E job \in Jobs, tail \in Tails : Request(t, job, tail)
           \/ WriteCodesToMem(t) \/ WriteTreeToMem(t) \/ WriteTextToMem(t)
           \/ ReadTotal(t) \/ CopyOut(t)
    PROVE  Control'
<1>1. /\ TreeShape /\ TextPart /\ EncPart /\ CtlShape /\ DriverAt(t)
      /\ DOMAIN thread = Threads /\ crashes = 0 /\ gap \in 1 .. MinGap
  BY DEF Control, DriverPart
<1>2. /\ ctl' = ctl /\ enc' = enc /\ tree' = tree /\ text' = text /\ cr' = cr /\ cw' = cw
      /\ crashes' = crashes /\ gap' = gap
  BY DEF Request, WriteCodesToMem, WriteTreeToMem, WriteTextToMem, ReadTotal, CopyOut, hwVars, Goto
<1>3. /\ DOMAIN thread' = Threads /\ DOMAIN thread'[t] = ThreadVars
      /\ thread'[t].i \in 0 .. 3
      /\ \/ thread[t].pc = "idle" /\ thread'[t].pc = "codes"
         \/ thread[t].pc = "codes" /\ thread'[t].pc = "tree"
         \/ thread[t].pc = "tree" /\ thread'[t].pc = "text"
         \/ thread[t].pc = "text" /\ thread'[t].pc = "addrs"
         \/ thread[t].pc = "total" /\ thread'[t].pc = "copy"
         \/ thread[t].pc = "copy" /\ thread'[t].pc = "idle"
      /\ thread'[t].pc = "addrs" => thread'[t].i = 0
  <2>1. CASE \E job \in Jobs, tail \in Tails : Request(t, job, tail)
    <3>1. PICK job \in Jobs, tail \in Tails : Request(t, job, tail)
      BY <2>1
    <3>2. /\ thread[t].pc = "idle" /\ DOMAIN thread' = Threads
          /\ thread'[t] = [Asleep(job) EXCEPT !.pc = "codes", !.text = job.text \o tail]
      BY <1>1, <3>1 DEF Request
    <3>3. DOMAIN thread'[t] = ThreadVars /\ thread'[t].pc = "codes" /\ thread'[t].i = 0
      BY SMT, <3>2 DEF Asleep, ThreadVars
    <3> QED BY <3>2, <3>3
  <2>2. CASE WriteCodesToMem(t)
    <3>1. thread[t].pc = "codes" /\ thread' = [thread EXCEPT ![t].pc = "tree"]
      BY Zenon, <2>2 DEF WriteCodesToMem, Goto
    <3> QED BY SMT, <1>1, <3>1 DEF DriverAt, ThreadVars
  <2>3. CASE WriteTreeToMem(t)
    BY SMT, <1>1, <2>3 DEF WriteTreeToMem, Goto, DriverAt, ThreadVars
  <2>4. CASE WriteTextToMem(t)
    BY SMT, <1>1, <2>4 DEF WriteTextToMem, DriverAt, ThreadVars
  <2>5. CASE ReadTotal(t)
    BY SMT, <1>1, <2>5 DEF ReadTotal, DriverAt, ThreadVars
  <2>6. CASE CopyOut(t)
    BY SMT, <1>1, <2>6 DEF CopyOut, DriverAt, ThreadVars
  <2> QED BY <2>1, <2>2, <2>3, <2>4, <2>5, <2>6
<1>4. /\ TreeShape' /\ TextPart' /\ EncPart' /\ CtlShape'
      /\ TreeShape' <=> TreeShape
  BY <1>1, <1>2 DEF TreeShape, TextPart, EncPart, CtlShape, TextShape, CRShape, CWShape,
     ReaderPart, WriterPart, EncShape, TreeResting, TreeBusy, TreeDone, TextResting,
     TextBusy, TextDone, CRResting, CRBusy, CRDone, CWResting, CWBusy, CWDone
<1>5. thread'[t].pc \in Pcs
  BY SMT, <1>3 DEF Pcs, SlavePcs
<1>6. DriverAt(t)'
  BY <1>1, <1>2, <1>3, <1>5 DEF DriverAt, EncQuiet
<1> QED
  BY <1>1, <1>2, <1>3, <1>4, <1>6 DEF Control, DriverPart

\* One thread keeps the accelerator's parts in step: each entity is started
\* once, works, reports once and rests, while the one that started it waits
\* (text_handler.vhd:259-302, encoder.vhd:245-286, hardware.c:165-184).
THEOREM ControlInvariance == Undisturbed => (Spec => []Control)
<1> SUFFICES ASSUME Undisturbed PROVE Spec => []Control
  OBVIOUS
<1>1. PICK t : Threads = {t}
  BY DEF Undisturbed
<1>2. MaxCrashes = 0 /\ MinGap \in Nat /\ MinGap >= 3
  BY BoundsAssumption DEF Undisturbed
<1>3. Init => Control
  <2> SUFFICES ASSUME Init PROVE Control
    OBVIOUS
  <2>1. /\ tree = Hw!Tree!Reset /\ text = Hw!Text!Reset /\ cr = Hw!Text!CR!Reset
        /\ cw = Hw!Text!CW!Reset /\ enc = Hw!Reset
        /\ ctl = [reg |-> [r \in Hw!CODES .. Hw!DST |-> 0], control |-> {},
                  status |-> FALSE, rdata |-> FALSE, start |-> FALSE, reset |-> TRUE]
        /\ gap = MinGap /\ crashes = 0
    BY DEF Init, Hw!Init, Hw!Tree!Init, Hw!Text!Init, Hw!Text!CR!Init, Hw!Text!CW!Init
  <2>2. TreeShape /\ TreeResting
    BY SMT, <2>1 DEF TreeShape, TreeRegs, Hw!Tree!Reset, Hw!Tree!States, TreeResting
  <2>3. CRShape /\ CRResting
    BY SMT, <2>1 DEF CRShape, CRRegs, Hw!Text!CR!Reset, Hw!Text!CR!States, CRResting
  <2>4. CWShape /\ CWResting
    BY SMT, <2>1 DEF CWShape, CWRegs, Hw!Text!CW!Reset, Hw!Text!CW!States, CWResting
  <2>5. TextShape /\ TextResting /\ text.state = "IDLE" /\ ~text.startCR /\ ~text.startCW /\ ~text.writeCW
    BY SMT, <2>1 DEF TextShape, TextRegs, Hw!Text!Reset, Hw!Text!States, Hw!Text!Muxes, TextResting
  <2>6. EncShape /\ enc.state = "IDLE" /\ ~enc.done /\ ~enc.startTree /\ ~enc.startText
    BY SMT, <2>1 DEF EncShape, EncRegs, Hw!Reset, Hw!States
  <2>7. CtlShape /\ ctl.control = {} /\ ~ctl.start
    BY SMT, <2>1 DEF CtlShape, CtlRegs
  <2>8. DOMAIN thread = Threads /\ \E job \in Jobs : thread[t] = Asleep(job)
    BY <1>1 DEF Init
  <2>9. DOMAIN thread[t] = ThreadVars /\ thread[t].pc = "idle" /\ thread[t].i = 0
    BY SMT, <2>8 DEF Asleep, ThreadVars
  <2>10. DriverAt(t)
    BY <2>6, <2>7, <2>9 DEF DriverAt, EncQuiet, Pcs
  <2>11. gap \in 1 .. MinGap
    BY SMT, <1>2, <2>1
  <2> QED
    BY <1>1, <2>1, <2>2, <2>3, <2>4, <2>5, <2>6, <2>7, <2>8, <2>10, <2>11
    DEF Control, DriverPart, TextPart, ReaderPart, WriterPart, EncPart
<1>4. Control /\ [Next]_vars => Control'
  <2> SUFFICES ASSUME Control, [Next]_vars PROVE Control'
    OBVIOUS
  <2>1. CASE \E job \in Jobs, tail \in Tails : Request(t, job, tail)
    BY <1>1, <2>1, StepDriver
  <2>2. CASE WriteCodesToMem(t) \/ WriteTreeToMem(t) \/ WriteTextToMem(t) \/ ReadTotal(t) \/ CopyOut(t)
    BY <1>1, <2>2, StepDriver
  <2>3. ASSUME NEW wait \in BOOLEAN, NEW latch \in Latches, AccessEdge(t, wait, latch)
        PROVE  Control'
    BY <1>1, <1>2, <2>3, AccessDriver
  <2>4. ASSUME NEW wait \in BOOLEAN, NEW latch \in Latches, Edge(wait, latch)
        PROVE  Control'
    BY <1>1, <1>2, <2>4, EdgeDriver
  <2>5. ~Crash
    BY SMT, <1>2 DEF Crash, Control
  <2>6. CASE UNCHANGED vars
    BY <2>6 DEF vars, hwVars, Control, DriverPart, DriverAt, EncQuiet, TreeShape, TextPart,
       EncPart, CtlShape, TextShape, CRShape, CWShape,
       ReaderPart, WriterPart, EncShape, TreeResting, TreeBusy, TreeDone, TextResting,
       TextBusy, TextDone, CRResting, CRBusy, CRDone, CWResting, CWBusy, CWDone
  <2> QED
    BY <1>1, <2>1, <2>2, <2>3, <2>4, <2>5, <2>6 DEF Next, ThreadStep
<1> QED
  BY <1>3, <1>4, PTL DEF Spec

\* Whoever drives a request or looks at an answer is selected in both
\* multiplexers, so no latch is ever read and no request is lost
\* (encoder.vhd:336-376, text_handler.vhd:364-403).
THEOREM BusIsOwned == Undisturbed => (Spec => []BusOwned)
<1>1. Control => BusOwned
  <2> SUFFICES ASSUME Control PROVE BusOwned
    OBVIOUS
  <2>1. TreeShape /\ TextShape /\ CRShape /\ CWShape /\ ReaderPart /\ WriterPart /\ EncPart
    BY DEF Control, TextPart
  <2>2. tree.state # "IDLE" => enc.mux = "TREE"
    BY <2>1 DEF EncPart, EncShape, TreeResting
  <2>3. text.state # "IDLE" => enc.mux = "TXT"
    BY <2>1 DEF EncPart, EncShape, TextResting
  <2>4. cr.state # "IDLE" => text.state # "IDLE" /\ text.mux = "CODE_RD"
    BY <2>1 DEF ReaderPart, TextShape, CRResting
  <2>5. cw.state # "IDLE" => text.state # "IDLE" /\ text.mux = "CODE_WR"
    BY <2>1 DEF WriterPart, TextShape, CWResting
  <2> QED
    BY <2>1, <2>2, <2>3, <2>4, <2>5 DEF BusOwned, TreeShape, TextShape, CRShape, CWShape, EncPart, EncShape
<1> QED
  BY <1>1, ControlInvariance, PTL

\* When the thread does not wait for it, the accelerator rests in every part,
\* although reset_encoder only resets one of them (encoder.vhd:239-240).
THEOREM RestsBetweenRequests == Undisturbed => (Spec => []EncoderAtRest)
<1>1. ASSUME Control, NEW t, Threads = {t} PROVE EncoderAtRest
  <2>1. SUFFICES ASSUME thread[t].pc # "wait" PROVE AtRest
    BY <1>1 DEF EncoderAtRest
  <2>2. EncQuiet
    BY <1>1, <2>1 DEF Control, DriverPart, DriverAt
  <2>3. TreeResting /\ TextResting /\ enc.mux = "NONE"
    BY <1>1, <2>2 DEF Control, EncPart, EncShape, EncQuiet
  <2>4. CRResting /\ CWResting
    BY <1>1, <2>3 DEF Control, TextPart, ReaderPart, WriterPart, TextResting
  <2> QED
    BY <2>2, <2>3, <2>4 DEF AtRest, EncQuiet, TreeResting, TextResting, CRResting, CWResting
<1>2. SUFFICES ASSUME Undisturbed PROVE Spec => []EncoderAtRest
  OBVIOUS
<1>3. Control => EncoderAtRest
  BY <1>1, <1>2 DEF Undisturbed
<1>4. Spec => []Control
  BY <1>2, ControlInvariance
<1> QED
  BY <1>3, <1>4, PTL

-----------------------------------------------------------------------------
(* The layout the driver computes *)

\* A code as the reader, the writer and their registers can take it.
Code == {b \in Bits : Len(b) <= 57}

\* A code for every letter.
CodeTables == [1 .. NLetters -> Code]

TableEnd(codes) == CodePos(codes)[NLetters] + Len(codes[NLetters])

\* The code table is in memory: each entry points to its string.
TableAt(m, codes) ==
    \A i \in 1 .. NLetters :
        /\ WordAt(m, 4 * (i - 1)) = CodePos(codes)[i]
        /\ StringAt(m, CodePos(codes)[i], Chars(codes[i]))

\* A code of a table, and its string of digits.
LEMMA CodeLength ==
    ASSUME NEW codes \in CodeTables, NEW i \in 1 .. NLetters
    PROVE  /\ codes[i] \in Bits /\ Len(codes[i]) \in 0 .. 57
           /\ Chars(codes[i]) \in Seq(48 .. 49)
           /\ Chars(codes[i]) \in Seq(Byte)
           /\ Len(Chars(codes[i])) = Len(codes[i])
           /\ \A k \in 1 .. Len(codes[i]) : Chars(codes[i])[k] = 48 + codes[i][k]
<1>1. codes[i] \in Bits /\ Len(codes[i]) <= 57 /\ Len(codes[i]) \in Nat
  BY LenProperties DEF CodeTables, Code, Bits
<1>2. \A k \in 1 .. Len(codes[i]) : codes[i][k] \in {0, 1}
  BY <1>1, ElementOfSeq DEF Bits, Bit
<1> DEFINE n == Len(codes[i])
           c == [k \in 1 .. n |-> 48 + codes[i][k]]
<1>3. c \in [1 .. n -> 48 .. 49]
  BY <1>2
<1>4. c \in Seq(48 .. 49) /\ c \in Seq(Byte) /\ Len(c) = n
  <2>1. c \in [1 .. n -> Byte]
    BY <1>3 DEF Byte
  <2> HIDE DEF c
  <2>2. n \in Nat
    BY <1>1
  <2> HIDE DEF n
  <2> QED
    BY <1>3, <2>1, <2>2, IsASeq, LenProperties
<1>5. Chars(codes[i]) = c
  BY DEF Chars
<1>6. \A k \in 1 .. n : c[k] = 48 + codes[i][k]
  OBVIOUS
<1>7. \A x \in Nat : x <= 57 => x \in 0 .. 57
  OBVIOUS
<1> HIDE DEF c
<1> QED
  BY Zenon, <1>1, <1>4, <1>5, <1>6, <1>7

\* What the layout's assumption says of its numbers.
LEMMA Letters == CodesArea \in Nat /\ NLetters \in Nat /\ NLetters >= 1 /\ CodesArea >= 4 * NLetters
  BY LayoutAssumption

\* The recursion of CodePos has a solution, and it stays above the table.
LEMMA PositionsFrom ==
    ASSUME NEW codes \in CodeTables
    PROVE  /\ CodePos(codes) \in [1 .. NLetters -> Nat]
           /\ \A i \in 1 .. NLetters :
                 CodePos(codes)[i] = IF i = 1 THEN CodesArea
                                     ELSE CodePos(codes)[i - 1] + Len(codes[i - 1]) + 1
<1> DEFINE len(i) == IF i - 1 \in 1 .. NLetters THEN Len(codes[i - 1]) ELSE 0
           g == [i \in Nat |-> [p \in Nat |-> p + len(i) + 1]]
<1>1. \A i \in 1 .. NLetters : Len(codes[i]) \in Nat
  BY CodeLength
<1>2. g \in [Nat -> [Nat -> Nat]]
  BY <1>1
<1>3. PICK f \in [1 .. NLetters -> Nat] : Steps(f, CodesArea, g, NLetters)
  <2> HIDE DEF g
  <2> QED
    BY <1>2, Letters, Recursion
<1>4. \A i \in 1 .. NLetters :
         f[i] = IF i = 1 THEN CodesArea ELSE f[i - 1] + Len(codes[i - 1]) + 1
  <2> TAKE i \in 1 .. NLetters
  <2>1. CASE i = 1
    BY <1>3, <2>1 DEF Steps
  <2>2. CASE i # 1
    <3>1. i - 1 \in 1 .. NLetters /\ i \in Nat
      BY <2>2, Letters
    <3>2. f[i - 1] \in Nat
      BY <1>3, <3>1
    <3>3. g[i][f[i - 1]] = f[i - 1] + len(i) + 1
      BY <3>1, <3>2
    <3>4. len(i) = Len(codes[i - 1])
      BY <3>1
    <3> QED
      BY <1>3, <2>2, <3>3, <3>4 DEF Steps
  <2> QED
    BY <2>1, <2>2
<1> DEFINE E(p) == p = [i \in 1 .. NLetters |->
                           IF i = 1 THEN CodesArea ELSE p[i - 1] + Len(codes[i - 1]) + 1]
<1>5. E(f)
  BY <1>3, <1>4
<1>6. CodePos(codes) = CHOOSE p : E(p)
  BY DEF CodePos
<1>7. E(CodePos(codes))
  <2> HIDE DEF E
  <2> QED
    BY <1>5, <1>6
<1> DEFINE q == CodePos(codes)
<1>8. q = [i \in 1 .. NLetters |-> IF i = 1 THEN CodesArea ELSE q[i - 1] + Len(codes[i - 1]) + 1]
  BY <1>7
<1> HIDE DEF q, E
<1>9. \A i \in 1 .. NLetters : q[i] = IF i = 1 THEN CodesArea ELSE q[i - 1] + Len(codes[i - 1]) + 1
  BY <1>8
<1> DEFINE S == {k \in Nat : k + 1 \in 1 .. NLetters => q[k + 1] \in Nat}
<1>10. 0 \in S
  <2>1. 1 \in 1 .. NLetters /\ 0 + 1 = 1
    BY Letters
  <2>2. q[1] = CodesArea
    BY <1>9, <2>1
  <2> QED
    BY <2>1, <2>2, Letters
<1>11. ASSUME NEW k \in Nat, k \in S PROVE k + 1 \in S
  <2> SUFFICES ASSUME (k + 1) + 1 \in 1 .. NLetters PROVE q[(k + 1) + 1] \in Nat
    OBVIOUS
  <2>1. k + 1 \in 1 .. NLetters /\ ((k + 1) + 1) - 1 = k + 1 /\ (k + 1) + 1 # 1
    BY Letters
  <2>2. q[k + 1] \in Nat /\ Len(codes[k + 1]) \in Nat
    BY <1>1, <1>11, <2>1
  <2>3. q[(k + 1) + 1] = q[k + 1] + Len(codes[k + 1]) + 1
    BY <1>9, <2>1
  <2> QED
    BY <2>2, <2>3
<1>12. Nat \subseteq S
  <2> HIDE DEF S
  <2> QED
    BY <1>10, <1>11, SetInduction
<1>13. \A i \in 1 .. NLetters : q[i] \in Nat
  <2> TAKE i \in 1 .. NLetters
  <2>1. i - 1 \in Nat /\ (i - 1) + 1 = i
    BY Letters
  <2> QED
    BY <1>12, <2>1
<1> QED
  BY <1>8, <1>9, <1>13 DEF q

\* One string ends before the next begins, behind the table.
LEMMA PositionsGrow ==
    ASSUME NEW codes \in CodeTables, NEW i \in 1 .. NLetters, NEW j \in 1 .. NLetters
    PROVE  /\ i < j => CodePos(codes)[i] + Len(codes[i]) < CodePos(codes)[j]
           /\ CodePos(codes)[i] >= 4 * NLetters
           /\ CodePos(codes)[i] + Len(codes[i]) <= TableEnd(codes)
           /\ CodePos(codes)[i] \in Nat /\ TableEnd(codes) \in Nat
<1> DEFINE pos == CodePos(codes)
           end(k) == pos[k] + Len(codes[k])
           S == {k \in Nat : k + 1 \in 1 .. NLetters =>
                    /\ pos[k + 1] >= 4 * NLetters
                    /\ \A l \in 1 .. k : end(l) < pos[k + 1]}
<1>1. /\ \A k \in 1 .. NLetters : pos[k] \in Nat /\ Len(codes[k]) \in Nat
      /\ \A k \in 1 .. NLetters :
            pos[k] = IF k = 1 THEN CodesArea ELSE pos[k - 1] + Len(codes[k - 1]) + 1
  <2>1. \A k \in 1 .. NLetters : Len(codes[k]) \in 0 .. 57
    BY CodeLength
  <2>2. /\ pos \in [1 .. NLetters -> Nat]
        /\ \A k \in 1 .. NLetters :
              pos[k] = IF k = 1 THEN CodesArea ELSE pos[k - 1] + Len(codes[k - 1]) + 1
    BY PositionsFrom
  <2> HIDE DEF pos
  <2> QED
    BY <2>1, <2>2
<1> HIDE DEF pos
<1>2. 0 \in S
  <2>1. pos[1] = CodesArea
    BY <1>1, Letters
  <2> QED
    BY <2>1, Letters
<1>3. ASSUME NEW k \in Nat, k \in S PROVE k + 1 \in S
  <2> SUFFICES ASSUME (k + 1) + 1 \in 1 .. NLetters
               PROVE  /\ pos[(k + 1) + 1] >= 4 * NLetters
                      /\ \A l \in 1 .. k + 1 : end(l) < pos[(k + 1) + 1]
    OBVIOUS
  <2>1. k + 1 \in 1 .. NLetters /\ ((k + 1) + 1) - 1 = k + 1 /\ (k + 1) + 1 # 1
    BY Letters
  <2>2. pos[(k + 1) + 1] = end(k + 1) + 1
    BY <1>1, <2>1
  <2>3. pos[k + 1] >= 4 * NLetters /\ \A l \in 1 .. k : end(l) < pos[k + 1]
    BY <1>3, <2>1
  <2>4. pos[k + 1] \in Nat /\ Len(codes[k + 1]) \in Nat
    BY <1>1, <2>1
  <2>5. end(k + 1) \in Nat /\ pos[k + 1] <= end(k + 1)
    BY <2>4
  <2>6. \A l \in 1 .. k : end(l) \in Nat
    BY <1>1, <2>1, Letters
  <2> HIDE DEF end
  <2>7. \A l \in 1 .. k + 1 : l \in 1 .. k \/ l = k + 1
    OBVIOUS
  <2>8. \A l \in 1 .. k + 1 : end(l) < pos[(k + 1) + 1]
    BY <2>2, <2>3, <2>4, <2>5, <2>6, <2>7
  <2> QED
    BY <2>2, <2>3, <2>4, <2>5, <2>8, Letters
<1>4. Nat \subseteq S
  <2> HIDE DEF S
  <2> QED
    BY <1>2, <1>3, SetInduction
<1>5. \A l, k \in 1 .. NLetters : l < k => end(l) < pos[k]
  <2> TAKE l, k \in 1 .. NLetters
  <2> HAVE l < k
  <2>1. k - 1 \in Nat /\ (k - 1) + 1 = k /\ l \in 1 .. k - 1
    BY Letters
  <2> QED
    BY <1>4, <2>1
<1>6. \A k \in 1 .. NLetters : pos[k] >= 4 * NLetters
  <2> TAKE k \in 1 .. NLetters
  <2>1. k - 1 \in Nat /\ (k - 1) + 1 = k
    BY Letters
  <2> QED
    BY <1>4, <2>1
<1>7. TableEnd(codes) = end(NLetters) /\ NLetters \in 1 .. NLetters
  BY Letters DEF TableEnd, pos
<1>8. end(i) <= end(NLetters) /\ end(NLetters) \in Nat
  <2>1. CASE i = NLetters
    BY <1>1, <1>7, <2>1
  <2>2. CASE i < NLetters
    BY <1>1, <1>5, <1>7, <2>2
  <2> QED
    BY <2>1, <2>2, Letters
<1> QED
  BY <1>1, <1>5, <1>6, <1>7, <1>8 DEF pos

\* The memory after one turn of the loop in write_codes_to_mem.
Turn(m, codes, i) ==
    PutWord(PutStr(m, CodePos(codes)[i], Chars(codes[i])), 4 * (i - 1), CodePos(codes)[i])

EntryAt(m, codes, i) ==
    /\ WordAt(m, 4 * (i - 1)) = CodePos(codes)[i]
    /\ StringAt(m, CodePos(codes)[i], Chars(codes[i]))

\* A turn writes its entry and leaves those before it.
LEMMA TurnWrites ==
    ASSUME NEW codes \in CodeTables, NEW m \in Memory(MemSize),
           MemSize \in Nat, MemSize \in Words, TableEnd(codes) < MemSize,
           NEW i \in 1 .. NLetters
    PROVE  /\ Turn(m, codes, i) \in Memory(MemSize)
           /\ EntryAt(Turn(m, codes, i), codes, i)
           /\ \A j \in 1 .. i - 1 : EntryAt(m, codes, j) => EntryAt(Turn(m, codes, i), codes, j)
<1> DEFINE pos == CodePos(codes)
           s == Chars(codes[i])
           p == PutStr(m, pos[i], s)
           q == PutWord(p, 4 * (i - 1), pos[i])
<1>1. /\ s \in Seq(Byte) /\ Len(s) = Len(codes[i]) /\ Len(s) \in Nat
      /\ pos[i] \in Nat /\ pos[i] + Len(s) < MemSize /\ pos[i] >= 4 * NLetters
  <2>1. s \in Seq(Byte) /\ Len(s) = Len(codes[i]) /\ Len(codes[i]) \in Nat
    BY CodeLength
  <2>2. /\ pos[i] + Len(codes[i]) <= TableEnd(codes)
        /\ pos[i] \in Nat /\ TableEnd(codes) \in Nat /\ pos[i] >= 4 * NLetters
    BY PositionsGrow
  <2> HIDE DEF s, pos
  <2> QED
    BY <2>1, <2>2
<1>2. 4 * (i - 1) \in Nat /\ 4 * (i - 1) + 3 < 4 * NLetters
  BY Letters
<1> HIDE DEF s, pos
<1>3. 4 * (i - 1) + 3 < MemSize /\ pos[i] \in Words
  <2>1. pos[i] <= MemSize
    BY <1>1
  <2>2. 4 * (i - 1) + 3 < MemSize
    BY <1>1, <1>2, Letters
  <2> QED
    BY <1>1, <2>1, <2>2, WordsBelow
<1>4. /\ p \in Memory(MemSize) /\ StringAt(p, pos[i], s)
      /\ \A x \in 0 .. MemSize - 1 : x < pos[i] \/ x > pos[i] + Len(s) => p[x] = m[x]
  BY <1>1, StringWritten
<1> HIDE DEF p
<1>5. /\ q \in Memory(MemSize) /\ WordAt(q, 4 * (i - 1)) = pos[i]
      /\ \A x \in 0 .. MemSize - 1 : x < 4 * (i - 1) \/ x > 4 * (i - 1) + 3 => q[x] = p[x]
  BY <1>1, <1>2, <1>3, <1>4, WordWritten
<1> HIDE DEF q
<1>6. StringAt(q, pos[i], s)
  <2>1. \A x \in pos[i] .. pos[i] + Len(s) : x \in 0 .. MemSize - 1 /\ x > 4 * (i - 1) + 3
    BY <1>1, <1>2, Letters
  <2>2. \A x \in pos[i] .. pos[i] + Len(s) : q[x] = p[x]
    BY <1>5, <2>1
  <2> QED
    BY <1>1, <1>4, <2>2, StringStays
<1>7. ASSUME NEW j \in 1 .. i - 1, EntryAt(m, codes, j)
      PROVE  EntryAt(q, codes, j)
  <2>1. j \in 1 .. NLetters /\ j < i
    BY Letters
  <2> DEFINE r == Chars(codes[j])
  <2>2. Len(r) = Len(codes[j]) /\ Len(r) \in Nat
    BY <2>1, CodeLength
  <2>3. /\ pos[j] + Len(r) < pos[i] /\ pos[j] \in Nat /\ pos[j] >= 4 * NLetters
    <3>1. /\ pos[j] + Len(codes[j]) < pos[i] /\ pos[j] \in Nat /\ pos[j] >= 4 * NLetters
      BY <2>1, PositionsGrow DEF pos
    <3> HIDE DEF r
    <3> QED
      BY <2>2, <3>1
  <2> HIDE DEF r
  <2>4. \A x \in pos[j] .. pos[j] + Len(r) :
           x \in 0 .. MemSize - 1 /\ x > 4 * (i - 1) + 3 /\ x < pos[i]
    <3> TAKE x \in pos[j] .. pos[j] + Len(r)
    <3>1. x \in Nat /\ x >= pos[j] /\ x <= pos[j] + Len(r)
      BY <2>2, <2>3
    <3>2. x >= 4 * NLetters /\ x < pos[i]
      BY <1>1, <2>2, <2>3, <3>1, Letters
    <3> QED
      BY <1>1, <1>2, <3>1, <3>2, Letters
  <2>5. \A x \in pos[j] .. pos[j] + Len(r) : q[x] = m[x]
    BY <1>4, <1>5, <2>4
  <2>6. StringAt(q, pos[j], r)
    BY <1>7, <2>2, <2>3, <2>5, StringStays DEF EntryAt, r, pos
  <2>7. 4 * (j - 1) \in Nat
    BY <2>1
  <2>8. \A x \in 4 * (j - 1) .. 4 * (j - 1) + 3 :
           x \in 0 .. MemSize - 1 /\ x < 4 * (i - 1) /\ x < pos[i]
    BY <1>1, <1>2, <1>3, <2>1, Letters
  <2>9. \A x \in 4 * (j - 1) .. 4 * (j - 1) + 3 : q[x] = m[x]
    BY <1>4, <1>5, <2>8
  <2>10. WordAt(q, 4 * (j - 1)) = WordAt(m, 4 * (j - 1))
    BY <2>7, <2>9, WordStays
  <2> QED
    BY <1>7, <2>6, <2>10 DEF EntryAt, r, pos
<1> QED
  BY <1>5, <1>6, <1>7 DEF q, p, s, pos, Turn, EntryAt

\* After the loop every entry of the table points to its string.
LEMMA CodesWritten ==
    ASSUME NEW codes \in CodeTables, NEW m \in Memory(MemSize),
           MemSize \in Nat, MemSize \in Words, TableEnd(codes) < MemSize
    PROVE  WithCodes(m, codes) \in Memory(MemSize) /\ TableAt(WithCodes(m, codes), codes)
<1> DEFINE M == Memory(MemSize)
           g == [i \in Nat |-> [p \in M |-> IF i \in 1 .. NLetters THEN Turn(p, codes, i) ELSE p]]
           b == Turn(m, codes, 1)
<1>1. \A i \in 1 .. NLetters : \A p \in M : Turn(p, codes, i) \in M
  BY TurnWrites
<1>2. g \in [Nat -> [M -> M]]
  BY <1>1
<1>3. b \in M /\ 1 \in 1 .. NLetters
  BY <1>1, Letters
<1>4. PICK f \in [1 .. NLetters -> M] : Steps(f, b, g, NLetters)
  <2> HIDE DEF g, b, M
  <2> QED
    BY <1>2, <1>3, Letters, Recursion
<1> DEFINE E(h) == h = [i \in 1 .. NLetters |->
                          Turn(IF i = 1 THEN m ELSE h[i - 1], codes, i)]
<1>5. \A i \in 1 .. NLetters : f[i] = Turn(IF i = 1 THEN m ELSE f[i - 1], codes, i)
  <2> TAKE i \in 1 .. NLetters
  <2>1. CASE i = 1
    BY <1>4, <2>1 DEF Steps
  <2>2. CASE i # 1
    <3>1. i - 1 \in 1 .. NLetters /\ i \in Nat
      BY <2>2, Letters
    <3>2. f[i - 1] \in M
      BY <1>4, <3>1
    <3>3. g[i][f[i - 1]] = Turn(f[i - 1], codes, i)
      BY <3>1, <3>2
    <3> HIDE DEF g, b, M
    <3> QED
      BY <1>4, <2>2, <3>3 DEF Steps
  <2> QED
    BY <2>1, <2>2
<1>6. E(f)
  <2> HIDE DEF g, b, M
  <2> QED
    BY <1>4, <1>5
<1> DEFINE put == CHOOSE h : E(h)
<1>7. WithCodes(m, codes) = put[NLetters]
  BY DEF WithCodes, Turn
<1>8. E(put)
  <2> HIDE DEF E
  <2> QED
    BY <1>6
<1> HIDE DEF put, g, b, M
<1>9. \A i \in 1 .. NLetters : put[i] = Turn(IF i = 1 THEN m ELSE put[i - 1], codes, i)
  BY <1>8
<1> DEFINE S == {k \in Nat : k + 1 \in 1 .. NLetters =>
                    /\ put[k + 1] \in M
                    /\ \A i \in 1 .. k + 1 : EntryAt(put[k + 1], codes, i)}
<1>10. ASSUME NEW k \in Nat, k + 1 \in 1 .. NLetters, NEW p \in M,
              put[k + 1] = Turn(p, codes, k + 1),
              \A i \in 1 .. k : EntryAt(p, codes, i)
       PROVE  put[k + 1] \in M /\ \A i \in 1 .. k + 1 : EntryAt(put[k + 1], codes, i)
  <2>1. /\ put[k + 1] \in M /\ EntryAt(put[k + 1], codes, k + 1)
        /\ \A j \in 1 .. (k + 1) - 1 : EntryAt(p, codes, j) => EntryAt(put[k + 1], codes, j)
    BY <1>10, TurnWrites DEF M
  <2>2. (k + 1) - 1 = k /\ \A i \in 1 .. k + 1 : i \in 1 .. k \/ i = k + 1
    OBVIOUS
  <2> QED
    BY <1>10, <2>1, <2>2
<1>11. 0 \in S
  <2>1. put[0 + 1] = Turn(m, codes, 0 + 1) /\ 0 + 1 \in 1 .. NLetters /\ m \in M
    BY <1>3, <1>9 DEF M
  <2>2. \A i \in 1 .. 0 : EntryAt(m, codes, i)
    OBVIOUS
  <2>3. 0 \in Nat
    OBVIOUS
  <2> QED
    BY <1>10, <2>1, <2>2, <2>3
<1>12. ASSUME NEW k \in Nat, k \in S PROVE k + 1 \in S
  <2> SUFFICES ASSUME (k + 1) + 1 \in 1 .. NLetters
               PROVE  /\ put[(k + 1) + 1] \in M
                      /\ \A i \in 1 .. (k + 1) + 1 : EntryAt(put[(k + 1) + 1], codes, i)
    OBVIOUS
  <2>1. k + 1 \in 1 .. NLetters /\ ((k + 1) + 1) - 1 = k + 1 /\ (k + 1) + 1 # 1 /\ k + 1 \in Nat
    BY Letters
  <2>2. put[(k + 1) + 1] = Turn(put[k + 1], codes, (k + 1) + 1)
    BY <1>9, <2>1
  <2>3. put[k + 1] \in M /\ \A i \in 1 .. k + 1 : EntryAt(put[k + 1], codes, i)
    BY <1>12, <2>1
  <2> QED
    BY <1>10, <2>1, <2>2, <2>3
<1>13. Nat \subseteq S
  <2> HIDE DEF S
  <2> QED
    BY <1>11, <1>12, SetInduction
<1>14. put[NLetters] \in M /\ \A i \in 1 .. NLetters : EntryAt(put[NLetters], codes, i)
  <2>1. NLetters - 1 \in Nat /\ (NLetters - 1) + 1 = NLetters /\ NLetters \in 1 .. NLetters
    BY Letters
  <2> QED
    BY <1>13, <2>1
<1> QED
  BY <1>7, <1>14 DEF M, TableAt, EntryAt

-----------------------------------------------------------------------------
(* The places of tree, text and file, and what the file has to hold *)

String == Seq(1 .. 255)

With(job, x) == [job EXCEPT !.text = x]
File(job, x) == HfcFile(With(job, x))
Body(job, x) == Packed(CodeBits(With(job, x)))

TreePlace(job) == TableEnd(job.codes) + 4
TextPlace(job) == TreePlace(job) + Len(job.tree) + 4
FilePlace(job, x) == TextPlace(job) + Len(x) + 4

\* A job with the text x in its buffer: every letter of x has a code, and
\* strings and file fit into the memory.
Fine(job, x) ==
    /\ job \in [codes : CodeTables, tree : String, text : String]
    /\ x \in String
    /\ \A i \in 1 .. Len(x) : Index(x[i]) < NLetters
    /\ FilePlace(job, x) + Len(File(job, x)) <= MemSize

\* The codes the text handler looks up, and the bits of the first n of them.
Sent(job, x) == [i \in 1 .. Len(x) |-> job.codes[Index(x[i]) + 1]]
Fed(job, x, n) == Joined(Sent(job, x), n)

EightZeros == [i \in 1 .. 8 |-> 0]

\* A string is a sequence of bytes other than NUL.
LEMMA Strings ==
    ASSUME NEW s \in String
    PROVE  /\ s \in Seq(Byte) /\ Len(s) \in Nat
           /\ \A i \in 1 .. Len(s) : s[i] \in 1 .. 255 /\ s[i] # 0
<1>1. \A i \in 1 .. Len(s) : s[i] \in 1 .. 255
  BY ElementOfSeq DEF String
<1>2. Len(s) \in Nat /\ s \in [1 .. Len(s) -> 1 .. 255]
  BY LenProperties DEF String
<1>3. s \in Seq(Byte)
  <2>1. 1 .. 255 \subseteq Byte
    BY DEF Byte
  <2> QED
    BY <2>1, SeqMonotonic DEF String
<1>4. \A y \in 1 .. 255 : y # 0
  OBVIOUS
<1> QED
  BY <1>1, <1>2, <1>3, <1>4

\* The parts of a job that fits.
LEMMA FineTypes ==
    ASSUME NEW job, NEW x, Fine(job, x)
    PROVE  /\ job.codes \in CodeTables
           /\ job.tree \in String /\ Len(job.tree) \in Nat
           /\ x \in String /\ Len(x) \in Nat
           /\ With(job, x).codes = job.codes /\ With(job, x).tree = job.tree
           /\ With(job, x).text = x
<1>1. job \in [codes : CodeTables, tree : String, text : String] /\ x \in String
  BY DEF Fine
<1>2. job.codes \in CodeTables /\ job.tree \in String
  BY <1>1
<1>3. Len(job.tree) \in Nat /\ Len(x) \in Nat
  BY <1>1, <1>2, Strings
<1>4. /\ With(job, x).codes = job.codes /\ With(job, x).tree = job.tree
      /\ With(job, x).text = x
  BY <1>1 DEF With
<1> QED
  BY <1>1, <1>2, <1>3, <1>4

\* The alphabet's index is a number.
LEMMA IndexType ==
    ASSUME NEW c \in Nat
    PROVE  Index(c) \in Nat
<1>1. CASE c \in 65 .. 90
  BY <1>1 DEF Index
<1>2. CASE c \in 97 .. 122
  BY <1>2 DEF Index
<1>3. CASE c \notin 65 .. 90 /\ c \notin 97 .. 122
  BY <1>3 DEF Index
<1> QED
  BY <1>1, <1>2, <1>3

\* Every letter of a text that fits has a code.
LEMMA LetterHasCode ==
    ASSUME NEW job, NEW x, Fine(job, x), NEW n \in 1 .. Len(x)
    PROVE  /\ Index(x[n]) + 1 \in 1 .. NLetters
           /\ job.codes[Index(x[n]) + 1] \in Code
<1>1. x[n] \in Nat /\ Index(x[n]) < NLetters
  <2>1. x[n] \in 1 .. 255
    BY FineTypes, Strings
  <2>2. Index(x[n]) < NLetters
    BY DEF Fine
  <2>3. \A y \in 1 .. 255 : y \in Nat
    OBVIOUS
  <2> QED
    BY Zenon, <2>1, <2>2, <2>3
<1>2. Index(x[n]) \in Nat
  BY <1>1, IndexType
<1>3. Index(x[n]) + 1 \in 1 .. NLetters
  BY <1>1, <1>2, Letters
<1>4. job.codes \in CodeTables
  BY DEF Fine
<1> QED
  BY <1>3, <1>4 DEF CodeTables

\* The bits of the first letters, letter by letter.
LEMMA FedSteps ==
    ASSUME NEW job, NEW x, Fine(job, x)
    PROVE  /\ Fed(job, x, 0) = <<>>
           /\ \A n \in 0 .. Len(x) :
                 /\ Fed(job, x, n) \in Bits /\ Len(Fed(job, x, n)) \in Nat
                 /\ Len(Fed(job, x, n)) <= Len(Fed(job, x, Len(x)))
           /\ \A n \in 1 .. Len(x) :
                 Fed(job, x, n) = Fed(job, x, n - 1) \o job.codes[Index(x[n]) + 1]
           /\ CodeBits(With(job, x)) = Fed(job, x, Len(x))
<1> DEFINE N == Len(x)
           c == Sent(job, x)
<1>1. N \in Nat
  BY FineTypes
<1>2. \A n \in 1 .. N : c[n] = job.codes[Index(x[n]) + 1] /\ c[n] \in Seq(Bit)
  BY LetterHasCode DEF Sent, Code, Bits
<1>3. c \in [1 .. N -> Seq(Bit)]
  BY <1>2 DEF Sent
<1>4. With(job, x).text = x /\ With(job, x).codes = job.codes
  BY FineTypes
<1>5. CodeBits(With(job, x)) = Joined(c, N)
  <2>1. [i \in 1 .. N |-> c[i]] = [i \in 1 .. N |-> job.codes[Index(x[i]) + 1]]
    BY <1>2
  <2> QED
    BY <1>4, <2>1 DEF CodeBits, Joined
<1> HIDE DEF N, c
<1>6. /\ Joined(c, 0) = <<>>
      /\ \A n \in 0 .. N : Joined(c, n) \in Seq(Bit)
      /\ \A n \in 1 .. N : Joined(c, n) = Joined(c, n - 1) \o c[n]
  BY <1>1, <1>3, JoinedSteps
<1>7. \A n \in 0 .. N : Len(Joined(c, n)) \in Nat /\ Len(Joined(c, n)) <= Len(Joined(c, N))
  BY <1>1, <1>3, JoinedGrows
<1> QED
  BY <1>2, <1>5, <1>6, <1>7 DEF Fed, Bits, N, c

\* The padding is a code like any other.
LEMMA EightZerosBits == EightZeros \in Bits /\ Len(EightZeros) = 8 /\ EightZeros \in Code
<1>1. \A n \in Nat : [i \in 1 .. n |-> 0] \in Seq(Bit) /\ Len([i \in 1 .. n |-> 0]) = n
  <2> TAKE n \in Nat
  <2> DEFINE s == [i \in 1 .. n |-> 0]
  <2>1. s \in [1 .. n -> Bit]
    BY DEF Bit
  <2> HIDE DEF s
  <2>2. s \in Seq(Bit) /\ Len(s) = n
    BY <2>1, IsASeq, LenProperties
  <2> QED
    BY <2>2 DEF s
<1>2. EightZeros \in Seq(Bit) /\ Len(EightZeros) = 8
  BY <1>1 DEF EightZeros
<1>3. 8 <= 57
  OBVIOUS
<1> HIDE DEF EightZeros
<1> QED
  BY <1>2, <1>3 DEF Bits, Code

\* Division by eight.
LEMMA Division ==
    \A n \in Nat : n \div 8 \in Nat /\ 8 * (n \div 8) <= n /\ n < 8 * (n \div 8) + 8
  OBVIOUS

\* The body of the file: the whole bytes of the padded bits.
LEMMA BodyBytes ==
    ASSUME NEW job, NEW x, Fine(job, x)
    PROVE  LET padded == Fed(job, x, Len(x)) \o EightZeros
           IN  /\ Len(padded) = Len(Fed(job, x, Len(x))) + 8
               /\ padded \in Bits
               /\ Len(Body(job, x)) = Len(padded) \div 8
               /\ Body(job, x) \in Seq(Byte)
               /\ \A j \in 0 .. Len(Body(job, x)) - 1 :
                     Body(job, x)[j + 1] = PackByte([i \in 1 .. 8 |-> padded[8 * j + i]])
<1> DEFINE bits == Fed(job, x, Len(x))
           padded == bits \o EightZeros
           B == Len(padded) \div 8
           body == [j \in 1 .. B |-> PackByte(SubSeq(padded, 8 * j - 7, 8 * j))]
<1>1. bits \in Bits /\ CodeBits(With(job, x)) = bits /\ Len(bits) \in Nat
  <2>1. Len(x) \in 0 .. Len(x)
    BY FineTypes
  <2>2. /\ \A n \in 0 .. Len(x) : /\ Fed(job, x, n) \in Bits
                                 /\ Len(Fed(job, x, n)) \in Nat
        /\ CodeBits(With(job, x)) = Fed(job, x, Len(x))
    BY Zenon, FedSteps
  <2> QED
    BY Zenon, <2>1, <2>2
<1>2. padded \in Bits /\ Len(padded) = Len(bits) + 8
  <2> HIDE DEF bits
  <2>1. Len(padded) = Len(bits) + Len(EightZeros) /\ padded \in Bits
    BY <1>1, AppendedBits, EightZerosBits
  <2> QED
    BY <2>1, EightZerosBits
<1>3. Body(job, x) = body
  BY <1>1 DEF Body, Packed, EightZeros
<1> HIDE DEF bits, padded
<1>4. Len(padded) \in Nat /\ B \in Nat /\ 8 * B <= Len(padded)
  BY <1>1, <1>2, Division
<1>5. ASSUME NEW j \in 1 .. B
      PROVE  /\ SubSeq(padded, 8 * j - 7, 8 * j) \in Bits
             /\ Len(SubSeq(padded, 8 * j - 7, 8 * j)) = 8
             /\ \A i \in 1 .. 8 : SubSeq(padded, 8 * j - 7, 8 * j)[i] = padded[8 * (j - 1) + i]
  <2>1. 8 * j <= Len(padded) /\ 8 * j \in Nat /\ 8 * j - 7 \in 1 .. Len(padded)
    BY <1>4
  <2>2. \A i \in (8 * j - 7) .. 8 * j : padded[i] \in Bit
    <3>1. \A i \in (8 * j - 7) .. 8 * j : i \in 1 .. Len(padded)
      BY <1>4, <2>1
    <3> QED
      BY <1>2, <3>1, ElementOfSeq DEF Bits
  <2>3. /\ SubSeq(padded, 8 * j - 7, 8 * j) \in Bits
        /\ Len(SubSeq(padded, 8 * j - 7, 8 * j)) =
              IF 8 * j - 7 <= 8 * j THEN 8 * j - (8 * j - 7) + 1 ELSE 0
        /\ \A i \in 1 .. 8 * j - (8 * j - 7) + 1 :
              SubSeq(padded, 8 * j - 7, 8 * j)[i] = padded[(8 * j - 7) + i - 1]
    BY <1>2, <2>1, <2>2, SubSeqProperties DEF Bits
  <2>4. /\ 8 * j - 7 <= 8 * j /\ 8 * j - (8 * j - 7) + 1 = 8
        /\ \A i \in 1 .. 8 : (8 * j - 7) + i - 1 = 8 * (j - 1) + i
    BY <2>1
  <2> QED
    BY <2>3, <2>4
<1> HIDE DEF B
<1>6. \A j \in 1 .. B : PackByte(SubSeq(padded, 8 * j - 7, 8 * j)) \in Byte
  <2> TAKE j \in 1 .. B
  <2> DEFINE s == SubSeq(padded, 8 * j - 7, 8 * j)
  <2>1. s \in Bits /\ Len(s) = 8
    BY <1>5
  <2> HIDE DEF s
  <2>2. Len(s) >= 8
    BY <2>1
  <2> QED
    BY <2>1, <2>2, PackByteType DEF s
<1>7. body \in [1 .. B -> Byte]
  BY <1>6
<1>8. body \in Seq(Byte) /\ Len(body) = B
  <2> HIDE DEF body
  <2> QED
    BY <1>4, <1>7, IsASeq
<1>9. ASSUME NEW j \in 0 .. B - 1
      PROVE  body[j + 1] = PackByte([i \in 1 .. 8 |-> padded[8 * j + i]])
  <2>1. j + 1 \in 1 .. B /\ (j + 1) - 1 = j
    BY <1>4
  <2>2. body[j + 1] = PackByte(SubSeq(padded, 8 * (j + 1) - 7, 8 * (j + 1)))
    BY <2>1
  <2> DEFINE s == SubSeq(padded, 8 * (j + 1) - 7, 8 * (j + 1))
             r == [i \in 1 .. 8 |-> padded[8 * j + i]]
  <2>3. \A i \in 1 .. 8 : s[i] = r[i]
    BY <1>5, <2>1
  <2> HIDE DEF s, r
  <2>4. PackByte(s) = PackByte(r)
    BY <2>3, PackByteEqual
  <2> QED
    BY <2>2, <2>4 DEF s, r
<1> QED
  BY <1>2, <1>3, <1>8, <1>9 DEF bits, padded, B

-----------------------------------------------------------------------------
(* Data: what is in memory and in the registers while a request is served *)

One == CHOOSE t \in Threads : TRUE

\* The one thread's job, the text in its buffer, and where the file goes.
J == thread[One].job
X == thread[One].text
N == Len(X)
Dst == FilePlace(J, X)
BodyAt == Dst + 12 + Len(J.tree)

\* The code of the letter the text handler works on.
LetterCode == J.codes[Index(X[text.off]) + 1]

Working == {"addrs", "reset", "start", "wait"}
HasFile == {"total", "copy"}

Inputs ==
    /\ TableAt(mem, J.codes)
    /\ StringAt(mem, TreePlace(J), J.tree)
    /\ StringAt(mem, TextPlace(J), X)

WordIn(m, a, w, n) == \A k \in 0 .. n - 1 : m[a + k] = WordByte(w, k)
Holds(m, a, s) == \A i \in 1 .. Len(s) : m[a + i - 1] = s[i]

TreeOut == WordIn(mem, Dst + 4, Len(J.tree), 4) /\ Holds(mem, Dst + 12, J.tree)
BodyOut == Holds(mem, BodyAt, Body(J, X))
TextOut == WordIn(mem, Dst + 8, N, 4) /\ BodyOut
FileOut == Holds(mem, Dst, File(J, X))

\* The registers and the memory hold what they are declared to hold.
TreeTyped ==
    tree \in [state : Hw!Tree!States, src : Nat, dst : Nat, off : Nat, char : Byte,
              k : 0 .. 3, done : BOOLEAN, size : Nat, addr : Nat, read : BOOLEAN,
              write : BOOLEAN, data : Byte]
TextTyped ==
    /\ text.codes \in Nat /\ text.src \in Nat /\ text.dst \in Nat /\ text.hdr \in Nat
    /\ text.off \in Nat /\ text.char \in Byte /\ text.codeAddr \in Nat
    /\ text.dstCW \in Nat /\ text.wrCode \in Bits
    /\ text.addr \in Nat /\ text.data \in Byte
CRTyped ==
    cr \in [state : Hw!Text!CR!States, at : Nat, ptr : [0 .. 3 -> Byte], k : 0 .. 3,
            bits : Bits, done : BOOLEAN, code : Bits, addr : Nat, read : BOOLEAN]
CWTyped ==
    /\ cw \in [state : Hw!Text!CW!States, code : Bits, wip : Bits, dst : Nat, off : Nat,
               done : BOOLEAN, size : Nat, addr : Nat, write : BOOLEAN, data : Byte]
    /\ Len(cw.wip) <= 64
EncTyped == enc.total \in Nat /\ enc.addr \in Nat /\ enc.data \in Byte
Typed ==
    /\ TreeTyped /\ TextTyped /\ CRTyped /\ CWTyped /\ EncTyped
    /\ ctl.reg \in [0 .. 3 -> Nat]
    /\ mem \in Memory(MemSize)

\* The tree handler, the code reader and the code writer as their benches see
\* them.  What the writer has been fed is the codes of the letters handed over.
TB == INSTANCE TreeHandlerProofs WITH
         Srcs <- Nat, Dsts <- Nat, Contents <- Memory(MemSize), len <- Len(J.tree)

Entries == {4 * i : i \in 0 .. NLetters - 1}
Tables ==
    {m \in Memory(MemSize) : \A at \in Entries :
        /\ at .. at + 3 \subseteq DOMAIN m
        /\ \E n \in 0 .. 63 :
              /\ Fetch(m, WordAt(m, at) + n) \notin {48, 49}
              /\ \A i \in 0 .. n - 1 : Fetch(m, WordAt(m, at) + i) \in {48, 49}}
RB == INSTANCE CodeReaderProofs WITH Ats <- Entries, Contents <- Tables

FedNow ==
    IF \/ text.state \in {"READ_CODE", "READ_CODE_START", "READ_CODE_WAIT", "WRITE_CODE"}
       \/ text.state = "WRITE_CODE_WAIT" /\ text.startCW
    THEN Fed(J, X, text.off - 1)
    ELSE IF text.state = "WAIT_PADDING" /\ ~text.startCW
    THEN Fed(J, X, N) \o EightZeros
    ELSE Fed(J, X, text.off)
WB == INSTANCE CodeWriterProofs WITH
         Codes <- Code, Dsts <- 0 .. MemSize, MemSize <- 2 * MemSize + 1,
         MaxBits <- 8 * MemSize, mem <- [a \in 0 .. 2 * MemSize |-> Fetch(mem, a)],
         fed <- FedNow

\* The tree handler copies the thread's tree into the thread's file.
TreeWork ==
    /\ TB!TreeInv
    /\ tree.src = TreePlace(J) /\ tree.dst = Dst
    /\ enc.startTree => tree.off = 0
    /\ tree.done => tree.size = Len(J.tree) /\ TreeOut

\* What the text handler knows of the letter it works on.
Letter ==
    /\ text.state = "READ_WAIT" => text.addr = text.src + text.off
    /\ text.state = "CHECK_END" =>
          /\ text.off < N => text.char = X[text.off + 1]
          /\ text.off = N => text.char = 0
    /\ text.state \in {"READ_CODE", "READ_CODE_START", "READ_CODE_WAIT",
                       "WRITE_CODE", "WRITE_CODE_WAIT"} => text.off # 0
    /\ text.state \in {"READ_CODE", "READ_CODE_START", "READ_CODE_WAIT"} =>
          text.char = X[text.off]
    /\ text.state \in {"READ_CODE_START", "READ_CODE_WAIT"} =>
          text.codeAddr = 4 * Index(X[text.off])
    /\ text.state = "READ_CODE_WAIT" => RB!ReaderInv
    /\ text.state = "READ_CODE_WAIT" /\ cr.done => cr.code = LetterCode
    /\ text.state \in {"WRITE_CODE", "WRITE_CODE_WAIT"} => text.wrCode = LetterCode
    /\ text.state = "WAIT_PADDING" => text.wrCode = EightZeros
    /\ text.state \in {"ADD_PADDING", "WAIT_PADDING", "WR_LEN", "WR_LEN_WAIT"} =>
          text.off = N

\* The code writer has the codes of the letters before, and no more.
Stream ==
    /\ text.writeCW => text.dstCW = BodyAt /\ text.off = 0
    /\ text.state \notin {"IDLE", "WR_LEN", "WR_LEN_WAIT"} /\ ~text.writeCW =>
          WB!Inv /\ cw.dst = BodyAt
    /\ text.state = "WAIT_PADDING" /\ cw.done => cw.size = cw.off
    /\ text.state \in {"WR_LEN", "WR_LEN_WAIT"} =>
          /\ cw.size = Len(Body(J, X)) /\ BodyOut
          /\ WordIn(mem, Dst + 8, N, text.k)
    /\ text.state = "WR_LEN_WAIT" =>
          text.addr = Dst + 8 + text.k /\ text.data = WordByte(N, text.k)

\* The text handler encodes the thread's text into the thread's file.
TextWork ==
    /\ text.codes = 0 /\ text.src = TextPlace(J) /\ text.dst = Dst
    /\ text.hdr = Len(J.tree) /\ text.off \in 0 .. N
    /\ text.startCR \/ text.startCW => text.state # "IDLE"
    /\ enc.startText => text.off = 0
    /\ Letter
    /\ Stream
    /\ text.done => cw.size = Len(Body(J, X)) /\ TextOut

\* What each state of the top-level process has behind it.
Work ==
    /\ enc.state = "TREE_WAIT" => TreeWork
    /\ enc.state \in {"TEXT_WR_INPUT", "TEXT_START", "TEXT_WAIT", "WR_TOTAL_LEN",
                      "WR_TOTAL_LEN_WAIT"} => tree.size = Len(J.tree) /\ TreeOut
    /\ enc.state = "TEXT_WAIT" => TextWork
    /\ enc.state \in {"WR_TOTAL_LEN", "WR_TOTAL_LEN_WAIT"} =>
          /\ TextOut /\ enc.total = Len(File(J, X))
          /\ WordIn(mem, Dst, enc.total, enc.k)
    /\ enc.state = "WR_TOTAL_LEN_WAIT" =>
          enc.addr = Dst + enc.k /\ enc.data = WordByte(enc.total, enc.k)
    /\ enc.done \/ ctl.status => FileOut

\* What each step of the driver has behind it.
Driven ==
    LET pc == thread[One].pc
    IN  /\ pc # "idle" => Fine(J, X)
        /\ pc = "tree" => TableAt(mem, J.codes)
        /\ pc = "text" => /\ TableAt(mem, J.codes)
                          /\ StringAt(mem, TreePlace(J), J.tree)
                          /\ addrs.treeStr = TreePlace(J)
        /\ pc \in Working \cup HasFile =>
              /\ Inputs
              /\ addrs = [treeStr |-> TreePlace(J), textSrc |-> TextPlace(J), dst |-> Dst]
        /\ pc = "addrs" => \A r \in 0 .. thread[One].i - 1 :
                              ctl.reg[r] = <<0, TreePlace(J), TextPlace(J), Dst>>[r + 1]
        /\ pc \in {"reset", "start", "wait"} =>
              \A r \in 0 .. 3 : ctl.reg[r] = <<0, TreePlace(J), TextPlace(J), Dst>>[r + 1]
        /\ pc = "wait" => Work
        /\ pc \in HasFile => FileOut
        /\ pc = "copy" => thread[One].total = Len(File(J, X))

\* The driver's own variables, and the registers it fills.
Kept ==
    /\ thread \in [Threads -> [pc : Pcs, i : 0 .. 3, job : Jobs,
                               text : Seq(Byte), total : Nat, file : Seq(Byte)]]
    /\ addrs \in [treeStr : MemWord, textSrc : MemWord, dst : MemWord]
    /\ gpio \in BOOLEAN
    /\ ctl.reg \in [0 .. 3 -> MemWord]

Data == Typed /\ Driven /\ Kept

\* The jobs fit: every letter has a code of at most 57 bits, no string holds a
\* NUL, and the layout and the file fit into the modelled memory, which an
\* address of 32 bits reaches.
WellFormed ==
    /\ MemSize \in Words
    /\ \A job \in Jobs, tail \in Tails : Fine(job, job.text \o tail)

-----------------------------------------------------------------------------
(* The file from its parts *)

\* Concatenation of two sequences.
LEMMA ConcatType ==
    ASSUME NEW S, NEW s \in Seq(S), NEW t \in Seq(S)
    PROVE  s \o t \in Seq(S) /\ Len(s \o t) = Len(s) + Len(t)
  BY ConcatProperties

\* Two sequences held one behind the other are held as one.
LEMMA HoldsConcat ==
    ASSUME NEW S, NEW s \in Seq(S), NEW t \in Seq(S), NEW m, NEW a \in Nat,
           Holds(m, a, s), Holds(m, a + Len(s), t)
    PROVE  Holds(m, a, s \o t) /\ s \o t \in Seq(S) /\ Len(s \o t) = Len(s) + Len(t)
<1>1. Len(s) \in Nat /\ Len(t) \in Nat
  BY LenProperties
<1>2. /\ s \o t \in Seq(S)
      /\ Len(s \o t) = Len(s) + Len(t)
      /\ \A i \in 1 .. Len(s) + Len(t) :
            (s \o t)[i] = IF i <= Len(s) THEN s[i] ELSE t[i - Len(s)]
  BY ConcatProperties
<1>3. ASSUME NEW i \in 1 .. Len(s) + Len(t) PROVE m[a + i - 1] = (s \o t)[i]
  <2>1. CASE i <= Len(s)
    <3>1. i \in 1 .. Len(s)
      BY <1>1, <2>1
    <3> QED
      BY <1>2, <2>1, <3>1 DEF Holds
  <2>2. CASE ~(i <= Len(s))
    <3>1. i - Len(s) \in 1 .. Len(t) /\ (a + Len(s)) + (i - Len(s)) - 1 = a + i - 1
      BY <1>1, <2>2
    <3>2. m[(a + Len(s)) + (i - Len(s)) - 1] = t[i - Len(s)]
      BY <3>1 DEF Holds
    <3> QED
      BY <1>2, <2>2, <3>1, <3>2
  <2> QED
    BY <2>1, <2>2
<1> QED
  BY <1>2, <1>3 DEF Holds

\* Four bytes of a word are its little-endian form.
LEMMA LittleEndianHeld ==
    ASSUME NEW m, NEW a \in Nat, NEW w \in Nat, WordIn(m, a, w, 4)
    PROVE  /\ LittleEndian(w) \in Seq(Byte) /\ Len(LittleEndian(w)) = 4
           /\ Holds(m, a, LittleEndian(w))
<1> DEFINE s == LittleEndian(w)
<1>1. s = [k \in 1 .. 4 |-> WordByte(w, k - 1)]
  BY DEF LittleEndian
<1>2. \A k \in 1 .. 4 : k - 1 \in 0 .. 3
  OBVIOUS
<1>3. s \in [1 .. 4 -> Byte]
  BY <1>1, <1>2, WordByteType
<1>4. \A k \in 1 .. 4 : s[k] = WordByte(w, k - 1) /\ m[a + (k - 1)] = WordByte(w, k - 1)
  <2>1. \A k \in 1 .. 4 : k - 1 \in 0 .. 4 - 1
    OBVIOUS
  <2> QED
    BY <1>1, <2>1 DEF WordIn
<1> HIDE DEF s
<1>5. s \in Seq(Byte) /\ Len(s) = 4
  <2>1. \A n \in Nat : s \in [1 .. n -> Byte] => s \in Seq(Byte) /\ Len(s) = n
    BY IsASeq, LenProperties
  <2> QED
    BY <1>3, <2>1
<1>6. \A k \in 1 .. 4 : a + (k - 1) = a + k - 1
  OBVIOUS
<1> QED
  BY <1>4, <1>5, <1>6 DEF Holds, s

\* The little-endian form is four bytes.
LEMMA LittleEndianType ==
    ASSUME NEW w \in Nat
    PROVE  LittleEndian(w) \in Seq(Byte) /\ Len(LittleEndian(w)) = 4
<1> DEFINE m == [k \in 0 .. 3 |-> WordByte(w, k)]
<1>1. WordIn(m, 0, w, 4)
  BY DEF WordIn
<1> HIDE DEF m
<1> QED
  BY <1>1, LittleEndianHeld

\* The parts of the file and where they are.
LEMMA FileParts ==
    ASSUME NEW job, NEW x, Fine(job, x)
    PROVE  LET n == Len(job.tree)
               body == Body(job, x)
           IN  /\ n \in Nat /\ Len(body) \in Nat /\ Len(x) \in Nat
               /\ body \in Seq(Byte) /\ job.tree \in Seq(Byte)
               /\ Len(File(job, x)) = 12 + n + Len(body)
               /\ File(job, x) = LittleEndian(12 + n + Len(body)) \o
                     LittleEndian(n) \o LittleEndian(Len(x)) \o job.tree \o body
<1> DEFINE n == Len(job.tree)
           body == Body(job, x)
           le1 == LittleEndian(12 + n + Len(body))
           le2 == LittleEndian(n)
           le3 == LittleEndian(Len(x))
<1>1. n \in Nat /\ Len(x) \in Nat /\ job.tree \in Seq(Byte)
  BY FineTypes, Strings
<1>2. body \in Seq(Byte) /\ Len(body) \in Nat
  <2>1. body \in Seq(Byte)
    BY BodyBytes
  <2> QED
    BY <2>1, LenProperties
<1>3. File(job, x) = le1 \o le2 \o le3 \o job.tree \o body
  BY FineTypes DEF File, HfcFile, Body
<1>4. /\ le1 \in Seq(Byte) /\ Len(le1) = 4 /\ le2 \in Seq(Byte) /\ Len(le2) = 4
      /\ le3 \in Seq(Byte) /\ Len(le3) = 4
  <2>1. 12 + n + Len(body) \in Nat
    BY <1>1, <1>2
  <2> QED
    BY <1>1, <2>1, LittleEndianType
<1> HIDE DEF le1, le2, le3, body
<1>5. Len(le1 \o le2) = 8 /\ le1 \o le2 \in Seq(Byte)
  <2>1. Len(le1 \o le2) = Len(le1) + Len(le2) /\ le1 \o le2 \in Seq(Byte)
    BY <1>4, ConcatType
  <2> QED
    BY <1>4, <2>1
<1>6. Len(le1 \o le2 \o le3) = 12 /\ le1 \o le2 \o le3 \in Seq(Byte)
  <2>1. /\ Len(le1 \o le2 \o le3) = Len(le1 \o le2) + Len(le3)
        /\ le1 \o le2 \o le3 \in Seq(Byte)
    BY <1>4, <1>5, ConcatType
  <2> QED
    BY <1>4, <1>5, <2>1
<1>7. /\ Len(le1 \o le2 \o le3 \o job.tree) = 12 + n
      /\ le1 \o le2 \o le3 \o job.tree \in Seq(Byte)
  <2>1. /\ Len(le1 \o le2 \o le3 \o job.tree) = Len(le1 \o le2 \o le3) + n
        /\ le1 \o le2 \o le3 \o job.tree \in Seq(Byte)
    BY <1>1, <1>6, ConcatType
  <2> QED
    BY <1>6, <2>1
<1>8. Len(le1 \o le2 \o le3 \o job.tree \o body) = 12 + n + Len(body)
  <2>1. Len(le1 \o le2 \o le3 \o job.tree \o body)
           = Len(le1 \o le2 \o le3 \o job.tree) + Len(body)
    BY <1>2, <1>7, ConcatType
  <2> QED
    BY <1>7, <2>1
<1> QED
  BY <1>1, <1>2, <1>3, <1>8 DEF le1, le2, le3, body

\* Header, tree and body together are the file.
LEMMA FileFromParts ==
    ASSUME NEW job, NEW x, Fine(job, x), NEW m, NEW a \in Nat,
           WordIn(m, a, Len(File(job, x)), 4),
           WordIn(m, a + 4, Len(job.tree), 4),
           WordIn(m, a + 8, Len(x), 4),
           Holds(m, a + 12, job.tree),
           Holds(m, a + 12 + Len(job.tree), Body(job, x))
    PROVE  Holds(m, a, File(job, x))
<1> DEFINE n == Len(job.tree)
           body == Body(job, x)
           size == 12 + n + Len(body)
           le1 == LittleEndian(size)
           le2 == LittleEndian(n)
           le3 == LittleEndian(Len(x))
<1>1. /\ n \in Nat /\ Len(body) \in Nat /\ Len(x) \in Nat
      /\ body \in Seq(Byte) /\ job.tree \in Seq(Byte)
      /\ Len(File(job, x)) = size
      /\ File(job, x) = le1 \o le2 \o le3 \o job.tree \o body
  BY FileParts
<1> HIDE DEF body
<1>2. size \in Nat /\ a + 4 \in Nat /\ a + 8 \in Nat
  BY <1>1
<1>3. le1 \in Seq(Byte) /\ Len(le1) = 4 /\ Holds(m, a, le1)
  BY <1>1, <1>2, LittleEndianHeld
<1>4. le2 \in Seq(Byte) /\ Len(le2) = 4 /\ Holds(m, a + 4, le2)
  BY <1>1, <1>2, LittleEndianHeld
<1>5. le3 \in Seq(Byte) /\ Len(le3) = 4 /\ Holds(m, a + 8, le3)
  BY <1>1, <1>2, LittleEndianHeld
<1>6. Holds(m, a + 12, job.tree) /\ Holds(m, a + 12 + n, body)
  BY DEF body
<1> HIDE DEF le1, le2, le3, n
<1>7. le1 \o le2 \in Seq(Byte) /\ Len(le1 \o le2) = 8 /\ Holds(m, a, le1 \o le2)
  <2>1. Holds(m, a + Len(le1), le2)
    BY <1>3, <1>4
  <2>2. /\ Holds(m, a, le1 \o le2) /\ le1 \o le2 \in Seq(Byte)
        /\ Len(le1 \o le2) = Len(le1) + Len(le2)
    BY <1>3, <1>4, <2>1, HoldsConcat
  <2> QED
    BY <1>3, <1>4, <2>2
<1>8. le1 \o le2 \o le3 \in Seq(Byte) /\ Len(le1 \o le2 \o le3) = 12 /\ Holds(m, a, le1 \o le2 \o le3)
  <2>1. Holds(m, a + Len(le1 \o le2), le3)
    BY <1>5, <1>7
  <2>2. /\ Holds(m, a, le1 \o le2 \o le3) /\ le1 \o le2 \o le3 \in Seq(Byte)
        /\ Len(le1 \o le2 \o le3) = Len(le1 \o le2) + Len(le3)
    BY <1>5, <1>7, <2>1, HoldsConcat
  <2> QED
    BY <1>5, <1>7, <2>2
<1>9. /\ le1 \o le2 \o le3 \o job.tree \in Seq(Byte)
      /\ Len(le1 \o le2 \o le3 \o job.tree) = 12 + n
      /\ Holds(m, a, le1 \o le2 \o le3 \o job.tree)
  BY <1>1, <1>6, <1>8, HoldsConcat DEF n
<1>10. a + (12 + n) = a + 12 + n
  BY <1>1
<1>11. Holds(m, a, le1 \o le2 \o le3 \o job.tree \o body)
  BY <1>1, <1>6, <1>9, <1>10, HoldsConcat
<1> QED
  BY <1>1, <1>11

-----------------------------------------------------------------------------
(* The layout keeps its parts apart *)

\* The places follow each other and end within the memory.
LEMMA LayoutNumbers ==
    ASSUME NEW job, NEW x, Fine(job, x), MemSize \in Nat
    PROVE  /\ TableEnd(job.codes) \in Nat /\ TreePlace(job) \in Nat
           /\ TextPlace(job) \in Nat /\ FilePlace(job, x) \in Nat
           /\ Len(job.tree) \in Nat /\ Len(x) \in Nat /\ Len(Body(job, x)) \in Nat
           /\ TableEnd(job.codes) < TreePlace(job)
           /\ TreePlace(job) + Len(job.tree) < TextPlace(job)
           /\ TextPlace(job) + Len(x) < FilePlace(job, x)
           /\ FilePlace(job, x) + 12 + Len(job.tree) + Len(Body(job, x)) <= MemSize
           /\ Len(File(job, x)) = 12 + Len(job.tree) + Len(Body(job, x))
<1>1. /\ Len(job.tree) \in Nat /\ Len(x) \in Nat /\ Len(Body(job, x)) \in Nat
      /\ Len(File(job, x)) = 12 + Len(job.tree) + Len(Body(job, x))
  BY FileParts
<1>2. TableEnd(job.codes) \in Nat
  <2>1. job.codes \in CodeTables /\ NLetters \in 1 .. NLetters
    BY FineTypes, Letters
  <2> QED
    BY <2>1, PositionsGrow
<1>3. FilePlace(job, x) + Len(File(job, x)) <= MemSize
  BY DEF Fine
<1>4. /\ TreePlace(job) = TableEnd(job.codes) + 4
      /\ TextPlace(job) = TreePlace(job) + Len(job.tree) + 4
      /\ FilePlace(job, x) = TextPlace(job) + Len(x) + 4
  BY DEF FilePlace, TextPlace, TreePlace
<1>5. TreePlace(job) \in Nat /\ TextPlace(job) \in Nat /\ FilePlace(job, x) \in Nat
  BY <1>1, <1>2, <1>4
<1>6. /\ TableEnd(job.codes) < TreePlace(job)
      /\ TreePlace(job) + Len(job.tree) < TextPlace(job)
      /\ TextPlace(job) + Len(x) < FilePlace(job, x)
  <2>1. \A a, n \in Nat : a < a + 4 /\ a + n < a + n + 4
    OBVIOUS
  <2> QED
    BY Zenon, <1>1, <1>2, <1>4, <1>5, <2>1
<1>7. FilePlace(job, x) + 12 + Len(job.tree) + Len(Body(job, x)) <= MemSize
  BY <1>1, <1>3, <1>5
<1> QED
  BY <1>1, <1>2, <1>5, <1>6, <1>7

\* A code table stays where its bytes stay.
LEMMA TableStays ==
    ASSUME NEW codes \in CodeTables, NEW m, NEW p, TableAt(m, codes),
           \A a \in 0 .. TableEnd(codes) : p[a] = m[a]
    PROVE  TableAt(p, codes)
<1> SUFFICES ASSUME NEW i \in 1 .. NLetters
             PROVE  /\ WordAt(p, 4 * (i - 1)) = CodePos(codes)[i]
                    /\ StringAt(p, CodePos(codes)[i], Chars(codes[i]))
  BY DEF TableAt
<1>1. /\ CodePos(codes)[i] \in Nat /\ TableEnd(codes) \in Nat
      /\ CodePos(codes)[i] >= 4 * NLetters
      /\ CodePos(codes)[i] + Len(codes[i]) <= TableEnd(codes)
  BY PositionsGrow
<1>2. Len(codes[i]) \in Nat /\ Len(Chars(codes[i])) = Len(codes[i])
  BY CodeLength
<1>3. NLetters \in Nat /\ i \in Nat /\ i >= 1 /\ i <= NLetters
  BY Letters
<1>4. /\ WordAt(m, 4 * (i - 1)) = CodePos(codes)[i]
      /\ StringAt(m, CodePos(codes)[i], Chars(codes[i]))
  BY DEF TableAt
<1>5. 4 * (i - 1) \in Nat /\ 4 * (i - 1) + 3 <= TableEnd(codes)
  BY <1>1, <1>2, <1>3
<1>6. \A a \in 4 * (i - 1) .. 4 * (i - 1) + 3 : p[a] = m[a]
  BY <1>1, <1>5
<1>7. \A a \in CodePos(codes)[i] .. CodePos(codes)[i] + Len(Chars(codes[i])) : p[a] = m[a]
  BY <1>1, <1>2
<1>8. WordAt(p, 4 * (i - 1)) = WordAt(m, 4 * (i - 1))
  BY <1>5, <1>6, WordStays
<1>9. StringAt(p, CodePos(codes)[i], Chars(codes[i]))
  BY <1>1, <1>2, <1>4, <1>7, StringStays
<1> QED
  BY <1>4, <1>8, <1>9

\* The inputs stay where the bytes before the file stay.
LEMMA InputsStay ==
    ASSUME NEW job, NEW x, Fine(job, x), MemSize \in Nat, NEW m, NEW p,
           TableAt(m, job.codes), StringAt(m, TreePlace(job), job.tree),
           StringAt(m, TextPlace(job), x),
           \A a \in 0 .. FilePlace(job, x) - 1 : p[a] = m[a]
    PROVE  /\ TableAt(p, job.codes) /\ StringAt(p, TreePlace(job), job.tree)
           /\ StringAt(p, TextPlace(job), x)
<1>1. /\ TableEnd(job.codes) \in Nat /\ TreePlace(job) \in Nat
      /\ TextPlace(job) \in Nat /\ FilePlace(job, x) \in Nat
      /\ Len(job.tree) \in Nat /\ Len(x) \in Nat
      /\ TableEnd(job.codes) < TreePlace(job)
      /\ TreePlace(job) + Len(job.tree) < TextPlace(job)
      /\ TextPlace(job) + Len(x) < FilePlace(job, x)
  BY LayoutNumbers
<1>2. job.codes \in CodeTables
  BY FineTypes
<1>3. TableAt(p, job.codes)
  <2>1. \A a \in 0 .. TableEnd(job.codes) : p[a] = m[a]
    BY <1>1
  <2> QED
    BY <1>2, <2>1, TableStays
<1>4. StringAt(p, TreePlace(job), job.tree)
  <2>1. \A a \in TreePlace(job) .. TreePlace(job) + Len(job.tree) : p[a] = m[a]
    BY <1>1
  <2> QED
    BY <1>1, <2>1, StringStays
<1>5. StringAt(p, TextPlace(job), x)
  <2>1. \A a \in TextPlace(job) .. TextPlace(job) + Len(x) : p[a] = m[a]
    BY <1>1
  <2> QED
    BY <1>1, <2>1, StringStays
<1> QED
  BY <1>3, <1>4, <1>5

-----------------------------------------------------------------------------
(* What the driver writes *)

\* write_code_tree_to_mem puts the tree behind the codes.
LEMMA TreeIsPlaced ==
    ASSUME NEW job, NEW x, Fine(job, x), MemSize \in Nat,
           NEW m \in Memory(MemSize), TableAt(m, job.codes)
    PROVE  LET last == WordAt(m, 4 * (NLetters - 1))
               at == Behind(last, StrLen(m, last))
               p == PutStr(m, at, job.tree)
           IN  /\ at = TreePlace(job) /\ p \in Memory(MemSize)
               /\ TableAt(p, job.codes) /\ StringAt(p, TreePlace(job), job.tree)
<1> DEFINE codes == job.codes
           last == WordAt(m, 4 * (NLetters - 1))
           s == Chars(codes[NLetters])
           p == PutStr(m, TreePlace(job), job.tree)
<1>1. NLetters \in 1 .. NLetters /\ codes \in CodeTables
  BY Letters, FineTypes
<1>2. last = CodePos(codes)[NLetters] /\ StringAt(m, last, s)
  BY <1>1 DEF TableAt
<1>3. /\ TableEnd(codes) \in Nat /\ TreePlace(job) \in Nat /\ Len(job.tree) \in Nat
      /\ TableEnd(codes) < TreePlace(job)
      /\ TreePlace(job) + Len(job.tree) < MemSize
  <2> DEFINE e == TableEnd(codes)
             t == TreePlace(job)
             n == Len(job.tree)
             r == TextPlace(job)
             q == FilePlace(job, x)
             u == Len(x)
             v == Len(Body(job, x))
  <2>1. /\ e \in Nat /\ t \in Nat /\ r \in Nat /\ q \in Nat
        /\ n \in Nat /\ u \in Nat /\ v \in Nat
        /\ e < t /\ t + n < r /\ r + u < q /\ q + 12 + n + v <= MemSize
    BY LayoutNumbers, Zenon
  <2> HIDE DEF e, t, n, r, q, u, v
  <2>2. t + n < MemSize
    BY <2>1
  <2> QED
    BY <2>1, <2>2, Zenon DEF e, t, n
<1>4. /\ s \in Seq(Byte) /\ Len(s) = Len(codes[NLetters]) /\ Len(s) \in Nat
      /\ \A k \in 1 .. Len(s) : s[k] # 0
  <2>1. /\ codes[NLetters] \in Bits /\ Len(codes[NLetters]) \in 0 .. 57
        /\ s \in Seq(48 .. 49) /\ s \in Seq(Byte)
        /\ Len(s) = Len(codes[NLetters])
    BY <1>1, CodeLength
  <2>2. \A k \in 1 .. Len(s) : s[k] \in 48 .. 49
    BY <2>1, ElementOfSeq
  <2>3. \A y \in 48 .. 49 : y # 0
    OBVIOUS
  <2>4. \A y \in 0 .. 57 : y \in Nat
    OBVIOUS
  <2> QED
    BY <2>1, <2>2, <2>3, <2>4, Zenon
<1>5. last \in Nat /\ last + Len(s) = TableEnd(codes)
  BY <1>1, <1>2, <1>4, PositionsGrow DEF TableEnd
<1>6. StrLen(m, last) = Len(s)
  <2>1. last + Len(s) < MemSize
    BY <1>3, <1>5
  <2> HIDE DEF last, s
  <2> QED
    BY <1>2, <1>4, <1>5, <2>1, StringLength
<1>7. Behind(last, StrLen(m, last)) = TreePlace(job)
  BY <1>5, <1>6 DEF Behind, TreePlace
<1>8. job.tree \in Seq(Byte)
  BY FineTypes, Strings
<1>9. /\ p \in Memory(MemSize) /\ StringAt(p, TreePlace(job), job.tree)
      /\ \A a \in 0 .. MemSize - 1 :
            a < TreePlace(job) \/ a > TreePlace(job) + Len(job.tree) => p[a] = m[a]
  BY <1>3, <1>8, StringWritten
<1>10. TableAt(p, codes)
  <2> HIDE DEF p
  <2>1. \A a \in 0 .. TableEnd(codes) : p[a] = m[a]
    BY <1>3, <1>9
  <2> QED
    BY <1>1, <2>1, TableStays
<1> QED
  BY <1>7, <1>9, <1>10

\* write_text_to_mem puts the text behind the tree, and the file behind the text.
LEMMA TextIsPlaced ==
    ASSUME NEW job, NEW x, Fine(job, x), MemSize \in Nat,
           NEW m \in Memory(MemSize), TableAt(m, job.codes),
           StringAt(m, TreePlace(job), job.tree)
    PROVE  LET at == Behind(TreePlace(job), StrLen(m, TreePlace(job)))
               p == PutStr(m, at, x)
           IN  /\ at = TextPlace(job) /\ p \in Memory(MemSize)
               /\ TableAt(p, job.codes) /\ StringAt(p, TreePlace(job), job.tree)
               /\ StringAt(p, TextPlace(job), x)
               /\ Behind(at, StrLen(p, at)) = FilePlace(job, x)
<1> DEFINE p == PutStr(m, TextPlace(job), x)
<1>1. /\ TableEnd(job.codes) \in Nat /\ TreePlace(job) \in Nat
      /\ TextPlace(job) \in Nat /\ FilePlace(job, x) \in Nat
      /\ Len(job.tree) \in Nat /\ Len(x) \in Nat
      /\ TableEnd(job.codes) < TreePlace(job)
      /\ TreePlace(job) + Len(job.tree) < TextPlace(job)
      /\ TreePlace(job) + Len(job.tree) < MemSize
      /\ TextPlace(job) + Len(x) < MemSize
  <2> DEFINE e == TableEnd(job.codes)
             t == TreePlace(job)
             n == Len(job.tree)
             r == TextPlace(job)
             q == FilePlace(job, x)
             u == Len(x)
             v == Len(Body(job, x))
  <2>1. /\ e \in Nat /\ t \in Nat /\ r \in Nat /\ q \in Nat
        /\ n \in Nat /\ u \in Nat /\ v \in Nat
        /\ e < t /\ t + n < r /\ r + u < q /\ q + 12 + n + v <= MemSize
    BY LayoutNumbers, Zenon
  <2> HIDE DEF e, t, n, r, q, u, v
  <2>2. t + n < MemSize /\ r + u < MemSize
    BY <2>1
  <2> QED
    BY <2>1, <2>2, Zenon DEF e, t, n, r, q, u
<1>2. /\ job.tree \in Seq(Byte) /\ x \in Seq(Byte)
      /\ (\A i \in 1 .. Len(job.tree) : job.tree[i] # 0)
      /\ (\A i \in 1 .. Len(x) : x[i] # 0)
  BY FineTypes, Strings
<1>3. StrLen(m, TreePlace(job)) = Len(job.tree)
  BY <1>1, <1>2, StringLength
<1>4. Behind(TreePlace(job), StrLen(m, TreePlace(job))) = TextPlace(job)
  BY <1>3 DEF Behind, TextPlace
<1>5. /\ p \in Memory(MemSize) /\ StringAt(p, TextPlace(job), x)
      /\ \A a \in 0 .. MemSize - 1 :
            a < TextPlace(job) \/ a > TextPlace(job) + Len(x) => p[a] = m[a]
  BY <1>1, <1>2, StringWritten
<1> HIDE DEF p
<1>6. TableAt(p, job.codes)
  <2>1. \A a \in 0 .. TableEnd(job.codes) : p[a] = m[a]
    BY <1>1, <1>5
  <2> QED
    BY <2>1, FineTypes, TableStays
<1>7. StringAt(p, TreePlace(job), job.tree)
  <2>1. \A a \in TreePlace(job) .. TreePlace(job) + Len(job.tree) : p[a] = m[a]
    BY <1>1, <1>5
  <2> QED
    BY <1>1, <2>1, StringStays
<1>8. StrLen(p, TextPlace(job)) = Len(x)
  BY <1>1, <1>2, <1>5, StringLength
<1>9. Behind(TextPlace(job), StrLen(p, TextPlace(job))) = FilePlace(job, x)
  BY <1>8 DEF Behind, FilePlace
<1> QED
  BY <1>4, <1>5, <1>6, <1>7, <1>9 DEF p

-----------------------------------------------------------------------------
(* What the code reader finds *)

\* The digits of a code string and its end.
LEMMA CodeString ==
    ASSUME NEW codes \in CodeTables, NEW m \in Memory(MemSize), MemSize \in Nat,
           TableEnd(codes) < MemSize, TableAt(m, codes), NEW k \in 1 .. NLetters
    PROVE  LET p == CodePos(codes)[k]
           IN  /\ 4 * (k - 1) .. 4 * (k - 1) + 3 \subseteq DOMAIN m
               /\ WordAt(m, 4 * (k - 1)) = p /\ p \in Nat
               /\ codes[k] \in Bits /\ Len(codes[k]) \in 0 .. 57
               /\ m[p + Len(codes[k])] = 0
               /\ \A i \in 0 .. Len(codes[k]) : p + i \in DOMAIN m
               /\ \A i \in 1 .. Len(codes[k]) : /\ m[p + i - 1] = 48 + codes[k][i]
                                                /\ codes[k][i] \in Bit
<1> DEFINE p == CodePos(codes)[k]
           c == codes[k]
<1>1. /\ p \in Nat /\ TableEnd(codes) \in Nat /\ p >= 4 * NLetters
      /\ p + Len(c) <= TableEnd(codes)
  BY PositionsGrow
<1>2. /\ c \in Bits /\ Len(c) \in 0 .. 57 /\ Len(Chars(c)) = Len(c)
      /\ \A i \in 1 .. Len(c) : Chars(c)[i] = 48 + c[i]
  BY CodeLength
<1>3. WordAt(m, 4 * (k - 1)) = p /\ StringAt(m, p, Chars(c))
  BY DEF TableAt
<1>4. NLetters \in Nat /\ DOMAIN m = 0 .. MemSize - 1
  BY Letters DEF Memory
<1> HIDE DEF p, c
<1>5. Len(c) \in Nat
  BY <1>2
<1>6. 4 * (k - 1) .. 4 * (k - 1) + 3 \subseteq DOMAIN m
  <2>1. 4 * (k - 1) \in Nat /\ 4 * (k - 1) + 3 < MemSize
    BY <1>1, <1>4, <1>5
  <2> QED
    BY <1>4, <2>1
<1>7. \A i \in 0 .. Len(c) : p + i \in DOMAIN m
  BY <1>1, <1>4, <1>5
<1>8. m[p + Len(c)] = 0 /\ \A i \in 1 .. Len(c) : m[p + i - 1] = 48 + c[i]
  BY <1>2, <1>3 DEF StringAt
<1>9. \A i \in 1 .. Len(c) : c[i] \in Bit
  BY <1>2, ElementOfSeq DEF Bits
<1> QED
  BY <1>1, <1>2, <1>3, <1>6, <1>7, <1>8, <1>9 DEF p, c

\* A code table is a memory that the code reader's bench admits.
LEMMA TableIsReadable ==
    ASSUME NEW codes \in CodeTables, NEW m \in Memory(MemSize), MemSize \in Nat,
           TableEnd(codes) < MemSize, TableAt(m, codes)
    PROVE  m \in Tables
<1> SUFFICES ASSUME NEW at \in Entries
             PROVE  /\ at .. at + 3 \subseteq DOMAIN m
                    /\ \E n \in 0 .. 63 :
                          /\ Fetch(m, WordAt(m, at) + n) \notin {48, 49}
                          /\ \A i \in 0 .. n - 1 : Fetch(m, WordAt(m, at) + i) \in {48, 49}
  BY DEF Tables
<1>1. PICK j \in 0 .. NLetters - 1 : at = 4 * j
  BY DEF Entries
<1>2. NLetters \in Nat
  BY Letters
<1> DEFINE k == j + 1
           p == CodePos(codes)[k]
           n == Len(codes[k])
<1>3. k \in 1 .. NLetters /\ at = 4 * (k - 1)
  BY <1>1, <1>2
<1> HIDE DEF k
<1>4. /\ 4 * (k - 1) .. 4 * (k - 1) + 3 \subseteq DOMAIN m
      /\ WordAt(m, 4 * (k - 1)) = p /\ p \in Nat
      /\ n \in 0 .. 57
      /\ m[p + n] = 0
      /\ \A i \in 0 .. n : p + i \in DOMAIN m
      /\ \A i \in 1 .. n : m[p + i - 1] = 48 + codes[k][i] /\ codes[k][i] \in Bit
  BY <1>3, CodeString
<1> HIDE DEF p, n
<1>5. n \in Nat /\ n \in 0 .. 63 /\ n \in 0 .. n
  BY <1>4
<1>6. Fetch(m, p + n) \notin {48, 49}
  <2>1. Fetch(m, p + n) = 0
    BY <1>4, <1>5 DEF Fetch
  <2> QED
    BY <2>1
<1>7. ASSUME NEW i \in 0 .. n - 1 PROVE Fetch(m, p + i) \in {48, 49}
  <2>1. i \in 0 .. n /\ i + 1 \in 1 .. n /\ p + (i + 1) - 1 = p + i
    BY <1>4, <1>5
  <2>2. m[p + i] = 48 + codes[k][i + 1] /\ codes[k][i + 1] \in {0, 1}
    BY <1>4, <2>1 DEF Bit
  <2>3. Fetch(m, p + i) = m[p + i]
    BY <1>4, <2>1 DEF Fetch
  <2> QED
    BY <2>2, <2>3
<1>8. at .. at + 3 \subseteq DOMAIN m /\ WordAt(m, at) = p
  BY <1>3, <1>4
<1> QED
  BY Zenon, <1>5, <1>6, <1>7, <1>8

\* What the code reader is to find at an entry is the letter's code.
LEMMA CodeIsFound ==
    ASSUME NEW codes \in CodeTables, mem \in Memory(MemSize), MemSize \in Nat,
           TableEnd(codes) < MemSize, TableAt(mem, codes), NEW k \in 1 .. NLetters
    PROVE  RB!CodeAt(4 * (k - 1)) = codes[k]
<1> DEFINE p == CodePos(codes)[k]
           c == codes[k]
           n == Len(c)
           End(l) == ~RB!IsBit(p + l) /\ \A i \in 0 .. l - 1 : RB!IsBit(p + i)
<1>1. /\ WordAt(mem, 4 * (k - 1)) = p /\ p \in Nat
      /\ c \in Bits /\ n \in 0 .. 57
      /\ mem[p + n] = 0
      /\ \A i \in 0 .. n : p + i \in DOMAIN mem
      /\ \A i \in 1 .. n : mem[p + i - 1] = 48 + c[i] /\ c[i] \in Bit
  BY CodeString
<1>2. RB!WordAt(mem, 4 * (k - 1)) = p
  BY <1>1 DEF RB!WordAt, WordAt
<1>3. c = [i \in 1 .. n |-> c[i]]
  <2>1. \A s \in Seq(Bit) : s = [i \in 1 .. Len(s) |-> s[i]]
    <3> TAKE s \in Seq(Bit)
    <3>1. s \in [1 .. Len(s) -> Bit]
      BY LenProperties
    <3> QED
      BY <3>1
  <2> QED
    BY <1>1, <2>1 DEF Bits
<1> HIDE DEF p, c
<1>4. n \in Nat /\ n \in 0 .. 63 /\ n \in 0 .. n
  BY <1>1
<1> HIDE DEF n
<1>5. ~RB!IsBit(p + n)
  <2>1. RB!Fetch(mem, p + n) = 0
    BY <1>1, <1>4 DEF RB!Fetch
  <2> QED
    BY <2>1 DEF RB!IsBit, RB!Char0, RB!Char1
<1>6. ASSUME NEW i \in 0 .. n - 1 PROVE RB!IsBit(p + i)
  <2>1. i \in 0 .. n /\ i + 1 \in 1 .. n /\ p + (i + 1) - 1 = p + i
    BY <1>1, <1>4
  <2>2. mem[p + i] = 48 + c[i + 1] /\ c[i + 1] \in {0, 1}
    BY <1>1, <2>1 DEF Bit
  <2>3. RB!Fetch(mem, p + i) = mem[p + i]
    BY <1>1, <2>1 DEF RB!Fetch
  <2> QED
    BY <2>2, <2>3 DEF RB!IsBit, RB!Char0, RB!Char1
<1>7. ASSUME NEW l \in 0 .. 63, End(l) PROVE l = n
  <2>1. ~(l < n)
    <3> SUFFICES ASSUME l < n PROVE FALSE
      OBVIOUS
    <3>1. l \in 0 .. n - 1
      BY <1>4
    <3> QED
      BY <1>6, <1>7, <3>1
  <2>2. ~(n < l)
    <3> SUFFICES ASSUME n < l PROVE FALSE
      OBVIOUS
    <3>1. n \in 0 .. l - 1
      BY <1>4
    <3> QED
      BY <1>5, <1>7, <3>1
  <2> QED
    BY <1>4, <2>1, <2>2
<1>8. End(n)
  BY <1>5, <1>6
<1>9. RB!CodeLen(p) = CHOOSE l \in 0 .. 63 : End(l)
  BY DEF RB!CodeLen
<1> HIDE DEF End
<1>10. RB!CodeLen(p) = n
  BY <1>4, <1>7, <1>8, <1>9
<1>11. RB!CodeAt(4 * (k - 1)) = [i \in 1 .. n |-> mem[p + i - 1] - 48]
  BY <1>2, <1>10 DEF RB!CodeAt, RB!Char0
<1>12. \A i \in 1 .. n : mem[p + i - 1] - 48 = c[i]
  <2>1. \A b \in {0, 1} : (48 + b) - 48 = b
    OBVIOUS
  <2> QED
    BY <1>1, <2>1 DEF Bit
<1>13. [i \in 1 .. n |-> mem[p + i - 1] - 48] = [i \in 1 .. n |-> c[i]]
  BY <1>12
<1> QED
  BY <1>3, <1>11, <1>13 DEF c

-----------------------------------------------------------------------------
(* An entity in the encoder does what it does on its bench *)

\* The tree handler's clock is that of its bench.
LEMMA TreeAsOnBench ==
    ASSUME NEW write, NEW src, NEW dst, NEW start, NEW wait, NEW rdata,
           Hw!Tree!Tick(write, src, dst, start, wait, rdata)
    PROVE  TB!Tick(write, src, dst, start, wait, rdata)
  BY DEF Hw!Tree!Tick, Hw!Tree!Load, Hw!Tree!Idle, Hw!Tree!SetRdAddr, Hw!Tree!ReadWait,
         Hw!Tree!CheckEnd, Hw!Tree!SetWrAddr, Hw!Tree!WriteWaitExtra, Hw!Tree!WriteWait,
         Hw!Tree!Increment, Hw!Tree!WrLen, Hw!Tree!WrLenWait, Hw!Tree!WrLenLast,
         Hw!Tree!Stall, Hw!Tree!WordByte,
         TB!Tick, TB!Load, TB!Idle, TB!SetRdAddr, TB!ReadWait, TB!CheckEnd, TB!SetWrAddr,
         TB!WriteWaitExtra, TB!WriteWait, TB!Increment, TB!WrLen, TB!WrLenWait,
         TB!WrLenLast, TB!Stall, TB!WordByte

\* The code reader's clock is that of its bench.
LEMMA ReaderAsOnBench ==
    ASSUME NEW start, NEW at, NEW wait, NEW rdata,
           Hw!Text!CR!Tick(start, at, wait, rdata)
    PROVE  RB!Tick(start, at, wait, rdata)
  BY DEF Hw!Text!CR!Tick, Hw!Text!CR!Begin, Hw!Text!CR!Rest, Hw!Text!CR!RdCodeAddr,
         Hw!Text!CR!RdCodeAddrWait, Hw!Text!CR!SetRdAddr, Hw!Text!CR!ReadBit,
         Hw!Text!CR!ReadEnd, Hw!Text!CR!Last, Hw!Text!CR!Stall, Hw!Text!CR!CodeAddr,
         Hw!Text!CR!WordAt, Hw!Text!CR!Char0, Hw!Text!CR!Char1,
         RB!Tick, RB!Begin, RB!Rest, RB!RdCodeAddr, RB!RdCodeAddrWait, RB!SetRdAddr,
         RB!ReadBit, RB!ReadEnd, RB!Last, RB!Stall, RB!CodeAddr, RB!WordAt, RB!Char0,
         RB!Char1

\* The code writer's clock is that of its bench.
LEMMA WriterAsOnBench ==
    ASSUME NEW write, NEW dst, NEW start, NEW code, NEW wait,
           Hw!Text!CW!Tick(write, dst, start, code, wait)
    PROVE  WB!Tick(write, dst, start, code, wait)
  BY DEF Hw!Text!CW!Tick, Hw!Text!CW!Load, Hw!Text!CW!Accept, Hw!Text!CW!Rest,
         Hw!Text!CW!AddCode, Hw!Text!CW!PutByte, Hw!Text!CW!KeepRest, Hw!Text!CW!Extra,
         Hw!Text!CW!Stall, Hw!Text!CW!Written, Hw!Text!CW!Finish, Hw!Text!CW!FullByte,
         Hw!Text!CW!PackByte,
         WB!Tick, WB!Load, WB!Accept, WB!Rest, WB!AddCode, WB!PutByte, WB!KeepRest,
         WB!Extra, WB!Stall, WB!Written, WB!Finish, WB!FullByte, WB!PackByte

\* The constants of the three benches are as their assumptions want them.
LEMMA BenchesFit ==
    ASSUME MemSize \in Nat
    PROVE  /\ WB!CodesAssumption /\ WB!RoomAssumption
           /\ RB!ContentsAssumption /\ RB!TableAssumption /\ TB!MemAssumption
<1>1. WB!CodesAssumption
  BY DEF WB!CodesAssumption, Code, WB!MaxCodeLen, WB!Bits, WB!Bit, Bits, Bit
<1>2. (8 * MemSize) \div 8 = MemSize
  OBVIOUS
<1>3. WB!RoomAssumption
  <2>1. \A d \in 0 .. MemSize \cup {0} : d + ((8 * MemSize) \div 8) < 2 * MemSize + 1
    <3> TAKE d \in 0 .. MemSize \cup {0}
    <3>1. d \in Nat /\ d <= MemSize
      OBVIOUS
    <3> QED
      BY <1>2, <3>1
  <2>2. 2 * MemSize + 1 \in Nat /\ 8 * MemSize \in Nat /\ 0 .. MemSize \subseteq Nat
    OBVIOUS
  <2> QED
    BY Zenon, <2>1, <2>2 DEF WB!RoomAssumption
<1>4. RB!ContentsAssumption
  <2>1. RB!Byte = Byte
    BY DEF RB!Byte, Byte
  <2>2. \A m \in Tables : \A a \in DOMAIN m : m[a] \in Byte
    <3>1. Tables \subseteq Memory(MemSize)
      BY Zenon DEF Tables
    <3>2. \A m \in Memory(MemSize) : \A a \in DOMAIN m : m[a] \in Byte
      BY DEF Memory
    <3> QED
      BY <3>1, <3>2, Zenon
  <2> QED
    BY <2>1, <2>2, Zenon DEF RB!ContentsAssumption
<1>5. RB!TableAssumption
  <2>1. \A m, a : RB!Fetch(m, a) = Fetch(m, a) /\ RB!WordAt(m, a) = WordAt(m, a)
    BY DEF RB!Fetch, Fetch, RB!WordAt, WordAt
  <2>2. Entries \subseteq Nat
    BY LayoutAssumption DEF Entries
  <2> QED
    BY <2>1, <2>2, Zenon DEF RB!TableAssumption, Tables, RB!Char0, RB!Char1
<1>6. TB!MemAssumption
  <2>1. TB!Byte = Byte
    BY DEF TB!Byte, Byte
  <2>2. Memory(MemSize) = [0 .. MemSize - 1 -> Byte]
    BY Zenon DEF Memory
  <2>3. 0 .. MemSize \subseteq Nat
    OBVIOUS
  <2> QED
    BY <2>1, <2>2, <2>3 DEF TB!MemAssumption
<1> QED
  BY <1>1, <1>3, <1>4, <1>5, <1>6

\* A step of the tree handler's bench keeps its inductive invariant.
LEMMA TreeBenchStep ==
    ASSUME MemSize \in Nat, TB!TreeInv, TB!Next
    PROVE  TB!TreeInv'
  BY TB!NextInv, BenchesFit

\* A step of the code reader's bench keeps its inductive invariant.
LEMMA ReaderBenchStep ==
    ASSUME MemSize \in Nat, RB!ReaderInv, RB!Next
    PROVE  RB!ReaderInv'
  BY RB!NextInv, BenchesFit

\* A step of the code writer's bench keeps its inductive invariant.
LEMMA WriterBenchStep ==
    ASSUME MemSize \in Nat, WB!Inv, WB!Next
    PROVE  WB!Inv'
  BY WB!NextInv, BenchesFit

-----------------------------------------------------------------------------
(* The registers keep their types *)

\* A byte is read.
LEMMA FetchType ==
    ASSUME NEW n \in Nat, NEW m \in Memory(n), NEW a
    PROVE  Fetch(m, a) \in Byte
<1>1. m \in [0 .. n - 1 -> Byte] /\ 0 \in Byte
  BY DEF Memory, Byte
<1>2. CASE a \in DOMAIN m
  BY <1>1, <1>2 DEF Fetch
<1>3. CASE a \notin DOMAIN m
  BY <1>1, <1>3 DEF Fetch
<1> QED
  BY <1>2, <1>3

\* What a latch holds.
LEMMA LatchType ==
    ASSUME NEW latch \in Latches
    PROVE  latch.wait \in BOOLEAN /\ latch.data \in Byte
  BY BoundsAssumption

\* A write stores one byte and keeps all others.
LEMMA CommitStores ==
    ASSUME NEW n \in Nat, NEW m \in Memory(n), NEW write \in BOOLEAN, NEW wait \in BOOLEAN,
           NEW a, NEW d \in Byte, write => a \in 0 .. n - 1
    PROVE  /\ Commit(m, write, wait, a, d) \in Memory(n)
           /\ \A b \in 0 .. n - 1 : ~write \/ b # a => Commit(m, write, wait, a, d)[b] = m[b]
           /\ write /\ ~wait => Commit(m, write, wait, a, d)[a] = d
           /\ ~write => Commit(m, write, wait, a, d) = m
<1>1. CASE write /\ ~wait
  <2>1. Commit(m, write, wait, a, d) = [m EXCEPT ![a] = d]
    BY <1>1 DEF Commit
  <2> QED
    BY <1>1, <2>1 DEF Memory
<1>2. CASE ~(write /\ ~wait)
  <2>1. Commit(m, write, wait, a, d) = m
    BY <1>2 DEF Commit
  <2> QED
    BY <1>2, <2>1
<1> QED
  BY <1>1, <1>2

\* The tree handler at rest, and when it is loaded.
LEMMA TreeRestTyped ==
    ASSUME TreeTyped, tree.state = "IDLE", NEW write \in BOOLEAN, NEW src \in Nat,
           NEW dst \in Nat, NEW start, ~start, NEW wait, NEW rdata,
           Hw!Tree!Tick(write, src, dst, start, wait, rdata)
    PROVE  /\ TreeTyped' /\ tree'.state = "IDLE" /\ tree'.size = tree.size
           /\ ~tree.read => ~tree'.read
           /\ ~tree.write => ~tree'.write
           /\ write => /\ tree'.src = src /\ tree'.dst = dst /\ tree'.off = 0
                       /\ tree'.done = tree.done
<1>1. CASE Hw!Tree!Load(write, src, dst)
  <2>1. /\ write /\ tree' = [tree EXCEPT !.src = src, !.dst = dst, !.off = 0]
    BY <1>1 DEF Hw!Tree!Load
  <2> QED
    BY <2>1 DEF TreeTyped
<1>2. CASE ~write /\ Hw!Tree!Idle(start)
  <2>1. tree' = [tree EXCEPT !.state = tree.state, !.done = FALSE]
    BY <1>2 DEF Hw!Tree!Idle
  <2> QED
    BY <1>2, <2>1 DEF TreeTyped
<1> QED
  BY <1>1, <1>2 DEF Hw!Tree!Tick, Hw!Tree!SetRdAddr, Hw!Tree!ReadWait,
         Hw!Tree!CheckEnd, Hw!Tree!SetWrAddr, Hw!Tree!WriteWaitExtra, Hw!Tree!WriteWait,
         Hw!Tree!Increment, Hw!Tree!WrLen, Hw!Tree!WrLenWait, Hw!Tree!WrLenLast,
         Hw!Tree!Stall

\* A code reader that rests.
LEMMA ReaderRestTyped ==
    ASSUME CRTyped, cr.state = "IDLE", NEW at, NEW start, ~start, NEW wait, NEW rdata,
           Hw!Text!CR!Tick(start, at, wait, rdata)
    PROVE  CRTyped' /\ cr'.state = "IDLE" /\ ~cr'.read
<1>1. Hw!Text!CR!Rest(start)
  BY DEF Hw!Text!CR!Tick, Hw!Text!CR!Begin, Hw!Text!CR!RdCodeAddr,
         Hw!Text!CR!RdCodeAddrWait, Hw!Text!CR!SetRdAddr, Hw!Text!CR!ReadBit,
         Hw!Text!CR!ReadEnd, Hw!Text!CR!Last, Hw!Text!CR!Stall
<1>2. cr' = [cr EXCEPT !.done = FALSE, !.addr = 0, !.read = FALSE]
  BY <1>1 DEF Hw!Text!CR!Rest
<1> QED
  BY <1>2 DEF CRTyped

\* A code writer that rests, or is given its address.
LEMMA WriterRestTyped ==
    ASSUME CWTyped, cw.state = "IDLE", NEW write \in BOOLEAN, NEW dst \in Nat,
           NEW start, ~start, NEW code, NEW wait,
           Hw!Text!CW!Tick(write, dst, start, code, wait)
    PROVE  /\ CWTyped' /\ cw'.state = "IDLE" /\ cw'.size = cw.size
           /\ ~cw.write => ~cw'.write
           /\ write => cw'.dst = dst /\ cw'.off = 0 /\ cw'.wip = <<>>
           /\ ~write => cw'.dst = cw.dst /\ cw'.off = cw.off /\ cw'.wip = cw.wip
<1>1. CASE Hw!Text!CW!Load(write, dst)
  <2>1. write /\ cw' = [cw EXCEPT !.dst = dst, !.off = 0, !.wip = <<>>]
    BY <1>1 DEF Hw!Text!CW!Load
  <2>2. <<>> \in Bits /\ Len(<<>>) <= 64
    BY EmptySeq DEF Bits
  <2> QED
    BY <2>1, <2>2 DEF CWTyped
<1>2. CASE Hw!Text!CW!Rest(write, start)
  <2>1. ~write /\ cw' = [cw EXCEPT !.done = FALSE, !.addr = 0, !.write = FALSE, !.data = 0]
    BY <1>2 DEF Hw!Text!CW!Rest
  <2>2. 0 \in Byte
    BY DEF Byte
  <2> QED
    BY <2>1, <2>2 DEF CWTyped
<1> QED
  BY <1>1, <1>2 DEF Hw!Text!CW!Tick, Hw!Text!CW!Accept, Hw!Text!CW!AddCode,
     Hw!Text!CW!PutByte, Hw!Text!CW!KeepRest, Hw!Text!CW!Extra, Hw!Text!CW!Stall,
     Hw!Text!CW!Written, Hw!Text!CW!Finish

\* Sums of addresses.
LEMMA Sums ==
    /\ \A a, b \in Nat : a + b \in Nat /\ a + 12 + b \in Nat /\ a + 1 \in Nat /\ a + b * 4 \in Nat
    /\ \A a \in Nat : \A k \in 0 .. 3 : a + 8 + k \in Nat /\ a + k \in Nat
    /\ \A a, b \in Nat : 12 + a + b \in Nat
  OBVIOUS

\* The text handler's registers, whatever it does.
LEMMA TextTypedStep ==
    ASSUME TextTyped, CRTyped, TextShape, NEW write \in BOOLEAN, NEW codes \in Nat,
           NEW src \in Nat, NEW dst \in Nat, NEW hdr \in Nat, NEW start \in BOOLEAN,
           NEW wait \in BOOLEAN, NEW rdata \in Byte,
           Hw!Text!EncodeText(write, codes, src, dst, hdr, start, wait, rdata)
    PROVE  TextTyped'
<1> USE DEF TextTyped
<1>0. 0 \in Byte /\ 0 \in Nat /\ DOMAIN text = TextRegs /\ text.k \in 0 .. 3
  BY DEF Byte, TextShape
<1>1. CASE Hw!Text!Load(write, codes, src, dst, hdr)
  <2>9. /\ text'.codes = codes
        /\ text'.src = src
        /\ text'.dst = dst
        /\ text'.hdr = hdr
        /\ text'.off = 0
        /\ text'.char = text.char
        /\ text'.codeAddr = 0
        /\ text'.dstCW = text.dstCW
        /\ text'.wrCode = text.wrCode
        /\ text'.addr = text.addr
        /\ text'.data = text.data
    BY <1>0, <1>1, SMT DEF Hw!Text!Load, TextRegs
  <2> QED
    BY Zenon, <1>0, <2>9
<1>2. CASE ~write /\ Hw!Text!Begin(start)
  <2>8. text.dst + 12 + text.hdr \in Nat
    BY SMT, <1>0
  <2>9. /\ text'.codes = text.codes
        /\ text'.src = text.src
        /\ text'.dst = text.dst
        /\ text'.hdr = text.hdr
        /\ text'.off = text.off
        /\ text'.char = text.char
        /\ text'.codeAddr = text.codeAddr
        /\ text'.dstCW = text.dst + 12 + text.hdr
        /\ text'.wrCode = text.wrCode
        /\ text'.addr = text.addr
        /\ text'.data = text.data
    BY <1>0, <1>2, SMT DEF Hw!Text!Begin, TextRegs
  <2> QED
    BY Zenon, <1>0, <2>9, <2>8
<1>3. CASE ~write /\ Hw!Text!Rest(start)
  <2>9. /\ text'.codes = text.codes
        /\ text'.src = text.src
        /\ text'.dst = text.dst
        /\ text'.hdr = text.hdr
        /\ text'.off = text.off
        /\ text'.char = text.char
        /\ text'.codeAddr = text.codeAddr
        /\ text'.dstCW = text.dstCW
        /\ text'.wrCode = text.wrCode
        /\ text'.addr = text.addr
        /\ text'.data = text.data
    BY <1>0, <1>3, SMT DEF Hw!Text!Rest, TextRegs
  <2> QED
    BY Zenon, <1>0, <2>9
<1>4. CASE ~write /\ Hw!Text!SetRdAddr
  <2>8. text.src + text.off \in Nat
    BY SMT, <1>0
  <2>9. /\ text'.codes = text.codes
        /\ text'.src = text.src
        /\ text'.dst = text.dst
        /\ text'.hdr = text.hdr
        /\ text'.off = text.off
        /\ text'.char = text.char
        /\ text'.codeAddr = text.codeAddr
        /\ text'.dstCW = text.dstCW
        /\ text'.wrCode = text.wrCode
        /\ text'.addr = text.src + text.off
        /\ text'.data = text.data
    BY <1>0, <1>4, SMT DEF Hw!Text!SetRdAddr, TextRegs
  <2> QED
    BY Zenon, <1>0, <2>9, <2>8
<1>5. CASE ~write /\ Hw!Text!ReadWait(wait, rdata)
  <2>9. /\ text'.codes = text.codes
        /\ text'.src = text.src
        /\ text'.dst = text.dst
        /\ text'.hdr = text.hdr
        /\ text'.off = text.off
        /\ text'.char = rdata
        /\ text'.codeAddr = text.codeAddr
        /\ text'.dstCW = text.dstCW
        /\ text'.wrCode = text.wrCode
        /\ text'.addr = text.addr
        /\ text'.data = text.data
    BY <1>0, <1>5, SMT DEF Hw!Text!ReadWait, TextRegs
  <2> QED
    BY Zenon, <1>0, <2>9
<1>6. CASE ~write /\ Hw!Text!CheckEnd
  <2>9. /\ text'.codes = text.codes
        /\ text'.src = text.src
        /\ text'.dst = text.dst
        /\ text'.hdr = text.hdr
        /\ text'.off = (IF text.char = 0 THEN text.off ELSE text.off + 1)
        /\ text'.char = text.char
        /\ text'.codeAddr = text.codeAddr
        /\ text'.dstCW = text.dstCW
        /\ text'.wrCode = text.wrCode
        /\ text'.addr = text.addr
        /\ text'.data = text.data
    BY <1>0, <1>6, SMT DEF Hw!Text!CheckEnd, TextRegs
  <2> QED
    BY Zenon, <1>0, <2>9, Sums
<1>7. CASE ~write /\ Hw!Text!ReadCode
  <2>1. Hw!Text!Index(text.char) \in Nat
    <3>1. text.char \in Nat
      BY DEF Byte
    <3>2. Index(text.char) \in Nat
      BY <3>1, IndexType
    <3> QED
      BY <3>2 DEF Hw!Text!Index, Index
  <2>8. text.codes + Hw!Text!Index(text.char) * 4 \in Nat
    BY SMT, <1>0, <2>1
  <2>9. /\ text'.codes = text.codes
        /\ text'.src = text.src
        /\ text'.dst = text.dst
        /\ text'.hdr = text.hdr
        /\ text'.off = text.off
        /\ text'.char = text.char
        /\ text'.codeAddr = text.codes + Hw!Text!Index(text.char) * 4
        /\ text'.dstCW = text.dstCW
        /\ text'.wrCode = text.wrCode
        /\ text'.addr = text.addr
        /\ text'.data = text.data
    BY <1>0, <1>7, SMT DEF Hw!Text!ReadCode, TextRegs
  <2> QED
    BY Zenon, <1>0, <2>9, <2>1, <2>8
<1>8. CASE ~write /\ Hw!Text!ReadCodeStart
  <2>9. /\ text'.codes = text.codes
        /\ text'.src = text.src
        /\ text'.dst = text.dst
        /\ text'.hdr = text.hdr
        /\ text'.off = text.off
        /\ text'.char = text.char
        /\ text'.codeAddr = text.codeAddr
        /\ text'.dstCW = text.dstCW
        /\ text'.wrCode = text.wrCode
        /\ text'.addr = text.addr
        /\ text'.data = text.data
    BY <1>0, <1>8, SMT DEF Hw!Text!ReadCodeStart, TextRegs
  <2> QED
    BY Zenon, <1>0, <2>9
<1>9. CASE ~write /\ Hw!Text!ReadCodeWait
  <2>1. cr.code \in Bits
    BY DEF CRTyped
  <2>9. /\ text'.codes = text.codes
        /\ text'.src = text.src
        /\ text'.dst = text.dst
        /\ text'.hdr = text.hdr
        /\ text'.off = text.off
        /\ text'.char = text.char
        /\ text'.codeAddr = text.codeAddr
        /\ text'.dstCW = text.dstCW
        /\ text'.wrCode = (IF cr.done THEN cr.code ELSE text.wrCode)
        /\ text'.addr = text.addr
        /\ text'.data = text.data
    BY <1>0, <1>9, SMT DEF Hw!Text!ReadCodeWait, TextRegs
  <2> QED
    BY Zenon, <1>0, <2>9, <2>1
<1>10. CASE ~write /\ Hw!Text!WriteCode
  <2>9. /\ text'.codes = text.codes
        /\ text'.src = text.src
        /\ text'.dst = text.dst
        /\ text'.hdr = text.hdr
        /\ text'.off = text.off
        /\ text'.char = text.char
        /\ text'.codeAddr = text.codeAddr
        /\ text'.dstCW = text.dstCW
        /\ text'.wrCode = text.wrCode
        /\ text'.addr = text.addr
        /\ text'.data = text.data
    BY <1>0, <1>10, SMT DEF Hw!Text!WriteCode, TextRegs
  <2> QED
    BY Zenon, <1>0, <2>9
<1>11. CASE ~write /\ Hw!Text!WriteCodeWait
  <2>9. /\ text'.codes = text.codes
        /\ text'.src = text.src
        /\ text'.dst = text.dst
        /\ text'.hdr = text.hdr
        /\ text'.off = text.off
        /\ text'.char = text.char
        /\ text'.codeAddr = text.codeAddr
        /\ text'.dstCW = text.dstCW
        /\ text'.wrCode = text.wrCode
        /\ text'.addr = text.addr
        /\ text'.data = text.data
    BY <1>0, <1>11, SMT DEF Hw!Text!WriteCodeWait, TextRegs
  <2> QED
    BY Zenon, <1>0, <2>9
<1>12. CASE ~write /\ Hw!Text!AddPadding
  <2>1. Hw!Text!Padding \in Bits
    BY EightZerosBits DEF Hw!Text!Padding, EightZeros
  <2>9. /\ text'.codes = text.codes
        /\ text'.src = text.src
        /\ text'.dst = text.dst
        /\ text'.hdr = text.hdr
        /\ text'.off = text.off
        /\ text'.char = text.char
        /\ text'.codeAddr = text.codeAddr
        /\ text'.dstCW = text.dstCW
        /\ text'.wrCode = Hw!Text!Padding
        /\ text'.addr = text.addr
        /\ text'.data = text.data
    BY <1>0, <1>12, SMT DEF Hw!Text!AddPadding, TextRegs
  <2> QED
    BY Zenon, <1>0, <2>9, <2>1
<1>13. CASE ~write /\ Hw!Text!WaitPadding
  <2>9. /\ text'.codes = text.codes
        /\ text'.src = text.src
        /\ text'.dst = text.dst
        /\ text'.hdr = text.hdr
        /\ text'.off = text.off
        /\ text'.char = text.char
        /\ text'.codeAddr = text.codeAddr
        /\ text'.dstCW = text.dstCW
        /\ text'.wrCode = text.wrCode
        /\ text'.addr = text.addr
        /\ text'.data = text.data
    BY <1>0, <1>13, SMT DEF Hw!Text!WaitPadding, TextRegs
  <2> QED
    BY Zenon, <1>0, <2>9
<1>14. CASE ~write /\ Hw!Text!WrLen
  <2>1. Hw!Text!WordByte(text.off, text.k) \in Byte
    BY <1>0, WordByteType DEF Hw!Text!WordByte, WordByte
  <2>8. text.dst + 8 + text.k \in Nat
    BY SMT, <1>0
  <2>9. /\ text'.codes = text.codes
        /\ text'.src = text.src
        /\ text'.dst = text.dst
        /\ text'.hdr = text.hdr
        /\ text'.off = text.off
        /\ text'.char = text.char
        /\ text'.codeAddr = text.codeAddr
        /\ text'.dstCW = text.dstCW
        /\ text'.wrCode = text.wrCode
        /\ text'.addr = text.dst + 8 + text.k
        /\ text'.data = Hw!Text!WordByte(text.off, text.k)
    BY <1>0, <1>14, SMT DEF Hw!Text!WrLen, TextRegs
  <2> QED
    BY Zenon, <1>0, <2>9, <2>1, <2>8
<1>15. CASE ~write /\ Hw!Text!WrLenWait(wait)
  <2>9. /\ text'.codes = text.codes
        /\ text'.src = text.src
        /\ text'.dst = text.dst
        /\ text'.hdr = text.hdr
        /\ text'.off = text.off
        /\ text'.char = text.char
        /\ text'.codeAddr = text.codeAddr
        /\ text'.dstCW = text.dstCW
        /\ text'.wrCode = text.wrCode
        /\ text'.addr = text.addr
        /\ text'.data = text.data
    BY <1>0, <1>15, SMT DEF Hw!Text!WrLenWait, TextRegs
  <2> QED
    BY Zenon, <1>0, <2>9
<1>16. CASE ~write /\ Hw!Text!Stall(wait)
  <2>9. /\ text'.codes = text.codes
        /\ text'.src = text.src
        /\ text'.dst = text.dst
        /\ text'.hdr = text.hdr
        /\ text'.off = text.off
        /\ text'.char = text.char
        /\ text'.codeAddr = text.codeAddr
        /\ text'.dstCW = text.dstCW
        /\ text'.wrCode = text.wrCode
        /\ text'.addr = text.addr
        /\ text'.data = text.data
    BY <1>0, <1>16, SMT DEF Hw!Text!Stall, TextRegs
  <2> QED
    BY Zenon, <1>0, <2>9
<1> QED
  BY <1>1, <1>2, <1>3, <1>4, <1>5, <1>6, <1>7, <1>8, <1>9, <1>10, <1>11, <1>12, <1>13,
     <1>14, <1>15, <1>16 DEF Hw!Text!EncodeText

\* The registers of the top-level process.
LEMMA EncTypedStep ==
    ASSUME EncTyped, EncShape, TreeTyped, CWTyped, ctl.reg \in [0 .. 3 -> Nat],
           NEW wait \in BOOLEAN, Hw!Encode(wait)
    PROVE  EncTyped'
<1> USE DEF EncTyped
<1>0. /\ DOMAIN enc = EncRegs /\ enc.k \in 0 .. 3 /\ tree.size \in Nat /\ cw.size \in Nat
      /\ ctl.reg[3] \in Nat
  <2>1. 3 \in 0 .. 3
    OBVIOUS
  <2> QED
    BY <2>1 DEF EncShape, TreeTyped, CWTyped
<1>1. CASE Hw!ResetState
  <2>9. /\ enc'.total = enc.total /\ enc'.addr = enc.addr /\ enc'.data = enc.data
    BY <1>0, <1>1, SMT DEF Hw!ResetState, EncRegs
  <2> QED
    BY Zenon, <1>0, <2>9, Sums
<1>2. CASE Hw!Idle
  <2>9. /\ enc'.total = enc.total /\ enc'.addr = enc.addr /\ enc'.data = enc.data
    BY <1>0, <1>2, SMT DEF Hw!Idle, EncRegs
  <2> QED
    BY Zenon, <1>0, <2>9, Sums
<1>3. CASE Hw!TreeWrInput
  <2>9. /\ enc'.total = enc.total /\ enc'.addr = enc.addr /\ enc'.data = enc.data
    BY <1>0, <1>3, SMT DEF Hw!TreeWrInput, EncRegs
  <2> QED
    BY Zenon, <1>0, <2>9, Sums
<1>4. CASE Hw!TreeStart
  <2>9. /\ enc'.total = enc.total /\ enc'.addr = enc.addr /\ enc'.data = enc.data
    BY <1>0, <1>4, SMT DEF Hw!TreeStart, EncRegs
  <2> QED
    BY Zenon, <1>0, <2>9, Sums
<1>5. CASE Hw!TreeWait
  <2>9. /\ enc'.total = enc.total /\ enc'.addr = enc.addr /\ enc'.data = enc.data
    BY <1>0, <1>5, SMT DEF Hw!TreeWait, EncRegs
  <2> QED
    BY Zenon, <1>0, <2>9, Sums
<1>6. CASE Hw!TextWrInput
  <2>9. /\ enc'.total = enc.total /\ enc'.addr = enc.addr /\ enc'.data = enc.data
    BY <1>0, <1>6, SMT DEF Hw!TextWrInput, EncRegs
  <2> QED
    BY Zenon, <1>0, <2>9, Sums
<1>7. CASE Hw!TextStart
  <2>9. /\ enc'.total = enc.total /\ enc'.addr = enc.addr /\ enc'.data = enc.data
    BY <1>0, <1>7, SMT DEF Hw!TextStart, EncRegs
  <2> QED
    BY Zenon, <1>0, <2>9, Sums
<1>8. CASE Hw!TextWait
  <2>9. /\ enc'.total = (IF text.done THEN 12 + tree.size + cw.size ELSE enc.total) /\ enc'.addr = enc.addr /\ enc'.data = enc.data
    BY <1>0, <1>8, SMT DEF Hw!TextWait, EncRegs
  <2> QED
    BY Zenon, <1>0, <2>9, Sums
<1>9. CASE Hw!WrTotalLen
  <2>1. Hw!WordByte(enc.total, enc.k) \in Byte
    BY <1>0, WordByteType DEF Hw!WordByte, WordByte
  <2>9. /\ enc'.total = enc.total /\ enc'.addr = ctl.reg[3] + enc.k /\ enc'.data = Hw!WordByte(enc.total, enc.k)
    BY <1>0, <1>9, SMT DEF Hw!WrTotalLen, EncRegs, Hw!DST
  <2>2. ctl.reg[3] + enc.k \in Nat
    BY Zenon, <1>0, Sums
  <2>3. enc.total \in Nat
    OBVIOUS
  <2> QED
    BY Zenon, <2>1, <2>2, <2>3, <2>9
<1>10. CASE Hw!WrTotalLenWait(wait)
  <2>9. /\ enc'.total = enc.total /\ enc'.addr = enc.addr /\ enc'.data = enc.data
    BY <1>0, <1>10, SMT DEF Hw!WrTotalLenWait, EncRegs
  <2> QED
    BY Zenon, <1>0, <2>9, Sums
<1>11. CASE Hw!Stall(wait)
  <2>9. /\ enc'.total = enc.total /\ enc'.addr = enc.addr /\ enc'.data = enc.data
    BY <1>0, <1>11, SMT DEF Hw!Stall, EncRegs
  <2> QED
    BY Zenon, <1>0, <2>9, Sums
<1> QED
  BY <1>1, <1>2, <1>3, <1>4, <1>5, <1>6, <1>7, <1>8, <1>9, <1>10, <1>11 DEF Hw!Encode

-----------------------------------------------------------------------------
(* A clock edge while a request is served *)

\* The inputs lie where the registers say.
Serving ==
    /\ Fine(J, X) /\ Typed /\ Inputs
    /\ TreeShape /\ TextPart /\ EncPart /\ CtlShape
    /\ ~ctl.reset
    /\ ctl.reg[0] = 0 /\ ctl.reg[1] = TreePlace(J)
    /\ ctl.reg[2] = TextPlace(J) /\ ctl.reg[3] = Dst

SameRequest == J' = J /\ X' = X

\* The places depend on the job and the text alone.
LEMMA SameNumbers ==
    ASSUME SameRequest
    PROVE  N' = N /\ Dst' = Dst /\ BodyAt' = BodyAt
  BY DEF SameRequest, N, Dst, BodyAt

\* The bus belongs to whom the multiplexer selects.
LEMMA BusOfMux ==
    /\ enc.mux = "NONE" => ~Hw!Bus.write
    /\ enc.mux = "OWN" => /\ Hw!Bus.write = enc.write /\ Hw!Bus.addr = enc.addr
                          /\ Hw!Bus.data = enc.data
    /\ enc.mux = "TREE" => /\ Hw!Bus.write = tree.write /\ Hw!Bus.addr = tree.addr
                           /\ Hw!Bus.data = tree.data
    /\ enc.mux = "TXT" => Hw!Bus = Hw!Text!Bus
  BY DEF Hw!Bus

\* The text handler's bus belongs to whom its multiplexer selects.
LEMMA BusOfTextMux ==
    /\ text.mux = "TEXT_HANDLER" =>
          /\ Hw!Text!Bus.write = text.write /\ Hw!Text!Bus.addr = text.addr
          /\ Hw!Text!Bus.data = text.data
    /\ text.mux = "CODE_RD" => ~Hw!Text!Bus.write /\ Hw!Text!Bus.addr = cr.addr
    /\ text.mux = "CODE_WR" =>
          /\ Hw!Text!Bus.write = cw.write /\ Hw!Text!Bus.addr = cw.addr
          /\ Hw!Text!Bus.data = cw.data
    /\ text.mux = "NONE" => ~Hw!Text!Bus.write
  BY DEF Hw!Text!Bus

\* What an edge is for each part.
LEMMA ClockParts ==
    ASSUME mem \in Memory(MemSize), MemSize \in Nat, NEW slv, NEW wait \in BOOLEAN,
           NEW latch \in Latches, FpgaEdge(slv, wait, latch)
    PROVE  /\ \E w \in BOOLEAN, d \in Byte :
                 /\ Hw!Tree!Tick(enc.writeTree, ctl.reg[1], ctl.reg[3], enc.startTree, w, d)
                 /\ enc.mux = "TREE" => w = wait /\ d = Fetch(mem, tree.addr)
           /\ \E w \in BOOLEAN : Hw!Encode(w) /\ (enc.mux = "OWN" => w = wait)
           /\ \E w \in BOOLEAN, d \in Byte :
                 /\ Hw!Text!Tick(enc.writeText, ctl.reg[0], ctl.reg[2], ctl.reg[3], tree.size,
                                 enc.startText, [wait |-> w, data |-> d], latch)
                 /\ enc.mux = "TXT" => w = wait /\ d = Fetch(mem, Hw!Text!Bus.addr)
           /\ Hw!Ctrl(slv)
           /\ mem' = Commit(mem, Hw!Bus.write, wait, Hw!Bus.addr, Hw!Bus.data)
           /\ addrs' = addrs
<1> DEFINE byte == Fetch(mem, Hw!Bus.addr)
           answer == [wait |-> wait, data |-> byte]
<1>1. /\ Hw!Tick(slv, answer, latch) /\ addrs' = addrs
      /\ mem' = Commit(mem, Hw!Bus.write, wait, Hw!Bus.addr, Hw!Bus.data)
  BY DEF FpgaEdge
<1>2. byte \in Byte
  BY FetchType
<1>3. latch \in [wait : BOOLEAN, data : Byte]
  BY BoundsAssumption
<1>4. /\ enc.mux = "TREE" => byte = Fetch(mem, tree.addr)
      /\ enc.mux = "TXT" => byte = Fetch(mem, Hw!Text!Bus.addr)
  BY BusOfMux
<1> HIDE DEF byte
<1>5. answer \in [wait : BOOLEAN, data : Byte] /\ answer.wait = wait /\ answer.data = byte
  BY <1>2
<1> HIDE DEF answer
<1>6. \A m : /\ Hw!Seen(m, answer, latch) \in [wait : BOOLEAN, data : Byte]
             /\ enc.mux = m => Hw!Seen(m, answer, latch) = answer
  BY <1>3, <1>5 DEF Hw!Seen
<1> DEFINE own == Hw!Seen("OWN", answer, latch)
           forTree == Hw!Seen("TREE", answer, latch)
           forText == Hw!Seen("TXT", answer, latch)
<1>8. /\ Hw!Ctrl(slv)
      /\ Hw!Encode(own.wait)
      /\ Hw!Tree!Tick(enc.writeTree, ctl.reg[1], ctl.reg[3], enc.startTree, forTree.wait, forTree.data)
      /\ Hw!Text!Tick(enc.writeText, ctl.reg[0], ctl.reg[2], ctl.reg[3], tree.size, enc.startText, forText, latch)
  BY <1>1 DEF Hw!Tick, Hw!CODES, Hw!TREE_STR, Hw!TEXT_SRC, Hw!DST
<1>9. /\ own \in [wait : BOOLEAN, data : Byte] /\ (enc.mux = "OWN" => own = answer)
      /\ forTree \in [wait : BOOLEAN, data : Byte] /\ (enc.mux = "TREE" => forTree = answer)
      /\ forText \in [wait : BOOLEAN, data : Byte] /\ (enc.mux = "TXT" => forText = answer)
  BY <1>6
<1> HIDE DEF own, forTree, forText
<1>10. forText = [wait |-> forText.wait, data |-> forText.data]
  BY <1>9
<1>11. /\ own.wait \in BOOLEAN /\ forTree.wait \in BOOLEAN /\ forTree.data \in Byte
       /\ forText.wait \in BOOLEAN /\ forText.data \in Byte
  BY <1>9
<1>12. \E w \in BOOLEAN : Hw!Encode(w) /\ (enc.mux = "OWN" => w = wait)
  BY <1>5, <1>8, <1>9, <1>11, Zenon
<1>13. \E w \in BOOLEAN, d \in Byte :
          /\ Hw!Tree!Tick(enc.writeTree, ctl.reg[1], ctl.reg[3], enc.startTree, w, d)
          /\ enc.mux = "TREE" => w = wait /\ d = Fetch(mem, tree.addr)
  <2>1. enc.mux = "TREE" => forTree.wait = wait /\ forTree.data = Fetch(mem, tree.addr)
    BY <1>4, <1>5, <1>9, Zenon
  <2> QED
    BY <1>8, <1>11, <2>1, Zenon
<1>14. \E w \in BOOLEAN, d \in Byte :
          /\ Hw!Text!Tick(enc.writeText, ctl.reg[0], ctl.reg[2], ctl.reg[3], tree.size,
                          enc.startText, [wait |-> w, data |-> d], latch)
          /\ enc.mux = "TXT" => w = wait /\ d = Fetch(mem, Hw!Text!Bus.addr)
  <2>1. enc.mux = "TXT" => forText.wait = wait /\ forText.data = Fetch(mem, Hw!Text!Bus.addr)
    BY <1>4, <1>5, <1>9, Zenon
  <2>2. Hw!Text!Tick(enc.writeText, ctl.reg[0], ctl.reg[2], ctl.reg[3], tree.size, enc.startText,
                     [wait |-> forText.wait, data |-> forText.data], latch)
    BY <1>8, <1>10, Zenon
  <2> QED
    BY <1>11, <2>1, <2>2, Zenon
<1> QED
  BY <1>1, <1>8, <1>12, <1>13, <1>14, Zenon

\* The same while a request is served.
LEMMA EdgeParts ==
    ASSUME Serving, MemSize \in Nat, NEW slv, NEW wait \in BOOLEAN,
           NEW latch \in Latches, FpgaEdge(slv, wait, latch)
    PROVE  /\ \E w \in BOOLEAN, d \in Byte :
                 /\ Hw!Tree!Tick(enc.writeTree, TreePlace(J), Dst, enc.startTree, w, d)
                 /\ enc.mux = "TREE" => w = wait /\ d = Fetch(mem, tree.addr)
           /\ \E w \in BOOLEAN : Hw!Encode(w) /\ (enc.mux = "OWN" => w = wait)
           /\ \E w \in BOOLEAN, d \in Byte :
                 /\ Hw!Text!Tick(enc.writeText, 0, TextPlace(J), Dst, tree.size,
                                 enc.startText, [wait |-> w, data |-> d], latch)
                 /\ enc.mux = "TXT" => w = wait /\ d = Fetch(mem, Hw!Text!Bus.addr)
           /\ Hw!Ctrl(slv)
           /\ mem' = Commit(mem, Hw!Bus.write, wait, Hw!Bus.addr, Hw!Bus.data)
           /\ addrs' = addrs
<1>1. /\ mem \in Memory(MemSize)
      /\ ctl.reg[0] = 0 /\ ctl.reg[1] = TreePlace(J)
      /\ ctl.reg[2] = TextPlace(J) /\ ctl.reg[3] = Dst
  BY DEF Serving, Typed
<1> DEFINE p == TreePlace(J)
           q == TextPlace(J)
           r == Dst
<1> HIDE DEF p, q, r
<1>2. ctl.reg[0] = 0 /\ ctl.reg[1] = p /\ ctl.reg[2] = q /\ ctl.reg[3] = r
  BY <1>1 DEF p, q, r
<1>3. /\ \E w \in BOOLEAN, d \in Byte :
            /\ Hw!Tree!Tick(enc.writeTree, p, r, enc.startTree, w, d)
            /\ enc.mux = "TREE" => w = wait /\ d = Fetch(mem, tree.addr)
      /\ \E w \in BOOLEAN, d \in Byte :
            /\ Hw!Text!Tick(enc.writeText, 0, q, r, tree.size,
                            enc.startText, [wait |-> w, data |-> d], latch)
            /\ enc.mux = "TXT" => w = wait /\ d = Fetch(mem, Hw!Text!Bus.addr)
  <2>1. /\ \E w \in BOOLEAN, d \in Byte :
              /\ Hw!Tree!Tick(enc.writeTree, ctl.reg[1], ctl.reg[3], enc.startTree, w, d)
              /\ enc.mux = "TREE" => w = wait /\ d = Fetch(mem, tree.addr)
        /\ \E w \in BOOLEAN, d \in Byte :
              /\ Hw!Text!Tick(enc.writeText, ctl.reg[0], ctl.reg[2], ctl.reg[3], tree.size,
                              enc.startText, [wait |-> w, data |-> d], latch)
              /\ enc.mux = "TXT" => w = wait /\ d = Fetch(mem, Hw!Text!Bus.addr)
    BY <1>1, ClockParts
  <2> QED
    BY <1>2, <2>1
<1>4. /\ \E w \in BOOLEAN : Hw!Encode(w) /\ (enc.mux = "OWN" => w = wait)
      /\ Hw!Ctrl(slv)
      /\ mem' = Commit(mem, Hw!Bus.write, wait, Hw!Bus.addr, Hw!Bus.data)
      /\ addrs' = addrs
  BY <1>1, ClockParts
<1> QED
  BY <1>3, <1>4, Zenon DEF p, q, r

-----------------------------------------------------------------------------
(* The tree is copied *)

\* The tree handler has its addresses and begins at the first character.
LEMMA TreeIsLoaded ==
    ASSUME Serving, MemSize \in Nat, SameRequest, enc.state = "TREE_START",
           TreeTyped', mem' = mem,
           tree'.state = "IDLE", tree'.src = TreePlace(J), tree'.dst = Dst,
           tree'.off = 0, ~tree'.done, ~tree'.read, ~tree'.write
    PROVE  TreeWork'
<1>1. J' = J /\ Dst' = Dst
  BY SameNumbers DEF SameRequest
<1>2. /\ TreePlace(J) \in Nat /\ Dst \in Nat /\ Len(J.tree) \in Nat
      /\ TreePlace(J) + Len(J.tree) < Dst /\ Dst + 12 + Len(J.tree) <= MemSize
  <2>1. Fine(J, X)
    BY DEF Serving
  <2>2. /\ TreePlace(J) \in Nat /\ TextPlace(J) \in Nat /\ FilePlace(J, X) \in Nat
        /\ Len(J.tree) \in Nat /\ Len(X) \in Nat /\ Len(Body(J, X)) \in Nat
        /\ TreePlace(J) + Len(J.tree) < TextPlace(J)
        /\ TextPlace(J) + Len(X) < FilePlace(J, X)
        /\ FilePlace(J, X) + 12 + Len(J.tree) + Len(Body(J, X)) <= MemSize
    BY <2>1, LayoutNumbers
  <2> QED
    BY <2>2 DEF Dst
<1>3. /\ mem[TreePlace(J) + Len(J.tree)] = 0
      /\ \A i \in 0 .. Len(J.tree) - 1 : mem[TreePlace(J) + i] # 0
  <2>1. StringAt(mem, TreePlace(J), J.tree)
    BY DEF Serving, Inputs
  <2>2. \A i \in 1 .. Len(J.tree) : J.tree[i] # 0
    BY FineTypes, Strings DEF Serving
  <2>3. ASSUME NEW i \in 0 .. Len(J.tree) - 1 PROVE mem[TreePlace(J) + i] # 0
    <3>1. i + 1 \in 1 .. Len(J.tree) /\ TreePlace(J) + (i + 1) - 1 = TreePlace(J) + i
      BY <1>2
    <3> QED
      BY <2>1, <2>2, <3>1 DEF StringAt
  <2> QED
    BY <2>1, <2>3 DEF StringAt
<1>4. TB!TypeOK'
  <2>1. mem \in [0 .. MemSize - 1 -> Byte]
    BY DEF Serving, Typed, Memory
  <2> QED
    BY <1>1, <1>2, <2>1 DEF TB!TypeOK, TreeTyped, TB!States, Hw!Tree!States, TB!Byte, Byte, TB!Addr
<1>5. TB!TreeCopied'
  BY <1>1, <1>2, <1>3 DEF TB!TreeCopied
<1>6. TB!Layout'
  BY <1>1, <1>2 DEF TB!Layout, TB!Loaded
<1>7. TB!Request' /\ TB!Current' /\ TB!LengthWritten'
  BY DEF TB!Request, TB!Current, TB!LengthWritten
<1>8. TB!TreeInv'
  BY <1>4, <1>5, <1>6, <1>7 DEF TB!TreeInv
<1> QED
  BY <1>1, <1>8 DEF TreeWork

\* Where a file ends.
LEMMA EndOfFile ==
    ASSUME NEW d \in Nat, NEW t \in Nat, NEW b \in Nat, NEW f \in Nat, NEW m \in Nat,
           f = 12 + t + b, d + 12 + t + b <= m
    PROVE  d + f = (d + 12 + t) + b /\ d + f <= m
  OBVIOUS

\* A file place is inside the file.
LEMMA FileBounds ==
    ASSUME Fine(J, X), MemSize \in Nat
    PROVE  /\ Dst \in Nat /\ BodyAt \in Nat /\ N \in Nat /\ Len(J.tree) \in Nat
           /\ TreePlace(J) \in Nat /\ TextPlace(J) \in Nat
           /\ Len(Body(J, X)) \in Nat /\ Len(File(J, X)) \in Nat
           /\ TreePlace(J) + Len(J.tree) < TextPlace(J) /\ TextPlace(J) + N < Dst
           /\ BodyAt = Dst + 12 + Len(J.tree)
           /\ Dst + Len(File(J, X)) = BodyAt + Len(Body(J, X))
           /\ Len(File(J, X)) = 12 + Len(J.tree) + Len(Body(J, X))
           /\ Dst + Len(File(J, X)) <= MemSize
<1>1. /\ TreePlace(J) \in Nat /\ TextPlace(J) \in Nat /\ FilePlace(J, X) \in Nat
      /\ Len(J.tree) \in Nat /\ Len(X) \in Nat /\ Len(Body(J, X)) \in Nat
      /\ TreePlace(J) + Len(J.tree) < TextPlace(J)
      /\ TextPlace(J) + Len(X) < FilePlace(J, X)
      /\ FilePlace(J, X) + 12 + Len(J.tree) + Len(Body(J, X)) <= MemSize
      /\ Len(File(J, X)) = 12 + Len(J.tree) + Len(Body(J, X))
  BY Zenon, LayoutNumbers
<1>2. Dst = FilePlace(J, X) /\ N = Len(X) /\ BodyAt = Dst + 12 + Len(J.tree)
  BY DEF Dst, N, BodyAt
<1>3. BodyAt \in Nat /\ Len(File(J, X)) \in Nat
  <2> DEFINE d == Dst  at == BodyAt  t == Len(J.tree)  b == Len(Body(J, X))
             f == Len(File(J, X))
  <2>1. d \in Nat /\ t \in Nat /\ b \in Nat /\ f = 12 + t + b /\ at = d + 12 + t
    BY Zenon, <1>1, <1>2
  <2>2. at \in Nat /\ f \in Nat
    <3> HIDE DEF d, at, t, b, f
    <3> QED
      BY <2>1
  <2> QED
    BY <2>2
<1>4. /\ Dst + Len(File(J, X)) = BodyAt + Len(Body(J, X))
      /\ Dst + Len(File(J, X)) <= MemSize
  <2>2. /\ Dst \in Nat /\ Len(J.tree) \in Nat /\ Len(Body(J, X)) \in Nat
        /\ Len(File(J, X)) \in Nat
        /\ Len(File(J, X)) = 12 + Len(J.tree) + Len(Body(J, X))
        /\ Dst + 12 + Len(J.tree) + Len(Body(J, X)) <= MemSize
    BY Zenon, <1>1, <1>2, <1>3
  <2>3. /\ Dst + Len(File(J, X)) = (Dst + 12 + Len(J.tree)) + Len(Body(J, X))
        /\ Dst + Len(File(J, X)) <= MemSize
    <3> DEFINE d == Dst
               t == Len(J.tree)
               b == Len(Body(J, X))
               f == Len(File(J, X))
    <3>1. d \in Nat /\ t \in Nat /\ b \in Nat /\ f \in Nat /\ f = 12 + t + b /\ d + 12 + t + b <= MemSize
      BY Zenon, <2>2
    <3> HIDE DEF d, t, b, f
    <3>2. d + f = (d + 12 + t) + b /\ d + f <= MemSize
      BY <3>1, EndOfFile
    <3> QED
      BY Zenon, <3>2 DEF d, t, b, f
  <2> QED
    BY Zenon, <1>2, <2>3
<1> QED
  BY <1>1, <1>2, <1>3, <1>4

\* A write into the file leaves the inputs.
LEMMA InputsServed ==
    ASSUME Serving, MemSize \in Nat, SameRequest, NEW write \in BOOLEAN,
           NEW wait \in BOOLEAN, NEW a, NEW d \in Byte,
           write => a \in Dst .. Dst + Len(File(J, X)) - 1,
           mem' = Commit(mem, write, wait, a, d)
    PROVE  Inputs' /\ mem' \in Memory(MemSize)
<1>1. Fine(J, X) /\ mem \in Memory(MemSize) /\ J' = J /\ X' = X
  BY DEF Serving, Typed, SameRequest
<1>2. Dst \in Nat /\ Len(File(J, X)) \in Nat /\ Dst + Len(File(J, X)) <= MemSize
  BY <1>1, FileBounds
<1>3. write => a \in 0 .. MemSize - 1 /\ \A b \in 0 .. Dst - 1 : b # a
  BY <1>2
<1>4. /\ mem' \in Memory(MemSize)
      /\ \A b \in 0 .. MemSize - 1 : ~write \/ b # a => mem'[b] = mem[b]
  <2>1. write => a \in 0 .. MemSize - 1
    BY <1>3
  <2> QED
    BY <1>1, <2>1, CommitStores
<1>5. \A b \in 0 .. FilePlace(J, X) - 1 : mem'[b] = mem[b]
  <2>1. \A b \in 0 .. Dst - 1 : b \in 0 .. MemSize - 1
    BY <1>2
  <2> QED
    BY <1>3, <1>4, <2>1, Zenon DEF Dst
<1>6. /\ TableAt(mem, J.codes) /\ StringAt(mem, TreePlace(J), J.tree)
      /\ StringAt(mem, TextPlace(J), X)
  BY DEF Serving, Inputs
<1>7. /\ TableAt(mem', J.codes) /\ StringAt(mem', TreePlace(J), J.tree)
      /\ StringAt(mem', TextPlace(J), X)
  BY <1>1, <1>5, <1>6, InputsStay
<1> QED
  BY <1>1, <1>4, <1>7 DEF Inputs

\* The tree handler does not lose its places.
LEMMA TreeKeepsPlaces ==
    ASSUME TreeShape, NEW src, NEW dst, NEW start, NEW wait, NEW rdata, NEW write, ~write,
           Hw!Tree!Tick(write, src, dst, start, wait, rdata)
    PROVE  /\ tree'.src = tree.src /\ tree'.dst = tree.dst
           /\ tree'.done => Hw!Tree!WrLenLast(wait)
<1>0. DOMAIN tree = TreeRegs /\ (tree.done => tree.state = "IDLE")
  BY DEF TreeShape
<1>1. CASE Hw!Tree!Idle(start)
  BY <1>0, <1>1 DEF Hw!Tree!Idle, TreeRegs
<1>2. CASE Hw!Tree!SetRdAddr
  BY <1>0, <1>2 DEF Hw!Tree!SetRdAddr, TreeRegs
<1>3. CASE Hw!Tree!ReadWait(wait, rdata)
  BY <1>0, <1>3 DEF Hw!Tree!ReadWait, TreeRegs
<1>4. CASE Hw!Tree!CheckEnd
  BY <1>0, <1>4 DEF Hw!Tree!CheckEnd, TreeRegs
<1>5. CASE Hw!Tree!SetWrAddr
  BY <1>0, <1>5 DEF Hw!Tree!SetWrAddr, TreeRegs
<1>6. CASE Hw!Tree!WriteWaitExtra
  BY <1>0, <1>6 DEF Hw!Tree!WriteWaitExtra, TreeRegs
<1>7. CASE Hw!Tree!WriteWait(wait)
  BY <1>0, <1>7 DEF Hw!Tree!WriteWait, TreeRegs
<1>8. CASE Hw!Tree!Increment
  BY <1>0, <1>8 DEF Hw!Tree!Increment, TreeRegs
<1>9. CASE Hw!Tree!WrLen
  BY <1>0, <1>9 DEF Hw!Tree!WrLen, TreeRegs
<1>10. CASE Hw!Tree!WrLenWait(wait)
  BY <1>0, <1>10 DEF Hw!Tree!WrLenWait, TreeRegs
<1>11. CASE Hw!Tree!WrLenLast(wait)
  BY <1>0, <1>11 DEF Hw!Tree!WrLenLast, TreeRegs
<1>12. CASE Hw!Tree!Stall(wait)
  BY <1>0, <1>12 DEF Hw!Tree!Stall, TreeRegs
<1> QED
  BY <1>1, <1>2, <1>3, <1>4, <1>5, <1>6, <1>7, <1>8, <1>9, <1>10, <1>11, <1>12
     DEF Hw!Tree!Tick, Hw!Tree!Load

\* It writes into the file.
LEMMA TreeWritesFile ==
    ASSUME Serving, MemSize \in Nat, TreeWork, tree.write
    PROVE  tree.addr \in Dst .. Dst + Len(File(J, X)) - 1
<1>1. TB!TreeInv /\ tree.dst = Dst
  BY DEF TreeWork
<1>2. tree.off <= Len(J.tree) /\ tree.off \in Nat /\ tree.k \in 0 .. 3
  <2>1. TB!Loaded
    BY FineTypes DEF TB!Loaded, Serving
  <2> QED
    BY <1>1, <2>1 DEF TB!TreeInv, TB!Layout, TB!TypeOK
<1>3. /\ tree.state = "WR_LEN_WAIT" => tree.addr = tree.dst + 4 + tree.k
      /\ tree.state # "WR_LEN_WAIT" => tree.addr = tree.dst + 12 + tree.off
      /\ tree.state # "WR_LEN_WAIT" => tree.off < Len(J.tree)
  <2>1. tree.state \in {"WRITE_WAIT_EXTRA", "WRITE_WAIT", "WR_LEN_WAIT"}
    BY <1>1 DEF TB!TreeInv, TB!Request
  <2>2. /\ tree.state = "WR_LEN_WAIT" => tree.addr = tree.dst + 4 + tree.k
        /\ tree.state # "WR_LEN_WAIT" => tree.addr = tree.dst + 12 + tree.off
    BY <1>1 DEF TB!TreeInv, TB!Request
  <2>3. tree.state # "WR_LEN_WAIT" => tree.off < Len(J.tree)
    BY <1>1, <2>1, TB!CopyGoesOn, BenchesFit
  <2> QED
    BY <2>2, <2>3
<1>4. /\ Dst \in Nat /\ Len(J.tree) \in Nat /\ Len(Body(J, X)) \in Nat
      /\ Len(File(J, X)) = 12 + Len(J.tree) + Len(Body(J, X))
  BY FileBounds DEF Serving
<1> QED
  BY <1>1, <1>2, <1>3, <1>4

\* Without a load the addresses on its ports do not matter.
LEMMA TreeRunsOnBench ==
    ASSUME NEW src, NEW dst, NEW start, NEW wait, NEW rdata,
           Hw!Tree!Tick(FALSE, src, dst, start, wait, rdata)
    PROVE  TB!Tick(FALSE, 0, 0, start, wait, rdata)
<1>1. TB!Tick(FALSE, src, dst, start, wait, rdata)
  BY TreeAsOnBench
<1> QED
  BY <1>1 DEF TB!Tick, TB!Load

\* A clock of the tree handler at work keeps its bench's invariant.
LEMMA TreeClock ==
    ASSUME Serving, MemSize \in Nat, SameRequest, enc.state = "TREE_WAIT", TreeWork,
           NEW wait \in BOOLEAN,
           Hw!Tree!Tick(FALSE, TreePlace(J), Dst, enc.startTree, wait, Fetch(mem, tree.addr)),
           mem' = Commit(mem, tree.write, wait, tree.addr, tree.data)
    PROVE  TB!TreeInv'
<1>1. enc.startTree \in BOOLEAN
  BY DEF Serving, EncPart, EncShape
<1>2. Len(J.tree) \in Nat /\ Len(J.tree)' = Len(J.tree)
  <2>1. Len(J.tree) \in Nat
    BY FineTypes DEF Serving
  <2> QED
    BY <2>1 DEF SameRequest
<1>3. TB!Tick(FALSE, 0, 0, enc.startTree, wait, TB!Fetch(mem, tree.addr))
  <2>1. TB!Fetch(mem, tree.addr) = Fetch(mem, tree.addr)
    BY DEF TB!Fetch, Fetch
  <2> QED
    BY <2>1, TreeRunsOnBench
<1>4. mem' = TB!Commit(mem, tree.write, wait, tree.addr, tree.data)
  BY DEF TB!Commit, Commit
<1>5. enc.startTree => Len(J.tree) >= 0 /\ tree.off = 0
  BY <1>2 DEF TreeWork
<1>6. TB!Run(enc.startTree, wait)
  BY <1>2, <1>3, <1>4, <1>5 DEF TB!Run, TB!Clock
<1>7. TB!Next
  BY <1>1, <1>6 DEF TB!Next
<1> QED
  BY <1>7, TreeBenchStep DEF TreeWork

\* When it reports the end, length and characters are in the file.
LEMMA TreeIsOut ==
    ASSUME Serving, MemSize \in Nat, SameRequest, TreeWork, NEW wait \in BOOLEAN,
           Hw!Tree!WrLenLast(wait), TB!TreeInv', Inputs',
           mem' = Commit(mem, tree.write, wait, tree.addr, tree.data)
    PROVE  tree'.size = Len(J.tree) /\ TreeOut'
<1>1. TB!TreeInv /\ tree.dst = Dst /\ tree.src = TreePlace(J)
  BY DEF TreeWork
<1>2. /\ tree.state = "WR_LEN_WAIT" /\ ~wait /\ tree.k = 3 /\ tree'.size = tree.off
      /\ tree'.off = tree.off /\ tree'.src = tree.src /\ tree'.dst = tree.dst
      /\ tree.write
  <2>1. DOMAIN tree = TreeRegs /\ (tree.write <=> tree.state \in {"WRITE_WAIT_EXTRA", "WRITE_WAIT", "WR_LEN_WAIT"})
    BY DEF Serving, TreeShape
  <2>2. tree.state = "WR_LEN_WAIT" /\ ~wait /\ tree.k = 3
    BY DEF Hw!Tree!WrLenLast
  <2>3. tree'.size = tree.off /\ tree'.off = tree.off /\ tree'.src = tree.src /\ tree'.dst = tree.dst
    BY <2>1 DEF Hw!Tree!WrLenLast, TreeRegs
  <2> QED
    BY <2>1, <2>2, <2>3
<1>3. /\ tree.off = Len(J.tree) /\ tree.addr = Dst + 4 + 3
      /\ tree.data = WordByte(tree.off, 3)
      /\ \A i \in 0 .. 2 : mem[Dst + 4 + i] = WordByte(tree.off, i)
  <2>1. TB!LengthWritten /\ TB!Request
    BY <1>1 DEF TB!TreeInv
  <2>2. \A w, k : TB!WordByte(w, k) = WordByte(w, k)
    BY DEF TB!WordByte, WordByte
  <2>3. tree.off = Len(J.tree) /\ \A i \in 0 .. 3 - 1 : mem[Dst + 4 + i] = WordByte(Len(J.tree), i)
    BY <1>1, <1>2, <2>1, <2>2 DEF TB!LengthWritten
  <2>4. tree.addr = Dst + 4 + 3 /\ tree.data = WordByte(tree.off, 3)
    BY <1>1, <1>2, <2>1, <2>2, Zenon DEF TB!Request
  <2>5. 3 - 1 = 2
    OBVIOUS
  <2> QED
    BY <2>3, <2>4, <2>5
<1>4. /\ Dst \in Nat /\ Len(J.tree) \in Nat /\ TreePlace(J) \in Nat
      /\ Len(Body(J, X)) \in Nat /\ Len(File(J, X)) = 12 + Len(J.tree) + Len(Body(J, X))
      /\ Dst + Len(File(J, X)) <= MemSize
  BY FileBounds DEF Serving
<1>5. /\ Dst + 4 + 3 \in 0 .. MemSize - 1
      /\ \A i \in 0 .. 2 : Dst + 4 + i \in 0 .. MemSize - 1 /\ Dst + 4 + i # Dst + 4 + 3
  <2> HIDE DEF Dst
  <2> QED
    BY <1>4
<1>6. /\ mem'[Dst + 4 + 3] = WordByte(tree.off, 3)
      /\ \A i \in 0 .. 2 : mem'[Dst + 4 + i] = WordByte(tree.off, i)
  <2>1. mem \in Memory(MemSize) /\ tree.data \in Byte /\ tree.write \in BOOLEAN
    BY <1>2 DEF Serving, Typed, TreeTyped
  <2>2. /\ \A b \in 0 .. MemSize - 1 : ~tree.write \/ b # tree.addr => mem'[b] = mem[b]
        /\ tree.write /\ ~wait => mem'[tree.addr] = tree.data
    BY <1>3, <1>5, <2>1, CommitStores
  <2>3. mem'[Dst + 4 + 3] = WordByte(tree.off, 3)
    BY <1>2, <1>3, <2>2
  <2>4. \A i \in 0 .. 2 : mem'[Dst + 4 + i] = mem[Dst + 4 + i]
    BY <1>3, <1>5, <2>2
  <2> QED
    BY <1>3, <2>3, <2>4
<1>7. WordIn(mem', Dst + 4, Len(J.tree), 4)
  <2>1. \A k \in 0 .. 4 - 1 : k = 3 \/ k \in 0 .. 2
    OBVIOUS
  <2> QED
    BY <1>3, <1>6, <2>1 DEF WordIn
<1>8. Holds(mem', Dst + 12, J.tree)
  <2>1. TB!TreeCopied'
    BY DEF TB!TreeInv
  <2>2. J' = J
    BY DEF SameRequest
  <2>3. \A i \in 0 .. Len(J.tree) - 1 : mem'[Dst + 12 + i] = mem'[TreePlace(J) + i]
    <3>1. Len(J.tree) >= 0
      BY <1>4
    <3>2. \A i \in 0 .. tree'.off - 1 : mem'[tree'.dst + 12 + i] = mem'[tree'.src + i]
      BY <2>1, <2>2, <3>1, Zenon DEF TB!TreeCopied, TB!Loaded
    <3>3. tree'.off = Len(J.tree) /\ tree'.dst = Dst /\ tree'.src = TreePlace(J)
      BY <1>1, <1>2, <1>3
    <3> QED
      BY <3>2, <3>3, Zenon
  <2>4. StringAt(mem', TreePlace(J), J.tree)
    BY <2>2 DEF Inputs
  <2>5. ASSUME NEW i \in 1 .. Len(J.tree) PROVE mem'[Dst + 12 + i - 1] = J.tree[i]
    <3>1. /\ i - 1 \in 0 .. Len(J.tree) - 1
          /\ Dst + 12 + i - 1 = Dst + 12 + (i - 1)
          /\ TreePlace(J) + i - 1 = TreePlace(J) + (i - 1)
      BY <1>4
    <3>2. mem'[TreePlace(J) + i - 1] = J.tree[i]
      BY <2>4 DEF StringAt
    <3> QED
      BY <2>3, <3>1, <3>2
  <2> QED
    BY <2>5 DEF Holds
<1>9. Dst' = Dst /\ J' = J
  BY SameNumbers DEF SameRequest
<1> QED
  BY <1>2, <1>3, <1>7, <1>8, <1>9 DEF TreeOut

\* A clock of TREE_WAIT.
LEMMA TreeWaitStep ==
    ASSUME Serving, MemSize \in Nat, SameRequest, enc.state = "TREE_WAIT", TreeWork,
           NEW slv, NEW wait \in BOOLEAN, NEW latch \in Latches, FpgaEdge(slv, wait, latch)
    PROVE  /\ TreeWork' /\ TreeTyped' /\ Inputs' /\ mem' \in Memory(MemSize)
           /\ tree.done => tree'.size = Len(J.tree) /\ TreeOut'
<1>1. /\ enc.mux = "TREE" /\ enc.writeTree = FALSE /\ ~ctl.reset
      /\ DOMAIN enc = EncRegs
      /\ TreeShape
  BY DEF Serving, EncPart, EncShape
<1>2. /\ Hw!Tree!Tick(FALSE, TreePlace(J), Dst, enc.startTree, wait, Fetch(mem, tree.addr))
      /\ mem' = Commit(mem, tree.write, wait, tree.addr, tree.data)
      /\ \E w \in BOOLEAN : Hw!Encode(w)
  <2>1. /\ \E w \in BOOLEAN, d \in Byte :
              /\ Hw!Tree!Tick(enc.writeTree, TreePlace(J), Dst, enc.startTree, w, d)
              /\ enc.mux = "TREE" => w = wait /\ d = Fetch(mem, tree.addr)
        /\ \E w \in BOOLEAN : Hw!Encode(w) /\ (enc.mux = "OWN" => w = wait)
        /\ mem' = Commit(mem, Hw!Bus.write, wait, Hw!Bus.addr, Hw!Bus.data)
    BY EdgeParts
  <2>2. Hw!Bus.write = tree.write /\ Hw!Bus.addr = tree.addr /\ Hw!Bus.data = tree.data
    BY <1>1, BusOfMux
  <2> QED
    BY <1>1, <2>1, <2>2
<1>3. TB!TreeInv'
  BY <1>2, TreeClock
<1>4. Inputs' /\ mem' \in Memory(MemSize)
  <2>1. tree.write \in BOOLEAN /\ tree.data \in Byte
    BY DEF Serving, Typed, TreeTyped
  <2>2. tree.write => tree.addr \in Dst .. Dst + Len(File(J, X)) - 1
    BY TreeWritesFile
  <2> QED
    BY <1>2, <2>1, <2>2, InputsServed
<1>5. /\ tree'.src = tree.src /\ tree'.dst = tree.dst
      /\ tree'.done => Hw!Tree!WrLenLast(wait)
  BY <1>1, <1>2, TreeKeepsPlaces
<1>6. tree'.done => tree'.size = Len(J.tree) /\ TreeOut'
  BY <1>2, <1>3, <1>4, <1>5, TreeIsOut
<1>7. ~enc'.startTree
  <2>1. PICK w \in BOOLEAN : Hw!Encode(w)
    BY <1>2
  <2>2. Hw!TreeWait
    BY <1>1, <2>1 DEF Hw!Encode, Hw!ResetState, Hw!Idle, Hw!TreeWrInput, Hw!TreeStart,
       Hw!TextWrInput, Hw!TextStart, Hw!TextWait, Hw!WrTotalLen, Hw!WrTotalLenWait, Hw!Stall
  <2> QED
    BY <1>1, <2>2 DEF Hw!TreeWait, EncRegs
<1>8. J' = J /\ Dst' = Dst
  BY SameNumbers DEF SameRequest
<1>9. TreeWork'
  BY <1>3, <1>5, <1>6, <1>7, <1>8 DEF TreeWork
<1>10. TreeTyped'
  BY <1>3 DEF TB!TreeInv, TB!TypeOK, TreeTyped, TB!States, Hw!Tree!States, TB!Byte, Byte
<1>11. ASSUME tree.done PROVE tree'.size = Len(J.tree) /\ TreeOut'
  <2>1. tree.size = Len(J.tree) /\ TreeOut
    BY <1>11 DEF TreeWork
  <2>2. tree.state = "IDLE" /\ ~tree.write
    BY <1>1, <1>11 DEF TreeShape
  <2>3. mem' = mem
    BY <1>2, <2>2 DEF Commit
  <2>4. tree'.size = tree.size
    BY <1>1, <1>2, <2>2 DEF Hw!Tree!Tick, Hw!Tree!Load, Hw!Tree!Idle, Hw!Tree!SetRdAddr,
       Hw!Tree!ReadWait, Hw!Tree!CheckEnd, Hw!Tree!SetWrAddr, Hw!Tree!WriteWaitExtra,
       Hw!Tree!WriteWait, Hw!Tree!Increment, Hw!Tree!WrLen, Hw!Tree!WrLenWait,
       Hw!Tree!WrLenLast, Hw!Tree!Stall, TreeShape, TreeRegs
  <2> QED
    BY <1>8, <2>1, <2>3, <2>4 DEF TreeOut
<1> QED
  BY <1>3, <1>4, <1>9, <1>10, <1>11

-----------------------------------------------------------------------------
(* The text is encoded: what a clock of TEXT_WAIT does *)

\* Serving the text: the tree's part of the file is written.
Encoding ==
    /\ Serving
    /\ enc.state = "TEXT_WAIT" /\ TextWork
    /\ tree.size = Len(J.tree) /\ TreeOut

\* A clock of the text handler and its two entities, which see the memory's
\* answer when they are selected.
TextEdge(wait) ==
    /\ \E w \in BOOLEAN, d \in Byte :
          /\ Hw!Text!EncodeText(FALSE, 0, TextPlace(J), Dst, tree.size, enc.startText, w, d)
          /\ text.mux = "TEXT_HANDLER" => w = wait /\ d = Fetch(mem, text.addr)
    /\ \E w \in BOOLEAN, d \in Byte :
          /\ Hw!Text!CR!Tick(text.startCR, text.codeAddr, w, d)
          /\ text.mux = "CODE_RD" => w = wait /\ d = Fetch(mem, cr.addr)
    /\ \E w \in BOOLEAN :
          /\ Hw!Text!CW!Tick(text.writeCW, text.dstCW, text.startCW, text.wrCode, w)
          /\ text.mux = "CODE_WR" => w = wait
    /\ mem' = Commit(mem, Hw!Text!Bus.write, wait, Hw!Text!Bus.addr, Hw!Text!Bus.data)
    /\ SameRequest /\ TextPart'

\* A clock edge while the text handler has the bus.
LEMMA TextEdgeParts ==
    ASSUME Serving, MemSize \in Nat, enc.state = "TEXT_WAIT", SameRequest, TextPart',
           NEW slv, NEW wait \in BOOLEAN, NEW latch \in Latches, FpgaEdge(slv, wait, latch)
    PROVE  TextEdge(wait)
<1>1. enc.mux = "TXT" /\ enc.writeText = FALSE
  BY DEF Serving, EncPart, EncShape
<1>2. PICK v \in BOOLEAN, b \in Byte :
         /\ Hw!Text!Tick(enc.writeText, 0, TextPlace(J), Dst, tree.size,
                         enc.startText, [wait |-> v, data |-> b], latch)
         /\ enc.mux = "TXT" => v = wait /\ b = Fetch(mem, Hw!Text!Bus.addr)
  BY EdgeParts
<1>3. mem' = Commit(mem, Hw!Text!Bus.write, wait, Hw!Text!Bus.addr, Hw!Text!Bus.data)
  <2>1. mem' = Commit(mem, Hw!Bus.write, wait, Hw!Bus.addr, Hw!Bus.data)
    BY EdgeParts
  <2> QED
    BY <1>1, <2>1, BusOfMux
<1> DEFINE answer == [wait |-> v, data |-> b]
           own == Hw!Text!Seen("TEXT_HANDLER", answer, latch)
           crd == Hw!Text!Seen("CODE_RD", answer, latch)
           cwr == Hw!Text!Seen("CODE_WR", answer, latch)
<1>4. /\ Hw!Text!EncodeText(FALSE, 0, TextPlace(J), Dst, tree.size, enc.startText, own.wait, own.data)
      /\ Hw!Text!CR!Tick(text.startCR, text.codeAddr, crd.wait, crd.data)
      /\ Hw!Text!CW!Tick(text.writeCW, text.dstCW, text.startCW, text.wrCode, cwr.wait)
  BY <1>1, <1>2 DEF Hw!Text!Tick
<1>5. answer \in [wait : BOOLEAN, data : Byte] /\ answer.wait = v /\ answer.data = b
  OBVIOUS
<1>6. latch \in [wait : BOOLEAN, data : Byte]
  BY BoundsAssumption
<1> HIDE DEF answer
<1>7. \A m : /\ Hw!Text!Seen(m, answer, latch) \in [wait : BOOLEAN, data : Byte]
             /\ text.mux = m => Hw!Text!Seen(m, answer, latch) = answer
  BY <1>5, <1>6 DEF Hw!Text!Seen
<1>8. /\ own \in [wait : BOOLEAN, data : Byte] /\ (text.mux = "TEXT_HANDLER" => own = answer)
      /\ crd \in [wait : BOOLEAN, data : Byte] /\ (text.mux = "CODE_RD" => crd = answer)
      /\ cwr \in [wait : BOOLEAN, data : Byte] /\ (text.mux = "CODE_WR" => cwr = answer)
  BY <1>7
<1> HIDE DEF own, crd, cwr
<1>9. /\ own.wait \in BOOLEAN /\ own.data \in Byte /\ crd.wait \in BOOLEAN
      /\ crd.data \in Byte /\ cwr.wait \in BOOLEAN
  BY <1>8
<1>10. /\ text.mux = "TEXT_HANDLER" => Hw!Text!Bus.addr = text.addr
       /\ text.mux = "CODE_RD" => Hw!Text!Bus.addr = cr.addr
  BY BusOfTextMux
<1>11. v = wait /\ b = Fetch(mem, Hw!Text!Bus.addr)
  BY <1>1, <1>2
<1>12. /\ text.mux = "TEXT_HANDLER" => own.wait = wait /\ own.data = Fetch(mem, text.addr)
       /\ text.mux = "CODE_RD" => crd.wait = wait /\ crd.data = Fetch(mem, cr.addr)
       /\ text.mux = "CODE_WR" => cwr.wait = wait
  BY <1>5, <1>8, <1>10, <1>11, Zenon
<1> QED
  BY <1>3, <1>4, <1>9, <1>12, Zenon DEF TextEdge

\* What the text handler does in each state, and one lemma for each of them.
LEMMA TextActions ==
    ASSUME NEW wait \in BOOLEAN, TextShape, TextEdge(wait)
    PROVE  /\ text.state = "IDLE" /\ enc.startText => Hw!Text!Begin(enc.startText)
           /\ text.state = "IDLE" /\ ~enc.startText => Hw!Text!Rest(enc.startText)
           /\ text.state = "SET_RD_ADDR" => Hw!Text!SetRdAddr
           /\ text.state = "READ_WAIT" /\ ~wait => Hw!Text!ReadWait(wait, Fetch(mem, text.addr))
           /\ text.state = "READ_WAIT" /\ wait => Hw!Text!Stall(wait)
           /\ text.state = "CHECK_END" => Hw!Text!CheckEnd
           /\ text.state = "READ_CODE" => Hw!Text!ReadCode
           /\ text.state = "READ_CODE_START" => Hw!Text!ReadCodeStart
           /\ text.state = "READ_CODE_WAIT" => Hw!Text!ReadCodeWait
           /\ text.state = "WRITE_CODE" => Hw!Text!WriteCode
           /\ text.state = "WRITE_CODE_WAIT" => Hw!Text!WriteCodeWait
           /\ text.state = "ADD_PADDING" => Hw!Text!AddPadding
           /\ text.state = "WAIT_PADDING" => Hw!Text!WaitPadding
           /\ text.state = "WR_LEN" => Hw!Text!WrLen
           /\ text.state = "WR_LEN_WAIT" /\ ~wait => Hw!Text!WrLenWait(wait)
           /\ text.state = "WR_LEN_WAIT" /\ wait => Hw!Text!Stall(wait)
<1>1. PICK w \in BOOLEAN, d \in Byte :
         /\ Hw!Text!EncodeText(FALSE, 0, TextPlace(J), Dst, tree.size, enc.startText, w, d)
         /\ text.mux = "TEXT_HANDLER" => w = wait /\ d = Fetch(mem, text.addr)
  BY DEF TextEdge
<1>2. text.state \in {"READ_WAIT", "WR_LEN_WAIT"} => w = wait /\ d = Fetch(mem, text.addr)
  BY <1>1 DEF TextShape
<1>3. \/ Hw!Text!Begin(enc.startText)
      \/ Hw!Text!Rest(enc.startText)
      \/ Hw!Text!SetRdAddr
      \/ Hw!Text!ReadWait(w, d)
      \/ Hw!Text!CheckEnd
      \/ Hw!Text!ReadCode
      \/ Hw!Text!ReadCodeStart
      \/ Hw!Text!ReadCodeWait
      \/ Hw!Text!WriteCode
      \/ Hw!Text!WriteCodeWait
      \/ Hw!Text!AddPadding
      \/ Hw!Text!WaitPadding
      \/ Hw!Text!WrLen
      \/ Hw!Text!WrLenWait(w)
      \/ Hw!Text!Stall(w)
  BY <1>1 DEF Hw!Text!EncodeText, Hw!Text!Load
<1>4. /\ Hw!Text!Begin(enc.startText) => text.state = "IDLE" /\ enc.startText
      /\ Hw!Text!Rest(enc.startText) => text.state = "IDLE" /\ ~enc.startText
      /\ Hw!Text!SetRdAddr => text.state = "SET_RD_ADDR"
      /\ Hw!Text!ReadWait(w, d) => text.state = "READ_WAIT" /\ ~w
      /\ Hw!Text!CheckEnd => text.state = "CHECK_END"
      /\ Hw!Text!ReadCode => text.state = "READ_CODE"
      /\ Hw!Text!ReadCodeStart => text.state = "READ_CODE_START"
      /\ Hw!Text!ReadCodeWait => text.state = "READ_CODE_WAIT"
      /\ Hw!Text!WriteCode => text.state = "WRITE_CODE"
      /\ Hw!Text!WriteCodeWait => text.state = "WRITE_CODE_WAIT"
      /\ Hw!Text!AddPadding => text.state = "ADD_PADDING"
      /\ Hw!Text!WaitPadding => text.state = "WAIT_PADDING"
      /\ Hw!Text!WrLen => text.state = "WR_LEN"
      /\ Hw!Text!WrLenWait(w) => text.state = "WR_LEN_WAIT" /\ ~w
      /\ Hw!Text!Stall(w) => text.state \in {"READ_WAIT", "WR_LEN_WAIT"} /\ w
  BY DEF Hw!Text!Begin, Hw!Text!Rest, Hw!Text!SetRdAddr, Hw!Text!ReadWait,
     Hw!Text!CheckEnd, Hw!Text!ReadCode, Hw!Text!ReadCodeStart,
     Hw!Text!ReadCodeWait, Hw!Text!WriteCode, Hw!Text!WriteCodeWait,
     Hw!Text!AddPadding, Hw!Text!WaitPadding, Hw!Text!WrLen, Hw!Text!WrLenWait,
     Hw!Text!Stall
<1> QED
  BY <1>2, <1>3, <1>4, SMT

\* IDLE with start: the address of the body goes to the code writer.
LEMMA AtBegin ==
    ASSUME NEW wait \in BOOLEAN, TextShape, TextEdge(wait), text.state = "IDLE", enc.startText
    PROVE  /\ text'.state = "SET_RD_ADDR" /\ text'.off = text.off
           /\ text'.char = text.char /\ text'.k = text.k
           /\ text'.codeAddr = text.codeAddr /\ text'.startCR = text.startCR
           /\ text'.writeCW /\ text'.startCW = text.startCW
           /\ text'.dstCW = text.dst + 12 + text.hdr /\ text'.wrCode = text.wrCode
           /\ text'.done = text.done /\ text'.addr = text.addr
           /\ text'.data = text.data /\ text'.codes = text.codes
           /\ text'.src = text.src /\ text'.dst = text.dst /\ text'.hdr = text.hdr
<1>1. Hw!Text!Begin(enc.startText)
  BY TextActions
<1> QED
  BY SMT, <1>1 DEF TextShape, TextRegs, Hw!Text!Begin

\* IDLE without start: the answer done lasts one clock.
LEMMA AtRestText ==
    ASSUME NEW wait \in BOOLEAN, TextShape, TextEdge(wait), text.state = "IDLE", ~enc.startText
    PROVE  /\ text'.state = "IDLE" /\ text'.off = text.off /\ text'.char = text.char
           /\ text'.k = text.k /\ text'.codeAddr = text.codeAddr /\ ~text'.startCR
           /\ ~text'.writeCW /\ ~text'.startCW /\ text'.dstCW = text.dstCW
           /\ text'.wrCode = text.wrCode /\ ~text'.done /\ text'.addr = text.addr
           /\ text'.data = text.data /\ text'.codes = text.codes
           /\ text'.src = text.src /\ text'.dst = text.dst /\ text'.hdr = text.hdr
<1>1. Hw!Text!Rest(enc.startText)
  BY TextActions
<1> QED
  BY SMT, <1>1 DEF TextShape, TextRegs, Hw!Text!Rest

\* SET_RD_ADDR: the next letter is asked for.
LEMMA AtSetRdAddr ==
    ASSUME NEW wait \in BOOLEAN, TextShape, TextEdge(wait), text.state = "SET_RD_ADDR"
    PROVE  /\ text'.state = "READ_WAIT" /\ text'.off = text.off
           /\ text'.char = text.char /\ text'.k = text.k
           /\ text'.codeAddr = text.codeAddr /\ text'.startCR = text.startCR
           /\ ~text'.writeCW /\ text'.startCW = text.startCW
           /\ text'.dstCW = text.dstCW /\ text'.wrCode = text.wrCode
           /\ text'.done = text.done /\ text'.addr = text.src + text.off
           /\ text'.data = text.data /\ text'.codes = text.codes
           /\ text'.src = text.src /\ text'.dst = text.dst /\ text'.hdr = text.hdr
<1>1. Hw!Text!SetRdAddr
  BY TextActions
<1> QED
  BY SMT, <1>1 DEF TextShape, TextRegs, Hw!Text!SetRdAddr

\* READ_WAIT: the letter arrives where waitrequest is low.
LEMMA AtReadWait ==
    ASSUME NEW wait \in BOOLEAN, TextShape, TextEdge(wait), text.state = "READ_WAIT"
    PROVE  /\ ~wait =>
                 /\ text'.state = "CHECK_END" /\ text'.off = text.off
                 /\ text'.char = Fetch(mem, text.addr) /\ text'.k = text.k
                 /\ text'.codeAddr = text.codeAddr /\ text'.startCR = text.startCR
                 /\ text'.writeCW = text.writeCW /\ text'.startCW = text.startCW
                 /\ text'.dstCW = text.dstCW /\ text'.wrCode = text.wrCode
                 /\ text'.done = text.done /\ text'.addr = text.addr
                 /\ text'.data = text.data /\ text'.codes = text.codes
                 /\ text'.src = text.src /\ text'.dst = text.dst /\ text'.hdr = text.hdr
           /\ wait =>
                 /\ text'.state = "READ_WAIT" /\ text'.off = text.off
                 /\ text'.char = text.char /\ text'.k = text.k
                 /\ text'.codeAddr = text.codeAddr /\ text'.startCR = text.startCR
                 /\ text'.writeCW = text.writeCW /\ text'.startCW = text.startCW
                 /\ text'.dstCW = text.dstCW /\ text'.wrCode = text.wrCode
                 /\ text'.done = text.done /\ text'.addr = text.addr
                 /\ text'.data = text.data /\ text'.codes = text.codes
                 /\ text'.src = text.src /\ text'.dst = text.dst /\ text'.hdr = text.hdr
<1>1. CASE ~wait
  <2>1. Hw!Text!ReadWait(wait, Fetch(mem, text.addr))
    BY <1>1, TextActions
  <2> QED
    BY SMT, <1>1, <2>1 DEF TextShape, TextRegs, Hw!Text!ReadWait
<1>2. CASE wait
  <2>1. Hw!Text!Stall(wait)
    BY <1>2, TextActions
  <2> QED
    BY SMT, <1>2, <2>1 DEF TextShape, TextRegs, Hw!Text!Stall
<1> QED
  BY <1>1, <1>2

\* CHECK_END: a NUL ends the text.
LEMMA AtCheckEnd ==
    ASSUME NEW wait \in BOOLEAN, TextShape, TextEdge(wait), text.state = "CHECK_END"
    PROVE  /\ text.char = 0 =>
                 /\ text'.state = "ADD_PADDING" /\ text'.off = text.off
                 /\ text'.char = text.char /\ text'.k = text.k
                 /\ text'.codeAddr = text.codeAddr /\ text'.startCR = text.startCR
                 /\ text'.writeCW = text.writeCW /\ text'.startCW = text.startCW
                 /\ text'.dstCW = text.dstCW /\ text'.wrCode = text.wrCode
                 /\ text'.done = text.done /\ text'.addr = text.addr
                 /\ text'.data = text.data /\ text'.codes = text.codes
                 /\ text'.src = text.src /\ text'.dst = text.dst /\ text'.hdr = text.hdr
           /\ text.char # 0 =>
                 /\ text'.state = "READ_CODE" /\ text'.off = text.off + 1
                 /\ text'.char = text.char /\ text'.k = text.k
                 /\ text'.codeAddr = text.codeAddr /\ text'.startCR = text.startCR
                 /\ text'.writeCW = text.writeCW /\ text'.startCW = text.startCW
                 /\ text'.dstCW = text.dstCW /\ text'.wrCode = text.wrCode
                 /\ text'.done = text.done /\ text'.addr = text.addr
                 /\ text'.data = text.data /\ text'.codes = text.codes
                 /\ text'.src = text.src /\ text'.dst = text.dst /\ text'.hdr = text.hdr
<1>1. Hw!Text!CheckEnd
  BY TextActions
<1> QED
  BY SMT, <1>1 DEF TextShape, TextRegs, Hw!Text!CheckEnd

\* READ_CODE: the letter's entry in the code table.
LEMMA AtReadCode ==
    ASSUME NEW wait \in BOOLEAN, TextShape, TextEdge(wait), text.state = "READ_CODE"
    PROVE  /\ text'.state = "READ_CODE_START" /\ text'.off = text.off
           /\ text'.char = text.char /\ text'.k = text.k
           /\ text'.codeAddr = text.codes + Hw!Text!Index(text.char) * 4
           /\ text'.startCR = text.startCR /\ text'.writeCW = text.writeCW
           /\ text'.startCW = text.startCW /\ text'.dstCW = text.dstCW
           /\ text'.wrCode = text.wrCode /\ text'.done = text.done
           /\ text'.addr = text.addr /\ text'.data = text.data
           /\ text'.codes = text.codes /\ text'.src = text.src
           /\ text'.dst = text.dst /\ text'.hdr = text.hdr
<1>1. Hw!Text!ReadCode
  BY TextActions
<1> QED
  BY SMT, <1>1 DEF TextShape, TextRegs, Hw!Text!ReadCode

\* READ_CODE_START: the code reader is started.
LEMMA AtReadCodeStart ==
    ASSUME NEW wait \in BOOLEAN, TextShape, TextEdge(wait), text.state = "READ_CODE_START"
    PROVE  /\ text'.state = "READ_CODE_WAIT" /\ text'.off = text.off
           /\ text'.char = text.char /\ text'.k = text.k
           /\ text'.codeAddr = text.codeAddr /\ text'.startCR
           /\ text'.writeCW = text.writeCW /\ text'.startCW = text.startCW
           /\ text'.dstCW = text.dstCW /\ text'.wrCode = text.wrCode
           /\ text'.done = text.done /\ text'.addr = text.addr
           /\ text'.data = text.data /\ text'.codes = text.codes
           /\ text'.src = text.src /\ text'.dst = text.dst /\ text'.hdr = text.hdr
<1>1. Hw!Text!ReadCodeStart
  BY TextActions
<1> QED
  BY SMT, <1>1 DEF TextShape, TextRegs, Hw!Text!ReadCodeStart

\* READ_CODE_WAIT: the code reader's answer is taken.
LEMMA AtReadCodeWait ==
    ASSUME NEW wait \in BOOLEAN, TextShape, TextEdge(wait), text.state = "READ_CODE_WAIT"
    PROVE  /\ cr.done =>
                 /\ text'.state = "WRITE_CODE" /\ text'.off = text.off
                 /\ text'.char = text.char /\ text'.k = text.k
                 /\ text'.codeAddr = text.codeAddr /\ ~text'.startCR
                 /\ text'.writeCW = text.writeCW /\ text'.startCW = text.startCW
                 /\ text'.dstCW = text.dstCW /\ text'.wrCode = cr.code
                 /\ text'.done = text.done /\ text'.addr = text.addr
                 /\ text'.data = text.data /\ text'.codes = text.codes
                 /\ text'.src = text.src /\ text'.dst = text.dst /\ text'.hdr = text.hdr
           /\ ~cr.done =>
                 /\ text'.state = "READ_CODE_WAIT" /\ text'.off = text.off
                 /\ text'.char = text.char /\ text'.k = text.k
                 /\ text'.codeAddr = text.codeAddr /\ ~text'.startCR
                 /\ text'.writeCW = text.writeCW /\ text'.startCW = text.startCW
                 /\ text'.dstCW = text.dstCW /\ text'.wrCode = text.wrCode
                 /\ text'.done = text.done /\ text'.addr = text.addr
                 /\ text'.data = text.data /\ text'.codes = text.codes
                 /\ text'.src = text.src /\ text'.dst = text.dst /\ text'.hdr = text.hdr
<1>1. Hw!Text!ReadCodeWait
  BY TextActions
<1> QED
  BY SMT, <1>1 DEF TextShape, TextRegs, Hw!Text!ReadCodeWait

\* WRITE_CODE: the code writer is started.
LEMMA AtWriteCode ==
    ASSUME NEW wait \in BOOLEAN, TextShape, TextEdge(wait), text.state = "WRITE_CODE"
    PROVE  /\ text'.state = "WRITE_CODE_WAIT" /\ text'.off = text.off
           /\ text'.char = text.char /\ text'.k = text.k
           /\ text'.codeAddr = text.codeAddr /\ text'.startCR = text.startCR
           /\ text'.writeCW = text.writeCW /\ text'.startCW
           /\ text'.dstCW = text.dstCW /\ text'.wrCode = text.wrCode
           /\ text'.done = text.done /\ text'.addr = text.addr
           /\ text'.data = text.data /\ text'.codes = text.codes
           /\ text'.src = text.src /\ text'.dst = text.dst /\ text'.hdr = text.hdr
<1>1. Hw!Text!WriteCode
  BY TextActions
<1> QED
  BY SMT, <1>1 DEF TextShape, TextRegs, Hw!Text!WriteCode

\* WRITE_CODE_WAIT: the code writer has taken the code.
LEMMA AtWriteCodeWait ==
    ASSUME NEW wait \in BOOLEAN, TextShape, TextEdge(wait), text.state = "WRITE_CODE_WAIT"
    PROVE  /\ cw.done =>
                 /\ text'.state = "SET_RD_ADDR" /\ text'.off = text.off
                 /\ text'.char = text.char /\ text'.k = text.k
                 /\ text'.codeAddr = text.codeAddr /\ text'.startCR = text.startCR
                 /\ text'.writeCW = text.writeCW /\ ~text'.startCW
                 /\ text'.dstCW = text.dstCW /\ text'.wrCode = text.wrCode
                 /\ text'.done = text.done /\ text'.addr = text.addr
                 /\ text'.data = text.data /\ text'.codes = text.codes
                 /\ text'.src = text.src /\ text'.dst = text.dst /\ text'.hdr = text.hdr
           /\ ~cw.done =>
                 /\ text'.state = "WRITE_CODE_WAIT" /\ text'.off = text.off
                 /\ text'.char = text.char /\ text'.k = text.k
                 /\ text'.codeAddr = text.codeAddr /\ text'.startCR = text.startCR
                 /\ text'.writeCW = text.writeCW /\ ~text'.startCW
                 /\ text'.dstCW = text.dstCW /\ text'.wrCode = text.wrCode
                 /\ text'.done = text.done /\ text'.addr = text.addr
                 /\ text'.data = text.data /\ text'.codes = text.codes
                 /\ text'.src = text.src /\ text'.dst = text.dst /\ text'.hdr = text.hdr
<1>1. Hw!Text!WriteCodeWait
  BY TextActions
<1> QED
  BY SMT, <1>1 DEF TextShape, TextRegs, Hw!Text!WriteCodeWait

\* ADD_PADDING: eight zero bits are handed over.
LEMMA AtAddPadding ==
    ASSUME NEW wait \in BOOLEAN, TextShape, TextEdge(wait), text.state = "ADD_PADDING"
    PROVE  /\ text'.state = "WAIT_PADDING" /\ text'.off = text.off
           /\ text'.char = text.char /\ text'.k = text.k
           /\ text'.codeAddr = text.codeAddr /\ text'.startCR = text.startCR
           /\ text'.writeCW = text.writeCW /\ text'.startCW
           /\ text'.dstCW = text.dstCW /\ text'.wrCode = Hw!Text!Padding
           /\ text'.done = text.done /\ text'.addr = text.addr
           /\ text'.data = text.data /\ text'.codes = text.codes
           /\ text'.src = text.src /\ text'.dst = text.dst /\ text'.hdr = text.hdr
<1>1. Hw!Text!AddPadding
  BY TextActions
<1> QED
  BY SMT, <1>1 DEF TextShape, TextRegs, Hw!Text!AddPadding

\* WAIT_PADDING: the code writer has taken the padding.
LEMMA AtWaitPadding ==
    ASSUME NEW wait \in BOOLEAN, TextShape, TextEdge(wait), text.state = "WAIT_PADDING"
    PROVE  /\ cw.done =>
                 /\ text'.state = "WR_LEN" /\ text'.off = text.off
                 /\ text'.char = text.char /\ text'.k = 0
                 /\ text'.codeAddr = text.codeAddr /\ text'.startCR = text.startCR
                 /\ text'.writeCW = text.writeCW /\ ~text'.startCW
                 /\ text'.dstCW = text.dstCW /\ text'.wrCode = text.wrCode
                 /\ text'.done = text.done /\ text'.addr = text.addr
                 /\ text'.data = text.data /\ text'.codes = text.codes
                 /\ text'.src = text.src /\ text'.dst = text.dst /\ text'.hdr = text.hdr
           /\ ~cw.done =>
                 /\ text'.state = "WAIT_PADDING" /\ text'.off = text.off
                 /\ text'.char = text.char /\ text'.k = text.k
                 /\ text'.codeAddr = text.codeAddr /\ text'.startCR = text.startCR
                 /\ text'.writeCW = text.writeCW /\ ~text'.startCW
                 /\ text'.dstCW = text.dstCW /\ text'.wrCode = text.wrCode
                 /\ text'.done = text.done /\ text'.addr = text.addr
                 /\ text'.data = text.data /\ text'.codes = text.codes
                 /\ text'.src = text.src /\ text'.dst = text.dst /\ text'.hdr = text.hdr
<1>1. Hw!Text!WaitPadding
  BY TextActions
<1> QED
  BY SMT, <1>1 DEF TextShape, TextRegs, Hw!Text!WaitPadding

\* WR_LEN: a byte of the text's length is put on the bus.
LEMMA AtWrLen ==
    ASSUME NEW wait \in BOOLEAN, TextShape, TextEdge(wait), text.state = "WR_LEN"
    PROVE  /\ text'.state = "WR_LEN_WAIT" /\ text'.off = text.off
           /\ text'.char = text.char /\ text'.k = text.k
           /\ text'.codeAddr = text.codeAddr /\ text'.startCR = text.startCR
           /\ text'.writeCW = text.writeCW /\ text'.startCW = text.startCW
           /\ text'.dstCW = text.dstCW /\ text'.wrCode = text.wrCode
           /\ text'.done = text.done /\ text'.addr = text.dst + 8 + text.k
           /\ text'.data = Hw!Text!WordByte(text.off, text.k)
           /\ text'.codes = text.codes /\ text'.src = text.src
           /\ text'.dst = text.dst /\ text'.hdr = text.hdr
<1>1. Hw!Text!WrLen
  BY TextActions
<1> QED
  BY SMT, <1>1 DEF TextShape, TextRegs, Hw!Text!WrLen

\* WR_LEN_WAIT: the byte is stored where waitrequest is low.
LEMMA AtWrLenWait ==
    ASSUME NEW wait \in BOOLEAN, TextShape, TextEdge(wait), text.state = "WR_LEN_WAIT"
    PROVE  /\ wait =>
                 /\ text'.state = "WR_LEN_WAIT" /\ text'.off = text.off
                 /\ text'.char = text.char /\ text'.k = text.k
                 /\ text'.codeAddr = text.codeAddr /\ text'.startCR = text.startCR
                 /\ text'.writeCW = text.writeCW /\ text'.startCW = text.startCW
                 /\ text'.dstCW = text.dstCW /\ text'.wrCode = text.wrCode
                 /\ text'.done = text.done /\ text'.addr = text.addr
                 /\ text'.data = text.data /\ text'.codes = text.codes
                 /\ text'.src = text.src /\ text'.dst = text.dst /\ text'.hdr = text.hdr
           /\ ~wait /\ text.k < 3 =>
                 /\ text'.state = "WR_LEN" /\ text'.off = text.off
                 /\ text'.char = text.char /\ text'.k = text.k + 1
                 /\ text'.codeAddr = text.codeAddr /\ text'.startCR = text.startCR
                 /\ text'.writeCW = text.writeCW /\ text'.startCW = text.startCW
                 /\ text'.dstCW = text.dstCW /\ text'.wrCode = text.wrCode
                 /\ text'.done = text.done /\ text'.addr = text.addr
                 /\ text'.data = text.data /\ text'.codes = text.codes
                 /\ text'.src = text.src /\ text'.dst = text.dst /\ text'.hdr = text.hdr
           /\ ~wait /\ ~(text.k < 3) =>
                 /\ text'.state = "IDLE" /\ text'.off = text.off /\ text'.char = text.char
                 /\ text'.k = text.k /\ text'.codeAddr = text.codeAddr
                 /\ text'.startCR = text.startCR /\ text'.writeCW = text.writeCW
                 /\ text'.startCW = text.startCW /\ text'.dstCW = text.dstCW
                 /\ text'.wrCode = text.wrCode /\ text'.done /\ text'.addr = text.addr
                 /\ text'.data = text.data /\ text'.codes = text.codes
                 /\ text'.src = text.src /\ text'.dst = text.dst /\ text'.hdr = text.hdr
<1>1. CASE ~wait
  <2>1. Hw!Text!WrLenWait(wait)
    BY <1>1, TextActions
  <2> QED
    BY SMT, <1>1, <2>1 DEF TextShape, TextRegs, Hw!Text!WrLenWait
<1>2. CASE wait
  <2>1. Hw!Text!Stall(wait)
    BY <1>2, TextActions
  <2> QED
    BY SMT, <1>2, <2>1 DEF TextShape, TextRegs, Hw!Text!Stall
<1> QED
  BY <1>1, <1>2

\* What the code writer has been fed, state by state.
LEMMA FedCases ==
    /\ text.state \in {"READ_CODE", "READ_CODE_START", "READ_CODE_WAIT", "WRITE_CODE"} =>
          FedNow = Fed(J, X, text.off - 1)
    /\ text.state = "WRITE_CODE_WAIT" /\ text.startCW => FedNow = Fed(J, X, text.off - 1)
    /\ text.state = "WRITE_CODE_WAIT" /\ ~text.startCW => FedNow = Fed(J, X, text.off)
    /\ text.state = "WAIT_PADDING" /\ text.startCW => FedNow = Fed(J, X, text.off)
    /\ text.state = "WAIT_PADDING" /\ ~text.startCW => FedNow = Fed(J, X, N) \o EightZeros
    /\ text.state \in {"IDLE", "SET_RD_ADDR", "READ_WAIT", "CHECK_END", "ADD_PADDING",
                       "WR_LEN", "WR_LEN_WAIT"} => FedNow = Fed(J, X, text.off)
  BY DEF FedNow

\* It is never more than the padded text.
LEMMA FedFits ==
    ASSUME Encoding, MemSize \in Nat
    PROVE  /\ FedNow \in Bits /\ Len(FedNow) \in Nat
           /\ Len(FedNow) <= Len(Fed(J, X, N)) + 8
           /\ text.state # "WAIT_PADDING" \/ text.startCW => Len(FedNow) <= Len(Fed(J, X, N))
           /\ Len(Fed(J, X, N)) \in Nat
           /\ Len(Body(J, X)) = (Len(Fed(J, X, N)) + 8) \div 8
           /\ Len(Fed(J, X, N)) + 8 <= 8 * MemSize
<1>1. /\ Fine(J, X) /\ text.off \in 0 .. N /\ N \in Nat
      /\ text.state \in {"READ_CODE", "READ_CODE_START", "READ_CODE_WAIT",
                         "WRITE_CODE", "WRITE_CODE_WAIT"} => text.off # 0
      /\ text.state \in Hw!Text!States
  BY FineTypes DEF Encoding, Serving, TextWork, Letter, N, TextPart, TextShape
<1> DEFINE Ok(s) == s \in Bits /\ Len(s) \in Nat /\ Len(s) <= Len(Fed(J, X, N))
           l == Len(Fed(J, X, N))
           b == Len(Body(J, X))
<1>2. \A n \in 0 .. N : Ok(Fed(J, X, n))
  BY <1>1, FedSteps DEF N
<1>3. Ok(Fed(J, X, text.off)) /\ (text.off # 0 => Ok(Fed(J, X, text.off - 1)))
  <2>1. text.off # 0 => text.off - 1 \in 0 .. N
    BY <1>1
  <2> QED
    BY <1>1, <1>2, <2>1
<1>4. l \in Nat /\ Fed(J, X, N) \in Bits
  BY <1>1, <1>2
<1>5. /\ Fed(J, X, N) \o EightZeros \in Bits
      /\ Len(Fed(J, X, N) \o EightZeros) = l + 8
      /\ b = (l + 8) \div 8
  <2>1. /\ Len(Fed(J, X, Len(X)) \o EightZeros) = Len(Fed(J, X, Len(X))) + 8
        /\ Fed(J, X, Len(X)) \o EightZeros \in Bits
        /\ Len(Body(J, X)) = Len(Fed(J, X, Len(X)) \o EightZeros) \div 8
    BY <1>1, BodyBytes
  <2> QED
    BY Zenon, <2>1 DEF N
<1>6. b \in Nat /\ b + 12 <= MemSize
  <2>1. /\ Dst \in Nat /\ Len(J.tree) \in Nat /\ b \in Nat
        /\ Len(File(J, X)) \in Nat
        /\ Len(File(J, X)) = 12 + Len(J.tree) + b
        /\ Dst + Len(File(J, X)) <= MemSize
    BY Zenon, <1>1, FileBounds
  <2> DEFINE d == Dst
             t == Len(J.tree)
             f == Len(File(J, X))
  <2>2. d \in Nat /\ t \in Nat /\ b \in Nat /\ f = 12 + t + b /\ d + f <= MemSize
    BY Zenon, <2>1
  <2> HIDE DEF d, t, f, b
  <2> QED
    BY <2>2
<1>7. l + 8 <= 8 * MemSize
  <2> HIDE DEF l, b
  <2>1. l + 8 \in Nat
    BY <1>4
  <2>2. l + 8 < 8 * ((l + 8) \div 8) + 8
    BY <2>1, Division
  <2> QED
    BY <1>4, <1>5, <1>6, <2>2
<1>8. \/ Ok(FedNow)
      \/ /\ FedNow = Fed(J, X, N) \o EightZeros
         /\ text.state = "WAIT_PADDING" /\ ~text.startCW
  <2> HIDE DEF Ok
  <2>1. \/ text.state \in {"READ_CODE", "READ_CODE_START", "READ_CODE_WAIT", "WRITE_CODE"}
        \/ text.state = "WRITE_CODE_WAIT" /\ text.startCW
        \/ text.state = "WRITE_CODE_WAIT" /\ ~text.startCW
        \/ text.state = "WAIT_PADDING" /\ text.startCW
        \/ text.state = "WAIT_PADDING" /\ ~text.startCW
        \/ text.state \in {"IDLE", "SET_RD_ADDR", "READ_WAIT", "CHECK_END", "ADD_PADDING",
                           "WR_LEN", "WR_LEN_WAIT"}
    BY <1>1 DEF Hw!Text!States
  <2> QED
    BY <1>1, <1>3, <2>1, FedCases
<1>9. CASE Ok(FedNow)
  <2>1. Len(FedNow) <= l + 8
    <3> HIDE DEF l
    <3>1. Len(FedNow) \in Nat /\ Len(FedNow) <= l
      BY <1>9 DEF l
    <3> QED
      BY <1>4, <3>1
  <2> QED
    BY <1>4, <1>5, <1>7, <1>9, <2>1, Zenon
<1>10. CASE /\ FedNow = Fed(J, X, N) \o EightZeros
            /\ text.state = "WAIT_PADDING" /\ ~text.startCW
  <2>1. FedNow \in Bits /\ Len(FedNow) = l + 8
    BY Zenon, <1>5, <1>10
  <2>2. l + 8 \in Nat /\ l + 8 <= l + 8
    <3> HIDE DEF l
    <3> QED
      BY <1>4
  <2> QED
    BY <1>4, <1>5, <1>7, <1>10, <2>1, <2>2, Zenon
<1> QED
  BY <1>8, <1>9, <1>10

\* The code writer is written to and started by the text handler only, and
\* while it works its bench invariant holds.
LEMMA WriterWorks ==
    ASSUME Encoding, cw.state # "IDLE"
    PROVE  /\ text.state \in {"WRITE_CODE_WAIT", "WAIT_PADDING"}
           /\ ~text.startCW /\ ~text.writeCW /\ text.mux = "CODE_WR"
           /\ WB!Inv /\ cw.dst = BodyAt
<1>1. TextPart /\ TextWork
  BY DEF Encoding, Serving
<1>2. text.state \in {"WRITE_CODE_WAIT", "WAIT_PADDING"} /\ ~text.startCW /\ ~text.writeCW
  BY <1>1 DEF TextPart, WriterPart, CWResting
<1>3. text.mux = "CODE_WR"
  BY <1>1, <1>2 DEF TextPart, TextShape
<1> QED
  BY <1>1, <1>2, <1>3 DEF TextWork, Stream

\* Its bytes go to the end of the file.
LEMMA WriterWritesBody ==
    ASSUME Encoding, MemSize \in Nat, cw.write
    PROVE  /\ cw.addr = BodyAt + cw.off /\ cw.off \in Nat
           /\ cw.off < Len(Body(J, X))
<1>1. cw.state \in {"WRITE_CODE_EXTRA_1", "WRITE_CODE_WAIT"}
  BY DEF Encoding, Serving, TextPart, CWShape
<1>2. WB!Inv /\ cw.dst = BodyAt
  BY <1>1, WriterWorks
<1>3. WB!TypeOK /\ WB!PendingKept /\ WB!Request
  BY <1>2 DEF WB!Inv
<1>4. cw.addr = BodyAt + cw.off /\ Len(cw.wip) >= 8
  BY <1>2, <1>3 DEF WB!Request
<1>5. cw.off \in Nat /\ Len(cw.wip) \in Nat
  <2>1. cw.off \in Nat /\ cw.wip \in WB!Bits
    BY <1>3 DEF WB!TypeOK
  <2> QED
    BY <2>1, LenProperties DEF WB!Bits
<1>6. 8 * cw.off + Len(cw.wip) = Len(FedNow)
  <2>1. 8 * cw.off + Len(cw.wip) + WB!Pending = Len(FedNow)
    BY <1>3 DEF WB!PendingKept
  <2>2. WB!Pending = 0
    BY <1>1 DEF WB!Pending
  <2> QED
    BY <1>5, <2>1, <2>2
<1>7. /\ Len(FedNow) \in Nat /\ Len(FedNow) <= Len(Fed(J, X, N)) + 8
      /\ Len(Fed(J, X, N)) \in Nat
      /\ Len(Body(J, X)) = (Len(Fed(J, X, N)) + 8) \div 8
  BY FedFits
<1> DEFINE l == Len(Fed(J, X, N))
           b == Len(Body(J, X))
           f == Len(FedNow)
           w == Len(cw.wip)
<1>8. /\ f \in Nat /\ f <= l + 8 /\ l \in Nat /\ b = (l + 8) \div 8
      /\ 8 * cw.off + w = f /\ w >= 8 /\ w \in Nat /\ cw.off \in Nat
  BY Zenon, <1>4, <1>5, <1>6, <1>7
<1> HIDE DEF l, b, f, w
<1>9. l + 8 \in Nat
  BY <1>8
<1>10. l + 8 < 8 * ((l + 8) \div 8) + 8 /\ (l + 8) \div 8 \in Nat
  BY <1>9, Division
<1>11. cw.off < b
  BY <1>8, <1>10
<1> QED
  BY <1>4, <1>8, <1>11, Zenon DEF b

\* What the entity writes is the length of the text or its body.
LEMMA TextWritesFile ==
    ASSUME Encoding, MemSize \in Nat
    PROVE  /\ Hw!Text!Bus.write \in BOOLEAN /\ Hw!Text!Bus.data \in Byte
           /\ Hw!Text!Bus.write =>
                 \/ Hw!Text!Bus.addr \in Dst + 8 .. Dst + 11
                 \/ Hw!Text!Bus.addr \in BodyAt .. BodyAt + Len(Body(J, X)) - 1
<1>1. TextTyped /\ CRTyped /\ CWTyped /\ TextShape /\ TextWork /\ Fine(J, X)
  BY DEF Encoding, Serving, Typed, TextPart
<1>2. CASE text.mux = "TEXT_HANDLER"
  <2>1. /\ Hw!Text!Bus.write = text.write /\ Hw!Text!Bus.addr = text.addr
        /\ Hw!Text!Bus.data = text.data
    BY <1>2, BusOfTextMux
  <2>2. text.write => text.addr = Dst + 8 + text.k
    BY <1>1 DEF TextShape, TextWork, Stream
  <2>3. text.k \in 0 .. 3 /\ Dst \in Nat /\ text.write \in BOOLEAN /\ text.data \in Byte
    BY <1>1, FileBounds DEF TextShape, TextTyped
  <2>4. Dst + 8 + text.k \in Dst + 8 .. Dst + 11
    <3> HIDE DEF Dst
    <3> QED
      BY <2>3
  <2> QED
    BY <2>1, <2>2, <2>3, <2>4
<1>3. CASE text.mux = "CODE_WR"
  <2>1. /\ Hw!Text!Bus.write = cw.write /\ Hw!Text!Bus.addr = cw.addr
        /\ Hw!Text!Bus.data = cw.data
    BY <1>3, BusOfTextMux
  <2>2. cw.write \in BOOLEAN /\ cw.data \in Byte
    BY <1>1 DEF CWTyped
  <2>3. ASSUME cw.write PROVE cw.addr \in BodyAt .. BodyAt + Len(Body(J, X)) - 1
    <3>1. cw.addr = BodyAt + cw.off /\ cw.off \in Nat /\ cw.off < Len(Body(J, X))
      BY <2>3, WriterWritesBody
    <3>2. BodyAt \in Nat /\ Len(Body(J, X)) \in Nat
      BY <1>1, FileBounds
    <3> HIDE DEF BodyAt
    <3> QED
      BY <3>1, <3>2
  <2> QED
    BY <2>1, <2>2, <2>3
<1>4. CASE text.mux \in {"CODE_RD", "NONE"}
  <2>1. /\ ~Hw!Text!Bus.write
        /\ Hw!Text!Bus.write \in BOOLEAN /\ Hw!Text!Bus.data = 0
    BY <1>4 DEF Hw!Text!Bus
  <2> QED
    BY <2>1 DEF Byte
<1> QED
  BY <1>1, <1>2, <1>3, <1>4 DEF TextShape, Hw!Text!Muxes

\* So the inputs and the tree's part of the file stay.
LEMMA TextMemory ==
    ASSUME Encoding, MemSize \in Nat, NEW wait \in BOOLEAN, TextEdge(wait)
    PROVE  Inputs' /\ mem' \in Memory(MemSize) /\ TreeOut'
<1>1. /\ mem' = Commit(mem, Hw!Text!Bus.write, wait, Hw!Text!Bus.addr, Hw!Text!Bus.data)
      /\ SameRequest
  BY DEF TextEdge
<1> DEFINE write == Hw!Text!Bus.write
           a == Hw!Text!Bus.addr
           data == Hw!Text!Bus.data
<1>2. /\ write \in BOOLEAN /\ data \in Byte
      /\ write => a \in Dst + 8 .. Dst + 11 \/ a \in BodyAt .. BodyAt + Len(Body(J, X)) - 1
  BY TextWritesFile
<1> HIDE DEF write, a, data
<1>3. /\ Dst \in Nat /\ BodyAt \in Nat /\ Len(J.tree) \in Nat
      /\ Len(Body(J, X)) \in Nat /\ Len(File(J, X)) \in Nat
      /\ BodyAt = Dst + 12 + Len(J.tree)
      /\ Dst + Len(File(J, X)) = BodyAt + Len(Body(J, X))
      /\ Len(File(J, X)) = 12 + Len(J.tree) + Len(Body(J, X))
      /\ Dst + Len(File(J, X)) <= MemSize
  BY FileBounds DEF Encoding, Serving
<1>4. /\ write => a \in Dst .. Dst + Len(File(J, X)) - 1
      /\ write => a \in 0 .. MemSize - 1
      /\ \A k \in 0 .. 3 : Dst + 4 + k \in 0 .. MemSize - 1 /\ (write => Dst + 4 + k # a)
      /\ \A i \in 1 .. Len(J.tree) :
            Dst + 12 + i - 1 \in 0 .. MemSize - 1 /\ (write => Dst + 12 + i - 1 # a)
  <2> DEFINE d == Dst
             t == Len(J.tree)
             b == Len(Body(J, X))
             f == Len(File(J, X))
             p == BodyAt
  <2>1. /\ d \in Nat /\ p = d + 12 + t /\ t \in Nat /\ b \in Nat /\ f = 12 + t + b
        /\ d + f <= MemSize
        /\ write => a \in d + 8 .. d + 11 \/ a \in p .. p + b - 1
    BY Zenon, <1>2, <1>3
  <2> HIDE DEF d, t, b, f, p
  <2>2. /\ write => a \in d .. d + f - 1
        /\ write => a \in 0 .. MemSize - 1
        /\ \A k \in 0 .. 3 : d + 4 + k \in 0 .. MemSize - 1 /\ (write => d + 4 + k # a)
        /\ \A i \in 1 .. t : d + 12 + i - 1 \in 0 .. MemSize - 1 /\ (write => d + 12 + i - 1 # a)
    BY <2>1
  <2> QED
    BY Zenon, <2>2 DEF d, t, f
<1>5. Inputs' /\ mem' \in Memory(MemSize)
  <2>1. mem' = Commit(mem, write, wait, a, data)
    BY <1>1 DEF write, a, data
  <2>2. Serving
    BY DEF Encoding
  <2> QED
    BY <1>1, <1>2, <1>4, <2>1, <2>2, InputsServed
<1>6. \A x \in 0 .. MemSize - 1 : ~write \/ x # a => mem'[x] = mem[x]
  <2>1. mem' = Commit(mem, write, wait, a, data) /\ mem \in Memory(MemSize)
    BY <1>1 DEF write, a, data, Encoding, Serving, Typed
  <2>2. write => a \in 0 .. MemSize - 1
    BY <1>4
  <2> QED
    BY <1>2, <2>1, <2>2, CommitStores
<1>7. /\ \A k \in 0 .. 3 : mem'[Dst + 4 + k] = mem[Dst + 4 + k]
      /\ \A i \in 1 .. Len(J.tree) : mem'[Dst + 12 + i - 1] = mem[Dst + 12 + i - 1]
  BY <1>4, <1>6, Zenon
<1>8. TreeOut
  BY DEF Encoding
<1>9. WordIn(mem', Dst + 4, Len(J.tree), 4) /\ Holds(mem', Dst + 12, J.tree)
  <2>1. 4 - 1 = 3
    OBVIOUS
  <2>2. /\ \A k \in 0 .. 3 : mem[Dst + 4 + k] = WordByte(Len(J.tree), k)
        /\ \A i \in 1 .. Len(J.tree) : mem[Dst + 12 + i - 1] = J.tree[i]
    BY Zenon, <1>8, <2>1 DEF TreeOut, WordIn, Holds
  <2>3. /\ \A k \in 0 .. 3 : mem'[Dst + 4 + k] = WordByte(Len(J.tree), k)
        /\ \A i \in 1 .. Len(J.tree) : mem'[Dst + 12 + i - 1] = J.tree[i]
    BY Zenon, <1>7, <2>2
  <2> QED
    BY Zenon, <2>1, <2>3 DEF WordIn, Holds
<1>10. Dst' = Dst /\ J' = J
  BY <1>1, SameNumbers DEF SameRequest
<1> QED
  BY <1>5, <1>9, <1>10, Zenon DEF TreeOut

-----------------------------------------------------------------------------
(* The code writer's clock *)

\* The memory as its bench sees it takes the same byte.
LEMMA BenchMemory ==
    ASSUME MemSize \in Nat, NEW m \in Memory(MemSize), NEW write \in BOOLEAN,
           NEW wait \in BOOLEAN, NEW a, NEW d \in Byte, write => a \in 0 .. MemSize - 1
    PROVE  [x \in 0 .. 2 * MemSize |-> Fetch(Commit(m, write, wait, a, d), x)] =
              Commit([x \in 0 .. 2 * MemSize |-> Fetch(m, x)], write, wait, a, d)
<1>1. CASE write /\ ~wait
  <2>1. Commit(m, write, wait, a, d) = [m EXCEPT ![a] = d] /\ a \in DOMAIN m
    BY <1>1 DEF Commit, Memory
  <2>2. a \in 0 .. 2 * MemSize
    BY <1>1
  <2>3. /\ Commit([x \in 0 .. 2 * MemSize |-> Fetch(m, x)], write, wait, a, d) =
              [[x \in 0 .. 2 * MemSize |-> Fetch(m, x)] EXCEPT ![a] = d]
    BY <1>1 DEF Commit
  <2>4. \A x : Fetch([m EXCEPT ![a] = d], x) = IF x = a THEN d ELSE Fetch(m, x)
    BY <2>1 DEF Fetch
  <2> QED
    BY <2>1, <2>2, <2>3, <2>4
<1>2. CASE ~(write /\ ~wait)
  BY <1>2, Zenon DEF Commit
<1> QED
  BY <1>1, <1>2

\* What the text handler feeds it.
LEMMA FedStep ==
    ASSUME Encoding, MemSize \in Nat, NEW wait \in BOOLEAN, TextEdge(wait),
           text.state \notin {"IDLE", "WR_LEN", "WR_LEN_WAIT"},
           text'.state # "WR_LEN"
    PROVE  /\ text.startCW => text.wrCode \in Code
           /\ text.startCW => Len(FedNow \o text.wrCode) <= Len(Fed(J, X, N)) + 8
           /\ FedNow' = IF text.startCW THEN FedNow \o text.wrCode ELSE FedNow
<1>1. /\ TextShape /\ TextPart /\ TextWork /\ Fine(J, X) /\ J' = J /\ X' = X /\ N' = N
      /\ text.state \in Hw!Text!States
  BY SameNumbers DEF Encoding, Serving, TextPart, TextEdge, SameRequest, TextShape
<1>2. /\ text.state = "WRITE_CODE_WAIT" => text.off # 0 /\ text.wrCode = LetterCode
      /\ text.state = "WAIT_PADDING" => text.wrCode = EightZeros /\ text.off = N
      /\ text.off \in 0 .. N /\ N \in Nat
  BY <1>1, FineTypes DEF TextWork, Letter, N
<1>3. text.startCW => /\ text.state \in {"WRITE_CODE_WAIT", "WAIT_PADDING"}
                      /\ ~cw.done
  BY <1>1 DEF TextPart, WriterPart, CWResting
<1>4. text.off # 0 =>
         /\ text.off \in 1 .. N
         /\ Fed(J, X, text.off) = Fed(J, X, text.off - 1) \o LetterCode
         /\ LetterCode \in Code
         /\ Len(Fed(J, X, text.off)) \in Nat /\ Len(Fed(J, X, text.off)) <= Len(Fed(J, X, N))
  <2> SUFFICES ASSUME text.off # 0
               PROVE  /\ text.off \in 1 .. N
                      /\ Fed(J, X, text.off) = Fed(J, X, text.off - 1) \o LetterCode
                      /\ LetterCode \in Code
                      /\ Len(Fed(J, X, text.off)) \in Nat
                      /\ Len(Fed(J, X, text.off)) <= Len(Fed(J, X, N))
    OBVIOUS
  <2>1. text.off \in 1 .. Len(X)
    BY <1>2 DEF N
  <2>2. /\ Fed(J, X, text.off) = Fed(J, X, text.off - 1) \o J.codes[Index(X[text.off]) + 1]
        /\ Len(Fed(J, X, text.off)) \in Nat
        /\ Len(Fed(J, X, text.off)) <= Len(Fed(J, X, Len(X)))
    <3>1. text.off \in 0 .. Len(X)
      BY <2>1
    <3> QED
      BY <1>1, <2>1, <3>1, FedSteps, Zenon
  <2>3. J.codes[Index(X[text.off]) + 1] \in Code
    BY <1>1, <2>1, LetterHasCode
  <2> QED
    BY <2>1, <2>2, <2>3, Zenon DEF N, LetterCode
<1>5. /\ EightZeros \in Code
      /\ Len(Fed(J, X, N) \o EightZeros) = Len(Fed(J, X, N)) + 8
      /\ Len(Fed(J, X, N)) \in Nat
  <2>1. Len(Fed(J, X, Len(X)) \o EightZeros) = Len(Fed(J, X, Len(X))) + 8
    BY <1>1, BodyBytes
  <2>2. Len(Fed(J, X, N)) \in Nat
    BY FedFits
  <2> QED
    BY Zenon, <2>1, <2>2, EightZerosBits DEF N
<1>6. text.startCW => /\ text.wrCode \in Code
                      /\ Len(FedNow \o text.wrCode) <= Len(Fed(J, X, N)) + 8
  <2>1. CASE text.state = "WRITE_CODE_WAIT" /\ text.startCW
    <3>1. FedNow \o text.wrCode = Fed(J, X, text.off) /\ text.wrCode \in Code
      BY <1>2, <1>4, <2>1, FedCases
    <3> DEFINE l == Len(Fed(J, X, N))
               n == Len(Fed(J, X, text.off))
    <3>2. l \in Nat /\ n \in Nat /\ n <= l
      BY Zenon, <1>2, <1>4, <1>5, <2>1
    <3> HIDE DEF l, n
    <3>3. n <= l + 8
      BY <3>2
    <3> QED
      BY Zenon, <3>1, <3>3 DEF l, n
  <2>2. CASE text.state = "WAIT_PADDING" /\ text.startCW
    <3>1. FedNow \o text.wrCode = Fed(J, X, N) \o EightZeros /\ text.wrCode \in Code
      BY <1>2, <1>5, <2>2, FedCases
    <3> DEFINE l == Len(Fed(J, X, N))
    <3>2. l \in Nat /\ Len(FedNow \o text.wrCode) = l + 8
      BY Zenon, <1>5, <3>1
    <3> HIDE DEF l
    <3>3. l + 8 <= l + 8
      BY <3>2
    <3> QED
      BY Zenon, <3>1, <3>2, <3>3 DEF l
  <2> QED
    BY <1>3, <2>1, <2>2
<1>7. text.off \in Nat /\ (text.off + 1) - 1 = text.off
  BY <1>2
<1> DEFINE Goal == FedNow' = IF text.startCW THEN FedNow \o text.wrCode ELSE FedNow
<1>8. CASE text.state = "SET_RD_ADDR"
  <2>1. text'.state = "READ_WAIT" /\ text'.off = text.off
    BY <1>1, <1>8, AtSetRdAddr
  <2>2. FedNow' = Fed(J, X, text.off)
    BY <1>1, <2>1 DEF FedNow
  <2> QED
    BY <1>3, <1>6, <1>8, <2>2, FedCases
<1>9. CASE text.state = "READ_WAIT"
  <2>1. text'.state \in {"READ_WAIT", "CHECK_END"} /\ text'.off = text.off
    BY <1>1, <1>9, AtReadWait
  <2>2. FedNow' = Fed(J, X, text.off)
    BY <1>1, <2>1 DEF FedNow
  <2> QED
    BY <1>3, <1>6, <1>9, <2>2, FedCases
<1>10. CASE text.state = "CHECK_END"
  <2>1. \/ text'.state = "ADD_PADDING" /\ text'.off = text.off
        \/ text'.state = "READ_CODE" /\ text'.off = text.off + 1
    BY <1>1, <1>10, AtCheckEnd
  <2>2. FedNow' = Fed(J, X, text.off)
    BY <1>1, <1>7, <2>1 DEF FedNow
  <2> QED
    BY <1>3, <1>6, <1>10, <2>2, FedCases
<1>11. CASE text.state = "READ_CODE"
  <2>1. text'.state = "READ_CODE_START" /\ text'.off = text.off
    BY <1>1, <1>11, AtReadCode
  <2>2. FedNow' = Fed(J, X, text.off - 1)
    BY <1>1, <2>1 DEF FedNow
  <2> QED
    BY <1>3, <1>6, <1>11, <2>2, FedCases
<1>12. CASE text.state = "READ_CODE_START"
  <2>1. text'.state = "READ_CODE_WAIT" /\ text'.off = text.off
    BY <1>1, <1>12, AtReadCodeStart
  <2>2. FedNow' = Fed(J, X, text.off - 1)
    BY <1>1, <2>1 DEF FedNow
  <2> QED
    BY <1>3, <1>6, <1>12, <2>2, FedCases
<1>13. CASE text.state = "READ_CODE_WAIT"
  <2>1. text'.state \in {"READ_CODE_WAIT", "WRITE_CODE"} /\ text'.off = text.off
    BY <1>1, <1>13, AtReadCodeWait
  <2>2. FedNow' = Fed(J, X, text.off - 1)
    BY <1>1, <2>1 DEF FedNow
  <2> QED
    BY <1>3, <1>6, <1>13, <2>2, FedCases
<1>14. CASE text.state = "WRITE_CODE"
  <2>1. text'.state = "WRITE_CODE_WAIT" /\ text'.startCW /\ text'.off = text.off
    BY <1>1, <1>14, AtWriteCode
  <2>2. FedNow' = Fed(J, X, text.off - 1)
    BY <1>1, <2>1 DEF FedNow
  <2> QED
    BY <1>3, <1>6, <1>14, <2>2, FedCases
<1>15. CASE text.state = "WRITE_CODE_WAIT"
  <2>1. /\ text'.off = text.off /\ ~text'.startCW
        /\ text'.state \in {"WRITE_CODE_WAIT", "SET_RD_ADDR"}
    BY <1>1, <1>15, AtWriteCodeWait
  <2>2. FedNow' = Fed(J, X, text.off)
    BY <1>1, <2>1 DEF FedNow
  <2>3. Fed(J, X, text.off) = IF text.startCW THEN FedNow \o text.wrCode ELSE FedNow
    BY <1>2, <1>4, <1>15, FedCases
  <2> QED
    BY <1>6, <2>2, <2>3
<1>16. CASE text.state = "ADD_PADDING"
  <2>1. text'.state = "WAIT_PADDING" /\ text'.startCW /\ text'.off = text.off
    BY <1>1, <1>16, AtAddPadding
  <2>2. FedNow' = Fed(J, X, text.off)
    BY <1>1, <2>1 DEF FedNow
  <2> QED
    BY <1>3, <1>6, <1>16, <2>2, FedCases
<1>17. CASE text.state = "WAIT_PADDING"
  <2>1. text'.state = "WAIT_PADDING" /\ ~text'.startCW
    BY <1>1, <1>17, AtWaitPadding
  <2>2. FedNow' = Fed(J, X, N) \o EightZeros
    BY <1>1, <2>1 DEF FedNow
  <2>3. Fed(J, X, N) \o EightZeros = IF text.startCW THEN FedNow \o text.wrCode ELSE FedNow
    BY <1>2, <1>17, FedCases
  <2> QED
    BY <1>6, <2>2, <2>3
<1> QED
  BY <1>1, <1>8, <1>9, <1>10, <1>11, <1>12, <1>13, <1>14, <1>15, <1>16, <1>17
     DEF Hw!Text!States

\* While the text handler does not write itself, the code writer's bytes are
\* the only ones.
LEMMA WriterBus ==
    ASSUME Encoding, NEW wait \in BOOLEAN, TextEdge(wait), text.state # "WR_LEN_WAIT"
    PROVE  /\ mem' = Commit(mem, cw.write, wait, cw.addr, cw.data)
           /\ ~cw.write => mem' = mem
<1>1. mem' = Commit(mem, Hw!Text!Bus.write, wait, Hw!Text!Bus.addr, Hw!Text!Bus.data)
  BY DEF TextEdge
<1>2. /\ TextShape /\ TextPart /\ CWShape
      /\ ~text.write
  BY DEF Encoding, Serving, TextPart, TextShape
<1>3. CASE cw.write
  <2>1. cw.state # "IDLE"
    BY <1>2, <1>3 DEF CWShape
  <2>2. text.mux = "CODE_WR"
    BY <2>1, WriterWorks
  <2> QED
    BY <1>1, <1>3, <2>2, BusOfTextMux
<1>4. CASE ~cw.write
  <2>1. ~Hw!Text!Bus.write
    BY <1>2, <1>4, BusOfTextMux DEF TextShape, Hw!Text!Muxes
  <2> QED
    BY <1>1, <1>4, <2>1 DEF Commit
<1> QED
  BY <1>3, <1>4

\* It keeps its destination while it is not written to.
LEMMA WriterKeeps ==
    ASSUME CWShape, NEW dst, NEW start, NEW code, NEW wait,
           Hw!Text!CW!Tick(FALSE, dst, start, code, wait)
    PROVE  /\ cw'.dst = cw.dst
           /\ cw'.done => \/ cw.state = "DONE" /\ cw'.size = cw.off /\ cw'.off = cw.off
                          \/ cw.done
<1>0. DOMAIN cw = CWRegs
  BY DEF CWShape
<1>1. CASE Hw!Text!CW!Accept(FALSE, start, code)
  BY <1>0, <1>1 DEF Hw!Text!CW!Accept, CWRegs
<1>2. CASE Hw!Text!CW!Rest(FALSE, start)
  BY <1>0, <1>2 DEF Hw!Text!CW!Rest, CWRegs
<1>3. CASE Hw!Text!CW!AddCode
  BY <1>0, <1>3 DEF Hw!Text!CW!AddCode, CWRegs
<1>4. CASE Hw!Text!CW!PutByte
  BY <1>0, <1>4 DEF Hw!Text!CW!PutByte, CWRegs
<1>5. CASE Hw!Text!CW!KeepRest
  BY <1>0, <1>5 DEF Hw!Text!CW!KeepRest, CWRegs
<1>6. CASE Hw!Text!CW!Extra
  BY <1>0, <1>6 DEF Hw!Text!CW!Extra, CWRegs
<1>7. CASE Hw!Text!CW!Stall(wait)
  BY <1>0, <1>7 DEF Hw!Text!CW!Stall, CWRegs
<1>8. CASE Hw!Text!CW!Written(wait)
  BY <1>0, <1>8 DEF Hw!Text!CW!Written, CWRegs
<1>9. CASE Hw!Text!CW!Finish
  BY <1>0, <1>9 DEF Hw!Text!CW!Finish, CWRegs
<1> QED
  BY <1>1, <1>2, <1>3, <1>4, <1>5, <1>6, <1>7, <1>8, <1>9
     DEF Hw!Text!CW!Tick, Hw!Text!CW!Load

\* A clock of the code writer while the text is read.
LEMMA WriterClock ==
    ASSUME Encoding, MemSize \in Nat, NEW wait \in BOOLEAN, TextEdge(wait),
           text.state \notin {"IDLE", "WR_LEN", "WR_LEN_WAIT"}, ~text.writeCW,
           text'.state # "WR_LEN"
    PROVE  WB!Inv' /\ cw'.dst = BodyAt
<1>1. /\ TextShape /\ TextPart /\ CWShape /\ TextWork /\ Typed
      /\ WB!Inv /\ cw.dst = BodyAt
  BY DEF Encoding, Serving, TextPart, TextWork, Stream
<1>2. PICK w \in BOOLEAN :
         /\ Hw!Text!CW!Tick(text.writeCW, text.dstCW, text.startCW, text.wrCode, w)
         /\ text.mux = "CODE_WR" => w = wait
  BY DEF TextEdge
<1>3. text.writeCW = FALSE /\ text.startCW \in BOOLEAN
  BY <1>1 DEF TextShape
<1>4. cw'.dst = BodyAt
  BY <1>1, <1>2, <1>3, WriterKeeps
<1> DEFINE code == IF text.startCW THEN text.wrCode ELSE <<>>
<1>5. WB!Tick(FALSE, 0, text.startCW, code, w)
  <2>1. WB!Tick(FALSE, text.dstCW, text.startCW, text.wrCode, w)
    BY <1>2, <1>3, WriterAsOnBench
  <2> QED
    BY <1>3, <2>1, Zenon DEF WB!Tick, WB!Load, WB!Accept
<1>6. /\ text.startCW => text.wrCode \in Code
      /\ text.startCW => Len(FedNow \o text.wrCode) <= Len(Fed(J, X, N)) + 8
      /\ FedNow' = IF text.startCW THEN FedNow \o text.wrCode ELSE FedNow
  BY FedStep
<1>7. code \in Code
  <2>1. <<>> \in Code
    BY EmptySeq DEF Code, Bits
  <2> QED
    BY <1>6, <2>1
<1>8. text.startCW => cw.state = "IDLE"
  BY <1>1 DEF TextPart, WriterPart, CWResting
<1>9. cw.state = "IDLE" /\ ~FALSE /\ text.startCW => Len(FedNow) + Len(code) <= 8 * MemSize
  <2> SUFFICES ASSUME text.startCW PROVE Len(FedNow) + Len(text.wrCode) <= 8 * MemSize
    OBVIOUS
  <2>1. FedNow \in Seq(Bit) /\ text.wrCode \in Seq(Bit) /\ Len(FedNow \o text.wrCode) \in Nat
    <3>1. FedNow \in Seq(Bit) /\ text.wrCode \in Seq(Bit)
      BY <1>6, FedFits DEF Code, Bits
    <3> QED
      BY <3>1, ConcatProperties, LenProperties
  <2>2. Len(FedNow \o text.wrCode) = Len(FedNow) + Len(text.wrCode)
    BY <2>1, ConcatProperties
  <2> DEFINE l == Len(Fed(J, X, N))
             n == Len(FedNow \o text.wrCode)
  <2>3. n \in Nat /\ l \in Nat /\ n <= l + 8 /\ l + 8 <= 8 * MemSize
    BY Zenon, <1>6, <2>1, FedFits
  <2> HIDE DEF l, n
  <2>4. n <= 8 * MemSize
    BY <2>3
  <2> QED
    BY Zenon, <2>2, <2>4 DEF n
<1>10. WB!Record(FALSE, text.startCW, code)
  BY <1>6, <1>8, Zenon DEF WB!Record
<1>11. [a \in 0 .. 2 * MemSize |-> Fetch(mem', a)] =
          WB!Commit([a \in 0 .. 2 * MemSize |-> Fetch(mem, a)], cw.write, w, cw.addr, cw.data)
  <2>1. mem' = Commit(mem, cw.write, w, cw.addr, cw.data)
    <3>1. CASE cw.write
      <4>1. cw.state # "IDLE"
        BY <1>1, <3>1 DEF CWShape
      <4>2. w = wait
        BY <1>2, <4>1, WriterWorks
      <4> QED
        BY <4>2, WriterBus
    <3>2. CASE ~cw.write
      BY <3>2, WriterBus DEF Commit
    <3> QED
      BY <3>1, <3>2
  <2>2. mem \in Memory(MemSize) /\ cw.write \in BOOLEAN /\ cw.data \in Byte
    BY <1>1 DEF Typed, CWTyped
  <2>3. cw.write => cw.addr \in 0 .. MemSize - 1
    <3> SUFFICES ASSUME cw.write PROVE cw.addr \in 0 .. MemSize - 1
      OBVIOUS
    <3>1. cw.addr = BodyAt + cw.off /\ cw.off \in Nat /\ cw.off < Len(Body(J, X))
      BY WriterWritesBody
    <3>2. /\ BodyAt \in Nat /\ Len(Body(J, X)) \in Nat
          /\ Dst + Len(File(J, X)) = BodyAt + Len(Body(J, X))
          /\ Dst + Len(File(J, X)) <= MemSize
      BY FileBounds DEF Encoding, Serving
    <3> DEFINE p == BodyAt
               b == Len(Body(J, X))
    <3>3. /\ cw.addr = p + cw.off /\ cw.off \in Nat /\ cw.off < b /\ p \in Nat /\ b \in Nat
          /\ p + b <= MemSize
      BY Zenon, <3>1, <3>2
    <3> HIDE DEF p, b
    <3> QED
      BY <3>3
  <2>4. [a \in 0 .. 2 * MemSize |-> Fetch(mem', a)] =
          Commit([a \in 0 .. 2 * MemSize |-> Fetch(mem, a)], cw.write, w, cw.addr, cw.data)
    BY <2>1, <2>2, <2>3, BenchMemory
  <2> QED
    BY <2>4, Zenon DEF WB!Commit, Commit
<1>12. WB!Clock(FALSE, 0, text.startCW, code, w)
  <2> HIDE DEF code
  <2> QED
    BY <1>5, <1>9, <1>10, <1>11, Zenon DEF WB!Clock, WB!Fetch, Fetch
<1>13. WB!Next
  <2> HIDE DEF code
  <2>1. 0 \in 0 .. MemSize /\ FALSE \in BOOLEAN
    OBVIOUS
  <2> QED
    BY <1>3, <1>7, <1>12, <2>1, Zenon DEF WB!Next
<1> QED
  BY <1>1, <1>4, <1>13, WriterBenchStep

\* A load starts the stream over.
LEMMA WriterLoaded ==
    ASSUME Encoding, MemSize \in Nat, NEW wait \in BOOLEAN, TextEdge(wait), text.writeCW
    PROVE  /\ text'.state = "READ_WAIT" /\ ~text'.writeCW /\ text'.off = 0
           /\ WB!Inv' /\ cw'.dst = BodyAt
<1>1. /\ TextShape /\ TextPart /\ CWShape /\ TextWork /\ Typed /\ CWTyped /\ Fine(J, X)
      /\ text.state = "SET_RD_ADDR" /\ ~text.startCW /\ CWResting
      /\ text.dstCW = BodyAt /\ text.off = 0 /\ J' = J /\ X' = X
  BY DEF Encoding, Serving, TextPart, TextWork, Stream, WriterPart, Typed, TextEdge,
         SameRequest
<1>2. text'.state = "READ_WAIT" /\ ~text'.writeCW /\ text'.off = 0
  BY <1>1, AtSetRdAddr
<1>3. BodyAt \in Nat /\ BodyAt \in 0 .. MemSize
  <2>1. /\ BodyAt \in Nat /\ Len(Body(J, X)) \in Nat
        /\ Dst + Len(File(J, X)) = BodyAt + Len(Body(J, X))
        /\ Dst + Len(File(J, X)) <= MemSize
    BY <1>1, FileBounds
  <2> DEFINE p == BodyAt
             b == Len(Body(J, X))
  <2>2. p \in Nat /\ b \in Nat /\ p + b <= MemSize
    BY Zenon, <2>1
  <2> HIDE DEF p, b
  <2>3. p \in 0 .. MemSize
    BY <2>2
  <2> QED
    BY <2>2, <2>3, Zenon DEF p
<1>4. PICK w \in BOOLEAN :
         Hw!Text!CW!Tick(text.writeCW, text.dstCW, text.startCW, text.wrCode, w)
  BY DEF TextEdge
<1>5. /\ CWTyped' /\ cw'.state = "IDLE" /\ ~cw'.write
      /\ cw'.dst = BodyAt /\ cw'.off = 0 /\ cw'.wip = <<>>
  <2>1. cw.state = "IDLE" /\ ~cw.write /\ text.writeCW \in BOOLEAN
    BY <1>1 DEF CWResting, CWShape, TextShape
  <2> QED
    BY <1>1, <1>3, <1>4, <2>1, WriterRestTyped
<1>6. FedNow' = <<>>
  <2>1. FedNow' = Fed(J, X, 0)
    BY <1>1, <1>2 DEF FedNow
  <2> QED
    BY <1>1, <2>1, FedSteps
<1>7. mem' \in Memory(MemSize)
  BY TextMemory
<1>8. <<>> \in Seq(Bit) /\ Len(<<>>) = 0
  BY EmptySeq
<1>9. WB!TypeOK'
  <2>1. cw' \in [state : WB!States, code : WB!Bits, wip : WB!Bits, dst : Nat, off : Nat,
                 done : BOOLEAN, size : Nat, addr : Nat, write : BOOLEAN, data : WB!Byte]
    BY <1>5 DEF CWTyped, WB!States, Hw!Text!CW!States, WB!Bits, WB!Bit, Bits, Bit, WB!Byte, Byte
  <2>2. [a \in 0 .. 2 * MemSize |-> Fetch(mem', a)] \in [0 .. 2 * MemSize + 1 - 1 -> WB!Byte]
    <3>1. 2 * MemSize + 1 - 1 = 2 * MemSize
      OBVIOUS
    <3>2. \A a : Fetch(mem', a) \in Byte
      BY <1>7, FetchType
    <3> QED
      BY <3>1, <3>2 DEF WB!Byte, Byte
  <2>3. FedNow' \in WB!Bits
    BY <1>6, <1>8 DEF WB!Bits, WB!Bit, Bit
  <2> QED
    BY <2>1, <2>2, <2>3 DEF WB!TypeOK, WB!Addr
<1>10. Len(FedNow') = 0 /\ Len(cw'.wip) = 0 /\ 0 <= 8 * MemSize
  BY <1>5, <1>6, <1>8
<1>11. /\ WB!WipFits' /\ WB!PendingKept' /\ WB!StreamWritten'
       /\ WB!Request' /\ WB!Waiting' /\ WB!Room'
  <2>1. WB!WipFits'
    BY <1>10 DEF WB!WipFits
  <2>2. WB!PendingKept'
    BY <1>5, <1>10 DEF WB!PendingKept, WB!Pending
  <2>3. WB!StreamWritten'
    BY <1>5 DEF WB!StreamWritten
  <2>4. WB!Request'
    BY <1>5 DEF WB!Request
  <2>5. WB!Waiting'
    BY <1>5, <1>10 DEF WB!Waiting
  <2>6. WB!Room'
    BY <1>3, <1>5, <1>10 DEF WB!Room
  <2> QED
    BY <2>1, <2>2, <2>3, <2>4, <2>5, <2>6
<1>12. WB!Inv'
  BY <1>9, <1>11 DEF WB!Inv
<1> QED
  BY <1>2, <1>5, <1>12

\* Once the padding is through, the body of the file is in memory.
LEMMA BodyIsOut ==
    ASSUME Encoding, MemSize \in Nat, text.state = "WAIT_PADDING", cw.done
    PROVE  cw.size = Len(Body(J, X)) /\ BodyOut
<1>1. /\ TextShape /\ TextPart /\ CWShape /\ TextWork /\ Fine(J, X) /\ Stream
      /\ mem \in Memory(MemSize) /\ text.writeCW \in BOOLEAN
  BY DEF Encoding, Serving, TextPart, TextWork, Typed, TextShape
<1>2. ~text.writeCW /\ ~text.startCW /\ cw.state = "IDLE"
  BY <1>1 DEF TextPart, WriterPart, CWShape, CWResting
<1>3. WB!Inv /\ cw.dst = BodyAt /\ cw.size = cw.off
  BY <1>1, <1>2 DEF Stream
<1>4. FedNow = Fed(J, X, N) \o EightZeros
  BY <1>2, FedCases
<1>5. LET padded == Fed(J, X, N) \o EightZeros
      IN  /\ Len(padded) \in Nat
          /\ Len(Body(J, X)) = Len(padded) \div 8
          /\ \A j \in 0 .. Len(Body(J, X)) - 1 :
                Body(J, X)[j + 1] = PackByte([i \in 1 .. 8 |-> padded[8 * j + i]])
  <2>1. Len(FedNow) \in Nat
    BY FedFits
  <2> QED
    BY Zenon, <1>1, <1>4, <2>1, BodyBytes DEF N
<1>6. /\ Len(FedNow) \in Nat /\ Len(Body(J, X)) = Len(FedNow) \div 8
      /\ \A j \in 0 .. Len(Body(J, X)) - 1 :
            Body(J, X)[j + 1] = PackByte([i \in 1 .. 8 |-> FedNow[8 * j + i]])
  BY Zenon, <1>4, <1>5
<1>7. cw.off = Len(Body(J, X))
  <2>1. cw.off \in Nat /\ cw.wip \in WB!Bits
    BY <1>3 DEF WB!Inv, WB!TypeOK
  <2>2. Len(cw.wip) \in Nat
    BY <2>1, LenProperties DEF WB!Bits
  <2>3. Len(cw.wip) < 8
    BY <1>2, <1>3 DEF WB!Inv, WB!WipFits
  <2>4. 8 * cw.off + Len(cw.wip) + WB!Pending = Len(FedNow)
    BY <1>3 DEF WB!Inv, WB!PendingKept
  <2>5. WB!Pending = 0
    BY <1>2 DEF WB!Pending
  <2>6. 8 * cw.off + Len(cw.wip) = Len(FedNow)
    BY <2>1, <2>2, <2>4, <2>5
  <2>7. Len(FedNow) \div 8 = cw.off
    BY <1>6, <2>1, <2>2, <2>3, <2>6, WB!WholeBytes
  <2> QED
    BY <1>6, <2>7
<1>8. BodyAt \in Nat /\ Len(Body(J, X)) \in Nat /\ BodyAt + Len(Body(J, X)) <= MemSize
  <2>1. /\ BodyAt \in Nat /\ Len(Body(J, X)) \in Nat
        /\ Dst + Len(File(J, X)) = BodyAt + Len(Body(J, X))
        /\ Dst + Len(File(J, X)) <= MemSize
    BY <1>1, FileBounds
  <2> QED
    BY <2>1, Zenon
<1>9. \A i \in 1 .. Len(Body(J, X)) : mem[BodyAt + i - 1] = Body(J, X)[i]
  <2> SUFFICES ASSUME NEW i \in 1 .. Len(Body(J, X))
               PROVE  mem[BodyAt + i - 1] = Body(J, X)[i]
    OBVIOUS
  <2>1. /\ i - 1 \in 0 .. Len(Body(J, X)) - 1 /\ (i - 1) + 1 = i
        /\ BodyAt + (i - 1) = BodyAt + i - 1
        /\ BodyAt + (i - 1) \in 0 .. MemSize - 1
        /\ BodyAt + (i - 1) \in 0 .. 2 * MemSize
    <3> DEFINE p == BodyAt
               b == Len(Body(J, X))
    <3>1. p \in Nat /\ b \in Nat /\ p + b <= MemSize /\ i \in 1 .. b
      BY Zenon, <1>8
    <3> HIDE DEF p, b
    <3>2. /\ i - 1 \in 0 .. b - 1 /\ (i - 1) + 1 = i
          /\ p + (i - 1) = p + i - 1
          /\ p + (i - 1) \in 0 .. MemSize - 1
          /\ p + (i - 1) \in 0 .. 2 * MemSize
      BY <3>1
    <3> QED
      BY Zenon, <3>2 DEF p, b
  <2>2. WB!StreamWritten
    BY <1>3 DEF WB!Inv
  <2>3. \A j \in 0 .. cw.off - 1 :
           [a \in 0 .. 2 * MemSize |-> Fetch(mem, a)][cw.dst + j] =
              WB!PackByte([k \in 1 .. 8 |-> FedNow[8 * j + k]])
    BY <2>2, Zenon DEF WB!StreamWritten, WB!Fetch, Fetch
  <2>4. [a \in 0 .. 2 * MemSize |-> Fetch(mem, a)][BodyAt + (i - 1)] =
              WB!PackByte([k \in 1 .. 8 |-> FedNow[8 * (i - 1) + k]])
    BY <1>3, <1>7, <2>1, <2>3, Zenon
  <2>5. [a \in 0 .. 2 * MemSize |-> Fetch(mem, a)][BodyAt + (i - 1)] = mem[BodyAt + (i - 1)]
    BY <1>1, <2>1 DEF Fetch, Memory
  <2>6. Body(J, X)[(i - 1) + 1] = PackByte([k \in 1 .. 8 |-> FedNow[8 * (i - 1) + k]])
    BY <1>6, <2>1, Zenon
  <2>7. \A bits : WB!PackByte(bits) = PackByte(bits)
    BY DEF WB!PackByte, PackByte
  <2>8. mem[BodyAt + (i - 1)] = Body(J, X)[(i - 1) + 1]
    BY <2>4, <2>5, <2>6, <2>7, Zenon
  <2> QED
    BY <2>1, <2>8, Zenon
<1> QED
  BY <1>3, <1>7, <1>9, Zenon DEF BodyOut, Holds

\* A byte of the length field leaves the body and the bytes before it.
LEMMA LengthByte ==
    ASSUME Encoding, MemSize \in Nat, NEW wait \in BOOLEAN, TextEdge(wait),
           text.state = "WR_LEN_WAIT"
    PROVE  /\ BodyOut'
           /\ wait => mem' = mem
           /\ ~wait => WordIn(mem', Dst + 8, N, text.k + 1)
<1>1. /\ TextShape /\ TextTyped /\ TextWork /\ Fine(J, X) /\ mem \in Memory(MemSize)
      /\ mem' = Commit(mem, Hw!Text!Bus.write, wait, Hw!Text!Bus.addr, Hw!Text!Bus.data)
      /\ SameRequest
  BY DEF Encoding, Serving, TextPart, Typed, TextEdge
<1>2. /\ BodyOut /\ WordIn(mem, Dst + 8, N, text.k)
      /\ text.addr = Dst + 8 + text.k /\ text.data = WordByte(N, text.k)
  BY <1>1 DEF TextWork, Stream
<1>3. /\ text.mux = "TEXT_HANDLER" /\ text.write /\ text.write \in BOOLEAN
      /\ text.k \in 0 .. 3 /\ text.data \in Byte
  BY <1>1 DEF TextShape, TextTyped
<1>4. mem' = Commit(mem, text.write, wait, text.addr, text.data)
  BY <1>1, <1>3, BusOfTextMux
<1> DEFINE b == Len(Body(J, X))
           d == Dst
           p == BodyAt
<1>5. d \in Nat /\ b \in Nat /\ p \in Nat /\ d + 12 <= p /\ p + b <= MemSize
  <2>1. /\ Dst \in Nat /\ BodyAt \in Nat /\ Len(J.tree) \in Nat
        /\ Len(Body(J, X)) \in Nat
        /\ BodyAt = Dst + 12 + Len(J.tree)
        /\ Dst + Len(File(J, X)) = BodyAt + Len(Body(J, X))
        /\ Dst + Len(File(J, X)) <= MemSize
    BY <1>1, FileBounds
  <2> DEFINE t == Len(J.tree)
  <2>2. d \in Nat /\ b \in Nat /\ p \in Nat /\ t \in Nat /\ p = d + 12 + t /\ p + b <= MemSize
    BY Zenon, <2>1
  <2> HIDE DEF b, d, p, t
  <2>3. d + 12 <= p
    BY <2>2
  <2> QED
    BY <2>2, <2>3
<1>6. text.addr = d + 8 + text.k
  BY <1>2
<1>7. BodyOut = Holds(mem, p, Body(J, X)) /\ BodyOut' = Holds(mem', p, Body(J, X))
  <2>1. J' = J /\ X' = X /\ BodyAt' = BodyAt
    BY <1>1, SameNumbers DEF SameRequest
  <2> QED
    BY <2>1 DEF BodyOut
<1>8. WordIn(mem, d + 8, N, text.k)
  BY <1>2
<1> HIDE DEF b, d, p
<1>9. text.addr \in 0 .. MemSize - 1
  BY <1>3, <1>5, <1>6
<1>10. /\ \A x \in 0 .. MemSize - 1 : ~text.write \/ x # text.addr => mem'[x] = mem[x]
       /\ text.write /\ ~wait => mem'[text.addr] = text.data
  <2>1. mem \in Memory(MemSize) /\ text.write \in BOOLEAN /\ text.data \in Byte
    BY <1>1, <1>3
  <2>2. text.write => text.addr \in 0 .. MemSize - 1
    BY <1>9
  <2> QED
    BY <1>4, <2>1, <2>2, CommitStores
<1>11. BodyOut'
  <2>1. \A i \in 1 .. b : p + i - 1 \in 0 .. MemSize - 1 /\ p + i - 1 # text.addr
    BY <1>3, <1>5, <1>6
  <2>2. \A i \in 1 .. b : mem'[p + i - 1] = mem[p + i - 1]
    BY <1>10, <2>1
  <2>3. \A i \in 1 .. b : mem[p + i - 1] = Body(J, X)[i]
    BY <1>2, <1>7, Zenon DEF Holds, b
  <2>4. \A i \in 1 .. b : mem'[p + i - 1] = Body(J, X)[i]
    BY <2>2, <2>3, Zenon
  <2> QED
    BY <1>7, <2>4, Zenon DEF Holds, b
<1>12. wait => mem' = mem
  BY <1>4 DEF Commit
<1>13. ASSUME ~wait PROVE WordIn(mem', d + 8, N, text.k + 1)
  <2>1. mem'[d + 8 + text.k] = WordByte(N, text.k)
    BY <1>2, <1>3, <1>6, <1>10, <1>13
  <2>2. \A k \in 0 .. text.k - 1 : d + 8 + k \in 0 .. MemSize - 1 /\ d + 8 + k # text.addr
    BY <1>3, <1>5, <1>6
  <2>3. \A k \in 0 .. text.k - 1 : mem'[d + 8 + k] = mem[d + 8 + k]
    BY <1>10, <2>2
  <2>4. \A k \in 0 .. text.k - 1 : mem[d + 8 + k] = WordByte(N, k)
    BY <1>8, Zenon DEF WordIn
  <2>5. \A k \in 0 .. text.k - 1 : mem'[d + 8 + k] = WordByte(N, k)
    BY <2>3, <2>4, Zenon
  <2>6. \A k \in 0 .. (text.k + 1) - 1 : k = text.k \/ k \in 0 .. text.k - 1
    BY <1>3
  <2>7. \A k \in 0 .. (text.k + 1) - 1 : mem'[d + 8 + k] = WordByte(N, k)
    BY <2>1, <2>5, <2>6, Zenon
  <2> QED
    BY <2>7, Zenon DEF WordIn
<1> QED
  BY <1>11, <1>12, <1>13 DEF d

-----------------------------------------------------------------------------
(* A clock of TEXT_WAIT *)

\* The writer rests while the text handler does other things.
LEMMA WriterRests ==
    ASSUME Encoding, NEW wait \in BOOLEAN, TextEdge(wait), cw.state = "IDLE",
           ~text.startCW
    PROVE  /\ CWTyped' /\ cw'.size = cw.size
           /\ text.state # "WR_LEN_WAIT" => mem' = mem
<1>1. CWTyped /\ TextTyped /\ TextShape /\ CWShape
  BY DEF Encoding, Serving, Typed, TextPart
<1>2. PICK w \in BOOLEAN :
         Hw!Text!CW!Tick(text.writeCW, text.dstCW, text.startCW, text.wrCode, w)
  BY DEF TextEdge
<1>3. text.writeCW \in BOOLEAN /\ text.dstCW \in Nat /\ ~cw.write
  BY <1>1 DEF TextShape, TextTyped, CWShape
<1> QED
  BY <1>1, <1>2, <1>3, WriterRestTyped, WriterBus

\* The bench's invariant types the code writer's registers.
LEMMA TypedByBench == ASSUME WB!Inv' PROVE CWTyped'
  BY DEF WB!Inv, WB!TypeOK, WB!WipFits, CWTyped, WB!States, Hw!Text!CW!States, WB!Bits, WB!Bit,
         Bits, Bit, WB!Byte, Byte

\* A clock edge keeps what is known of the stream of codes.
LEMMA StreamStep ==
    ASSUME Encoding, MemSize \in Nat, NEW wait \in BOOLEAN, TextEdge(wait)
    PROVE  /\ Stream' /\ CWTyped'
           /\ text'.done => cw'.size = Len(Body(J, X)) /\ TextOut'
           /\ text.done => cw'.size = cw.size /\ TextOut'
<1>1. /\ TextShape /\ TextPart /\ CWShape /\ TextWork /\ Fine(J, X) /\ Stream /\ CWTyped
      /\ TextPart' /\ TextShape' /\ TextTyped
      /\ J' = J /\ X' = X /\ N' = N /\ Dst' = Dst /\ BodyAt' = BodyAt
  BY SameNumbers DEF Encoding, Serving, TextPart, TextWork, TextEdge, SameRequest, Typed
<1>2. /\ text.src = TextPlace(J) /\ text.dst = Dst /\ text.hdr = Len(J.tree)
      /\ enc.startText => text.off = 0
      /\ text.off \in 0 .. N
  BY <1>1 DEF TextWork
<1>3. /\ text.done => text.state = "IDLE" /\ ~enc.startText
      /\ text'.done => text'.state = "IDLE"
  BY <1>1 DEF TextShape, Encoding, Serving, EncPart, TextResting
<1>4. text.writeCW => text.state = "SET_RD_ADDR"
  BY <1>1 DEF TextPart, WriterPart
<1>5. CASE text.state = "IDLE"
  <2>1. cw.state = "IDLE" /\ ~text.startCW
    BY <1>1, <1>5 DEF TextPart, WriterPart, CWResting
  <2>2. CWTyped' /\ cw'.size = cw.size /\ mem' = mem
    BY <1>5, <2>1, WriterRests
  <2>3. CASE enc.startText
    <3>1. /\ text'.state = "SET_RD_ADDR" /\ text'.writeCW /\ text'.off = 0
          /\ text'.dstCW = Dst + 12 + Len(J.tree)
      BY <1>1, <1>2, <1>5, <2>3, AtBegin
    <3>2. Stream'
      BY <1>1, <3>1 DEF Stream, BodyAt
    <3> QED
      BY <1>3, <2>2, <2>3, <3>1, <3>2
  <2>4. CASE ~enc.startText
    <3>1. text'.state = "IDLE" /\ ~text'.writeCW /\ ~text'.done
      BY <1>1, <1>5, <2>4, AtRestText
    <3>2. Stream'
      BY <3>1 DEF Stream
    <3>3. text.done => TextOut'
      BY <1>1, <2>2 DEF TextWork, TextOut, BodyOut
    <3> QED
      BY <2>2, <3>1, <3>2, <3>3
  <2> QED
    BY <2>3, <2>4
<1>6. CASE text.writeCW
  <2>1. /\ text'.state = "READ_WAIT" /\ ~text'.writeCW
        /\ WB!Inv' /\ cw'.dst = BodyAt
    BY <1>6, WriterLoaded
  <2>2. Stream'
    BY <1>1, <2>1 DEF Stream
  <2> QED
    BY <1>3, <1>4, <1>6, <2>1, <2>2, TypedByBench
<1>7. CASE /\ text.state \notin {"IDLE", "WR_LEN", "WR_LEN_WAIT"} /\ ~text.writeCW
           /\ ~(text.state = "WAIT_PADDING" /\ cw.done)
  <2>1. text'.state \notin {"IDLE", "WR_LEN", "WR_LEN_WAIT"} /\ ~text'.writeCW
    <3>1. CASE text.state = "SET_RD_ADDR"
      BY <1>1, <1>7, <3>1, AtSetRdAddr
    <3>2. CASE text.state = "READ_WAIT"
      BY <1>1, <1>7, <3>2, AtReadWait
    <3>3. CASE text.state = "CHECK_END"
      BY <1>1, <1>7, <3>3, AtCheckEnd
    <3>4. CASE text.state = "READ_CODE"
      BY <1>1, <1>7, <3>4, AtReadCode
    <3>5. CASE text.state = "READ_CODE_START"
      BY <1>1, <1>7, <3>5, AtReadCodeStart
    <3>6. CASE text.state = "READ_CODE_WAIT"
      BY <1>1, <1>7, <3>6, AtReadCodeWait
    <3>7. CASE text.state = "WRITE_CODE"
      BY <1>1, <1>7, <3>7, AtWriteCode
    <3>8. CASE text.state = "WRITE_CODE_WAIT"
      BY <1>1, <1>7, <3>8, AtWriteCodeWait
    <3>9. CASE text.state = "ADD_PADDING"
      BY <1>1, <1>7, <3>9, AtAddPadding
    <3>10. CASE text.state = "WAIT_PADDING"
      BY <1>1, <1>7, <3>10, AtWaitPadding
    <3> QED
      BY <1>1, <1>7, <3>1, <3>2, <3>3, <3>4, <3>5, <3>6, <3>7, <3>8, <3>9, <3>10
         DEF TextShape, Hw!Text!States
  <2>2. WB!Inv' /\ cw'.dst = BodyAt
    BY <1>7, <2>1, WriterClock
  <2>3. text'.state = "WAIT_PADDING" /\ cw'.done => cw'.size = cw'.off
    <3> SUFFICES ASSUME text'.state = "WAIT_PADDING", cw'.done PROVE cw'.size = cw'.off
      OBVIOUS
    <3>1. ~text'.startCW
      BY <1>1 DEF TextPart, WriterPart, CWResting
    <3>2. text.state = "WAIT_PADDING"
      <4>1. text.state # "ADD_PADDING"
        BY <1>1, <3>1, AtAddPadding
      <4> QED
        BY <1>1, <1>7, <4>1, AtSetRdAddr, AtReadWait, AtCheckEnd, AtReadCode,
           AtReadCodeStart, AtReadCodeWait, AtWriteCode, AtWriteCodeWait
           DEF TextShape, Hw!Text!States
    <3>3. PICK w \in BOOLEAN :
             Hw!Text!CW!Tick(text.writeCW, text.dstCW, text.startCW, text.wrCode, w)
      BY DEF TextEdge
    <3>4. text.writeCW = FALSE /\ ~cw.done
      BY <1>1, <1>7, <3>2 DEF TextShape
    <3> QED
      BY <1>1, <3>3, <3>4, WriterKeeps
  <2>4. Stream'
    BY <1>1, <2>1, <2>2, <2>3 DEF Stream
  <2> QED
    BY <1>3, <1>7, <2>1, <2>2, <2>4, TypedByBench
<1>8. CASE text.state = "WAIT_PADDING" /\ cw.done
  <2>1. /\ text'.state = "WR_LEN" /\ text'.k = 0 /\ ~text'.writeCW
    BY <1>1, <1>4, <1>8, AtWaitPadding
  <2>2. cw.state = "IDLE" /\ ~text.startCW
    BY <1>1, <1>8 DEF TextPart, WriterPart, CWShape, CWResting
  <2>3. CWTyped' /\ cw'.size = cw.size /\ mem' = mem
    BY <1>8, <2>2, WriterRests
  <2>4. cw.size = Len(Body(J, X)) /\ BodyOut
    BY <1>8, BodyIsOut
  <2>5. WordIn(mem', Dst + 8, N, 0)
    BY DEF WordIn
  <2>6. Stream'
    BY <1>1, <2>1, <2>3, <2>4, <2>5 DEF Stream, BodyOut
  <2> QED
    BY <1>3, <1>8, <2>1, <2>3, <2>6
<1>9. CASE text.state = "WR_LEN"
  <2>1. cw.state = "IDLE" /\ ~text.startCW
    BY <1>1, <1>9 DEF TextPart, WriterPart, CWResting
  <2>2. CWTyped' /\ cw'.size = cw.size /\ mem' = mem
    BY <1>9, <2>1, WriterRests
  <2>3. /\ text'.state = "WR_LEN_WAIT" /\ text'.k = text.k /\ ~text'.writeCW
        /\ text'.addr = Dst + 8 + text.k /\ text'.data = WordByte(N, text.k)
    <3>1. /\ text'.state = "WR_LEN_WAIT" /\ text'.k = text.k /\ text'.writeCW = text.writeCW
          /\ text'.addr = text.dst + 8 + text.k
          /\ text'.data = Hw!Text!WordByte(text.off, text.k)
      BY <1>1, <1>9, AtWrLen
    <3>2. text.off = N
      BY <1>1, <1>9 DEF TextWork, Letter
    <3>3. \A w, k : Hw!Text!WordByte(w, k) = WordByte(w, k)
      BY DEF Hw!Text!WordByte, WordByte
    <3> QED
      BY <1>2, <1>4, <1>9, <3>1, <3>2, <3>3
  <2>4. cw.size = Len(Body(J, X)) /\ BodyOut /\ WordIn(mem, Dst + 8, N, text.k)
    BY <1>1, <1>9 DEF Stream
  <2>5. Stream'
    BY <1>1, <2>2, <2>3, <2>4, Zenon DEF Stream, BodyOut
  <2> QED
    BY <1>3, <1>9, <2>2, <2>3, <2>5
<1>10. CASE text.state = "WR_LEN_WAIT"
  <2>1. cw.state = "IDLE" /\ ~text.startCW
    BY <1>1, <1>10 DEF TextPart, WriterPart, CWResting
  <2>2. CWTyped' /\ cw'.size = cw.size
    BY <1>10, <2>1, WriterRests
  <2>3. cw.size = Len(Body(J, X)) /\ WordIn(mem, Dst + 8, N, text.k)
    BY <1>1, <1>10 DEF Stream
  <2>4. /\ BodyOut'
        /\ wait => mem' = mem
        /\ ~wait => WordIn(mem', Dst + 8, N, text.k + 1)
    BY <1>10, LengthByte
  <2>5. CASE wait
    <3>1. /\ text'.state = "WR_LEN_WAIT" /\ text'.k = text.k /\ ~text'.writeCW
          /\ text'.addr = text.addr /\ text'.data = text.data
      BY <1>1, <1>4, <1>10, <2>5, AtWrLenWait
    <3>2. text.addr = Dst + 8 + text.k /\ text.data = WordByte(N, text.k)
      BY <1>1, <1>10 DEF Stream
    <3>3. Stream'
      BY <1>1, <2>2, <2>3, <2>4, <2>5, <3>1, <3>2, Zenon DEF Stream
    <3> QED
      BY <1>3, <1>10, <2>2, <3>1, <3>3
  <2>6. CASE ~wait /\ text.k < 3
    <3>1. text'.state = "WR_LEN" /\ text'.k = text.k + 1 /\ ~text'.writeCW
      BY <1>1, <1>4, <1>10, <2>6, AtWrLenWait
    <3>2. Stream'
      BY <1>1, <2>2, <2>3, <2>4, <2>6, <3>1, Zenon DEF Stream
    <3> QED
      BY <1>3, <1>10, <2>2, <3>1, <3>2
  <2>7. CASE ~wait /\ ~(text.k < 3)
    <3>1. text'.state = "IDLE" /\ ~text'.writeCW
      BY <1>1, <1>4, <1>10, <2>7, AtWrLenWait
    <3>2. Stream'
      BY <3>1 DEF Stream
    <3>3. text.k + 1 = 4
      BY <1>1, <2>7 DEF TextShape
    <3>4. TextOut'
      BY <1>1, <2>4, <2>7, <3>3 DEF TextOut
    <3> QED
      BY <1>3, <1>10, <2>2, <2>3, <3>2, <3>4
  <2> QED
    BY <2>5, <2>6, <2>7
<1> QED
  BY <1>5, <1>6, <1>7, <1>8, <1>9, <1>10

\* The letter the text handler works on has a code in the table.
LEMMA LetterAt ==
    ASSUME Encoding, MemSize \in Nat, text.off # 0
    PROVE  /\ text.off \in 1 .. N /\ X[text.off] \in 1 .. 255
           /\ Index(X[text.off]) \in Nat
           /\ Index(X[text.off]) + 1 \in 1 .. NLetters
           /\ (Index(X[text.off]) + 1) - 1 = Index(X[text.off])
           /\ 4 * Index(X[text.off]) \in Entries
<1>1. Fine(J, X) /\ text.off \in 0 .. N /\ N \in Nat /\ X \in String
  BY FineTypes DEF Encoding, Serving, TextWork, N
<1>2. text.off \in 1 .. N /\ text.off \in 1 .. Len(X)
  BY <1>1 DEF N
<1>3. X[text.off] \in 1 .. 255
  BY <1>1, <1>2, Strings
<1>4. Index(X[text.off]) \in Nat
  BY <1>3, IndexType
<1>5. Index(X[text.off]) + 1 \in 1 .. NLetters
  BY <1>1, <1>2, LetterHasCode
<1> DEFINE i == Index(X[text.off])
<1>6. i \in Nat /\ i + 1 \in 1 .. NLetters /\ NLetters \in Nat
  BY <1>4, <1>5, Letters
<1> HIDE DEF i
<1>7. (i + 1) - 1 = i /\ i \in 0 .. NLetters - 1 /\ 4 * i \in Entries
  BY <1>6 DEF Entries
<1> QED
  BY <1>2, <1>3, <1>6, <1>7 DEF i

\* The code table the reader works on.
LEMMA TableServed ==
    ASSUME Encoding, MemSize \in Nat
    PROVE  /\ mem \in Tables /\ mem \in Memory(MemSize)
           /\ J.codes \in CodeTables /\ TableEnd(J.codes) < MemSize /\ TableAt(mem, J.codes)
<1>1. Fine(J, X) /\ mem \in Memory(MemSize) /\ TableAt(mem, J.codes)
  BY DEF Encoding, Serving, Typed, Inputs
<1>2. J.codes \in CodeTables
  BY <1>1, FineTypes
<1>3. TableEnd(J.codes) < MemSize
  <2> DEFINE e == TableEnd(J.codes)
             t == Len(J.tree)
             n == Len(X)
             b == Len(Body(J, X))
             p == TreePlace(J)
             q == TextPlace(J)
             f == FilePlace(J, X)
  <2>1. /\ e \in Nat /\ t \in Nat /\ n \in Nat /\ b \in Nat /\ p \in Nat /\ q \in Nat
        /\ f \in Nat /\ e < p /\ p + t < q /\ q + n < f /\ f + 12 + t + b <= MemSize
    BY Zenon, <1>1, LayoutNumbers
  <2> HIDE DEF e, t, n, b, p, q, f
  <2>2. e < MemSize
    BY <2>1
  <2> QED
    BY <2>2 DEF e
<1> QED
  BY <1>1, <1>2, <1>3, TableIsReadable

\* A reader at rest satisfies its bench invariant on any readable table.
LEMMA ReaderReady ==
    ASSUME Encoding, MemSize \in Nat, NEW wait \in BOOLEAN, TextEdge(wait),
           cr.state = "IDLE", ~text.startCR
    PROVE  /\ CRTyped' /\ cr'.state = "IDLE" /\ ~cr'.read
           /\ mem' = mem => RB!ReaderInv'
<1>1. CRTyped /\ CRShape
  BY DEF Encoding, Serving, Typed, TextPart
<1>2. PICK w \in BOOLEAN, d \in Byte : Hw!Text!CR!Tick(text.startCR, text.codeAddr, w, d)
  BY DEF TextEdge
<1>3. CRTyped' /\ cr'.state = "IDLE" /\ ~cr'.read
  BY <1>1, <1>2, ReaderRestTyped
<1>4. ASSUME mem' = mem PROVE RB!ReaderInv'
  <2>1. mem' \in Tables
    BY <1>4, TableServed
  <2>2. RB!ReaderTypeOK'
    BY <1>3, <2>1 DEF RB!ReaderTypeOK, CRTyped, RB!States, Hw!Text!CR!States, RB!Bits,
       RB!Bit, Bits, Bit, RB!Byte, Byte
  <2>3. RB!Pointer' /\ RB!Prefix' /\ RB!Request'
    BY <1>3 DEF RB!Pointer, RB!Prefix, RB!Request
  <2> QED
    BY <2>2, <2>3 DEF RB!ReaderInv
<1> QED
  BY <1>3, <1>4

\* The code reader hands out the code of its entry.
LEMMA ReaderHandsOut ==
    ASSUME MemSize \in Nat, RB!ReaderInv, RB!Last
    PROVE  cr'.code = RB!CodeAt(cr.at)
  BY RB!LastHandsOut, BenchesFit

\* The code reader reports done behind the last digit only.
LEMMA ReaderDone ==
    ASSUME CRShape, NEW start, NEW at, NEW wait, NEW rdata,
           Hw!Text!CR!Tick(start, at, wait, rdata), cr'.done, ~cr.done
    PROVE  Hw!Text!CR!Last
<1>0. DOMAIN cr = CRRegs
  BY DEF CRShape
<1>1. CASE Hw!Text!CR!Begin(start, at)
  BY <1>0, <1>1 DEF Hw!Text!CR!Begin, CRRegs
<1>2. CASE Hw!Text!CR!Rest(start)
  BY <1>0, <1>2 DEF Hw!Text!CR!Rest, CRRegs
<1>3. CASE Hw!Text!CR!RdCodeAddr
  BY <1>0, <1>3 DEF Hw!Text!CR!RdCodeAddr, CRRegs
<1>4. CASE Hw!Text!CR!RdCodeAddrWait(wait, rdata)
  BY <1>0, <1>4 DEF Hw!Text!CR!RdCodeAddrWait, CRRegs
<1>5. CASE Hw!Text!CR!SetRdAddr
  BY <1>0, <1>5 DEF Hw!Text!CR!SetRdAddr, CRRegs
<1>6. CASE Hw!Text!CR!ReadBit(wait, rdata)
  BY <1>0, <1>6 DEF Hw!Text!CR!ReadBit, CRRegs
<1>7. CASE Hw!Text!CR!ReadEnd(wait, rdata)
  BY <1>0, <1>7 DEF Hw!Text!CR!ReadEnd, CRRegs
<1>8. CASE Hw!Text!CR!Stall(wait)
  BY <1>0, <1>8 DEF Hw!Text!CR!Stall, CRRegs
<1> QED
  BY <1>1, <1>2, <1>3, <1>4, <1>5, <1>6, <1>7, <1>8 DEF Hw!Text!CR!Tick

\* A clock of the code reader while its code is awaited.
LEMMA ReaderClock ==
    ASSUME Encoding, MemSize \in Nat, NEW wait \in BOOLEAN, TextEdge(wait),
           text.state = "READ_CODE_WAIT"
    PROVE  /\ RB!ReaderInv' /\ CRTyped'
           /\ cr'.done /\ ~cr.done => cr'.code = LetterCode
<1>1. /\ TextShape /\ TextPart /\ CRShape /\ CWShape /\ TextWork /\ RB!ReaderInv
      /\ text.off # 0 /\ text.codeAddr = 4 * Index(X[text.off])
      /\ text.mux = "CODE_RD" /\ text.startCR \in BOOLEAN
  BY DEF Encoding, Serving, TextPart, TextShape, TextWork, Letter
<1>2. Hw!Text!CR!Tick(text.startCR, text.codeAddr, wait, Fetch(mem, cr.addr))
  BY <1>1 DEF TextEdge
<1>3. mem' = mem
  <2>1. ~cw.write
    BY <1>1 DEF TextPart, WriterPart, CWResting, CWShape
  <2> QED
    BY <2>1, WriterBus
<1>4. text.codeAddr \in Entries
  BY <1>1, LetterAt
<1>5. RB!Clock(text.startCR, text.codeAddr, wait)
  <2>1. RB!Tick(text.startCR, text.codeAddr, wait, Fetch(mem, cr.addr))
    BY <1>2, ReaderAsOnBench
  <2>2. \A m, a : RB!Fetch(m, a) = Fetch(m, a)
    BY DEF RB!Fetch, Fetch
  <2> QED
    BY <1>3, <2>1, <2>2 DEF RB!Clock
<1>6. RB!Next
  BY <1>1, <1>4, <1>5, Zenon DEF RB!Next
<1>7. RB!ReaderInv'
  BY <1>1, <1>6, ReaderBenchStep
<1>8. CRTyped'
  BY <1>7 DEF RB!ReaderInv, RB!ReaderTypeOK, CRTyped, RB!States, Hw!Text!CR!States,
     RB!Bits, RB!Bit, Bits, Bit, RB!Byte, Byte
<1>9. ASSUME cr'.done, ~cr.done PROVE cr'.code = LetterCode
  <2>1. Hw!Text!CR!Last
    BY <1>1, <1>2, <1>9, ReaderDone
  <2>2. RB!Last
    BY <2>1 DEF RB!Last, Hw!Text!CR!Last
  <2>3. cr.at = text.codeAddr
    BY <1>1, <2>1 DEF Hw!Text!CR!Last, TextPart, ReaderPart, CRResting
  <2>4. cr'.code = RB!CodeAt(4 * Index(X[text.off]))
    BY <1>1, <2>2, <2>3, ReaderHandsOut
  <2>5. RB!CodeAt(4 * Index(X[text.off])) = J.codes[Index(X[text.off]) + 1]
    <3> DEFINE k == Index(X[text.off]) + 1
    <3>1. k \in 1 .. NLetters /\ k - 1 = Index(X[text.off])
      BY <1>1, LetterAt
    <3> HIDE DEF k
    <3>2. RB!CodeAt(4 * (k - 1)) = J.codes[k]
      BY <3>1, TableServed, CodeIsFound
    <3> QED
      BY <3>1, <3>2, Zenon DEF k
  <2> QED
    BY <2>4, <2>5 DEF LetterCode
<1> QED
  BY <1>7, <1>8, <1>9

\* A clock edge keeps what is known of the letter.
LEMMA LetterStep ==
    ASSUME Encoding, MemSize \in Nat, NEW wait \in BOOLEAN, TextEdge(wait)
    PROVE  /\ Letter' /\ CRTyped' /\ text'.off \in 0 .. N
           /\ text'.codes = text.codes /\ text'.src = text.src
           /\ text'.dst = text.dst /\ text'.hdr = text.hdr
<1>1. /\ TextShape /\ TextPart /\ CRShape /\ TextWork /\ Fine(J, X) /\ Letter
      /\ TextPart' /\ TextShape' /\ TextTyped
      /\ J' = J /\ X' = X /\ N' = N
      /\ text.state \in Hw!Text!States
  BY SameNumbers DEF Encoding, Serving, TextPart, TextWork, TextEdge, SameRequest, Typed,
     TextShape
<1>2. /\ text.src = TextPlace(J) /\ text.codes = 0
      /\ enc.startText => text.off = 0
      /\ text.off \in 0 .. N /\ N \in Nat
  BY <1>1, FineTypes DEF TextWork, N
<1>3. text.state # "READ_CODE_WAIT" => cr.state = "IDLE" /\ ~text.startCR
  BY <1>1 DEF TextPart, ReaderPart, CRResting
<1>4. text.state # "READ_CODE_WAIT" => CRTyped'
  BY <1>3, ReaderReady
<1>5. CASE text.state = "IDLE"
  <2>1. /\ text'.state \in {"IDLE", "SET_RD_ADDR"} /\ text'.off = text.off
        /\ text'.codes = text.codes /\ text'.src = text.src
        /\ text'.dst = text.dst /\ text'.hdr = text.hdr
    BY <1>1, <1>5, AtBegin, AtRestText
  <2>2. Letter'
    BY <2>1 DEF Letter
  <2> QED
    BY <1>2, <1>4, <1>5, <2>1, <2>2
<1>6. CASE text.state = "SET_RD_ADDR"
  <2>1. /\ text'.state = "READ_WAIT" /\ text'.off = text.off
        /\ text'.addr = text.src + text.off
        /\ text'.codes = text.codes /\ text'.src = text.src
        /\ text'.dst = text.dst /\ text'.hdr = text.hdr
    BY <1>1, <1>6, AtSetRdAddr
  <2>2. Letter'
    BY <2>1 DEF Letter
  <2> QED
    BY <1>2, <1>4, <1>6, <2>1, <2>2
<1>7. CASE text.state = "READ_WAIT" /\ wait
  <2>1. /\ text'.state = "READ_WAIT" /\ text'.off = text.off /\ text'.addr = text.addr
        /\ text'.codes = text.codes /\ text'.src = text.src
        /\ text'.dst = text.dst /\ text'.hdr = text.hdr
    BY <1>1, <1>7, AtReadWait
  <2>2. text.addr = text.src + text.off
    BY <1>1, <1>7 DEF Letter
  <2>3. Letter'
    BY <2>1, <2>2 DEF Letter
  <2> QED
    BY <1>2, <1>4, <1>7, <2>1, <2>3
<1>8. CASE text.state = "READ_WAIT" /\ ~wait
  <2>1. /\ text'.state = "CHECK_END" /\ text'.off = text.off
        /\ text'.char = Fetch(mem, text.addr)
        /\ text'.codes = text.codes /\ text'.src = text.src
        /\ text'.dst = text.dst /\ text'.hdr = text.hdr
    BY <1>1, <1>8, AtReadWait
  <2>2. text.addr = TextPlace(J) + text.off
    BY <1>1, <1>2, <1>8 DEF Letter
  <2>3. /\ StringAt(mem, TextPlace(J), X) /\ mem \in Memory(MemSize)
    BY DEF Encoding, Serving, Inputs, Typed
  <2> DEFINE p == TextPlace(J)
             d == Dst
  <2>4. p \in Nat /\ d \in Nat /\ p + N < d /\ d <= MemSize
    <3>1. /\ TextPlace(J) \in Nat /\ Dst \in Nat /\ TextPlace(J) + N < Dst
          /\ Len(File(J, X)) \in Nat /\ Dst + Len(File(J, X)) <= MemSize
      BY <1>1, FileBounds
    <3> DEFINE f == Len(File(J, X))
    <3>2. f \in Nat /\ d + f <= MemSize /\ d \in Nat
      BY Zenon, <3>1
    <3> HIDE DEF f, d
    <3>3. d <= MemSize
      BY <3>2
    <3> QED
      BY Zenon, <3>1, <3>3 DEF d
  <2>5. \A i \in 1 .. N : mem[p + i - 1] = X[i]
    BY Zenon, <2>3 DEF StringAt, N
  <2>6. mem[p + N] = 0
    BY Zenon, <2>3 DEF StringAt, N
  <2>7. text.addr = p + text.off
    BY <2>2
  <2> HIDE DEF p, d
  <2>8. text'.char = mem[p + text.off]
    <3>1. p + text.off \in 0 .. MemSize - 1
      BY <1>2, <2>4
    <3> QED
      BY <2>1, <2>3, <2>7, <3>1 DEF Fetch, Memory
  <2>9. /\ text.off < N => text'.char = X[text.off + 1]
        /\ text.off = N => text'.char = 0
    <3>1. text.off < N => /\ text.off + 1 \in 1 .. N
                          /\ p + (text.off + 1) - 1 = p + text.off
      BY <1>2, <2>4
    <3> QED
      BY <2>5, <2>6, <2>8, <3>1
  <2>10. Letter'
    BY <1>1, <2>1, <2>9 DEF Letter
  <2> QED
    BY <1>2, <1>4, <1>8, <2>1, <2>10
<1>9. CASE text.state = "CHECK_END"
  <2>1. /\ text.off < N => text.char = X[text.off + 1] /\ text.char # 0
        /\ text.off = N => text.char = 0
    <3>1. /\ text.off < N => text.char = X[text.off + 1]
          /\ text.off = N => text.char = 0
      BY <1>1, <1>9 DEF Letter
    <3>2. text.off < N => X[text.off + 1] # 0
      <4>1. text.off < N => text.off + 1 \in 1 .. Len(X)
        BY <1>2 DEF N
      <4>2. X \in String
        BY <1>1, FineTypes
      <4> QED
        BY <4>1, <4>2, Strings
    <3> QED
      BY <3>1, <3>2
  <2>2. CASE text.char = 0
    <3>1. /\ text'.state = "ADD_PADDING" /\ text'.off = text.off
          /\ text'.codes = text.codes /\ text'.src = text.src
          /\ text'.dst = text.dst /\ text'.hdr = text.hdr
      BY <1>1, <1>9, <2>2, AtCheckEnd
    <3>2. text.off = N
      BY <1>2, <2>1, <2>2
    <3>3. Letter'
      BY <1>1, <3>1, <3>2 DEF Letter
    <3> QED
      BY <1>2, <1>4, <1>9, <3>1, <3>3
  <2>3. CASE text.char # 0
    <3>1. /\ text'.state = "READ_CODE" /\ text'.off = text.off + 1
          /\ text'.char = text.char
          /\ text'.codes = text.codes /\ text'.src = text.src
          /\ text'.dst = text.dst /\ text'.hdr = text.hdr
      BY <1>1, <1>9, <2>3, AtCheckEnd
    <3>2. text.off < N /\ text.off + 1 \in 0 .. N /\ text.off + 1 # 0
      BY <1>2, <2>1, <2>3
    <3>3. text.char = X[text.off + 1]
      BY <2>1, <3>2
    <3>4. Letter'
      BY <1>1, <3>1, <3>2, <3>3 DEF Letter
    <3> QED
      BY <1>4, <1>9, <3>1, <3>2, <3>4
  <2> QED
    BY <2>2, <2>3
<1>10. CASE text.state = "READ_CODE"
  <2>1. /\ text'.state = "READ_CODE_START" /\ text'.off = text.off
        /\ text'.char = text.char
        /\ text'.codeAddr = text.codes + Hw!Text!Index(text.char) * 4
        /\ text'.codes = text.codes /\ text'.src = text.src
        /\ text'.dst = text.dst /\ text'.hdr = text.hdr
    BY <1>1, <1>10, AtReadCode
  <2>2. text.off # 0 /\ text.char = X[text.off]
    BY <1>1, <1>10 DEF Letter
  <2>3. text'.codeAddr = 4 * Index(X[text.off])
    <3>1. Hw!Text!Index(text.char) = Index(X[text.off])
      BY <2>2 DEF Hw!Text!Index, Index
    <3>2. Index(X[text.off]) \in Nat
      BY <2>2, LetterAt
    <3> DEFINE i == Index(X[text.off])
    <3>3. i \in Nat /\ text'.codeAddr = 0 + i * 4
      BY <1>2, <2>1, <3>1, <3>2
    <3> HIDE DEF i
    <3>4. text'.codeAddr = 4 * i
      BY <3>3
    <3> QED
      BY <3>4 DEF i
  <2>4. Letter'
    BY <1>1, <2>1, <2>2, <2>3 DEF Letter
  <2> QED
    BY <1>2, <1>4, <1>10, <2>1, <2>4
<1>11. CASE text.state = "READ_CODE_START"
  <2>1. /\ text'.state = "READ_CODE_WAIT" /\ text'.off = text.off
        /\ text'.char = text.char /\ text'.codeAddr = text.codeAddr /\ text'.startCR
        /\ text'.codes = text.codes /\ text'.src = text.src
        /\ text'.dst = text.dst /\ text'.hdr = text.hdr
    BY <1>1, <1>11, AtReadCodeStart
  <2>2. /\ text.off # 0 /\ text.char = X[text.off]
        /\ text.codeAddr = 4 * Index(X[text.off])
    BY <1>1, <1>11 DEF Letter
  <2>3. mem' = mem
    <3>1. ~cw.write
      BY <1>1, <1>11 DEF TextPart, WriterPart, CWResting, CWShape
    <3> QED
      BY <1>11, <3>1, WriterBus
  <2>4. RB!ReaderInv'
    BY <1>3, <1>11, <2>3, ReaderReady
  <2>5. ~cr'.done
    BY <1>1, <2>1 DEF TextPart, ReaderPart, CRResting
  <2>6. Letter'
    BY <1>1, <2>1, <2>2, <2>4, <2>5 DEF Letter
  <2> QED
    BY <1>2, <1>4, <1>11, <2>1, <2>6
<1>12. CASE text.state = "READ_CODE_WAIT"
  <2>1. /\ RB!ReaderInv' /\ CRTyped'
        /\ cr'.done /\ ~cr.done => cr'.code = LetterCode
    BY <1>12, ReaderClock
  <2>2. /\ text.off # 0 /\ text.char = X[text.off]
        /\ text.codeAddr = 4 * Index(X[text.off])
        /\ cr.done => cr.code = LetterCode
    BY <1>1, <1>12 DEF Letter
  <2>3. /\ text'.off = text.off
        /\ text'.char = text.char /\ text'.codeAddr = text.codeAddr
        /\ text'.codes = text.codes /\ text'.src = text.src
        /\ text'.dst = text.dst /\ text'.hdr = text.hdr
    BY <1>1, <1>12, AtReadCodeWait
  <2>4. LetterCode' = LetterCode
    BY <1>1, <2>3 DEF LetterCode
  <2>5. CASE cr.done
    <3>1. text'.state = "WRITE_CODE" /\ text'.wrCode = cr.code
      BY <1>1, <1>12, <2>5, AtReadCodeWait
    <3>2. Letter'
      BY <1>1, <2>2, <2>3, <2>4, <2>5, <3>1 DEF Letter
    <3> QED
      BY <1>2, <2>1, <2>3, <3>2
  <2>6. CASE ~cr.done
    <3>1. text'.state = "READ_CODE_WAIT"
      BY <1>1, <1>12, <2>6, AtReadCodeWait
    <3>2. Letter'
      BY <1>1, <2>1, <2>2, <2>3, <2>4, <2>6, <3>1 DEF Letter
    <3> QED
      BY <1>2, <2>1, <2>3, <3>2
  <2> QED
    BY <2>5, <2>6
<1>13. CASE text.state = "WRITE_CODE"
  <2>1. /\ text'.state = "WRITE_CODE_WAIT" /\ text'.off = text.off
        /\ text'.wrCode = text.wrCode
        /\ text'.codes = text.codes /\ text'.src = text.src
        /\ text'.dst = text.dst /\ text'.hdr = text.hdr
    BY <1>1, <1>13, AtWriteCode
  <2>2. text.off # 0 /\ text.wrCode = LetterCode
    BY <1>1, <1>13 DEF Letter
  <2>3. LetterCode' = LetterCode
    BY <1>1, <2>1 DEF LetterCode
  <2>4. Letter'
    BY <1>1, <2>1, <2>2, <2>3 DEF Letter
  <2> QED
    BY <1>2, <1>4, <1>13, <2>1, <2>4
<1>14. CASE text.state = "WRITE_CODE_WAIT"
  <2>1. /\ text'.state \in {"WRITE_CODE_WAIT", "SET_RD_ADDR"} /\ text'.off = text.off
        /\ text'.wrCode = text.wrCode
        /\ text'.codes = text.codes /\ text'.src = text.src
        /\ text'.dst = text.dst /\ text'.hdr = text.hdr
    BY <1>1, <1>14, AtWriteCodeWait
  <2>2. text.off # 0 /\ text.wrCode = LetterCode
    BY <1>1, <1>14 DEF Letter
  <2>3. LetterCode' = LetterCode
    BY <1>1, <2>1 DEF LetterCode
  <2>4. Letter'
    BY <1>1, <2>1, <2>2, <2>3 DEF Letter
  <2> QED
    BY <1>2, <1>4, <1>14, <2>1, <2>4
<1>15. CASE text.state = "ADD_PADDING"
  <2>1. /\ text'.state = "WAIT_PADDING" /\ text'.off = text.off
        /\ text'.wrCode = Hw!Text!Padding
        /\ text'.codes = text.codes /\ text'.src = text.src
        /\ text'.dst = text.dst /\ text'.hdr = text.hdr
    BY <1>1, <1>15, AtAddPadding
  <2>2. text.off = N
    BY <1>1, <1>15 DEF Letter
  <2>3. Letter'
    BY <1>1, <2>1, <2>2 DEF Letter, Hw!Text!Padding, EightZeros
  <2> QED
    BY <1>2, <1>4, <1>15, <2>1, <2>3
<1>16. CASE text.state = "WAIT_PADDING"
  <2>1. /\ text'.state \in {"WAIT_PADDING", "WR_LEN"} /\ text'.off = text.off
        /\ text'.wrCode = text.wrCode
        /\ text'.codes = text.codes /\ text'.src = text.src
        /\ text'.dst = text.dst /\ text'.hdr = text.hdr
    BY <1>1, <1>16, AtWaitPadding
  <2>2. text.off = N /\ text.wrCode = EightZeros
    BY <1>1, <1>16 DEF Letter
  <2>3. Letter'
    BY <1>1, <2>1, <2>2 DEF Letter, EightZeros
  <2> QED
    BY <1>2, <1>4, <1>16, <2>1, <2>3
<1>17. CASE text.state \in {"WR_LEN", "WR_LEN_WAIT"}
  <2>1. /\ text'.state \in {"WR_LEN", "WR_LEN_WAIT", "IDLE"} /\ text'.off = text.off
        /\ text'.codes = text.codes /\ text'.src = text.src
        /\ text'.dst = text.dst /\ text'.hdr = text.hdr
    BY <1>1, <1>17, AtWrLen, AtWrLenWait
  <2>2. text.off = N
    BY <1>1, <1>17 DEF Letter
  <2>3. Letter'
    BY <1>1, <2>1, <2>2 DEF Letter
  <2> QED
    BY <1>2, <1>4, <1>17, <2>1, <2>3
<1> QED
  BY <1>1, <1>5, <1>6, <1>7, <1>8, <1>9, <1>10, <1>11, <1>12, <1>13, <1>14, <1>15,
     <1>16, <1>17 DEF Hw!Text!States

\* A clock of TEXT_WAIT.
LEMMA TextWaitStep ==
    ASSUME Encoding, MemSize \in Nat, SameRequest, TextPart',
           NEW slv, NEW wait \in BOOLEAN, NEW latch \in Latches, FpgaEdge(slv, wait, latch)
    PROVE  /\ TextWork' /\ TextTyped' /\ CRTyped' /\ CWTyped'
           /\ Inputs' /\ mem' \in Memory(MemSize) /\ TreeOut'
           /\ text.done => cw.size = Len(Body(J, X)) /\ TextOut'
<1>1. /\ Serving /\ enc.state = "TEXT_WAIT" /\ TextWork /\ TextShape /\ EncShape
      /\ TextTyped /\ CRTyped /\ Typed /\ Fine(J, X)
      /\ J' = J /\ X' = X /\ N' = N /\ Dst' = Dst
  BY SameNumbers DEF Encoding, Serving, TextPart, SameRequest, EncPart, Typed
<1>2. TextEdge(wait)
  BY <1>1, TextEdgeParts
<1>3. Inputs' /\ mem' \in Memory(MemSize) /\ TreeOut'
  BY <1>2, TextMemory
<1>4. /\ Stream' /\ CWTyped'
      /\ text'.done => cw'.size = Len(Body(J, X)) /\ TextOut'
      /\ text.done => cw'.size = cw.size /\ TextOut'
  BY <1>2, StreamStep
<1>5. /\ Letter' /\ CRTyped' /\ text'.off \in 0 .. N
      /\ text'.codes = text.codes /\ text'.src = text.src
      /\ text'.dst = text.dst /\ text'.hdr = text.hdr
  BY <1>2, LetterStep
<1>6. TextTyped'
  <2>1. PICK w \in BOOLEAN, d \in Byte :
           Hw!Text!EncodeText(FALSE, 0, TextPlace(J), Dst, tree.size, enc.startText, w, d)
    BY <1>2 DEF TextEdge
  <2>2. /\ TextPlace(J) \in Nat /\ Dst \in Nat /\ tree.size \in Nat
        /\ enc.startText \in BOOLEAN /\ 0 \in Nat /\ FALSE \in BOOLEAN
    BY <1>1, FileBounds DEF Typed, TreeTyped, EncShape
  <2> DEFINE f == FALSE
             o == 0
             p == TextPlace(J)
             q == Dst
             h == tree.size
             s == enc.startText
  <2>3. f \in BOOLEAN /\ o \in Nat /\ p \in Nat /\ q \in Nat /\ h \in Nat /\ s \in BOOLEAN
    BY Zenon, <2>2
  <2>4. Hw!Text!EncodeText(f, o, p, q, h, s, w, d)
    BY Zenon, <2>1
  <2>5. TextTyped /\ CRTyped /\ TextShape
    BY Zenon, <1>1
  <2> HIDE DEF f, o, p, q, h, s
  <2> QED
    BY <2>1, <2>3, <2>4, <2>5, TextTypedStep
<1>7. ~enc'.startText
  <2>1. PICK w \in BOOLEAN : Hw!Encode(w)
    BY <1>1, EdgeParts
  <2>2. Hw!TextWait
    <3>1. ~ctl.reset
      BY <1>1 DEF Serving
    <3> QED
      BY <1>1, <2>1, <3>1 DEF Hw!Encode, Hw!ResetState, Hw!Idle, Hw!TreeWrInput, Hw!TreeStart,
       Hw!TreeWait, Hw!TextWrInput, Hw!TextStart, Hw!WrTotalLen, Hw!WrTotalLenWait, Hw!Stall
  <2> QED
    BY <1>1, <2>2 DEF Hw!TextWait, EncShape, EncRegs
<1>8. text'.startCR \/ text'.startCW => text'.state # "IDLE"
  BY DEF TextPart, ReaderPart, WriterPart
<1>9. TextWork'
  <2>1. /\ text'.codes = 0 /\ text'.src = TextPlace(J)' /\ text'.dst = Dst'
        /\ text'.hdr = Len(J.tree)' /\ text'.off \in (0 .. N)'
    BY <1>1, <1>5 DEF TextWork
  <2>2. text'.done => cw'.size = Len(Body(J, X))' /\ TextOut'
    BY <1>1, <1>4
  <2> QED
    BY <1>4, <1>5, <1>7, <1>8, <2>1, <2>2 DEF TextWork
<1>10. text.done => cw.size = Len(Body(J, X)) /\ TextOut'
  BY <1>1, <1>4 DEF TextWork
<1> QED
  BY <1>3, <1>4, <1>5, <1>6, <1>9, <1>10

-----------------------------------------------------------------------------
(* The states of the top-level process *)

\* The top-level process from state to state.
LEMMA EncMoves ==
    ASSUME EncShape, ~ctl.reset, NEW w \in BOOLEAN, Hw!Encode(w)
    PROVE  /\ enc.state = "IDLE" => enc'.state \in {"IDLE", "TREE_WR_INPUT"} /\ ~enc'.done
           /\ enc.state = "TREE_WR_INPUT" => enc'.state = "TREE_START"
           /\ enc.state = "TREE_START" => enc'.state = "TREE_WAIT"
           /\ enc.state = "TREE_WAIT" =>
                 IF tree.done THEN enc'.state = "TEXT_WR_INPUT" ELSE enc'.state = "TREE_WAIT"
           /\ enc.state = "TEXT_WR_INPUT" => enc'.state = "TEXT_START"
           /\ enc.state = "TEXT_START" => enc'.state = "TEXT_WAIT"
           /\ enc.state = "TEXT_WAIT" /\ ~text.done => enc'.state = "TEXT_WAIT"
           /\ enc.state = "TEXT_WAIT" /\ text.done =>
                 /\ enc'.state = "WR_TOTAL_LEN" /\ enc'.k = 0
                 /\ enc'.total = 12 + tree.size + cw.size
           /\ enc.state = "WR_TOTAL_LEN" =>
                 /\ enc'.state = "WR_TOTAL_LEN_WAIT" /\ enc'.k = enc.k
                 /\ enc'.total = enc.total /\ enc'.addr = ctl.reg[3] + enc.k
                 /\ enc'.data = Hw!WordByte(enc.total, enc.k)
           /\ enc.state = "WR_TOTAL_LEN_WAIT" /\ w =>
                 /\ enc'.state = "WR_TOTAL_LEN_WAIT" /\ enc'.k = enc.k
                 /\ enc'.total = enc.total /\ enc'.addr = enc.addr /\ enc'.data = enc.data
                 /\ enc'.done = enc.done
           /\ enc.state = "WR_TOTAL_LEN_WAIT" /\ ~w /\ enc.k < 3 =>
                 /\ enc'.state = "WR_TOTAL_LEN" /\ enc'.k = enc.k + 1
                 /\ enc'.total = enc.total /\ enc'.done = enc.done
           /\ enc.state = "WR_TOTAL_LEN_WAIT" /\ ~w /\ ~(enc.k < 3) => enc'.state = "IDLE"
           /\ enc.state # "IDLE" /\ enc.state # "WR_TOTAL_LEN_WAIT" => enc'.done = enc.done
<1>0. DOMAIN enc = EncRegs /\ ~Hw!ResetState
  BY DEF EncShape, Hw!ResetState
<1>1. CASE Hw!Idle
  BY <1>0, <1>1 DEF Hw!Idle, EncRegs
<1>2. CASE Hw!TreeWrInput
  BY <1>0, <1>2 DEF Hw!TreeWrInput, EncRegs
<1>3. CASE Hw!TreeStart
  BY <1>0, <1>3 DEF Hw!TreeStart, EncRegs
<1>4. CASE Hw!TreeWait
  BY <1>0, <1>4 DEF Hw!TreeWait, EncRegs
<1>5. CASE Hw!TextWrInput
  BY <1>0, <1>5 DEF Hw!TextWrInput, EncRegs
<1>6. CASE Hw!TextStart
  BY <1>0, <1>6 DEF Hw!TextStart, EncRegs
<1>7. CASE Hw!TextWait
  BY <1>0, <1>7 DEF Hw!TextWait, EncRegs
<1>8. CASE Hw!WrTotalLen
  BY <1>0, <1>8 DEF Hw!WrTotalLen, EncRegs, Hw!DST
<1>9. CASE Hw!WrTotalLenWait(w)
  BY <1>0, <1>9 DEF Hw!WrTotalLenWait, EncRegs
<1>10. CASE Hw!Stall(w)
  BY <1>0, <1>10 DEF Hw!Stall, EncRegs
<1> QED
  BY <1>0, <1>1, <1>2, <1>3, <1>4, <1>5, <1>6, <1>7, <1>8, <1>9, <1>10 DEF Hw!Encode

\* Where nobody transfers, the memory stays.
LEMMA NobodyWrites ==
    ASSUME TreeShape, TextPart, EncPart, NEW wait,
           enc.state \notin {"TREE_WAIT", "TEXT_WAIT", "WR_TOTAL_LEN_WAIT"},
           mem' = Commit(mem, Hw!Bus.write, wait, Hw!Bus.addr, Hw!Bus.data)
    PROVE  mem' = mem
<1>1. EncShape /\ TextResting /\ TextShape /\ CRShape /\ CWShape /\ ReaderPart /\ WriterPart
  BY DEF EncPart, TextPart
<1>2. ~text.write /\ ~cw.write /\ text.mux \in Hw!Text!Muxes
  BY <1>1 DEF TextResting, TextShape, CWShape, WriterPart, CWResting
<1>3. ~Hw!Text!Bus.write
  BY <1>2, BusOfTextMux DEF Hw!Text!Muxes
<1>4. ~enc.write /\ enc.mux \in {"NONE", "TXT", "OWN"}
  BY <1>1 DEF EncShape, Hw!States
<1>5. ~Hw!Bus.write
  BY <1>3, <1>4, BusOfMux
<1> QED
  BY <1>5 DEF Commit

\* At rest the entities keep their registers of their kinds, and take over the
\* slave's registers when they are loaded.
LEMMA TreeAtRest ==
    ASSUME Typed, TreeShape, EncPart, MemSize \in Nat, enc.state # "TREE_WAIT",
           NEW w \in BOOLEAN, NEW d \in Byte,
           Hw!Tree!Tick(enc.writeTree, ctl.reg[1], ctl.reg[3], enc.startTree, w, d)
    PROVE  /\ TreeTyped' /\ tree'.size = tree.size
           /\ enc.state = "TREE_START" =>
                 /\ tree'.state = "IDLE" /\ tree'.src = ctl.reg[1] /\ tree'.dst = ctl.reg[3]
                 /\ tree'.off = 0 /\ ~tree'.done /\ ~tree'.read /\ ~tree'.write
<1>1. EncShape /\ TreeResting /\ ~enc.startTree /\ TreeTyped
  BY DEF EncPart, Typed
<1>2. /\ enc.writeTree \in BOOLEAN /\ (enc.writeTree <=> enc.state = "TREE_START")
      /\ tree.state = "IDLE" /\ ~tree.done /\ ~tree.read /\ ~tree.write
  BY <1>1 DEF EncShape, TreeShape, TreeResting
<1>3. ctl.reg[1] \in Nat /\ ctl.reg[3] \in Nat
  <2>1. 1 \in 0 .. 3 /\ 3 \in 0 .. 3
    OBVIOUS
  <2> QED
    BY <2>1 DEF Typed
<1> DEFINE p == ctl.reg[1]
           r == ctl.reg[3]
           s == enc.startTree
           v == enc.writeTree
<1>4. /\ p \in Nat /\ r \in Nat /\ ~s /\ v \in BOOLEAN /\ (v <=> enc.state = "TREE_START")
      /\ Hw!Tree!Tick(v, p, r, s, w, d)
  BY <1>1, <1>2, <1>3, Zenon
<1> HIDE DEF p, r, s, v
<1>5. /\ TreeTyped' /\ tree'.state = "IDLE" /\ tree'.size = tree.size
      /\ ~tree.read => ~tree'.read
      /\ ~tree.write => ~tree'.write
      /\ v => /\ tree'.src = p /\ tree'.dst = r /\ tree'.off = 0
              /\ tree'.done = tree.done
  BY <1>1, <1>2, <1>4, TreeRestTyped
<1> QED
  BY <1>2, <1>4, <1>5 DEF p, r

\* The text handler where it is not at work, or is loaded.
LEMMA TextAtRest ==
    ASSUME Typed, TextPart, EncPart, MemSize \in Nat, enc.state # "TEXT_WAIT",
           NEW w \in BOOLEAN, NEW d \in Byte, NEW latch \in Latches,
           Hw!Text!Tick(enc.writeText, ctl.reg[0], ctl.reg[2], ctl.reg[3], tree.size,
                        enc.startText, [wait |-> w, data |-> d], latch)
    PROVE  /\ TextTyped' /\ CRTyped' /\ CWTyped'
           /\ enc.state = "TEXT_START" =>
                 /\ text'.state = "IDLE" /\ text'.codes = ctl.reg[0]
                 /\ text'.src = ctl.reg[2] /\ text'.dst = ctl.reg[3]
                 /\ text'.hdr = tree.size /\ text'.off = 0 /\ ~text'.done
                 /\ ~text'.startCR /\ ~text'.startCW /\ ~text'.writeCW
<1>1. /\ EncShape /\ TextResting /\ ~enc.startText /\ TextTyped /\ CRTyped /\ CWTyped
      /\ TextShape /\ CRShape /\ CWShape /\ ReaderPart /\ WriterPart
  BY DEF EncPart, Typed, TextPart
<1>2. /\ enc.writeText \in BOOLEAN /\ (enc.writeText <=> enc.state = "TEXT_START")
      /\ enc.startText \in BOOLEAN
      /\ text.state = "IDLE" /\ ~text.done /\ ~text.startCR /\ ~text.startCW /\ ~text.writeCW
      /\ cr.state = "IDLE" /\ cw.state = "IDLE"
      /\ text.writeCW \in BOOLEAN /\ text.dstCW \in Nat /\ DOMAIN text = TextRegs
  BY <1>1 DEF EncShape, TextShape, TextResting, ReaderPart, WriterPart, CRResting, CWResting,
     TextTyped
<1>3. /\ ctl.reg[0] \in Nat /\ ctl.reg[2] \in Nat /\ ctl.reg[3] \in Nat /\ tree.size \in Nat
  <2>1. 0 \in 0 .. 3 /\ 2 \in 0 .. 3 /\ 3 \in 0 .. 3
    OBVIOUS
  <2> QED
    BY <2>1 DEF Typed, TreeTyped
<1> DEFINE answer == [wait |-> w, data |-> d]
           own == Hw!Text!Seen("TEXT_HANDLER", answer, latch)
           crd == Hw!Text!Seen("CODE_RD", answer, latch)
           cwr == Hw!Text!Seen("CODE_WR", answer, latch)
<1>4. /\ Hw!Text!EncodeText(enc.writeText, ctl.reg[0], ctl.reg[2], ctl.reg[3], tree.size,
                            enc.startText, own.wait, own.data)
      /\ Hw!Text!CR!Tick(text.startCR, text.codeAddr, crd.wait, crd.data)
      /\ Hw!Text!CW!Tick(text.writeCW, text.dstCW, text.startCW, text.wrCode, cwr.wait)
  BY DEF Hw!Text!Tick
<1>5. own.wait \in BOOLEAN /\ own.data \in Byte
  <2>1. latch.wait \in BOOLEAN /\ latch.data \in Byte
    BY LatchType
  <2>2. answer.wait \in BOOLEAN /\ answer.data \in Byte
    OBVIOUS
  <2> HIDE DEF answer
  <2> QED
    BY <2>1, <2>2 DEF Hw!Text!Seen
<1> HIDE DEF own, crd, cwr, answer
<1>6. CRTyped'
  BY <1>1, <1>2, <1>4, ReaderRestTyped
<1>7. CWTyped'
  BY <1>1, <1>2, <1>4, WriterRestTyped
<1> DEFINE c == ctl.reg[0]
           p == ctl.reg[2]
           q == ctl.reg[3]
           h == tree.size
           s == enc.startText
           v == enc.writeText
           x == own.wait
           y == own.data
<1>8. /\ c \in Nat /\ p \in Nat /\ q \in Nat /\ h \in Nat /\ s \in BOOLEAN /\ v \in BOOLEAN
      /\ x \in BOOLEAN /\ y \in Byte
      /\ Hw!Text!EncodeText(v, c, p, q, h, s, x, y)
      /\ v <=> enc.state = "TEXT_START"
  BY <1>2, <1>3, <1>4, <1>5, Zenon
<1> HIDE DEF c, p, q, h, s, v, x, y
<1>9. TextTyped'
  <2>1. TextTyped /\ CRTyped /\ TextShape
    BY Zenon, <1>1
  <2>2. /\ c \in Nat /\ p \in Nat /\ q \in Nat /\ h \in Nat /\ s \in BOOLEAN
        /\ v \in BOOLEAN /\ x \in BOOLEAN /\ y \in Byte
    BY Zenon, <1>8
  <2>3. Hw!Text!EncodeText(v, c, p, q, h, s, x, y)
    BY Zenon, <1>8
  <2> QED
    BY <2>1, <2>2, <2>3, TextTypedStep
<1>10. ASSUME v
       PROVE  /\ text'.state = "IDLE" /\ text'.codes = c /\ text'.src = p /\ text'.dst = q
              /\ text'.hdr = h /\ text'.off = 0 /\ ~text'.done
              /\ ~text'.startCR /\ ~text'.startCW /\ ~text'.writeCW
  <2>1. text' = [text EXCEPT !.codes = c, !.src = p, !.dst = q,
                             !.off = 0, !.codeAddr = 0, !.hdr = h]
    BY <1>8, <1>10 DEF Hw!Text!EncodeText, Hw!Text!Load
  <2> QED
    BY <1>2, <2>1, SMT DEF TextRegs
<1> QED
  BY <1>6, <1>7, <1>8, <1>9, <1>10 DEF c, p, q, h

-----------------------------------------------------------------------------
(* The total length, and a clock edge of a request as a whole *)

\* A byte of the total length leaves what is behind it.
LEMMA TotalByte ==
    ASSUME Serving, MemSize \in Nat, SameRequest, enc.state = "WR_TOTAL_LEN_WAIT",
           TreeOut, TextOut, WordIn(mem, Dst, enc.total, enc.k),
           enc.addr = Dst + enc.k, enc.data = WordByte(enc.total, enc.k),
           NEW wait \in BOOLEAN,
           mem' = Commit(mem, enc.write, wait, enc.addr, enc.data)
    PROVE  /\ Inputs' /\ mem' \in Memory(MemSize) /\ TreeOut' /\ TextOut'
           /\ wait => mem' = mem
           /\ ~wait => WordIn(mem', Dst, enc.total, enc.k + 1)
<1> DEFINE d == Dst
           t == Len(J.tree)
           b == Len(Body(J, X))
           f == Len(File(J, X))
           p == BodyAt
<1>1. /\ Fine(J, X) /\ mem \in Memory(MemSize)
      /\ enc.write /\ enc.write \in BOOLEAN /\ enc.k \in 0 .. 3 /\ enc.data \in Byte
  BY DEF Serving, Typed, EncPart, EncShape, EncTyped
<1>2. /\ d \in Nat /\ t \in Nat /\ b \in Nat /\ f \in Nat /\ p = d + 12 + t
      /\ f = 12 + t + b /\ d + f <= MemSize
  <2>1. /\ Dst \in Nat /\ BodyAt \in Nat /\ Len(J.tree) \in Nat
        /\ Len(Body(J, X)) \in Nat /\ Len(File(J, X)) \in Nat
        /\ BodyAt = Dst + 12 + Len(J.tree)
        /\ Len(File(J, X)) = 12 + Len(J.tree) + Len(Body(J, X))
        /\ Dst + Len(File(J, X)) <= MemSize
    BY <1>1, FileBounds
  <2> QED
    BY Zenon, <2>1
<1>3. /\ enc.addr = d + enc.k /\ WordIn(mem, d, enc.total, enc.k)
  OBVIOUS
<1>4. /\ WordIn(mem, d + 4, t, 4) /\ Holds(mem, d + 12, J.tree)
      /\ WordIn(mem, d + 8, N, 4) /\ Holds(mem, p, Body(J, X))
  BY Zenon DEF TreeOut, TextOut, BodyOut
<1>5. /\ TreeOut' = (WordIn(mem', d + 4, t, 4) /\ Holds(mem', d + 12, J.tree))
      /\ TextOut' = (WordIn(mem', d + 8, N, 4) /\ Holds(mem', p, Body(J, X)))
  <2>1. J' = J /\ X' = X /\ N' = N /\ Dst' = Dst /\ BodyAt' = BodyAt
    BY SameNumbers DEF SameRequest
  <2> QED
    BY <2>1, Zenon DEF TreeOut, TextOut, BodyOut
<1>6. Inputs' /\ mem' \in Memory(MemSize)
  <2>1. enc.write => enc.addr \in Dst .. Dst + Len(File(J, X)) - 1
    <3> HIDE DEF d, t, b, f, p
    <3>1. enc.addr \in d .. d + f - 1
      BY <1>1, <1>2, <1>3
    <3> QED
      BY <3>1 DEF d, f
  <2> HIDE DEF d, t, b, f, p
  <2> QED
    BY <1>1, <2>1, InputsServed
<1>7. \A i \in 1 .. Len(J.tree) : i \in 1 .. t
  OBVIOUS
<1>8. \A i \in 1 .. Len(Body(J, X)) : i \in 1 .. b
  OBVIOUS
<1> HIDE DEF d, t, b, f, p
<1>9. /\ enc.addr \in 0 .. MemSize - 1
      /\ \A k \in 0 .. enc.k - 1 : d + k \in 0 .. MemSize - 1 /\ d + k # enc.addr
      /\ \A k \in 0 .. 3 : d + 4 + k \in 0 .. MemSize - 1 /\ d + 4 + k # enc.addr
      /\ \A k \in 0 .. 3 : d + 8 + k \in 0 .. MemSize - 1 /\ d + 8 + k # enc.addr
      /\ \A i \in 1 .. t : d + 12 + i - 1 \in 0 .. MemSize - 1 /\ d + 12 + i - 1 # enc.addr
      /\ \A i \in 1 .. b : p + i - 1 \in 0 .. MemSize - 1 /\ p + i - 1 # enc.addr
  BY <1>1, <1>2, <1>3
<1>10. /\ \A x \in 0 .. MemSize - 1 : x # enc.addr => mem'[x] = mem[x]
       /\ ~wait => mem'[enc.addr] = enc.data
  <2>1. enc.write => enc.addr \in 0 .. MemSize - 1
    BY <1>9
  <2> DEFINE w == enc.write
             a == enc.addr
             v == enc.data
  <2>2. /\ w \in BOOLEAN /\ v \in Byte /\ mem \in Memory(MemSize)
        /\ mem' = Commit(mem, w, wait, a, v)
        /\ w => a \in 0 .. MemSize - 1
    BY <1>1, <2>1, Zenon
  <2> HIDE DEF w, a, v
  <2>3. /\ \A x \in 0 .. MemSize - 1 : ~w \/ x # a => mem'[x] = mem[x]
        /\ w /\ ~wait => mem'[a] = v
    BY <2>2, CommitStores
  <2> QED
    BY <1>1, <2>3, Zenon DEF w, a, v
<1>11. /\ \A k \in 0 .. enc.k - 1 : mem'[d + k] = mem[d + k]
       /\ \A k \in 0 .. 3 : mem'[d + 4 + k] = mem[d + 4 + k]
       /\ \A k \in 0 .. 3 : mem'[d + 8 + k] = mem[d + 8 + k]
       /\ \A i \in 1 .. t : mem'[d + 12 + i - 1] = mem[d + 12 + i - 1]
       /\ \A i \in 1 .. b : mem'[p + i - 1] = mem[p + i - 1]
  BY <1>9, <1>10, Zenon
<1>12. 4 - 1 = 3
  OBVIOUS
<1>13. TreeOut' /\ TextOut'
  <2>1. WordIn(mem', d + 4, t, 4) /\ WordIn(mem', d + 8, N, 4)
    BY <1>4, <1>11, <1>12, Zenon DEF WordIn
  <2>2. Holds(mem', d + 12, J.tree)
    BY <1>4, <1>7, <1>11, Zenon DEF Holds
  <2>3. Holds(mem', p, Body(J, X))
    BY <1>4, <1>8, <1>11, Zenon DEF Holds
  <2> QED
    BY <1>5, <2>1, <2>2, <2>3, Zenon
<1>14. wait => mem' = mem
  BY DEF Commit
<1>15. ASSUME ~wait PROVE WordIn(mem', d, enc.total, enc.k + 1)
  <2>1. mem'[d + enc.k] = WordByte(enc.total, enc.k)
    BY <1>3, <1>10, <1>15
  <2>2. \A k \in 0 .. enc.k - 1 : mem'[d + k] = WordByte(enc.total, k)
    BY <1>3, <1>11, Zenon DEF WordIn
  <2>3. \A k \in 0 .. (enc.k + 1) - 1 : k = enc.k \/ k \in 0 .. enc.k - 1
    BY <1>1
  <2>4. \A k \in 0 .. (enc.k + 1) - 1 : mem'[d + k] = WordByte(enc.total, k)
    BY <2>1, <2>2, <2>3, Zenon
  <2> QED
    BY <2>4, Zenon DEF WordIn
<1> QED
  BY <1>6, <1>13, <1>14, <1>15 DEF d

\* The three fields, the tree and the body are the file.
LEMMA FileIsOut ==
    ASSUME Fine(J, X), MemSize \in Nat, NEW m, WordIn(m, Dst, Len(File(J, X)), 4),
           WordIn(m, Dst + 4, Len(J.tree), 4), Holds(m, Dst + 12, J.tree),
           WordIn(m, Dst + 8, N, 4), Holds(m, BodyAt, Body(J, X))
    PROVE  Holds(m, Dst, File(J, X))
<1> DEFINE d == Dst
<1>1. d \in Nat /\ BodyAt = d + 12 + Len(J.tree)
  BY FileBounds
<1>2. /\ WordIn(m, d, Len(File(J, X)), 4)
      /\ WordIn(m, d + 4, Len(J.tree), 4) /\ Holds(m, d + 12, J.tree)
      /\ WordIn(m, d + 8, Len(X), 4)
      /\ Holds(m, d + 12 + Len(J.tree), Body(J, X))
  BY <1>1 DEF N
<1> HIDE DEF d
<1>3. Holds(m, d, File(J, X))
  BY <1>1, <1>2, FileFromParts
<1> QED
  BY <1>3 DEF d

-----------------------------------------------------------------------------
(* A clock edge of a request as a whole *)

\* What is in memory stays where the memory stays.
LEMMA OutsKept ==
    ASSUME SameRequest, mem' = mem
    PROVE  /\ Inputs => Inputs'
           /\ TreeOut => TreeOut'
           /\ TextOut => TextOut'
           /\ FileOut => FileOut'
<1>1. J' = J /\ X' = X /\ N' = N /\ Dst' = Dst /\ BodyAt' = BodyAt
  BY SameNumbers DEF SameRequest
<1> QED
  BY <1>1 DEF Inputs, TreeOut, TextOut, BodyOut, FileOut

\* The text handler is loaded.
LEMMA TextIsLoaded ==
    ASSUME Serving, MemSize \in Nat, SameRequest, TextShape',
           text'.state = "IDLE", text'.codes = 0, text'.src = TextPlace(J),
           text'.dst = Dst, text'.hdr = Len(J.tree), text'.off = 0, ~text'.done,
           ~text'.startCR, ~text'.startCW, ~text'.writeCW
    PROVE  TextWork'
<1>1. J' = J /\ X' = X /\ N' = N /\ Dst' = Dst
  BY SameNumbers DEF SameRequest
<1>2. N \in Nat
  BY FileBounds DEF Serving
<1>3. 0 \in 0 .. N
  BY <1>2
<1>4. Letter'
  BY DEF Letter
<1>5. Stream'
  BY DEF Stream
<1> QED
  BY <1>1, <1>3, <1>4, <1>5 DEF TextWork

\* The total length of the encoder is the length of the file.
LEMMA TotalLength ==
    ASSUME Fine(J, X), MemSize \in Nat, tree.size = Len(J.tree), cw.size = Len(Body(J, X))
    PROVE  12 + tree.size + cw.size = Len(File(J, X))
  BY FileBounds

\* A clock edge while a request is served, in each state of the top-level process.
LEMMA ServedEdge ==
    ASSUME Serving, Work, ctl.status => enc.state = "IDLE", MemSize \in Nat, SameRequest,
           TreeShape', TextPart', EncPart',
           NEW slv, NEW wait \in BOOLEAN, NEW latch \in Latches, FpgaEdge(slv, wait, latch)
    PROVE  /\ TreeTyped' /\ TextTyped' /\ CRTyped' /\ CWTyped' /\ EncTyped'
           /\ mem' \in Memory(MemSize) /\ Inputs' /\ Work'
<1>1. /\ Typed /\ TreeShape /\ TextPart /\ EncPart /\ CtlShape /\ Inputs /\ Fine(J, X)
      /\ ~ctl.reset /\ EncShape /\ enc.done \in BOOLEAN
      /\ enc.done => enc.state = "IDLE"
      /\ enc.k \in 0 .. 3 /\ enc.state \in Hw!States
      /\ mem \in Memory(MemSize) /\ tree.size \in Nat /\ cw.size \in Nat
  BY DEF Serving, Typed, EncPart, EncShape, TreeTyped, CWTyped
<1>2. PICK w \in BOOLEAN : Hw!Encode(w) /\ (enc.mux = "OWN" => w = wait)
  BY EdgeParts
<1>3. /\ mem' = Commit(mem, Hw!Bus.write, wait, Hw!Bus.addr, Hw!Bus.data)
      /\ Hw!Ctrl(slv)
  BY EdgeParts
<1>4. ctl'.status => enc.done \/ ctl.status
  BY <1>3 DEF Hw!Ctrl, Hw!NextStatus
<1>5. enc.done \/ ctl.status => FileOut /\ enc.state = "IDLE"
  BY <1>1 DEF Work
<1>6. /\ enc.state = "IDLE" => enc'.state \in {"IDLE", "TREE_WR_INPUT"} /\ ~enc'.done
      /\ enc.state = "TREE_WR_INPUT" => enc'.state = "TREE_START"
      /\ enc.state = "TREE_START" => enc'.state = "TREE_WAIT"
      /\ enc.state = "TREE_WAIT" /\ tree.done => enc'.state = "TEXT_WR_INPUT"
      /\ enc.state = "TREE_WAIT" /\ ~tree.done => enc'.state = "TREE_WAIT"
      /\ enc.state = "TEXT_WR_INPUT" => enc'.state = "TEXT_START"
      /\ enc.state = "TEXT_START" => enc'.state = "TEXT_WAIT"
      /\ enc.state = "TEXT_WAIT" /\ ~text.done => enc'.state = "TEXT_WAIT"
      /\ enc.state # "IDLE" /\ enc.state # "WR_TOTAL_LEN_WAIT" => enc'.done = enc.done
  BY <1>1, <1>2, EncMoves
<1>7. EncTyped'
  <2>1. EncTyped /\ TreeTyped /\ CWTyped /\ ctl.reg \in [0 .. 3 -> Nat]
    BY <1>1 DEF Typed
  <2> QED
    BY <1>1, <1>2, <2>1, EncTypedStep
<1>8. ASSUME enc.state # "TREE_WAIT"
      PROVE  /\ TreeTyped' /\ tree'.size = tree.size
             /\ enc.state = "TREE_START" =>
                   /\ tree'.state = "IDLE" /\ tree'.src = TreePlace(J) /\ tree'.dst = Dst
                   /\ tree'.off = 0 /\ ~tree'.done /\ ~tree'.read /\ ~tree'.write
  <2>1. PICK v \in BOOLEAN, d \in Byte :
           Hw!Tree!Tick(enc.writeTree, ctl.reg[1], ctl.reg[3], enc.startTree, v, d)
    BY <1>1, ClockParts
  <2>2. ctl.reg[1] = TreePlace(J) /\ ctl.reg[3] = Dst
    BY DEF Serving
  <2> QED
    BY <1>1, <1>8, <2>1, <2>2, TreeAtRest
<1>9. ASSUME enc.state # "TEXT_WAIT"
      PROVE  /\ TextTyped' /\ CRTyped' /\ CWTyped'
             /\ enc.state = "TEXT_START" =>
                   /\ text'.state = "IDLE" /\ text'.codes = 0
                   /\ text'.src = TextPlace(J) /\ text'.dst = Dst
                   /\ text'.hdr = tree.size /\ text'.off = 0 /\ ~text'.done
                   /\ ~text'.startCR /\ ~text'.startCW /\ ~text'.writeCW
  <2>1. PICK v \in BOOLEAN, d \in Byte :
           Hw!Text!Tick(enc.writeText, ctl.reg[0], ctl.reg[2], ctl.reg[3], tree.size,
                        enc.startText, [wait |-> v, data |-> d], latch)
    BY <1>1, ClockParts
  <2>2. ctl.reg[0] = 0 /\ ctl.reg[2] = TextPlace(J) /\ ctl.reg[3] = Dst
    BY DEF Serving
  <2> QED
    BY <1>1, <1>9, <2>1, <2>2, TextAtRest
<1>10. ASSUME enc.state \notin {"TREE_WAIT", "TEXT_WAIT", "WR_TOTAL_LEN_WAIT"}
       PROVE  /\ mem' = mem /\ Inputs'
              /\ TreeOut => TreeOut'
              /\ TextOut => TextOut'
              /\ FileOut => FileOut'
  <2>1. mem' = mem
    BY <1>1, <1>3, <1>10, NobodyWrites
  <2> QED
    BY <1>1, <2>1, OutsKept
<1>11. ASSUME enc.state \in {"TREE_WAIT", "TEXT_WAIT"} PROVE ~enc'.done /\ ~ctl'.status
  BY <1>1, <1>4, <1>5, <1>6, <1>11
<1>12. J' = J /\ X' = X /\ Dst' = Dst /\ N' = N
  BY SameNumbers DEF SameRequest
<1>13. CASE enc.state = "IDLE"
  <2>1. ctl'.status => FileOut'
    BY <1>4, <1>5, <1>10, <1>13
  <2>2. Work'
    BY <1>6, <1>13, <2>1 DEF Work
  <2> QED
    BY <1>1, <1>7, <1>8, <1>9, <1>10, <1>13, <2>2
<1>14. CASE enc.state = "TREE_WR_INPUT"
  <2>1. ~ctl'.status /\ ~enc'.done
    BY <1>4, <1>5, <1>6, <1>14
  <2>2. Work'
    BY <1>6, <1>14, <2>1 DEF Work
  <2> QED
    BY <1>1, <1>7, <1>8, <1>9, <1>10, <1>14, <2>2
<1>15. CASE enc.state = "TREE_START"
  <2>1. ~ctl'.status /\ ~enc'.done
    BY <1>4, <1>5, <1>6, <1>15
  <2>2. TreeWork'
    BY <1>8, <1>10, <1>15, TreeIsLoaded
  <2>3. Work'
    BY <1>6, <1>15, <2>1, <2>2 DEF Work
  <2> QED
    BY <1>1, <1>7, <1>8, <1>9, <1>10, <1>15, <2>3
<1>16. CASE enc.state = "TREE_WAIT"
  <2>1. TreeWork
    BY <1>16 DEF Work
  <2>2. /\ TreeWork' /\ TreeTyped' /\ Inputs' /\ mem' \in Memory(MemSize)
        /\ tree.done => tree'.size = Len(J.tree) /\ TreeOut'
    BY <1>16, <2>1, TreeWaitStep
  <2>3. Work'
    <3>1. tree.done => tree'.size = Len(J.tree)' /\ TreeOut'
      BY <1>12, <2>2
    <3> QED
      BY <1>6, <1>11, <1>16, <2>2, <3>1 DEF Work
  <2> QED
    BY <1>7, <1>9, <1>16, <2>2, <2>3
<1>17. CASE enc.state = "TEXT_WR_INPUT"
  <2>1. ~ctl'.status /\ ~enc'.done
    BY <1>4, <1>5, <1>6, <1>17
  <2>2. tree'.size = Len(J.tree)' /\ TreeOut'
    BY <1>8, <1>10, <1>12, <1>17 DEF Work
  <2>3. Work'
    BY <1>6, <1>17, <2>1, <2>2 DEF Work
  <2> QED
    BY <1>1, <1>7, <1>8, <1>9, <1>10, <1>17, <2>3
<1>18. CASE enc.state = "TEXT_START"
  <2>1. ~ctl'.status /\ ~enc'.done
    BY <1>4, <1>5, <1>6, <1>18
  <2>2. tree'.size = Len(J.tree)' /\ TreeOut' /\ tree.size = Len(J.tree)
    BY <1>8, <1>10, <1>12, <1>18 DEF Work
  <2>3. TextShape'
    BY DEF TextPart
  <2>4. TextWork'
    BY <1>9, <1>18, <2>2, <2>3, TextIsLoaded
  <2>5. Work'
    BY <1>6, <1>18, <2>1, <2>2, <2>4 DEF Work
  <2> QED
    BY <1>1, <1>7, <1>8, <1>9, <1>10, <1>18, <2>5
<1>19. CASE enc.state = "TEXT_WAIT"
  <2>1. Encoding
    BY <1>19 DEF Encoding, Work
  <2>2. /\ TextWork' /\ TextTyped' /\ CRTyped' /\ CWTyped'
        /\ Inputs' /\ mem' \in Memory(MemSize) /\ TreeOut'
        /\ text.done => cw.size = Len(Body(J, X)) /\ TextOut'
    BY <2>1, TextWaitStep
  <2>3. tree'.size = Len(J.tree)' /\ tree.size = Len(J.tree)
    BY <1>8, <1>12, <1>19 DEF Work
  <2>4. CASE ~text.done
    <3>1. Work'
      BY <1>6, <1>11, <1>19, <2>2, <2>3, <2>4 DEF Work
    <3> QED
      BY <1>7, <1>8, <1>19, <2>2, <3>1
  <2>5. CASE text.done
    <3>1. /\ enc'.state = "WR_TOTAL_LEN" /\ enc'.k = 0
          /\ enc'.total = 12 + tree.size + cw.size
      BY <1>1, <1>2, <1>19, <2>5, EncMoves
    <3>2. enc'.total = Len(File(J, X))'
      BY <1>1, <1>12, <2>2, <2>3, <2>5, <3>1, TotalLength
    <3>3. WordIn(mem, Dst, enc.total, enc.k)'
      BY <3>1 DEF WordIn
    <3>4. Work'
      BY <1>11, <1>19, <2>2, <2>3, <2>5, <3>1, <3>2, <3>3 DEF Work
    <3> QED
      BY <1>7, <1>8, <1>19, <2>2, <3>4
  <2> QED
    BY <2>4, <2>5
<1>20. CASE enc.state = "WR_TOTAL_LEN"
  <2>1. ~ctl'.status /\ ~enc'.done
    BY <1>4, <1>5, <1>6, <1>20
  <2>2. /\ enc'.state = "WR_TOTAL_LEN_WAIT" /\ enc'.k = enc.k
        /\ enc'.total = enc.total /\ enc'.addr = ctl.reg[3] + enc.k
        /\ enc'.data = Hw!WordByte(enc.total, enc.k)
    BY <1>1, <1>2, <1>20, EncMoves
  <2>3. /\ tree.size = Len(J.tree) /\ TreeOut /\ TextOut
        /\ enc.total = Len(File(J, X)) /\ WordIn(mem, Dst, enc.total, enc.k)
    BY <1>20 DEF Work
  <2>4. enc'.addr = (Dst + enc.k)' /\ enc'.data = WordByte(enc.total, enc.k)'
    <3>1. ctl.reg[3] = Dst
      BY DEF Serving
    <3> QED
      BY <1>12, <2>2, <3>1 DEF Hw!WordByte, WordByte
  <2>5. /\ tree'.size = Len(J.tree)' /\ TreeOut' /\ TextOut'
        /\ enc'.total = Len(File(J, X))' /\ WordIn(mem, Dst, enc.total, enc.k)'
    BY <1>8, <1>10, <1>12, <1>20, <2>2, <2>3
  <2>6. Work'
    BY <1>20, <2>1, <2>2, <2>4, <2>5 DEF Work
  <2> QED
    BY <1>1, <1>7, <1>8, <1>9, <1>10, <1>20, <2>6
<1>21. CASE enc.state = "WR_TOTAL_LEN_WAIT"
  <2>1. enc.mux = "OWN" /\ w = wait /\ ~ctl'.status /\ ~enc.done
    BY <1>1, <1>2, <1>4, <1>5, <1>21 DEF EncShape
  <2>2. /\ tree.size = Len(J.tree) /\ TreeOut /\ TextOut
        /\ enc.total = Len(File(J, X)) /\ WordIn(mem, Dst, enc.total, enc.k)
        /\ enc.addr = Dst + enc.k /\ enc.data = WordByte(enc.total, enc.k)
    BY <1>21 DEF Work
  <2>3. mem' = Commit(mem, enc.write, wait, enc.addr, enc.data)
    BY <1>3, <2>1, BusOfMux
  <2>4. /\ Inputs' /\ mem' \in Memory(MemSize) /\ TreeOut' /\ TextOut'
        /\ wait => mem' = mem
        /\ ~wait => WordIn(mem', Dst, enc.total, enc.k + 1)
    BY <1>21, <2>2, <2>3, TotalByte
  <2>5. tree'.size = Len(J.tree)'
    BY <1>8, <1>12, <1>21, <2>2
  <2>6. CASE wait
    <3>1. /\ enc'.state = "WR_TOTAL_LEN_WAIT" /\ enc'.k = enc.k
          /\ enc'.total = enc.total /\ enc'.addr = enc.addr /\ enc'.data = enc.data
          /\ enc'.done = enc.done
      BY <1>1, <1>2, <1>21, <2>1, <2>6, EncMoves
    <3>2. /\ enc'.total = Len(File(J, X))' /\ WordIn(mem, Dst, enc.total, enc.k)'
          /\ enc'.addr = (Dst + enc.k)' /\ enc'.data = WordByte(enc.total, enc.k)'
      BY <1>12, <2>2, <2>4, <2>6, <3>1
    <3>3. Work'
      BY <2>1, <2>4, <2>5, <3>1, <3>2 DEF Work
    <3> QED
      BY <1>7, <1>8, <1>9, <1>21, <2>4, <3>3
  <2>7. CASE ~wait /\ enc.k < 3
    <3>1. /\ enc'.state = "WR_TOTAL_LEN" /\ enc'.k = enc.k + 1
          /\ enc'.total = enc.total /\ enc'.done = enc.done
      BY <1>1, <1>2, <1>21, <2>1, <2>7, EncMoves
    <3>2. /\ enc'.total = Len(File(J, X))' /\ WordIn(mem, Dst, enc.total, enc.k)'
      BY <1>12, <2>2, <2>4, <2>7, <3>1
    <3>3. Work'
      BY <2>1, <2>4, <2>5, <3>1, <3>2 DEF Work
    <3> QED
      BY <1>7, <1>8, <1>9, <1>21, <2>4, <3>3
  <2>8. CASE ~wait /\ ~(enc.k < 3)
    <3>1. enc'.state = "IDLE"
      BY <1>1, <1>2, <1>21, <2>1, <2>8, EncMoves
    <3>2. enc.k + 1 = 4
      BY <1>1, <2>8
    <3>3. WordIn(mem', Dst, Len(File(J, X)), 4)
      BY <2>2, <2>4, <2>8, <3>2
    <3>4. FileOut'
      <4>1. BodyAt' = BodyAt
        BY SameNumbers
      <4>2. /\ WordIn(mem', Dst + 4, Len(J.tree), 4) /\ Holds(mem', Dst + 12, J.tree)
            /\ WordIn(mem', Dst + 8, N, 4) /\ Holds(mem', BodyAt, Body(J, X))
        BY <1>12, <2>4, <4>1 DEF TreeOut, TextOut, BodyOut
      <4>3. Holds(mem', Dst, File(J, X))
        BY <1>1, <3>3, <4>2, FileIsOut
      <4> QED
        BY <1>12, <4>3 DEF FileOut
    <3>5. Work'
      BY <3>1, <3>4 DEF Work
    <3> QED
      BY <1>7, <1>8, <1>9, <1>21, <2>4, <3>5
  <2> QED
    BY <2>6, <2>7, <2>8
<1> QED
  BY <1>1, <1>13, <1>14, <1>15, <1>16, <1>17, <1>18, <1>19, <1>20, <1>21 DEF Hw!States

-----------------------------------------------------------------------------
(* The steps of the driver *)

\* The one thread has a name.
LEMMA OneThread == ASSUME Undisturbed PROVE Threads = {One}
  BY DEF Undisturbed, One

\* The modelled memory has a size.
LEMMA MemSizeIsNat == ASSUME WellFormed PROVE MemSize \in Nat
  BY DEF WellFormed, Words

\* What the entities hold does not change where they do not move.
LEMMA TypedStays ==
    ASSUME Typed, UNCHANGED hwVars, mem' \in Memory(MemSize)
    PROVE  Typed'
  BY DEF Typed, hwVars, TreeTyped, TextTyped, CRTyped, CWTyped, EncTyped

ThreadRecs == [pc : Pcs, i : 0 .. 3, job : Jobs,
             text : Seq(Byte), total : Nat, file : Seq(Byte)]

\* A thread goes on at another line.
LEMMA GoesOn ==
    ASSUME Kept, One \in Threads, NEW pc \in Pcs, NEW i \in 0 .. 3, NEW total \in Nat,
           thread' = [thread EXCEPT ![One].pc = pc, ![One].i = i, ![One].total = total]
    PROVE  /\ thread' \in [Threads -> ThreadRecs]
           /\ thread'[One].pc = pc /\ thread'[One].i = i /\ thread'[One].total = total
           /\ thread'[One].file = thread[One].file
           /\ SameRequest
<1>1. thread \in [Threads -> ThreadRecs]
  BY DEF Kept, ThreadRecs
<1>2. thread' = [thread EXCEPT ![One] = [thread[One] EXCEPT !.pc = pc, !.i = i, !.total = total]]
  BY <1>1
<1> DEFINE r == [thread[One] EXCEPT !.pc = pc, !.i = i, !.total = total]
<1>3. /\ r \in ThreadRecs /\ r.pc = pc /\ r.i = i /\ r.total = total
      /\ r.job = thread[One].job /\ r.text = thread[One].text
      /\ r.file = thread[One].file
  BY <1>1 DEF ThreadRecs
<1> HIDE DEF r
<1>4. thread' = [thread EXCEPT ![One] = r]
  BY <1>2 DEF r
<1>5. thread'[One] = r
  BY <1>1, <1>4
<1>6. thread' \in [Threads -> ThreadRecs]
  <2>1. r \in ThreadRecs
    BY <1>3
  <2> HIDE DEF ThreadRecs
  <2> QED
    BY <1>1, <1>4, <2>1
<1> QED
  BY <1>3, <1>5, <1>6 DEF SameRequest, J, X

\* A thread that takes a request.
LEMMA Begun ==
    ASSUME NEW job \in Jobs, NEW x \in Seq(Byte)
    PROVE  /\ [Asleep(job) EXCEPT !.pc = "codes", !.text = x] \in ThreadRecs
           /\ [Asleep(job) EXCEPT !.pc = "codes", !.text = x].pc = "codes"
           /\ [Asleep(job) EXCEPT !.pc = "codes", !.text = x].job = job
           /\ [Asleep(job) EXCEPT !.pc = "codes", !.text = x].text = x
<1>1. <<>> \in Seq(Byte) /\ "idle" \in Pcs /\ "codes" \in Pcs /\ NoReply \in Seq(Byte)
  BY EmptySeq DEF Pcs, NoReply
<1> DEFINE q == Asleep(job)
<1>2. q \in ThreadRecs /\ q.job = job
  BY <1>1, SMT DEF Asleep, ThreadRecs
<1> HIDE DEF q
<1> QED
  <2>1. /\ [q EXCEPT !.pc = "codes", !.text = x] \in ThreadRecs
        /\ [q EXCEPT !.pc = "codes", !.text = x].pc = "codes"
        /\ [q EXCEPT !.pc = "codes", !.text = x].job = q.job
        /\ [q EXCEPT !.pc = "codes", !.text = x].text = x
    BY <1>1, <1>2 DEF ThreadRecs
  <2> QED
    BY <1>2, <2>1 DEF q

\* Request.
LEMMA RequestData ==
    ASSUME Data, WellFormed, One \in Threads, NEW job \in Jobs, NEW tail \in Tails,
           Request(One, job, tail)
    PROVE  Data'
<1>1. /\ thread' = [thread EXCEPT ![One] = [Asleep(job) EXCEPT
                       !.pc = "codes", !.text = job.text \o tail]]
      /\ gpio' = TRUE /\ addrs' = addrs /\ mem' = mem /\ UNCHANGED hwVars
  BY DEF Request
<1>2. Typed /\ Kept /\ thread \in [Threads -> ThreadRecs]
  BY DEF Data, Kept, ThreadRecs
<1>3. Fine(job, job.text \o tail)
  BY DEF WellFormed
<1> DEFINE x == job.text \o tail
           r == [Asleep(job) EXCEPT !.pc = "codes", !.text = x]
<1>4. x \in Seq(Byte)
  BY <1>3, FineTypes, Strings
<1> HIDE DEF x
<1>5. r \in ThreadRecs /\ r.pc = "codes" /\ r.job = job /\ r.text = x
  BY <1>4, Begun
<1> HIDE DEF r
<1>6. thread' = [thread EXCEPT ![One] = r]
  BY <1>1 DEF r, x
<1>7. thread'[One] = r /\ thread' \in [Threads -> ThreadRecs]
  BY <1>2, <1>5, <1>6
<1>8. Typed'
  <2>1. mem' \in Memory(MemSize)
    BY <1>1, <1>2 DEF Typed
  <2> QED
    BY <1>1, <1>2, <2>1, TypedStays
<1>9. J' = job /\ X' = x /\ thread'[One].pc = "codes"
  BY <1>5, <1>7 DEF J, X
<1>10. Fine(J, X)'
  BY <1>3, <1>9 DEF x
<1>11. Driven'
  BY <1>9, <1>10 DEF Driven, Working, HasFile
<1>12. Kept'
  BY <1>1, <1>2, <1>7 DEF Kept, ThreadRecs, hwVars
<1> QED
  BY <1>8, <1>11, <1>12 DEF Data

\* write_codes_to_mem.
LEMMA CodesData ==
    ASSUME Data, WellFormed, One \in Threads, WriteCodesToMem(One)
    PROVE  Data'
<1>1. /\ thread[One].pc = "codes" /\ thread' = [thread EXCEPT ![One].pc = "tree"]
      /\ mem' = WithCodes(mem, J.codes)
      /\ addrs' = addrs /\ gpio' = gpio /\ UNCHANGED hwVars
  BY DEF WriteCodesToMem, Goto, J
<1>2. Typed /\ Kept /\ Driven /\ mem \in Memory(MemSize) /\ MemSize \in Nat /\ MemSize \in Words
  BY MemSizeIsNat DEF Data, Typed, WellFormed
<1>3. Fine(J, X)
  BY <1>1, <1>2 DEF Driven
<1>4. J.codes \in CodeTables /\ TableEnd(J.codes) < MemSize
  <2>1. /\ TableEnd(J.codes) \in Nat /\ TreePlace(J) \in Nat
        /\ TextPlace(J) \in Nat /\ FilePlace(J, X) \in Nat
        /\ Len(J.tree) \in Nat /\ Len(X) \in Nat /\ Len(Body(J, X)) \in Nat
        /\ TableEnd(J.codes) < TreePlace(J)
        /\ TreePlace(J) + Len(J.tree) < TextPlace(J)
        /\ TextPlace(J) + Len(X) < FilePlace(J, X)
        /\ FilePlace(J, X) + 12 + Len(J.tree) + Len(Body(J, X)) <= MemSize
    BY Zenon, <1>2, <1>3, LayoutNumbers
  <2>2. TableEnd(J.codes) < MemSize
    BY <1>2, <2>1
  <2> QED
    BY Zenon, <1>3, <2>2, FineTypes
<1>5. mem' \in Memory(MemSize) /\ TableAt(mem', J.codes)
  BY <1>1, <1>2, <1>4, CodesWritten
<1>6. /\ thread' \in [Threads -> ThreadRecs] /\ thread'[One].pc = "tree" /\ SameRequest
  <2>1. thread' = [thread EXCEPT ![One].pc = "tree", ![One].i = thread[One].i,
                                 ![One].total = thread[One].total]
    BY <1>1, <1>2 DEF Kept
  <2>2. "tree" \in Pcs /\ thread[One].i \in 0 .. 3 /\ thread[One].total \in Nat
    BY <1>2 DEF Pcs, Kept
  <2> QED
    BY <1>2, <2>1, <2>2, GoesOn
<1>7. Typed'
  BY <1>1, <1>2, <1>5, TypedStays
<1>8. Driven'
  BY <1>3, <1>5, <1>6 DEF Driven, SameRequest, Working, HasFile
<1>9. Kept'
  BY <1>1, <1>2, <1>6 DEF Kept, ThreadRecs, hwVars
<1> QED
  BY <1>7, <1>8, <1>9 DEF Data

\* The places the driver computes are within the memory.
LEMMA PlacesInMemory ==
    ASSUME NEW job, NEW x, Fine(job, x), MemSize \in Nat
    PROVE  /\ TreePlace(job) \in MemWord /\ TextPlace(job) \in MemWord
           /\ FilePlace(job, x) \in MemWord
<1> DEFINE a == TreePlace(job)
           b == TextPlace(job)
           c == FilePlace(job, x)
           i == Len(job.tree)
           j == Len(x)
           k == Len(Body(job, x))
<1>1. /\ a \in Nat /\ b \in Nat /\ c \in Nat
      /\ i \in Nat /\ j \in Nat /\ k \in Nat
      /\ a + i < b /\ b + j < c /\ c + 12 + i + k <= MemSize
  BY LayoutNumbers, Zenon
<1> HIDE DEF a, b, c, i, j, k
<1>2. a \in MemWord /\ b \in MemWord /\ c \in MemWord
  BY <1>1 DEF MemWord
<1> QED
  BY <1>2 DEF a, b, c

\* write_code_tree_to_mem.
LEMMA TreeData ==
    ASSUME Data, WellFormed, One \in Threads, WriteTreeToMem(One)
    PROVE  Data'
<1> DEFINE last == WordAt(mem, 4 * (NLetters - 1))
           at == Behind(last, StrLen(mem, last))
<1>1. /\ thread[One].pc = "tree" /\ thread' = [thread EXCEPT ![One].pc = "text"]
      /\ addrs' = [addrs EXCEPT !.treeStr = at]
      /\ mem' = PutStr(mem, at, J.tree)
      /\ gpio' = gpio /\ UNCHANGED hwVars
  BY DEF WriteTreeToMem, Goto, J
<1>2. Typed /\ Kept /\ Driven /\ mem \in Memory(MemSize) /\ MemSize \in Nat
  BY MemSizeIsNat DEF Data, Typed
<1>3. Fine(J, X) /\ TableAt(mem, J.codes)
  BY <1>1, <1>2 DEF Driven
<1>4. at = TreePlace(J)
  BY <1>2, <1>3, TreeIsPlaced, Zenon
<1>5. /\ PutStr(mem, at, J.tree) \in Memory(MemSize)
      /\ TableAt(PutStr(mem, at, J.tree), J.codes)
      /\ StringAt(PutStr(mem, at, J.tree), TreePlace(J), J.tree)
  BY <1>2, <1>3, TreeIsPlaced, Zenon
<1> HIDE DEF at
<1>6. /\ mem' \in Memory(MemSize) /\ TableAt(mem', J.codes)
      /\ StringAt(mem', TreePlace(J), J.tree)
  BY <1>1, <1>5
<1>7. /\ thread' \in [Threads -> ThreadRecs] /\ thread'[One].pc = "text" /\ SameRequest
  <2>1. thread' = [thread EXCEPT ![One].pc = "text", ![One].i = thread[One].i,
                                 ![One].total = thread[One].total]
    BY <1>1, <1>2 DEF Kept
  <2>2. "text" \in Pcs /\ thread[One].i \in 0 .. 3 /\ thread[One].total \in Nat
    BY <1>2 DEF Pcs, Kept
  <2> QED
    BY <1>2, <2>1, <2>2, GoesOn
<1>8. addrs'.treeStr = TreePlace(J)
      /\ addrs' \in [treeStr : MemWord, textSrc : MemWord, dst : MemWord]
  <2>1. TreePlace(J) \in MemWord
    BY <1>2, <1>3, PlacesInMemory
  <2> QED
    BY <1>1, <1>2, <1>4, <2>1 DEF Kept
<1>9. Typed'
  BY <1>1, <1>2, <1>6, TypedStays
<1>10. Driven'
  BY <1>3, <1>6, <1>7, <1>8 DEF Driven, SameRequest, Working, HasFile
<1>11. Kept'
  BY <1>1, <1>2, <1>7, <1>8 DEF Kept, ThreadRecs, hwVars
<1> QED
  BY <1>9, <1>10, <1>11 DEF Data

\* write_text_to_mem.
LEMMA TextData ==
    ASSUME Data, WellFormed, One \in Threads, WriteTextToMem(One)
    PROVE  Data'
<1> DEFINE at == Behind(addrs.treeStr, StrLen(mem, addrs.treeStr))
           m == PutStr(mem, at, X)
           dst == Behind(at, StrLen(m, at))
<1>1. /\ thread[One].pc = "text"
      /\ thread' = [thread EXCEPT ![One].pc = "addrs", ![One].i = 0]
      /\ addrs' = [addrs EXCEPT !.textSrc = at, !.dst = dst]
      /\ mem' = m
      /\ gpio' = gpio /\ UNCHANGED hwVars
  BY DEF WriteTextToMem, X
<1>2. Typed /\ Kept /\ Driven /\ mem \in Memory(MemSize) /\ MemSize \in Nat
  BY MemSizeIsNat DEF Data, Typed
<1>3. /\ Fine(J, X) /\ TableAt(mem, J.codes) /\ StringAt(mem, TreePlace(J), J.tree)
      /\ addrs.treeStr = TreePlace(J)
  BY <1>1, <1>2 DEF Driven
<1>4. LET a == Behind(TreePlace(J), StrLen(mem, TreePlace(J)))
          p == PutStr(mem, a, X)
      IN  /\ a = TextPlace(J) /\ p \in Memory(MemSize)
          /\ TableAt(p, J.codes) /\ StringAt(p, TreePlace(J), J.tree)
          /\ StringAt(p, TextPlace(J), X)
          /\ Behind(a, StrLen(p, a)) = FilePlace(J, X)
  BY <1>2, <1>3, TextIsPlaced, Zenon
<1>5. /\ at = TextPlace(J) /\ m \in Memory(MemSize)
      /\ TableAt(m, J.codes) /\ StringAt(m, TreePlace(J), J.tree)
      /\ StringAt(m, TextPlace(J), X) /\ dst = Dst
  BY <1>3, <1>4 DEF Dst
<1> HIDE DEF at, m, dst
<1>6. /\ thread' \in [Threads -> ThreadRecs] /\ SameRequest
      /\ thread'[One].pc = "addrs" /\ thread'[One].i = 0
  <2>1. thread' = [thread EXCEPT ![One].pc = "addrs", ![One].i = 0,
                                 ![One].total = thread[One].total]
    BY <1>1, <1>2 DEF Kept
  <2>2. "addrs" \in Pcs /\ 0 \in 0 .. 3 /\ thread[One].total \in Nat
    BY <1>2 DEF Pcs, SlavePcs, Kept
  <2> QED
    BY <1>2, <2>1, <2>2, GoesOn
<1>7. /\ addrs' = [treeStr |-> TreePlace(J), textSrc |-> TextPlace(J), dst |-> Dst]
      /\ addrs' \in [treeStr : MemWord, textSrc : MemWord, dst : MemWord]
  <2>1. TreePlace(J) \in MemWord /\ TextPlace(J) \in MemWord /\ Dst \in MemWord
    BY <1>2, <1>3, PlacesInMemory DEF Dst
  <2>2. addrs \in [treeStr : MemWord, textSrc : MemWord, dst : MemWord]
    BY <1>2 DEF Kept
  <2> HIDE DEF Dst
  <2> QED
    BY <1>1, <1>3, <1>5, <2>1, <2>2
<1>8. Dst' = Dst
  BY <1>6, SameNumbers
<1>9. Inputs'
  BY <1>1, <1>5, <1>6 DEF Inputs, SameRequest
<1>10. Typed'
  BY <1>1, <1>2, <1>5, TypedStays
<1>11. Fine(J, X)' /\ addrs' = [treeStr |-> TreePlace(J), textSrc |-> TextPlace(J), dst |-> Dst]'
  BY <1>3, <1>6, <1>7, <1>8 DEF SameRequest
<1>12. Driven'
  <2>1. \A r \in 0 .. thread'[One].i - 1 : FALSE
    BY <1>6
  <2> QED
    BY <1>6, <1>9, <1>11, <2>1 DEF Driven, Working, HasFile
<1>13. Kept'
  BY <1>1, <1>2, <1>6, <1>7 DEF Kept, ThreadRecs, hwVars
<1> QED
  BY <1>10, <1>12, <1>13 DEF Data

\* A file is a sequence of bytes.
LEMMA FileType ==
    ASSUME NEW job, NEW x, Fine(job, x)
    PROVE  File(job, x) \in Seq(Byte)
<1> DEFINE n == Len(job.tree)
           body == Body(job, x)
           h == LittleEndian(12 + n + Len(body))
           t == LittleEndian(n)
           y == LittleEndian(Len(x))
           z == job.tree
<1>1. /\ n \in Nat /\ Len(body) \in Nat /\ Len(x) \in Nat
      /\ body \in Seq(Byte) /\ z \in Seq(Byte)
      /\ File(job, x) = h \o t \o y \o z \o body
  BY FileParts
<1>2. h \in Seq(Byte) /\ t \in Seq(Byte) /\ y \in Seq(Byte)
  <2>1. 12 + n + Len(body) \in Nat
    BY <1>1
  <2> QED
    BY <1>1, <2>1, LittleEndianType
<1> HIDE DEF n, body, h, t, y, z
<1> QED
  BY <1>1, <1>2, ConcatType

\* The head of a concatenation.
LEMMA Head4 ==
    ASSUME NEW s \in Seq(Byte), NEW t \in Seq(Byte), Len(s) >= 4
    PROVE  /\ s \o t \in Seq(Byte) /\ Len(s \o t) >= 4
           /\ \A k \in 1 .. 4 : (s \o t)[k] = s[k]
<1>1. Len(s) \in Nat /\ Len(t) \in Nat
  BY LenProperties
<1>2. s \o t \in Seq(Byte) /\ Len(s \o t) = Len(s) + Len(t)
  BY ConcatProperties
<1>3. \A k \in 1 .. Len(s) : (s \o t)[k] = s[k]
  BY <1>1, ConcatProperties
<1> QED
  BY <1>1, <1>2, <1>3

\* The first word of a file is its length.
LEMMA FirstWord ==
    ASSUME NEW job, NEW x, Fine(job, x), MemSize \in Nat, MemSize \in Words, NEW m,
           Holds(m, FilePlace(job, x), File(job, x))
    PROVE  WordAt(m, FilePlace(job, x)) = Len(File(job, x))
<1> DEFINE n == Len(File(job, x))
           a == FilePlace(job, x)
<1>1. /\ n = 12 + Len(job.tree) + Len(Body(job, x)) /\ a \in Nat
      /\ n \in Nat /\ n >= 12 /\ n <= MemSize
      /\ Len(job.tree) \in Nat /\ Len(x) \in Nat
  <2> DEFINE t == Len(job.tree)
             b == Len(Body(job, x))
  <2>1. /\ a \in Nat /\ t \in Nat /\ Len(x) \in Nat /\ b \in Nat
        /\ a + 12 + t + b <= MemSize /\ n = 12 + t + b
    BY Zenon, LayoutNumbers
  <2>2. n \in Nat /\ n >= 12 /\ n <= MemSize
    <3> HIDE DEF a, n, t, b
    <3>1. a \in Nat /\ t \in Nat /\ b \in Nat /\ a + 12 + t + b <= MemSize
      BY <2>1, Zenon
    <3>2. n = 12 + t + b
      BY <2>1, Zenon
    <3> QED
      BY <3>1, <3>2
  <2> QED
    BY <2>1, <2>2, Zenon
<1>2. n \in Words
  BY <1>1, WordsBelow
<1>3. \A k \in 1 .. 4 : File(job, x)[k] = WordByte(n, k - 1)
  <2>1. /\ File(job, x) = LittleEndian(n) \o LittleEndian(Len(job.tree)) \o
              LittleEndian(Len(x)) \o job.tree \o Body(job, x)
        /\ job.tree \in Seq(Byte) /\ Body(job, x) \in Seq(Byte)
    BY <1>1, FileParts
  <2> DEFINE t == LittleEndian(Len(job.tree))
             y == LittleEndian(Len(x))
             h == LittleEndian(n)
             z == job.tree
             b == Body(job, x)
  <2>2. /\ h \in Seq(Byte) /\ Len(h) = 4 /\ t \in Seq(Byte) /\ y \in Seq(Byte)
        /\ z \in Seq(Byte) /\ b \in Seq(Byte)
    BY <1>1, <2>1, LittleEndianType
  <2>3. File(job, x) = h \o t \o y \o z \o b
    BY <2>1
  <2>4. \A k \in 1 .. 4 : h[k] = WordByte(n, k - 1)
    BY DEF LittleEndian
  <2>6. Len(h) >= 4
    BY <2>2
  <2> HIDE DEF n, t, y, z, b, h
  <2>5. \A k \in 1 .. 4 : (h \o t \o y \o z \o b)[k] = h[k]
    <3>1. /\ h \o t \in Seq(Byte) /\ Len(h \o t) >= 4
          /\ \A k \in 1 .. 4 : (h \o t)[k] = h[k]
      BY <2>2, <2>6, Head4, Zenon
    <3>2. /\ h \o t \o y \in Seq(Byte) /\ Len(h \o t \o y) >= 4
          /\ \A k \in 1 .. 4 : (h \o t \o y)[k] = (h \o t)[k]
      BY <2>2, <3>1, Head4
    <3>3. /\ h \o t \o y \o z \in Seq(Byte) /\ Len(h \o t \o y \o z) >= 4
          /\ \A k \in 1 .. 4 : (h \o t \o y \o z)[k] = (h \o t \o y)[k]
      BY <2>2, <3>2, Head4
    <3>4. \A k \in 1 .. 4 : (h \o t \o y \o z \o b)[k] = (h \o t \o y \o z)[k]
      BY <2>2, <3>3, Head4
    <3> QED
      BY <3>1, <3>2, <3>3, <3>4
  <2> QED
    BY <2>3, <2>4, <2>5
<1> HIDE DEF n, a
<1>4. \A k \in 1 .. 4 : m[a + k - 1] = WordByte(n, k - 1)
  <2>1. \A i \in 1 .. n : m[a + i - 1] = File(job, x)[i]
    BY DEF Holds, n, a
  <2>2. \A k \in 1 .. 4 : k \in 1 .. n
    BY <1>1
  <2> QED
    BY <1>3, <2>1, <2>2
<1>5. /\ m[a] = WordByte(n, 0) /\ m[a + 1] = WordByte(n, 1)
      /\ m[a + 2] = WordByte(n, 2) /\ m[a + 3] = WordByte(n, 3)
  <2>1. /\ a + 1 - 1 = a /\ a + 2 - 1 = a + 1 /\ a + 3 - 1 = a + 2 /\ a + 4 - 1 = a + 3
        /\ 1 - 1 = 0 /\ 2 - 1 = 1 /\ 3 - 1 = 2 /\ 4 - 1 = 3
        /\ 1 \in 1 .. 4 /\ 2 \in 1 .. 4 /\ 3 \in 1 .. 4 /\ 4 \in 1 .. 4
    BY <1>1
  <2> QED
    BY <1>4, <2>1
<1>6. WordAt(m, a) = n
  BY <1>2, <1>5, WordBack DEF WordAt
<1> QED
  BY <1>6 DEF n, a

\* The total length is read.
LEMMA TotalData ==
    ASSUME Data, WellFormed, One \in Threads, ReadTotal(One)
    PROVE  Data'
<1>1. /\ thread[One].pc = "total"
      /\ thread' = [thread EXCEPT ![One].pc = "copy", ![One].total = WordAt(mem, addrs.dst)]
      /\ addrs' = addrs /\ gpio' = gpio /\ mem' = mem /\ UNCHANGED hwVars
  BY DEF ReadTotal
<1>2. /\ Typed /\ Kept /\ Driven /\ mem \in Memory(MemSize) /\ MemSize \in Nat
      /\ MemSize \in Words
  BY MemSizeIsNat DEF Data, Typed, WellFormed
<1>3. /\ Fine(J, X) /\ Inputs /\ FileOut
      /\ addrs = [treeStr |-> TreePlace(J), textSrc |-> TextPlace(J), dst |-> Dst]
  BY <1>1, <1>2 DEF Driven, HasFile
<1> DEFINE n == WordAt(mem, addrs.dst)
<1>4. n = Len(File(J, X)) /\ n \in Nat
  <2>1. WordAt(mem, FilePlace(J, X)) = Len(File(J, X))
    BY <1>2, <1>3, FirstWord DEF FileOut, Dst
  <2>2. addrs.dst = FilePlace(J, X)
    BY <1>3 DEF Dst
  <2>3. Len(File(J, X)) \in Nat
    BY <1>2, <1>3, LayoutNumbers
  <2> QED
    BY <2>1, <2>2, <2>3
<1> HIDE DEF n
<1>5. /\ thread' \in [Threads -> ThreadRecs] /\ SameRequest
      /\ thread'[One].pc = "copy" /\ thread'[One].total = n
  <2>1. thread' = [thread EXCEPT ![One].pc = "copy", ![One].i = thread[One].i,
                                 ![One].total = n]
    BY <1>1, <1>2 DEF Kept, n
  <2>2. "copy" \in Pcs /\ thread[One].i \in 0 .. 3 /\ n \in Nat
    BY <1>2, <1>4 DEF Pcs, Kept
  <2> QED
    BY <1>2, <2>1, <2>2, GoesOn
<1>6. Typed'
  BY <1>1, <1>2, TypedStays
<1>7. Inputs' /\ FileOut' /\ Dst' = Dst /\ Fine(J, X)'
  BY <1>1, <1>3, <1>5, OutsKept, SameNumbers DEF SameRequest
<1>8. addrs' = [treeStr |-> TreePlace(J), textSrc |-> TextPlace(J), dst |-> Dst]'
  BY <1>1, <1>3, <1>5, <1>7 DEF SameRequest
<1>9. thread'[One].total = Len(File(J, X))'
  BY <1>4, <1>5 DEF SameRequest
<1>10. Driven'
  BY <1>5, <1>7, <1>8, <1>9 DEF Driven, HasFile, Working
<1>11. Kept'
  BY <1>1, <1>2, <1>5 DEF Kept, ThreadRecs, hwVars
<1> QED
  BY <1>6, <1>10, <1>11 DEF Data

\* The file is copied out.
LEMMA CopyData ==
    ASSUME Data, WellFormed, One \in Threads, CopyOut(One)
    PROVE  /\ Data' /\ J' = J
           /\ thread'[One].pc = "idle" /\ thread'[One].file = File(J, X)
<1> DEFINE f == [i \in 1 .. thread[One].total |-> Fetch(mem, addrs.dst + i - 1)]
<1>1. /\ thread[One].pc = "copy"
      /\ thread' = [thread EXCEPT ![One].pc = "idle", ![One].file = f]
      /\ gpio' = FALSE
      /\ addrs' = addrs /\ mem' = mem /\ UNCHANGED hwVars
  BY DEF CopyOut
<1>2. /\ Typed /\ Kept /\ Driven /\ mem \in Memory(MemSize) /\ MemSize \in Nat
      /\ thread \in [Threads -> ThreadRecs]
  BY MemSizeIsNat DEF Data, Typed, Kept, ThreadRecs
<1>3. /\ Fine(J, X) /\ FileOut /\ thread[One].total = Len(File(J, X))
      /\ addrs = [treeStr |-> TreePlace(J), textSrc |-> TextPlace(J), dst |-> Dst]
  BY <1>1, <1>2 DEF Driven, HasFile
<1>4. f = File(J, X) /\ f \in Seq(Byte)
  <2> DEFINE F == File(J, X)
             n == Len(F)
  <2>1. /\ n = 12 + Len(J.tree) + Len(Body(J, X)) /\ Dst \in Nat
        /\ Dst + 12 + Len(J.tree) + Len(Body(J, X)) <= MemSize
        /\ Len(J.tree) \in Nat /\ Len(Body(J, X)) \in Nat
    BY <1>2, <1>3, LayoutNumbers DEF Dst
  <2>2. n \in Nat /\ Dst + n <= MemSize /\ Dst \in Nat
    <3> DEFINE p == Len(J.tree)
               q == Len(Body(J, X))
    <3>1. n = 12 + p + q /\ Dst + 12 + p + q <= MemSize /\ p \in Nat /\ q \in Nat /\ Dst \in Nat
      BY <2>1
    <3> HIDE DEF n, p, q
    <3> QED
      BY <1>2, <3>1
  <2>3. F \in Seq(Byte)
    BY <1>3, FileType
  <2>4. F \in [1 .. n -> Byte]
    BY <2>3, LenProperties
  <2>5. addrs.dst = Dst
    BY <1>3
  <2>6. \A i \in 1 .. n : mem[Dst + i - 1] = F[i]
    BY <1>3 DEF FileOut, Holds
  <2> HIDE DEF F, n
  <2>7. \A i \in 1 .. n : Dst + i - 1 \in 0 .. MemSize - 1
    BY <1>2, <2>2
  <2>8. \A i \in 1 .. n : Fetch(mem, addrs.dst + i - 1) = F[i]
    BY <1>2, <2>5, <2>6, <2>7 DEF Fetch, Memory
  <2>9. thread[One].total = n
    BY <1>3 DEF n, F
  <2>10. f = [i \in 1 .. n |-> F[i]]
    BY <2>8, <2>9
  <2>11. f = F
    BY <2>4, <2>10
  <2> HIDE DEF f
  <2> QED
    BY <2>3, <2>11 DEF F
<1> HIDE DEF f
<1>5. /\ thread' \in [Threads -> ThreadRecs] /\ J' = J /\ X' = X
      /\ thread'[One].pc = "idle" /\ thread'[One].file = f
  <2> DEFINE r == [thread[One] EXCEPT !.pc = "idle", !.file = f]
  <2>1. "idle" \in Pcs
    BY DEF Pcs
  <2>2. /\ r \in ThreadRecs /\ r.pc = "idle" /\ r.file = f
        /\ r.job = thread[One].job /\ r.text = thread[One].text
    BY <1>2, <1>4, <2>1 DEF ThreadRecs
  <2>3. thread' = [thread EXCEPT ![One] = r]
    BY <1>1, <1>2
  <2> HIDE DEF r
  <2> QED
    BY <1>2, <2>2, <2>3 DEF J, X
<1>6. Typed'
  BY <1>1, <1>2, TypedStays
<1>7. Driven'
  BY <1>5 DEF Driven, HasFile, Working
<1>8. Kept'
  BY <1>1, <1>2, <1>5 DEF Kept, ThreadRecs, hwVars
<1> QED
  BY <1>4, <1>5, <1>6, <1>7, <1>8 DEF Data

-----------------------------------------------------------------------------
(* Clock edges, whoever waits *)

\* Only a slave write of another register than Control changes a register.
LEMMA RegsStay ==
    ASSUME NEW slv, Hw!Ctrl(slv)
    PROVE  /\ slv.op # "write" \/ slv.reg = 4 => ctl'.reg = ctl.reg
           /\ slv.op = "write" /\ slv.reg \in 0 .. 3 =>
                 ctl'.reg = [ctl.reg EXCEPT ![slv.reg] = slv.val]
  BY SMT DEF Hw!Ctrl, Hw!CODES, Hw!DST

\* The parts that an edge changes without the driver.
LEMMA EdgeFrame ==
    ASSUME NEW slv, NEW wait, NEW latch, FpgaEdge(slv, wait, latch)
    PROVE  addrs' = addrs /\ gpio' = gpio /\ Hw!Ctrl(slv)
  BY DEF FpgaEdge, Hw!Tick

\* An edge at which the top-level process rests.
LEMMA RestEdge ==
    ASSUME Typed, TreeShape, TextPart, EncPart, EncQuiet, MemSize \in Nat,
           NEW slv, NEW wait \in BOOLEAN, NEW latch \in Latches, FpgaEdge(slv, wait, latch)
    PROVE  /\ TreeTyped' /\ TextTyped' /\ CRTyped' /\ CWTyped' /\ EncTyped'
           /\ mem' = mem
<1>1. /\ mem \in Memory(MemSize) /\ enc.state = "IDLE" /\ EncShape
      /\ TreeTyped /\ TextTyped /\ CRTyped /\ CWTyped /\ EncTyped
      /\ ctl.reg \in [0 .. 3 -> Nat]
  BY DEF Typed, EncQuiet, EncPart
<1>2. /\ \E w \in BOOLEAN, d \in Byte :
            Hw!Tree!Tick(enc.writeTree, ctl.reg[1], ctl.reg[3], enc.startTree, w, d)
      /\ \E w \in BOOLEAN : Hw!Encode(w)
      /\ \E w \in BOOLEAN, d \in Byte :
            Hw!Text!Tick(enc.writeText, ctl.reg[0], ctl.reg[2], ctl.reg[3], tree.size,
                         enc.startText, [wait |-> w, data |-> d], latch)
      /\ mem' = Commit(mem, Hw!Bus.write, wait, Hw!Bus.addr, Hw!Bus.data)
  BY <1>1, ClockParts
<1>3. TreeTyped'
  BY <1>1, <1>2, TreeAtRest
<1>4. TextTyped' /\ CRTyped' /\ CWTyped'
  BY <1>1, <1>2, TextAtRest
<1>5. EncTyped'
  BY <1>1, <1>2, EncTypedStep
<1>6. mem' = mem
  BY <1>1, <1>2, NobodyWrites
<1> QED
  BY <1>3, <1>4, <1>5, <1>6

\* What Control says of the one thread.
LEMMA ControlParts ==
    ASSUME Control, Threads = {One}
    PROVE  /\ TreeShape /\ TextPart /\ EncPart /\ CtlShape /\ DriverAt(One)
           /\ gap \in 1 .. MinGap
  BY DEF Control, DriverPart

\* The next shapes, whoever waits.
LEMMA NextShapes ==
    ASSUME Control, Threads = {One}, NEW slv, NEW wait, NEW latch, FpgaEdge(slv, wait, latch)
    PROVE  /\ TreeShape' /\ TextPart' /\ EncPart'
           /\ EncQuiet /\ (ctl.reset \/ ~ctl.start) => EncQuiet'
  BY ControlParts, EdgeKeeps

\* A poll of Status finds the parts at work, or at rest.
LEMMA WaitParts ==
    ASSUME Control, Threads = {One}, thread[One].pc = "wait"
    PROVE  ~ctl.reset /\ (ctl.status => EncQuiet)
  BY ControlParts DEF DriverAt

\* The parts at work serve the waiting thread's request.
LEMMA AtWork ==
    ASSUME Data, WellFormed, Control, Threads = {One}, thread[One].pc = "wait"
    PROVE  Serving /\ Work
<1>1. /\ Typed /\ Driven
  BY DEF Data
<1>2. /\ Fine(J, X) /\ Inputs /\ Work
      /\ \A r \in 0 .. 3 : ctl.reg[r] = <<0, TreePlace(J), TextPlace(J), Dst>>[r + 1]
  BY <1>1 DEF Driven, Working
<1>3. /\ ctl.reg[0] = 0 /\ ctl.reg[1] = TreePlace(J)
      /\ ctl.reg[2] = TextPlace(J) /\ ctl.reg[3] = Dst
  <2> DEFINE a == TreePlace(J)
             b == TextPlace(J)
             c == Dst
             g == ctl.reg
  <2>1. \A r \in 0 .. 3 : g[r] = <<0, a, b, c>>[r + 1]
    BY <1>2
  <2> HIDE DEF a, b, c, g
  <2>2. g[0] = 0 /\ g[1] = a /\ g[2] = b /\ g[3] = c
    BY <2>1
  <2> QED
    BY <2>2 DEF a, b, c, g
<1>4. TreeShape /\ TextPart /\ EncPart /\ CtlShape
  BY ControlParts
<1>5. ~ctl.reset
  BY WaitParts
<1> QED
  BY <1>1, <1>2, <1>3, <1>4, <1>5 DEF Serving

\* An edge while the thread waits, and goes on waiting.
LEMMA WaitEdge ==
    ASSUME Data, WellFormed, Control, Threads = {One}, thread[One].pc = "wait",
           SameRequest, NEW slv, slv.op # "write",
           NEW wait \in BOOLEAN, NEW latch \in Latches, FpgaEdge(slv, wait, latch)
    PROVE  Typed' /\ Inputs' /\ Work' /\ ctl'.reg = ctl.reg /\ addrs' = addrs
<1>1. Typed /\ MemSize \in Nat
  BY MemSizeIsNat DEF Data
<1>2. Serving /\ Work
  BY AtWork
<1>3. ctl.status => enc.state = "IDLE"
  BY WaitParts DEF EncQuiet
<1>4. TreeShape' /\ TextPart' /\ EncPart'
  BY NextShapes
<1>5. /\ TreeTyped' /\ TextTyped' /\ CRTyped' /\ CWTyped' /\ EncTyped'
      /\ mem' \in Memory(MemSize) /\ Inputs' /\ Work'
  BY <1>1, <1>2, <1>3, <1>4, ServedEdge
<1>6. ctl'.reg = ctl.reg /\ addrs' = addrs
  BY EdgeFrame, RegsStay
<1>7. Typed'
  BY <1>1, <1>5, <1>6 DEF Typed
<1> QED
  BY <1>5, <1>6, <1>7

\* An edge while the thread does something else.
LEMMA OtherEdge ==
    ASSUME Data, WellFormed, Control, Threads = {One}, thread[One].pc # "wait",
           NEW slv, NEW wait \in BOOLEAN, NEW latch \in Latches, FpgaEdge(slv, wait, latch)
    PROVE  /\ TreeTyped' /\ TextTyped' /\ CRTyped' /\ CWTyped' /\ EncTyped'
           /\ mem' = mem /\ addrs' = addrs /\ gpio' = gpio
<1>1. Typed /\ MemSize \in Nat
  BY MemSizeIsNat DEF Data
<1>2. TreeShape /\ TextPart /\ EncPart /\ EncQuiet
  BY ControlParts DEF DriverAt
<1> QED
  BY <1>1, <1>2, RestEdge, EdgeFrame

\* An edge without a slave access.
LEMMA EdgeData ==
    ASSUME Data, WellFormed, Control, Threads = {One},
           NEW wait \in BOOLEAN, NEW latch \in Latches, Edge(wait, latch)
    PROVE  Data'
<1>1. FpgaEdge(Hw!NoOp, wait, latch) /\ thread' = thread
  BY DEF Edge
<1>2. SameRequest /\ Hw!NoOp.op # "write"
  BY <1>1, SMT DEF SameRequest, J, X, Hw!NoOp
<1>3. Typed /\ Driven /\ Kept
  BY DEF Data
<1>4. ctl'.reg = ctl.reg /\ addrs' = addrs /\ gpio' = gpio
  BY <1>1, <1>2, EdgeFrame, RegsStay
<1>5. Kept'
  BY <1>1, <1>3, <1>4 DEF Kept
<1>6. Dst' = Dst
  BY <1>2, SameNumbers
<1>7. CASE thread[One].pc = "wait"
  <2>1. Typed' /\ Inputs' /\ Work'
    BY <1>1, <1>2, <1>7, WaitEdge
  <2>2. Driven'
    BY <1>1, <1>2, <1>3, <1>4, <1>6, <1>7, <2>1 DEF Driven, SameRequest, Working, HasFile
  <2> QED
    BY <1>5, <2>1, <2>2 DEF Data
<1>8. CASE thread[One].pc # "wait"
  <2>1. /\ TreeTyped' /\ TextTyped' /\ CRTyped' /\ CWTyped' /\ EncTyped'
        /\ mem' = mem
    BY <1>1, <1>8, OtherEdge
  <2>2. Typed'
    BY <1>3, <1>4, <2>1 DEF Typed
  <2>3. (Inputs => Inputs') /\ (FileOut => FileOut')
    BY <1>2, <2>1, OutsKept
  <2>4. Driven'
    BY <1>1, <1>2, <1>3, <1>4, <1>6, <1>8, <2>1, <2>3
    DEF Driven, SameRequest, Working, HasFile
  <2> QED
    BY <1>5, <2>2, <2>4 DEF Data
<1> QED
  BY <1>7, <1>8

\* How the thread goes on after its access.
LEMMA AccessGoes ==
    ASSUME Kept, One \in Threads, AfterAccess(One), thread[One].pc \in SlavePcs
    PROVE  /\ thread' \in [Threads -> ThreadRecs] /\ SameRequest
           /\ thread'[One].file = thread[One].file
           /\ thread[One].pc = "addrs" /\ thread[One].i < 3 =>
                 thread'[One].pc = "addrs" /\ thread'[One].i = thread[One].i + 1
           /\ thread[One].pc = "addrs" /\ ~(thread[One].i < 3) => thread'[One].pc = "reset"
           /\ thread[One].pc = "reset" => thread'[One].pc = "start"
           /\ thread[One].pc = "start" => thread'[One].pc = "wait"
           /\ thread[One].pc = "wait" /\ ctl.status => thread'[One].pc = "total"
           /\ thread[One].pc = "wait" /\ ~ctl.status => thread'[One].pc = "wait"
<1> DEFINE pc == thread[One].pc
           i == thread[One].i
           p == CASE pc = "addrs" -> IF i < 3 THEN pc ELSE "reset"
                  [] pc = "reset" -> "start"
                  [] pc = "start" -> "wait"
                  [] pc = "wait"  -> IF ctl.status THEN "total" ELSE pc
           j == IF pc = "addrs" /\ i < 3 THEN i + 1 ELSE i
<1>1. i \in 0 .. 3 /\ thread[One].total \in Nat /\ thread \in [Threads -> ThreadRecs]
  BY DEF Kept, ThreadRecs
<1>2. thread' = [thread EXCEPT ![One].i = j, ![One].pc = p]
  BY DEF AfterAccess
<1>3. j \in 0 .. 3 /\ p \in Pcs
  BY <1>1, SMT DEF SlavePcs, Pcs
<1>4. /\ pc = "addrs" /\ i < 3 => p = "addrs" /\ j = i + 1
      /\ pc = "addrs" /\ ~(i < 3) => p = "reset"
      /\ pc = "reset" => p = "start"
      /\ pc = "start" => p = "wait"
      /\ pc = "wait" /\ ctl.status => p = "total"
      /\ pc = "wait" /\ ~ctl.status => p = "wait"
  BY SMT
<1> HIDE DEF p, j
<1>5. thread' = [thread EXCEPT ![One].pc = p, ![One].i = j, ![One].total = thread[One].total]
  BY <1>1, <1>2 DEF ThreadRecs
<1>6. /\ thread' \in [Threads -> ThreadRecs]
      /\ thread'[One].pc = p /\ thread'[One].i = j
      /\ thread'[One].file = thread[One].file
      /\ SameRequest
  BY <1>1, <1>3, <1>5, GoesOn
<1> QED
  BY <1>4, <1>6

\* The four writes of write_addrs_to_encoder.
LEMMA AddrsData ==
    ASSUME Data, WellFormed, Control, Threads = {One}, thread[One].pc = "addrs",
           NEW wait \in BOOLEAN, NEW latch \in Latches, AccessEdge(One, wait, latch)
    PROVE  Data'
<1> DEFINE i == thread[One].i
           want == <<0, TreePlace(J), TextPlace(J), Dst>>
           slv == Access(One)
<1>1. /\ FpgaEdge(slv, wait, latch) /\ AfterAccess(One)
      /\ thread[One].pc \in SlavePcs /\ One \in Threads
  BY DEF AccessEdge
<1>2. Typed /\ Driven /\ Kept /\ MemSize \in Nat
  BY MemSizeIsNat DEF Data
<1>3. /\ Fine(J, X) /\ Inputs
      /\ addrs = [treeStr |-> TreePlace(J), textSrc |-> TextPlace(J), dst |-> Dst]
      /\ \A r \in 0 .. i - 1 : ctl.reg[r] = want[r + 1]
  BY <1>2 DEF Driven, Working
<1>4. i \in 0 .. 3 /\ ctl.reg \in [0 .. 3 -> MemWord]
  BY <1>1, <1>2 DEF Kept
<1>5. \A r \in 0 .. 3 : want[r + 1] \in MemWord
  <2> DEFINE a == TreePlace(J)
             b == TextPlace(J)
             c == Dst
  <2>1. a \in MemWord /\ b \in MemWord /\ c \in MemWord
    BY <1>2, <1>3, PlacesInMemory DEF Dst
  <2>2. 0 \in MemWord
    BY <1>2 DEF MemWord
  <2>3. want = <<0, a, b, c>>
    OBVIOUS
  <2> HIDE DEF a, b, c, want
  <2> QED
    BY <2>1, <2>2, <2>3
<1>6. slv.op = "write" /\ slv.reg = i /\ slv.val = want[i + 1]
  <2> DEFINE v == <<0, addrs.treeStr, addrs.textSrc, addrs.dst>>
  <2>1. Access(One) = Hw!Write(i, v[i + 1])
    BY DEF Access
  <2>2. v = want
    BY <1>3
  <2> HIDE DEF v, want
  <2> QED
    BY <2>1, <2>2 DEF Hw!Write
<1> HIDE DEF slv, want
<1>7. ctl'.reg = [ctl.reg EXCEPT ![i] = want[i + 1]]
  BY <1>1, <1>4, <1>6, EdgeFrame, RegsStay
<1>8. /\ ctl'.reg \in [0 .. 3 -> MemWord] /\ ctl'.reg \in [0 .. 3 -> Nat]
      /\ \A r \in 0 .. i : ctl'.reg[r] = want[r + 1]
  <2>1. ctl'.reg \in [0 .. 3 -> MemWord]
    BY <1>4, <1>5, <1>7
  <2>2. ctl'.reg[i] = want[i + 1] /\ \A r \in 0 .. 3 : r # i => ctl'.reg[r] = ctl.reg[r]
    BY <1>4, <1>7
  <2>3. \A r \in 0 .. i : r = i \/ r \in 0 .. i - 1
    BY <1>4
  <2>4. MemWord \subseteq Nat
    BY <1>2 DEF MemWord
  <2>5. \A r \in 0 .. i : r \in 0 .. 3
    BY <1>4
  <2> QED
    BY <1>3, <2>1, <2>2, <2>3, <2>4, <2>5
<1>9. /\ TreeTyped' /\ TextTyped' /\ CRTyped' /\ CWTyped' /\ EncTyped'
      /\ mem' = mem /\ addrs' = addrs /\ gpio' = gpio
  BY <1>1, OtherEdge
<1>10. /\ thread' \in [Threads -> ThreadRecs] /\ SameRequest
       /\ i < 3 => thread'[One].pc = "addrs" /\ thread'[One].i = i + 1
       /\ ~(i < 3) => thread'[One].pc = "reset"
  BY <1>1, <1>2, AccessGoes
<1>11. Typed'
  BY <1>2, <1>8, <1>9 DEF Typed
<1>12. /\ Fine(J, X)' /\ Inputs' /\ want' = want
       /\ addrs' = [treeStr |-> TreePlace(J), textSrc |-> TextPlace(J), dst |-> Dst]'
  <2>1. Inputs' /\ Dst' = Dst
    BY <1>3, <1>9, <1>10, OutsKept, SameNumbers
  <2> QED
    BY <1>3, <1>9, <1>10, <2>1 DEF SameRequest, want
<1>13. Driven'
  <2>1. CASE i < 3
    <3>1. thread'[One].pc = "addrs" /\ \A r \in 0 .. thread'[One].i - 1 : ctl'.reg[r] = want'[r + 1]
      <4>1. thread'[One].i - 1 = i
        BY <1>4, <1>10, <2>1
      <4> QED
        BY <1>8, <1>10, <1>12, <2>1, <4>1
    <3> QED
      BY <1>12, <3>1 DEF Driven, Working, HasFile, want
  <2>2. CASE ~(i < 3)
    <3>1. thread'[One].pc = "reset" /\ \A r \in 0 .. 3 : ctl'.reg[r] = want'[r + 1]
      <4>1. i = 3
        BY <1>4, <2>2
      <4> QED
        BY <1>8, <1>10, <1>12, <2>2, <4>1
    <3> QED
      BY <1>12, <3>1 DEF Driven, Working, HasFile, want
  <2> QED
    BY <2>1, <2>2
<1>14. Kept'
  BY <1>2, <1>8, <1>9, <1>10 DEF Kept, ThreadRecs
<1> QED
  BY <1>11, <1>13, <1>14 DEF Data

\* reset_encoder, and the write of start_encoder.
LEMMA PulseData ==
    ASSUME Data, WellFormed, Control, Threads = {One}, MinGap \in Nat, MinGap >= 3,
           thread[One].pc \in {"reset", "start"},
           NEW wait \in BOOLEAN, NEW latch \in Latches, AccessEdge(One, wait, latch)
    PROVE  Data'
<1> DEFINE want == <<0, TreePlace(J), TextPlace(J), Dst>>
           slv == Access(One)
<1>1. /\ FpgaEdge(slv, wait, latch) /\ AfterAccess(One) /\ gap >= MinGap
      /\ thread[One].pc \in SlavePcs /\ One \in Threads
  BY DEF AccessEdge
<1>2. Typed /\ Driven /\ Kept
  BY DEF Data
<1>3. /\ Fine(J, X) /\ Inputs
      /\ addrs = [treeStr |-> TreePlace(J), textSrc |-> TextPlace(J), dst |-> Dst]
      /\ \A r \in 0 .. 3 : ctl.reg[r] = want[r + 1]
  BY <1>2 DEF Driven, Working
<1>4. slv.reg = 4
  BY SMT DEF Access, Hw!Write, Hw!CONTROL
<1> HIDE DEF slv, want
<1>5. /\ TreeTyped' /\ TextTyped' /\ CRTyped' /\ CWTyped' /\ EncTyped'
      /\ mem' = mem /\ addrs' = addrs /\ gpio' = gpio
  BY <1>1, OtherEdge
<1>6. ctl'.reg = ctl.reg
  BY <1>1, <1>4, EdgeFrame, RegsStay
<1>7. /\ thread' \in [Threads -> ThreadRecs] /\ SameRequest
      /\ thread[One].pc = "reset" => thread'[One].pc = "start"
      /\ thread[One].pc = "start" => thread'[One].pc = "wait"
  BY <1>1, <1>2, AccessGoes
<1>8. Typed'
  BY <1>2, <1>5, <1>6 DEF Typed
<1>9. /\ Fine(J, X)' /\ Inputs' /\ want' = want
      /\ addrs' = [treeStr |-> TreePlace(J), textSrc |-> TextPlace(J), dst |-> Dst]'
  <2>1. Inputs' /\ Dst' = Dst
    BY <1>3, <1>5, <1>7, OutsKept, SameNumbers
  <2> QED
    BY <1>3, <1>5, <1>7, <2>1 DEF SameRequest, want
<1>10. \A r \in 0 .. 3 : ctl'.reg[r] = want'[r + 1]
  BY <1>3, <1>6, <1>9
<1>11. Kept'
  BY <1>2, <1>5, <1>6, <1>7 DEF Kept, ThreadRecs
<1>12. CASE thread[One].pc = "reset"
  <2>1. Driven'
    BY <1>7, <1>9, <1>10, <1>12 DEF Driven, Working, HasFile, want
  <2> QED
    BY <1>8, <1>11, <2>1 DEF Data
<1>13. CASE thread[One].pc = "start"
  <2>1. EncQuiet /\ ~ctl.start /\ ~ctl.status /\ CtlShape /\ enc.done \in BOOLEAN
    <3>1. DriverAt(One) /\ gap \in 1 .. MinGap /\ CtlShape /\ EncPart
      BY ControlParts
    <3>2. gap > 2
      BY <1>1, <3>1
    <3> QED
      BY <1>13, <3>1, <3>2 DEF DriverAt, EncPart, EncShape
  <2>2. EncQuiet'
    BY <1>1, <2>1, NextShapes
  <2>3. ~ctl'.status
    <3>1. Hw!Ctrl(slv)
      BY <1>1, EdgeFrame
    <3>2. ctl'.status <=> enc.done \/ (ctl.status /\ ~ctl.reset /\ ctl.control # {1})
      BY <2>1, <3>1, CtlTick
    <3> QED
      BY <2>1, <3>2 DEF EncQuiet
  <2>4. Work'
    BY <2>2, <2>3 DEF Work, EncQuiet
  <2>5. Driven'
    BY <1>7, <1>9, <1>10, <1>13, <2>4 DEF Driven, Working, HasFile, want
  <2> QED
    BY <1>8, <1>11, <2>5 DEF Data
<1> QED
  BY <1>12, <1>13

\* A poll of wait_for_encoder.
LEMMA PollData ==
    ASSUME Data, WellFormed, Control, Threads = {One}, thread[One].pc = "wait",
           NEW wait \in BOOLEAN, NEW latch \in Latches, AccessEdge(One, wait, latch)
    PROVE  Data'
<1> DEFINE want == <<0, TreePlace(J), TextPlace(J), Dst>>
           slv == Access(One)
<1>1. /\ FpgaEdge(slv, wait, latch) /\ AfterAccess(One)
      /\ thread[One].pc \in SlavePcs /\ One \in Threads
  BY DEF AccessEdge
<1>2. Typed /\ Driven /\ Kept /\ MemSize \in Nat
  BY MemSizeIsNat DEF Data
<1>3. /\ Fine(J, X) /\ Inputs /\ Work
      /\ addrs = [treeStr |-> TreePlace(J), textSrc |-> TextPlace(J), dst |-> Dst]
      /\ \A r \in 0 .. 3 : ctl.reg[r] = want[r + 1]
  BY <1>2 DEF Driven, Working
<1>4. slv.op # "write"
  BY SMT DEF Access, Hw!ReadStatus
<1> HIDE DEF slv, want
<1>5. /\ thread' \in [Threads -> ThreadRecs] /\ SameRequest
      /\ ctl.status => thread'[One].pc = "total"
      /\ ~ctl.status => thread'[One].pc = "wait"
  BY <1>1, <1>2, AccessGoes
<1>6. Typed' /\ Inputs' /\ Work' /\ ctl'.reg = ctl.reg /\ addrs' = addrs
  BY <1>1, <1>4, <1>5, WaitEdge
<1>7. gpio' = gpio
  BY <1>1, EdgeFrame
<1>8. Kept'
  BY <1>2, <1>5, <1>6, <1>7 DEF Kept, ThreadRecs
<1>9. /\ Fine(J, X)' /\ want' = want
      /\ addrs' = [treeStr |-> TreePlace(J), textSrc |-> TextPlace(J), dst |-> Dst]'
  <2>1. Dst' = Dst
    BY <1>5, SameNumbers
  <2> QED
    BY <1>3, <1>5, <1>6, <2>1 DEF SameRequest, want
<1>10. CASE ctl.status
  <2>1. FileOut /\ EncQuiet /\ TreeShape /\ TextPart /\ EncPart
    BY <1>3, <1>10, WaitParts, ControlParts DEF Work
  <2>2. mem' = mem
    BY <1>1, <1>2, <2>1, RestEdge
  <2>3. FileOut'
    BY <1>5, <2>1, <2>2, OutsKept
  <2>4. Driven'
    BY <1>5, <1>6, <1>9, <1>10, <2>3 DEF Driven, Working, HasFile
  <2> QED
    BY <1>6, <1>8, <2>4 DEF Data
<1>11. CASE ~ctl.status
  <2>1. \A r \in 0 .. 3 : ctl'.reg[r] = want'[r + 1]
    BY <1>3, <1>6, <1>9
  <2>2. Driven'
    BY <1>5, <1>6, <1>9, <1>11, <2>1 DEF Driven, Working, HasFile, want
  <2> QED
    BY <1>6, <1>8, <2>2 DEF Data
<1> QED
  BY <1>10, <1>11

-----------------------------------------------------------------------------
(* Nothing changes where nothing moves *)

\* The tree handler's invariant where nothing moves.
LEMMA TreeBenchStays ==
    ASSUME MemSize \in Nat, TB!TreeInv, UNCHANGED TB!vars
    PROVE  TB!TreeInv'
  BY TB!NextInv, BenchesFit

\* The code reader's invariant where nothing moves.
LEMMA ReaderBenchStays ==
    ASSUME MemSize \in Nat, RB!ReaderInv, UNCHANGED RB!vars
    PROVE  RB!ReaderInv'
  BY RB!NextInv, BenchesFit

\* The code writer's invariant where nothing moves.
LEMMA WriterBenchStays ==
    ASSUME MemSize \in Nat, WB!Inv, UNCHANGED WB!vars
    PROVE  WB!Inv'
  BY WB!NextInv, BenchesFit

\* What the parts have behind them where nothing moves.
LEMMA WorkStays ==
    ASSUME Data, WellFormed, One \in Threads, UNCHANGED vars, Work
    PROVE  Work'
<1>1. /\ thread' = thread /\ addrs' = addrs /\ mem' = mem
      /\ ctl' = ctl /\ enc' = enc /\ tree' = tree /\ text' = text /\ cr' = cr /\ cw' = cw
  BY DEF vars, hwVars
<1>2. MemSize \in Nat
  BY MemSizeIsNat
<1>3. J' = J /\ X' = X /\ N' = N /\ Dst' = Dst /\ BodyAt' = BodyAt /\ SameRequest
  BY <1>1 DEF J, X, N, Dst, BodyAt, SameRequest
<1>4. /\ TreeOut => TreeOut'
      /\ TextOut => TextOut'
      /\ FileOut => FileOut'
      /\ BodyOut => BodyOut'
  BY <1>1, <1>3, OutsKept DEF BodyOut
<1>5. TreeWork => TreeWork'
  <2>1. UNCHANGED TB!vars
    BY <1>1, <1>3 DEF TB!vars
  <2>2. TB!TreeInv => TB!TreeInv'
    BY <1>2, <2>1, TreeBenchStays
  <2>3. ASSUME TreeWork PROVE TreeWork'
    <3>1. TB!TreeInv'
      BY <2>2, <2>3 DEF TreeWork
    <3>2. tree'.src = TreePlace(J)' /\ tree'.dst = Dst'
      BY <1>1, <1>3, <2>3 DEF TreeWork
    <3>3. enc'.startTree => tree'.off = 0
      BY <1>1, <2>3 DEF TreeWork
    <3>4. tree'.done => tree'.size = Len(J.tree)' /\ TreeOut'
      BY <1>1, <1>3, <1>4, <2>3 DEF TreeWork
    <3> QED
      BY <3>1, <3>2, <3>3, <3>4 DEF TreeWork
  <2> QED
    BY <2>3
<1>6. LetterCode' = LetterCode /\ FedNow' = FedNow
  BY <1>1, <1>3 DEF LetterCode, FedNow
<1>7. Letter => Letter'
  <2>1. UNCHANGED RB!vars
    BY <1>1, <1>3 DEF RB!vars
  <2>2. RB!ReaderInv => RB!ReaderInv'
    BY <1>2, <2>1, ReaderBenchStays
  <2> QED
    BY <1>1, <1>3, <1>6, <2>2 DEF Letter
<1>8. Stream => Stream'
  <2>1. UNCHANGED WB!vars
    BY <1>1, <1>6 DEF WB!vars
  <2>2. WB!Inv => WB!Inv'
    BY <1>2, <2>1, WriterBenchStays
  <2>3. ASSUME Stream PROVE Stream'
    <3>1. Body(J, X)' = Body(J, X)
      BY <1>3
    <3>2. text.writeCW => text.dstCW = BodyAt /\ text.off = 0
      BY <2>3 DEF Stream
    <3>3. text.state \notin {"IDLE", "WR_LEN", "WR_LEN_WAIT"} /\ ~text.writeCW =>
             WB!Inv' /\ cw.dst = BodyAt
      BY <2>2, <2>3 DEF Stream
    <3>4. text.state = "WAIT_PADDING" /\ cw.done => cw.size = cw.off
      BY <2>3 DEF Stream
    <3>5. text.state \in {"WR_LEN", "WR_LEN_WAIT"} =>
             cw.size = Len(Body(J, X)) /\ BodyOut' /\ WordIn(mem, Dst + 8, N, text.k)
      BY <1>4, <2>3 DEF Stream
    <3>6. text.state = "WR_LEN_WAIT" =>
             text.addr = Dst + 8 + text.k /\ text.data = WordByte(N, text.k)
      BY <2>3 DEF Stream
    <3> QED
      BY <1>1, <1>3, <3>1, <3>2, <3>3, <3>4, <3>5, <3>6 DEF Stream
  <2> QED
    BY <2>3
<1>9. TextWork => TextWork'
  BY <1>1, <1>3, <1>4, <1>7, <1>8 DEF TextWork
<1>10. /\ enc.state = "TREE_WAIT" => TreeWork'
       /\ enc.state \in {"TEXT_WR_INPUT", "TEXT_START", "TEXT_WAIT", "WR_TOTAL_LEN",
                         "WR_TOTAL_LEN_WAIT"} => tree.size = Len(J.tree) /\ TreeOut'
       /\ enc.state = "TEXT_WAIT" => TextWork'
  BY <1>4, <1>5, <1>9 DEF Work
<1>11. /\ enc.state \in {"WR_TOTAL_LEN", "WR_TOTAL_LEN_WAIT"} =>
             /\ TextOut' /\ enc.total = Len(File(J, X))
             /\ WordIn(mem, Dst, enc.total, enc.k)
       /\ enc.state = "WR_TOTAL_LEN_WAIT" =>
             enc.addr = Dst + enc.k /\ enc.data = WordByte(enc.total, enc.k)
       /\ enc.done \/ ctl.status => FileOut'
  BY <1>4 DEF Work
<1>12. Len(File(J, X))' = Len(File(J, X)) /\ Len(J.tree)' = Len(J.tree)
  BY <1>3
<1> QED
  BY <1>1, <1>3, <1>10, <1>11, <1>12 DEF Work

\* The data where nothing moves.
LEMMA DataStays ==
    ASSUME Data, WellFormed, One \in Threads, UNCHANGED vars
    PROVE  Data'
<1>1. /\ thread' = thread /\ addrs' = addrs /\ mem' = mem /\ gpio' = gpio
      /\ ctl' = ctl /\ UNCHANGED hwVars
  BY DEF vars, hwVars
<1>2. Typed /\ Kept /\ Driven /\ mem \in Memory(MemSize)
  BY DEF Data, Typed
<1>3. J' = J /\ X' = X /\ Dst' = Dst /\ SameRequest
  BY <1>1 DEF J, X, Dst, SameRequest
<1>4. Typed'
  BY <1>1, <1>2, TypedStays
<1>5. Kept'
  BY <1>1, <1>2 DEF Kept
<1>6. (Inputs => Inputs') /\ (FileOut => FileOut')
  BY <1>1, <1>3, OutsKept
<1>7. Work => Work'
  BY WorkStays
<1>8. Driven'
  BY <1>1, <1>2, <1>3, <1>6, <1>7 DEF Driven
<1> QED
  BY <1>4, <1>5, <1>8 DEF Data

\* A thread without a request.
LEMMA AsleepType ==
    ASSUME NEW job \in Jobs
    PROVE  /\ Asleep(job) \in ThreadRecs /\ Asleep(job).pc = "idle"
<1>1. <<>> \in Seq(Byte) /\ "idle" \in Pcs /\ NoReply \in Seq(Byte)
  BY EmptySeq DEF Pcs, NoReply
<1> QED
  BY <1>1, SMT DEF Asleep, ThreadRecs

\* The data after the reset pulse.
LEMMA InitData ==
    ASSUME Init, WellFormed, One \in Threads
    PROVE  Data
<1>1. /\ tree = Hw!Tree!Reset /\ text = Hw!Text!Reset /\ cr = Hw!Text!CR!Reset
      /\ cw = Hw!Text!CW!Reset /\ enc = Hw!Reset
      /\ ctl.reg = [r \in Hw!CODES .. Hw!DST |-> 0]
      /\ addrs = NoAddrs /\ gpio = FALSE /\ mem = [a \in Addr |-> 0]
      /\ thread \in [Threads -> {Asleep(job) : job \in Jobs}]
  BY DEF Init, Hw!Init, Hw!Tree!Init, Hw!Text!Init, Hw!Text!CR!Init, Hw!Text!CW!Init
<1>2. MemSize \in Nat /\ 0 \in MemWord
  BY MemSizeIsNat DEF MemWord
<1>3. 0 \in Nat /\ 0 \in Byte /\ <<>> \in Bits /\ Len(<<>>) = 0 /\ <<>> \in Code
  BY EmptySeq, SMT DEF Byte, Bits, Code
<1>4. TreeTyped
  BY <1>1, <1>3, SMT DEF TreeTyped, Hw!Tree!Reset, Hw!Tree!States
<1>5. TextTyped
  BY <1>1, <1>3, SMT DEF TextTyped, Hw!Text!Reset
<1>6. CRTyped
  BY <1>1, <1>3, SMT DEF CRTyped, Hw!Text!CR!Reset, Hw!Text!CR!States
<1>7. CWTyped
  BY <1>1, <1>3, SMT DEF CWTyped, Hw!Text!CW!Reset, Hw!Text!CW!States
<1>8. EncTyped
  BY <1>1, <1>3, SMT DEF EncTyped, Hw!Reset
<1>9. ctl.reg \in [0 .. 3 -> Nat] /\ ctl.reg \in [0 .. 3 -> MemWord]
  BY <1>1, <1>2 DEF Hw!CODES, Hw!DST
<1>10. mem \in Memory(MemSize)
  BY <1>1, <1>3 DEF Memory, Addr
<1>11. Typed
  BY <1>4, <1>5, <1>6, <1>7, <1>8, <1>9, <1>10 DEF Typed
<1>12. \A t \in Threads : thread[t] \in ThreadRecs /\ thread[t].pc = "idle"
  BY <1>1, AsleepType
<1>13. thread \in [Threads -> ThreadRecs]
  BY <1>1, <1>12
<1>14. Kept
  <2>1. addrs \in [treeStr : MemWord, textSrc : MemWord, dst : MemWord]
    BY <1>1, <1>2 DEF NoAddrs
  <2>2. gpio \in BOOLEAN
    BY <1>1
  <2> QED
    BY <1>9, <1>13, <2>1, <2>2 DEF Kept, ThreadRecs
<1>15. Driven
  BY <1>12 DEF Driven, Working, HasFile
<1> QED
  BY <1>11, <1>14, <1>15 DEF Data

\* Every register and every byte of the memory is what the request being served
\* has made it: the driver's layout, the copied tree, the codes of the letters
\* handed over, and the file so far (hardware.c:63-160, tree_handler.vhd:115-244,
\* text_handler.vhd:209-340, encoder.vhd:233-330).
THEOREM DataInvariance == Undisturbed /\ WellFormed => (Spec => []Data)
<1> SUFFICES ASSUME Undisturbed, WellFormed PROVE Spec => []Data
  OBVIOUS
<1>1. Threads = {One} /\ One \in Threads
  BY OneThread
<1>2. MaxCrashes = 0 /\ MinGap \in Nat /\ MinGap >= 3
  BY BoundsAssumption DEF Undisturbed
<1>3. Init => Data
  BY <1>1, InitData
<1>4. Data /\ Control /\ [Next]_vars => Data'
  <2> SUFFICES ASSUME Data, Control, [Next]_vars PROVE Data'
    OBVIOUS
  <2>1. ASSUME NEW job \in Jobs, NEW tail \in Tails, Request(One, job, tail)
        PROVE  Data'
    BY <1>1, <2>1, RequestData
  <2>2. CASE WriteCodesToMem(One)
    BY <1>1, <2>2, CodesData
  <2>3. CASE WriteTreeToMem(One)
    BY <1>1, <2>3, TreeData
  <2>4. CASE WriteTextToMem(One)
    BY <1>1, <2>4, TextData
  <2>5. CASE ReadTotal(One)
    BY <1>1, <2>5, TotalData
  <2>6. CASE CopyOut(One)
    BY <1>1, <2>6, CopyData
  <2>7. ASSUME NEW wait \in BOOLEAN, NEW latch \in Latches, AccessEdge(One, wait, latch)
        PROVE  Data'
    <3>1. thread[One].pc \in {"addrs", "reset", "start", "wait"}
      BY <2>7 DEF AccessEdge, SlavePcs
    <3>2. CASE thread[One].pc = "addrs"
      BY <1>1, <2>7, <3>2, AddrsData
    <3>3. CASE thread[One].pc \in {"reset", "start"}
      BY <1>1, <1>2, <2>7, <3>3, PulseData
    <3>4. CASE thread[One].pc = "wait"
      BY <1>1, <2>7, <3>4, PollData
    <3> QED
      BY <3>1, <3>2, <3>3, <3>4
  <2>8. ASSUME NEW wait \in BOOLEAN, NEW latch \in Latches, Edge(wait, latch)
        PROVE  Data'
    BY <1>1, <2>8, EdgeData
  <2>9. ~Crash
    BY SMT, <1>2 DEF Crash, Control
  <2>10. CASE UNCHANGED vars
    BY <1>1, <2>10, DataStays
  <2> QED
    BY <1>1, <2>1, <2>2, <2>3, <2>4, <2>5, <2>6, <2>7, <2>8, <2>9, <2>10 DEF Next, ThreadStep
<1>5. Spec => []Control
  BY ControlInvariance
<1> QED
  BY <1>3, <1>4, <1>5, PTL DEF Spec

-----------------------------------------------------------------------------
(* What the data invariant says of the runs' properties *)

\* Only a polling thread has the top-level process at work.
LEMMA WhoWaits ==
    ASSUME Control, Threads = {One}, enc.state # "IDLE"
    PROVE  thread[One].pc = "wait"
  BY ControlParts DEF DriverAt, EncQuiet

\* The text handler at work.
LEMMA AtText ==
    ASSUME Data, WellFormed, Control, Threads = {One}, text.state # "IDLE"
    PROVE  Encoding /\ TextWork /\ TextPart
<1>1. EncPart /\ TextPart
  BY ControlParts
<1>2. enc.state = "TEXT_WAIT"
  BY <1>1 DEF EncPart, TextResting
<1>3. Serving /\ Work
  BY <1>2, WhoWaits, AtWork
<1> QED
  BY <1>1, <1>2, <1>3 DEF Encoding, Work

\* The done pulse of the code reader and of the code writer answer the text
\* handler's last request (text_handler.vhd:270-302).
THEOREM PulsesAreAnswered == Undisturbed /\ WellFormed => (Spec => []PulsesAnswered)
<1>1. ASSUME Data, WellFormed, Control, Threads = {One} PROVE PulsesAnswered
  <2>1. ASSUME text.state = "READ_CODE_WAIT", cr.done
        PROVE  /\ cr.at = text.codeAddr /\ cr.state = "IDLE" /\ ~text.startCR
               /\ \E t \in Threads : cr.code = thread[t].job.codes[Index(text.char) + 1]
    <3>1. TextWork /\ TextPart
      BY <1>1, <2>1, AtText
    <3>2. cr.at = text.codeAddr /\ cr.state = "IDLE" /\ ~text.startCR
      BY <2>1, <3>1 DEF TextPart, ReaderPart, CRResting, CRBusy, CRDone
    <3>3. text.char = X[text.off] /\ cr.code = LetterCode
      BY <2>1, <3>1 DEF TextWork, Letter
    <3>4. cr.code = thread[One].job.codes[Index(text.char) + 1]
      BY <3>3 DEF LetterCode, J
    <3> QED
      BY <1>1, <3>2, <3>4
  <2>2. ASSUME text.state \in {"WRITE_CODE_WAIT", "WAIT_PADDING"}, cw.done
        PROVE  cw.code = text.wrCode /\ cw.state = "IDLE" /\ ~text.startCW
    <3>1. TextPart
      BY <1>1, ControlParts
    <3> QED
      BY <2>2, <3>1 DEF TextPart, WriterPart, CWResting, CWBusy, CWDone
  <2> QED
    BY <2>1, <2>2 DEF PulsesAnswered
<1> SUFFICES ASSUME Undisturbed, WellFormed PROVE Spec => []PulsesAnswered
  OBVIOUS
<1>2. Data /\ Control => PulsesAnswered
  BY <1>1, OneThread
<1>3. (Spec => []Data) /\ (Spec => []Control)
  BY DataInvariance, ControlInvariance
<1> QED
  BY <1>2, <1>3, PTL

\* The encoder writes into the waiting thread's file and nowhere else
\* (hardware.c:104-160, encoder.vhd:336-376).
LEMMA BusInFile ==
    ASSUME Data, WellFormed, Control, Threads = {One}, Hw!Bus.write
    PROVE  /\ thread[One].pc = "wait"
           /\ Hw!Bus.addr \in Dst .. Dst + Len(File(J, X)) - 1
<1>1. TreeShape /\ TextPart /\ EncPart
  BY ControlParts
<1>2. enc.mux # "NONE"
  BY BusOfMux
<1>3. enc.state # "IDLE" /\ EncShape
  BY <1>1, <1>2 DEF EncPart, EncShape
<1>4. thread[One].pc = "wait" /\ Serving /\ Work /\ MemSize \in Nat
  BY <1>3, WhoWaits, AtWork, MemSizeIsNat
<1>5. /\ Dst \in Nat /\ BodyAt \in Nat /\ Len(J.tree) \in Nat
      /\ Len(Body(J, X)) \in Nat /\ Len(File(J, X)) \in Nat
      /\ BodyAt = Dst + 12 + Len(J.tree)
      /\ Dst + Len(File(J, X)) = BodyAt + Len(Body(J, X))
      /\ Len(File(J, X)) = 12 + Len(J.tree) + Len(Body(J, X))
  BY <1>4, FileBounds DEF Serving
<1>6. CASE enc.mux = "TREE"
  <2>1. tree.write /\ Hw!Bus.addr = tree.addr
    BY <1>6, BusOfMux
  <2>2. enc.state = "TREE_WAIT"
    BY <1>3, <1>6 DEF EncShape, Hw!States
  <2>3. TreeWork
    BY <1>4, <2>2 DEF Work
  <2> QED
    BY <1>4, <2>1, <2>3, TreeWritesFile
<1>7. CASE enc.mux = "TXT"
  <2>1. Hw!Bus = Hw!Text!Bus
    BY <1>7, BusOfMux
  <2>2. text.state # "IDLE"
    <3>1. text.write \/ cw.write
      BY <2>1, BusOfTextMux, <1>1 DEF TextPart, TextShape, Hw!Text!Muxes
    <3> QED
      BY <1>1, <3>1 DEF TextPart, TextShape, CWShape, WriterPart, CWResting
  <2>3. Encoding
    BY <2>2, AtText
  <2>4. \/ Hw!Bus.addr \in Dst + 8 .. Dst + 11
        \/ Hw!Bus.addr \in BodyAt .. BodyAt + Len(Body(J, X)) - 1
    BY <1>4, <2>1, <2>3, TextWritesFile
  <2> DEFINE a == Hw!Bus.addr
             t == Len(J.tree)
             b == Len(Body(J, X))
             f == Len(File(J, X))
             d == Dst
             p == BodyAt
  <2>5. /\ d \in Nat /\ p \in Nat /\ t \in Nat /\ b \in Nat /\ f \in Nat
        /\ p = d + 12 + t /\ d + f = p + b /\ f = 12 + t + b
        /\ a \in d + 8 .. d + 11 \/ a \in p .. p + b - 1
    BY <1>5, <2>4, Zenon
  <2> HIDE DEF a, t, b, f, d, p
  <2>6. a \in d .. d + f - 1
    BY <2>5
  <2> QED
    BY <1>4, <2>6 DEF a, d, f
<1>8. CASE enc.mux = "OWN"
  <2>1. enc.write /\ Hw!Bus.addr = enc.addr
    BY <1>8, BusOfMux
  <2>2. enc.state = "WR_TOTAL_LEN_WAIT" /\ enc.k \in 0 .. 3
    BY <1>3, <2>1 DEF EncShape
  <2>3. enc.addr = Dst + enc.k
    BY <1>4, <2>2 DEF Work
  <2> QED
    BY <1>4, <1>5, <2>1, <2>2, <2>3
<1> QED
  BY <1>2, <1>3, <1>6, <1>7, <1>8 DEF EncShape, Hw!States

\* Whatever bytes the jobs have, the encoder writes behind the codes, the tree
\* and the text it still reads, and not beyond the file of the waiting thread
\* (hardware.c:104-160, encoder.vhd:336-376).
THEOREM WritesStayInFile == Undisturbed /\ WellFormed => (Spec => []WritesInFile)
<1>1. ASSUME Data, WellFormed, Control, Threads = {One} PROVE WritesInFile
  <2> SUFFICES ASSUME Hw!Bus.write
               PROVE  /\ thread[One].pc = "wait"
                      /\ Hw!Bus.addr > addrs.textSrc + Len(thread[One].text)
                      /\ Hw!Bus.addr \in addrs.dst .. addrs.dst + Len(OwnFile(One)) - 1
    BY <1>1 DEF WritesInFile
  <2>1. thread[One].pc = "wait" /\ Hw!Bus.addr \in Dst .. Dst + Len(File(J, X)) - 1
    BY <1>1, BusInFile
  <2>2. Driven
    BY <1>1 DEF Data
  <2>3. /\ addrs = [treeStr |-> TreePlace(J), textSrc |-> TextPlace(J), dst |-> Dst]
        /\ Fine(J, X)
    BY <2>1, <2>2 DEF Driven, Working
  <2>4. addrs.textSrc = TextPlace(J) /\ addrs.dst = Dst
    BY <2>3
  <2>5. OwnFile(One) = File(J, X)
    BY DEF OwnFile, File, With, J, X
  <2>6. Dst \in Nat /\ TextPlace(J) \in Nat /\ N \in Nat /\ TextPlace(J) + N < Dst
    BY <1>1, <2>3, FileBounds, MemSizeIsNat
  <2>7. Hw!Bus.addr > TextPlace(J) + N
    <3> DEFINE a == Hw!Bus.addr
               f == Len(File(J, X))
               d == Dst
               p == TextPlace(J)
               n == N
    <3>1. d \in Nat /\ p \in Nat /\ n \in Nat /\ p + n < d /\ a \in d .. d + f - 1
      BY <2>1, <2>6, Zenon
    <3> HIDE DEF a, f, d, p, n
    <3>2. a > p + n
      BY <3>1
    <3> QED
      BY <3>2 DEF a, p, n
  <2> QED
    BY <2>1, <2>4, <2>5, <2>7 DEF N, X
<1> SUFFICES ASSUME Undisturbed, WellFormed PROVE Spec => []WritesInFile
  OBVIOUS
<1>2. Data /\ Control => WritesInFile
  BY <1>1, OneThread
<1>3. (Spec => []Data) /\ (Spec => []Control)
  BY DataInvariance, ControlInvariance
<1> QED
  BY <1>2, <1>3, PTL

\* A thread that reads Status = 1 finds its own, complete file in memory, not
\* what the request before left (encoder.vhd:209-225, hardware.c:177-184).
THEOREM StatusIsFresh == Undisturbed /\ WellFormed => (Spec => []StatusFresh)
<1>1. ASSUME Data, WellFormed, Control, Threads = {One} PROVE StatusFresh
  <2> SUFFICES ASSUME thread[One].pc = "wait", ctl.status
               PROVE  Bytes(mem, addrs.dst, Len(OwnFile(One))) = OwnFile(One)
    BY <1>1 DEF StatusFresh
  <2>1. Serving /\ Work
    BY <1>1, AtWork
  <2>2. FileOut /\ Fine(J, X)
    BY <2>1 DEF Work, Serving
  <2>3. addrs.dst = Dst
    BY <1>1 DEF Data, Driven, Working
  <2>4. OwnFile(One) = File(J, X)
    BY DEF OwnFile, File, With, J, X
  <2> DEFINE F == File(J, X)
             n == Len(F)
  <2>5. F \in [1 .. n -> Byte]
    BY <2>2, FileType, LenProperties
  <2>6. \A i \in 1 .. n : mem[Dst + i - 1] = F[i]
    BY <2>2 DEF FileOut, Holds
  <2> HIDE DEF F, n
  <2>7. Bytes(mem, Dst, n) = F
    BY <2>5, <2>6 DEF Bytes
  <2> QED
    BY <2>3, <2>4, <2>7 DEF F, n
<1> SUFFICES ASSUME Undisturbed, WellFormed PROVE Spec => []StatusFresh
  OBVIOUS
<1>2. Data /\ Control => StatusFresh
  BY <1>1, OneThread
<1>3. (Spec => []Data) /\ (Spec => []Control)
  BY DataInvariance, ControlInvariance
<1> QED
  BY <1>2, <1>3, PTL

\* Everything is of its kind, and the bits not yet written never exceed the 64
\* of the code writer's register (hardware.c:162-184, code_writer.vhd:60).
THEOREM HwTypes == Undisturbed /\ WellFormed => (Spec => []TypeOK)
<1>1. ASSUME Data, WellFormed, Control, Threads = {One} PROVE TypeOK
  <2>1. Kept /\ Typed /\ CWTyped /\ mem \in Memory(MemSize)
    BY <1>1 DEF Data, Typed
  <2>2. /\ TreeShape /\ TextPart /\ EncPart /\ CtlShape /\ gap \in 1 .. MinGap
        /\ TextShape /\ CRShape /\ CWShape /\ EncShape
    BY <1>1, ControlParts DEF TextPart, EncPart
  <2>3. enc.mux \in Hw!Muxes
    BY <2>2 DEF EncShape, Hw!States, Hw!Muxes
  <2>4. ctl.control \subseteq {0, 1}
    BY <2>2 DEF CtlShape
  <2>5. ctl.reg \in [Hw!CODES .. Hw!DST -> MemWord]
    BY <2>1 DEF Kept, Hw!CODES, Hw!DST
  <2>6. mem \in [Addr -> Byte] /\ Len(cw.wip) <= 64
    BY <2>1 DEF Memory, Addr, CWTyped
  <2>7. /\ thread \in [Threads -> [pc : Pcs, i : 0 .. 3, job : Jobs,
                                   text : Seq(Byte), total : Nat, file : Seq(Byte)]]
        /\ addrs \in [treeStr : MemWord, textSrc : MemWord, dst : MemWord]
        /\ gpio \in BOOLEAN
    BY <2>1 DEF Kept
  <2>8. /\ enc.state \in Hw!States /\ tree.state \in Hw!Tree!States
        /\ text.state \in Hw!Text!States /\ text.mux \in Hw!Text!Muxes
        /\ cr.state \in Hw!Text!CR!States /\ cw.state \in Hw!Text!CW!States
    BY <2>2 DEF EncShape, TreeShape, TextShape, CRShape, CWShape
  <2> QED
    BY <2>2, <2>3, <2>4, <2>5, <2>6, <2>7, <2>8 DEF TypeOK
<1> SUFFICES ASSUME Undisturbed, WellFormed PROVE Spec => []TypeOK
  OBVIOUS
<1>2. Data /\ Control => TypeOK
  BY <1>1, OneThread
<1>3. (Spec => []Data) /\ (Spec => []Control)
  BY DataInvariance, ControlInvariance
<1> QED
  BY <1>2, <1>3, PTL

-----------------------------------------------------------------------------
(* The service that hw_compress implements *)

\* Nothing stands behind the text in its buffer.
NoTails == Tails = {<<>>}

\* A thread at work encodes its job's text, and one that is done has its file.
OwnText ==
    /\ thread[One].pc # "idle" => X = J.text
    /\ thread[One].pc = "idle" /\ thread[One].file # NoReply =>
          thread[One].file = HfcFile(J)

\* A step with which the thread does not take or answer a request.
Between ==
    /\ thread' \in [Threads -> ThreadRecs] /\ SameRequest
    /\ thread'[One].file = thread[One].file
    /\ thread'[One].pc = "idle" <=> thread[One].pc = "idle"

\* The file of the job's own text is the job's file.
LEMMA OwnJobFile ==
    ASSUME NEW job, NEW x, Fine(job, x), x = job.text
    PROVE  File(job, x) = HfcFile(job)
<1>1. job \in [codes : CodeTables, tree : String, text : String]
  BY DEF Fine
<1>2. [job EXCEPT !.text = x] = job
  BY <1>1
<1> QED
  BY <1>2 DEF File, With

\* The thread goes on at another line than the one where it waits for requests.
LEMMA GoesOnBetween ==
    ASSUME Kept, One \in Threads, thread[One].pc # "idle",
           NEW pc \in Pcs \ {"idle"}, NEW i \in 0 .. 3, NEW total \in Nat,
           thread' = [thread EXCEPT ![One].pc = pc, ![One].i = i, ![One].total = total]
    PROVE  Between
<1>1. /\ thread' \in [Threads -> ThreadRecs] /\ SameRequest
      /\ thread'[One].file = thread[One].file /\ thread'[One].pc = pc
  BY GoesOn
<1> QED
  BY <1>1 DEF Between

\* A write of an input neither takes nor answers a request.
LEMMA WritesBetween ==
    ASSUME Kept, One \in Threads,
           WriteCodesToMem(One) \/ WriteTreeToMem(One) \/ WriteTextToMem(One)
    PROVE  Between
<1> DEFINE i == thread[One].i
           n == thread[One].total
<1>1. i \in 0 .. 3 /\ n \in Nat /\ thread \in [Threads -> ThreadRecs] /\ 0 \in 0 .. 3
  BY DEF Kept, ThreadRecs
<1>2. /\ "tree" \in Pcs \ {"idle"} /\ "text" \in Pcs \ {"idle"}
      /\ "addrs" \in Pcs \ {"idle"}
  BY DEF Pcs, SlavePcs
<1>3. thread[One].pc # "idle"
  BY DEF WriteCodesToMem, WriteTreeToMem, WriteTextToMem
<1>4. CASE WriteCodesToMem(One)
  <2>1. thread' = [thread EXCEPT ![One].pc = "tree"]
    BY <1>4 DEF WriteCodesToMem, Goto
  <2>2. thread' = [thread EXCEPT ![One].pc = "tree", ![One].i = i, ![One].total = n]
    BY <1>1, <2>1 DEF ThreadRecs
  <2> QED
    BY <1>1, <1>2, <1>3, <2>2, GoesOnBetween
<1>5. CASE WriteTreeToMem(One)
  <2>1. thread' = [thread EXCEPT ![One].pc = "text"]
    BY <1>5 DEF WriteTreeToMem, Goto
  <2>2. thread' = [thread EXCEPT ![One].pc = "text", ![One].i = i, ![One].total = n]
    BY <1>1, <2>1 DEF ThreadRecs
  <2> QED
    BY <1>1, <1>2, <1>3, <2>2, GoesOnBetween
<1>6. CASE WriteTextToMem(One)
  <2>1. thread' = [thread EXCEPT ![One].pc = "addrs", ![One].i = 0]
    BY <1>6 DEF WriteTextToMem
  <2>2. thread' = [thread EXCEPT ![One].pc = "addrs", ![One].i = 0, ![One].total = n]
    BY <1>1, <2>1 DEF ThreadRecs
  <2> QED
    BY <1>1, <1>2, <1>3, <2>2, GoesOnBetween
<1> QED
  BY <1>4, <1>5, <1>6

\* Reading the length neither takes nor answers a request.
LEMMA ReadBetween ==
    ASSUME Kept, One \in Threads, ReadTotal(One), WordAt(mem, addrs.dst) \in Nat
    PROVE  Between
<1> DEFINE i == thread[One].i
           w == WordAt(mem, addrs.dst)
<1>1. i \in 0 .. 3 /\ thread \in [Threads -> ThreadRecs] /\ "copy" \in Pcs \ {"idle"}
  BY DEF Kept, ThreadRecs, Pcs
<1>2. thread[One].pc # "idle" /\ thread' = [thread EXCEPT ![One].pc = "copy", ![One].total = w]
  BY DEF ReadTotal
<1>3. w \in Nat
  OBVIOUS
<1> HIDE DEF w
<1>4. thread' = [thread EXCEPT ![One].pc = "copy", ![One].i = i, ![One].total = w]
  BY <1>1, <1>2 DEF ThreadRecs
<1>5. thread[One].pc # "idle"
  BY <1>2
<1> HIDE DEF i
<1> QED
  BY <1>1, <1>3, <1>4, <1>5, GoesOnBetween, Zenon

\* A step either takes a request, answers it, or is between the two.
LEMMA ThreeKinds ==
    ASSUME Data, WellFormed, Control, Threads = {One}, MaxCrashes \in Nat, MaxCrashes = 0,
           [Next]_vars
    PROVE  \/ \E job \in Jobs, tail \in Tails : Request(One, job, tail)
           \/ CopyOut(One)
           \/ Between
<1>1. Kept /\ One \in Threads /\ Driven /\ MemSize \in Nat /\ MemSize \in Words
  BY MemSizeIsNat DEF Data, WellFormed
<1>2. thread \in [Threads -> ThreadRecs]
  BY <1>1 DEF Kept, ThreadRecs
<1>3. CASE ReadTotal(One)
  <2>1. thread[One].pc = "total"
    BY <1>3 DEF ReadTotal
  <2>2. Fine(J, X) /\ FileOut /\ addrs.dst = FilePlace(J, X)
    BY <1>1, <2>1 DEF Driven, HasFile, Dst
  <2>3. WordAt(mem, addrs.dst) = Len(File(J, X)) /\ Len(File(J, X)) \in Nat
    BY <1>1, <2>2, FirstWord, LayoutNumbers DEF FileOut, Dst
  <2> QED
    BY <1>1, <1>3, <2>3, ReadBetween
<1>4. CASE WriteCodesToMem(One) \/ WriteTreeToMem(One) \/ WriteTextToMem(One)
  BY <1>1, <1>4, WritesBetween
<1>5. ASSUME NEW wait \in BOOLEAN, NEW latch \in Latches, AccessEdge(One, wait, latch)
      PROVE  Between
  <2>1. AfterAccess(One) /\ thread[One].pc \in SlavePcs
    BY <1>5 DEF AccessEdge
  <2>2. /\ thread' \in [Threads -> ThreadRecs] /\ SameRequest
        /\ thread'[One].file = thread[One].file
        /\ thread'[One].pc # "idle"
    BY <1>1, <2>1, AccessGoes DEF SlavePcs
  <2>3. thread[One].pc # "idle"
    BY <2>1 DEF SlavePcs
  <2> QED
    BY <2>2, <2>3 DEF Between
<1>6. ASSUME thread' = thread PROVE Between
  BY <1>2, <1>6 DEF Between, SameRequest, J, X
<1>7. (\E wait \in BOOLEAN, latch \in Latches : Edge(wait, latch)) => thread' = thread
  BY DEF Edge
<1>8. UNCHANGED vars => thread' = thread
  BY DEF vars
<1>9. ~Crash
  BY SMT DEF Crash, Control
<1> QED
  BY <1>3, <1>4, <1>5, <1>6, <1>7, <1>8, <1>9 DEF Next, ThreadStep

\* What the service sees.
Phase == IF thread[One].pc = "idle" THEN "idle" ELSE "busy"

\* A request is the service's question.
LEMMA RequestAsks ==
    ASSUME Data, WellFormed, Threads = {One}, NoTails,
           NEW job \in Jobs, NEW tail \in Tails, Request(One, job, tail)
    PROVE  Service!Ask(One, job) /\ OwnText'
<1>1. Kept /\ thread \in [Threads -> ThreadRecs]
  BY DEF Data, Kept, ThreadRecs
<1>2. /\ thread[One].pc = "idle"
      /\ thread' = [thread EXCEPT ![One] = [Asleep(job) EXCEPT
                       !.pc = "codes", !.text = job.text \o tail]]
  BY DEF Request
<1>3. Fine(job, job.text \o tail)
  BY DEF WellFormed
<1>4. job.text \o tail = job.text
  <2>1. job \in [codes : CodeTables, tree : String, text : String]
    BY <1>3 DEF Fine
  <2>2. job.text \in String
    BY <2>1
  <2>3. tail = <<>> /\ job.text \in Seq(1 .. 255)
    BY <2>2 DEF NoTails, String
  <2> QED
    BY <2>3, ConcatEmptySeq
<1> DEFINE r == [Asleep(job) EXCEPT !.pc = "codes", !.text = job.text]
<1>5. r.pc = "codes" /\ r.job = job /\ r.text = job.text /\ r.file = NoReply
  BY SMT DEF Asleep
<1> HIDE DEF r
<1>6. thread' = [thread EXCEPT ![One] = r]
  BY <1>2, <1>4 DEF r
<1>7. thread'[One] = r
  BY <1>1, <1>6
<1>8. Phase = "idle" /\ Phase' = "busy" /\ J' = job /\ X' = job.text
  BY <1>2, <1>5, <1>7 DEF Phase, J, X
<1>9. OwnText'
  BY <1>5, <1>7, <1>8 DEF OwnText
<1>10. Service!Ask(One, job)
  BY <1>5, <1>7, <1>8 DEF Service!Ask, Service!NoReply, NoReply, Phase, J
<1> QED
  BY <1>9, <1>10

\* The copy is the service's answer.
LEMMA CopyAnswers ==
    ASSUME Data, WellFormed, Threads = {One}, OwnText, CopyOut(One)
    PROVE  Service!Answer(One) /\ OwnText'
<1>1. /\ J' = J /\ thread'[One].pc = "idle" /\ thread'[One].file = File(J, X)
      /\ thread[One].pc = "copy"
  BY CopyData DEF CopyOut
<1>2. X = J.text /\ Fine(J, X)
  BY <1>1 DEF OwnText, Data, Driven
<1>3. File(J, X) = HfcFile(J)
  BY <1>2, OwnJobFile
<1>4. OwnText'
  BY <1>1, <1>3 DEF OwnText
<1>5. Phase = "busy" /\ Phase' = "idle"
  BY <1>1 DEF Phase
<1>6. Service!HfcFile(J) = HfcFile(J)
  <2>1. \A w : Service!LittleEndian(w) = LittleEndian(w)
    <3>1. \A w, k : Service!WordByte(w, k) = WordByte(w, k)
      BY DEF Service!WordByte, WordByte
    <3> QED
      BY <3>1 DEF Service!LittleEndian, LittleEndian
  <2>2. \A b : Service!Packed(b) = Packed(b)
    <3>1. \A s : Service!PackByte(s) = PackByte(s)
      BY DEF Service!PackByte, PackByte
    <3> QED
      BY <3>1 DEF Service!Packed, Packed
  <2>3. \A s : Service!FlattenSeq(s) = FlattenSeq(s)
    BY Zenon DEF Service!FlattenSeq, FlattenSeq
  <2>4. \A c : Service!Index(c) = Index(c)
    BY Zenon DEF Service!Index, Index
  <2>5. \A job : Service!CodeBits(job) = CodeBits(job)
    BY <2>3, <2>4, Zenon DEF Service!CodeBits, CodeBits
  <2> QED
    BY <2>1, <2>2, <2>5, Zenon DEF Service!HfcFile, HfcFile
<1>7. Service!Answer(One)
  <2>1. \A t \in Threads :
           /\ thread[t].pc # "idle" /\ thread'[t].pc = "idle" /\ thread[t].job = J
           /\ thread'[t].job = thread[t].job
           /\ thread'[t].file = Service!HfcFile(J)
    BY <1>1, <1>3, <1>6 DEF J
  <2>2. J = thread[One].job
    BY DEF J
  <2> QED
    BY <2>1, <2>2 DEF Service!Answer
<1> QED
  BY <1>4, <1>7

\* The steps between change nothing the service shows.
LEMMA BetweenStutters ==
    ASSUME Threads = {One}, OwnText, Between
    PROVE  UNCHANGED Service!serviceVars /\ OwnText'
<1>1. J' = J /\ X' = X /\ thread'[One].file = thread[One].file /\ Phase' = Phase
  BY DEF Between, SameRequest, Phase
<1>2. OwnText'
  BY <1>1 DEF OwnText, Between
<1>3. \A t \in Threads :
         /\ (IF thread'[t].pc = "idle" THEN "idle" ELSE "busy") =
               (IF thread[t].pc = "idle" THEN "idle" ELSE "busy")
         /\ thread'[t].job = thread[t].job /\ thread'[t].file = thread[t].file
  BY <1>1 DEF Phase, J
<1>4. UNCHANGED Service!serviceVars
  BY <1>3 DEF Service!serviceVars
<1> QED
  BY <1>2, <1>4

\* The first state is the service's.
LEMMA AtFirst ==
    ASSUME Init, Threads = {One}
    PROVE  Service!ServiceInit /\ OwnText
<1>1. thread \in [Threads -> {Asleep(job) : job \in Jobs}]
  BY DEF Init
<1>2. \A t \in Threads : \E job \in Jobs : thread[t] = Asleep(job)
  BY <1>1
<1>3. \A job \in Jobs : /\ Asleep(job).pc = "idle" /\ Asleep(job).job = job
                        /\ Asleep(job).file = NoReply
  BY SMT DEF Asleep
<1>4. \A t \in Threads : /\ thread[t].pc = "idle" /\ thread[t].job \in Jobs
                         /\ thread[t].file = NoReply
  BY <1>2, <1>3
<1>5. OwnText
  BY <1>4 DEF OwnText
<1>6. Service!ServiceInit
  BY <1>4 DEF Service!ServiceInit, Service!NoReply, NoReply
<1> QED
  BY <1>5, <1>6

\* Every step is a step of the service or none.
LEMMA ServiceStep ==
    ASSUME Data, WellFormed, Control, Threads = {One}, MaxCrashes \in Nat, MaxCrashes = 0,
           NoTails, OwnText, [Next]_vars
    PROVE  [Service!ServiceNext]_Service!serviceVars /\ OwnText'
<1>1. CASE \E job \in Jobs, tail \in Tails : Request(One, job, tail)
  <2>1. PICK job \in Jobs, tail \in Tails : Request(One, job, tail)
    BY <1>1
  <2>2. Service!Ask(One, job) /\ OwnText'
    BY <2>1, RequestAsks
  <2> QED
    BY <2>2 DEF Service!ServiceNext
<1>2. CASE CopyOut(One)
  <2>1. Service!Answer(One) /\ OwnText'
    BY <1>2, CopyAnswers
  <2> QED
    BY <2>1 DEF Service!ServiceNext
<1>3. CASE Between
  BY <1>3, BetweenStutters
<1> QED
  BY <1>1, <1>2, <1>3, ThreeKinds

\* hw_compress with one thread answers each request once, with the file of the
\* requested text, whatever the clock, the controller and the latches do: every
\* step is one of the service's or changes nothing a caller sees
\* (handlers.c:237-286, hardware.c:63-217).
THEOREM ImplementsService ==
    Undisturbed /\ WellFormed /\ NoTails =>
        (Spec => Service!ServiceInit /\ [][Service!ServiceNext]_Service!serviceVars)
<1> SUFFICES ASSUME Undisturbed, WellFormed, NoTails
             PROVE  Spec => Service!ServiceInit /\ [][Service!ServiceNext]_Service!serviceVars
  OBVIOUS
<1>1. Threads = {One} /\ MaxCrashes \in Nat /\ MaxCrashes = 0
  BY OneThread, BoundsAssumption DEF Undisturbed
<1>2. Init => Service!ServiceInit /\ OwnText
  BY <1>1, AtFirst
<1>3. Data /\ Control /\ OwnText /\ [Next]_vars =>
         [Service!ServiceNext]_Service!serviceVars /\ OwnText'
  BY <1>1, ServiceStep
<1>4. (Spec => []Data) /\ (Spec => []Control)
  BY DataInvariance, ControlInvariance
<1> QED
  BY <1>2, <1>3, <1>4, PTL DEF Spec

\* What a caller gets is the file of its own text, where one thread compresses
\* at a time and nothing stands behind the text in its buffer
\* (handlers.c:70-72).
THEOREM OneThreadEncodesOwnJob ==
    Undisturbed /\ WellFormed /\ NoTails => (Spec => []EncodesOwnJob)
<1> SUFFICES ASSUME Undisturbed, WellFormed, NoTails PROVE Spec => []EncodesOwnJob
  OBVIOUS
<1>1. Threads = {One} /\ MaxCrashes \in Nat /\ MaxCrashes = 0
  BY OneThread, BoundsAssumption DEF Undisturbed
<1>2. Init => OwnText
  BY <1>1, AtFirst
<1>3. Data /\ Control /\ OwnText /\ [Next]_vars => OwnText'
  BY <1>1, ServiceStep
<1>4. OwnText => EncodesOwnJob
  BY <1>1 DEF OwnText, EncodesOwnJob, J
<1>5. (Spec => []Data) /\ (Spec => []Control)
  BY DataInvariance, ControlInvariance
<1> QED
  BY <1>2, <1>3, <1>4, <1>5, PTL DEF Spec

=============================================================================
