------------------------------ MODULE HwCompress ------------------------------
(***************************************************************************)
(* hw_compress of linux_program/src/handlers.c and the driver functions of *)
(* linux_program/src/hardware.c it calls, run by the threads of main.c     *)
(* against the encoder and the SDRAM.                                      *)
(*                                                                         *)
(* The threads share addrs, the one global_addrs of the process, and the   *)
(* accelerator; nothing else.  An access to the encoder's slave port takes *)
(* place at a clock edge; the accesses to the SDRAM a driver function      *)
(* makes are one step between two clock edges.  addrs holds offsets from   *)
(* encoder_memory, which is what the driver passes on; codes is always 0.  *)
(***************************************************************************)
EXTENDS HfcFormat

CONSTANTS
    Threads, Jobs,
    Tails,      \* what may follow the text in its malloc'd buffer up to a NUL
    NLetters,   \* letters in the code table (56 in the source)
    CodesArea,  \* offset of the first code string (256 in the source)
    MemSize,    \* bound: modelled bytes of SDRAM
    MinGap,     \* clock edges from one slave access to the next, at least
    Latches,    \* what the latches of unselected masters may hold
    MaxJobs,    \* bound: requests
    MaxCrashes  \* bound: restarts of the server process

ASSUME LayoutAssumption ==
    /\ NLetters \in Nat \ {0}
    /\ CodesArea \in Nat /\ CodesArea >= 4 * NLetters
    /\ \A job \in Jobs : Len(job.codes) = NLetters
ASSUME BoundsAssumption ==
    /\ MinGap \in Nat \ {0} /\ MaxJobs \in Nat /\ MaxCrashes \in Nat
    /\ Latches \subseteq [wait : BOOLEAN, data : Byte]

NoReply == <<>>

VARIABLES
    thread,     \* per thread: pc and the locals of hw_compress
    addrs,      \* the global_addrs of the process
    gpio,       \* bit 0 of gpio_0, set while a thread uses the hardware
    mem,        \* the SDRAM
    gap,        \* clock edges since the last slave access, up to MinGap
    jobs,       \* requests so far
    crashes,    \* restarts so far
    ctl, enc, tree, text, cr, cw

Hw == INSTANCE Encoder

hwVars == <<ctl, enc, tree, text, cr, cw>>
vars == <<thread, addrs, gpio, mem, gap, jobs, crashes, hwVars>>

Addr == 0 .. MemSize - 1

SlavePcs == {"addrs", "reset", "start", "wait"}
Pcs == {"idle", "codes", "tree", "text", "total", "copy"} \cup SlavePcs

NoAddrs == [treeStr |-> 0, textSrc |-> 0, dst |-> 0]
Asleep(job) == [pc |-> "idle", i |-> 0, job |-> job, text |-> <<>>,
                total |-> 0, file |-> NoReply]

Init ==
    /\ thread \in [Threads -> {Asleep(job) : job \in Jobs}]
    /\ addrs = NoAddrs
    /\ gpio = FALSE
    /\ mem = [a \in Addr |-> 0]
    /\ gap = MinGap
    /\ jobs = 0 /\ crashes = 0
    /\ Hw!Init

Goto(t, pc) == thread' = [thread EXCEPT ![t].pc = pc]

-----------------------------------------------------------------------------
(* Steps of a thread between two clock edges *)

\* The text is read and encoded in locals, then set_bit(addrs, 0).  text is
\* not terminated: what follows it on the heap is read as part of it.
Request(t, job, tail) ==
    /\ thread[t].pc = "idle" /\ jobs < MaxJobs
    /\ jobs' = jobs + 1
    /\ gpio' = TRUE
    /\ thread' = [thread EXCEPT ![t] = [Asleep(job) EXCEPT
                     !.pc = "codes", !.text = job.text \o tail]]
    /\ UNCHANGED <<addrs, mem, gap, crashes, hwVars>>

\* Mutant: no room for the NUL.
Behind_NoGap(a, n) == a + n

\* The address the driver goes on at behind a string of length n at a.
Behind(a, n) == a + n + 4

\* Where write_codes_to_mem puts each code string: one behind the other.
CodePos(codes) ==
    LET pos[i \in 1 .. NLetters] ==
            IF i = 1 THEN CodesArea ELSE pos[i - 1] + Len(codes[i - 1]) + 1
    IN  pos

Chars(code) == [i \in 1 .. Len(code) |-> 48 + code[i]]

\* The memory after the loop of write_codes_to_mem.
WithCodes(m, codes) ==
    LET pos == CodePos(codes)
        put[i \in 1 .. NLetters] ==
            PutWord(PutStr(IF i = 1 THEN m ELSE put[i - 1], pos[i], Chars(codes[i])),
                    4 * (i - 1), pos[i])
    IN  put[NLetters]

WriteCodesToMem(t) ==
    /\ thread[t].pc = "codes"
    /\ mem' = WithCodes(mem, thread[t].job.codes)
    /\ Goto(t, "tree")
    /\ UNCHANGED <<addrs, gpio, gap, jobs, crashes, hwVars>>

WriteTreeToMem(t) ==
    /\ thread[t].pc = "tree"
    /\ LET last == WordAt(mem, 4 * (NLetters - 1))
           at == Behind(last, StrLen(mem, last))
       IN  /\ addrs' = [addrs EXCEPT !.treeStr = at]
           /\ mem' = PutStr(mem, at, thread[t].job.tree)
    /\ Goto(t, "text")
    /\ UNCHANGED <<gpio, gap, jobs, crashes, hwVars>>

WriteTextToMem(t) ==
    /\ thread[t].pc = "text"
    /\ LET at == Behind(addrs.treeStr, StrLen(mem, addrs.treeStr))
           m == PutStr(mem, at, thread[t].text)
       IN  /\ addrs' = [addrs EXCEPT !.textSrc = at,
                                     !.dst = Behind(at, StrLen(m, at))]
           /\ mem' = m
    /\ thread' = [thread EXCEPT ![t].pc = "addrs", ![t].i = 0]
    /\ UNCHANGED <<gpio, gap, jobs, crashes, hwVars>>

\* total_len is read from the file's first word.
ReadTotal(t) ==
    /\ thread[t].pc = "total"
    /\ thread' = [thread EXCEPT ![t].pc = "copy",
                                ![t].total = WordAt(mem, addrs.dst)]
    /\ UNCHANGED <<addrs, gpio, mem, gap, jobs, crashes, hwVars>>

\* The bytes are copied out, clear_bit(addrs, 0), and the file is returned.
CopyOut(t) ==
    /\ thread[t].pc = "copy"
    /\ thread' = [thread EXCEPT
                     ![t].pc = "idle",
                     ![t].file = [i \in 1 .. thread[t].total |->
                                     Fetch(mem, addrs.dst + i - 1)]]
    /\ gpio' = FALSE
    /\ UNCHANGED <<addrs, mem, gap, jobs, crashes, hwVars>>

\* The server process dies and is started again; the FPGA does not notice.
Crash ==
    /\ crashes < MaxCrashes
    /\ crashes' = crashes + 1
    /\ thread' = [t \in Threads |-> Asleep(thread[t].job)]
    /\ addrs' = NoAddrs
    /\ UNCHANGED <<gpio, mem, gap, jobs, hwVars>>

-----------------------------------------------------------------------------
(* Clock edges *)

\* Everything the FPGA does at one rising edge.
FpgaEdge(slv, wait, latch) ==
    /\ Hw!Tick(slv, [wait |-> wait, data |-> Fetch(mem, Hw!Bus.addr)], latch)
    /\ mem' = Commit(mem, Hw!Bus.write, wait, Hw!Bus.addr, Hw!Bus.data)
    /\ UNCHANGED <<addrs, gpio, jobs, crashes>>

\* An edge without a slave access.
Edge(wait, latch) ==
    /\ FpgaEdge(Hw!NoOp, wait, latch)
    /\ gap' = IF gap < MinGap THEN gap + 1 ELSE gap
    /\ UNCHANGED thread

\* Mutant: the last address is handed over as the processor sees it, with the
\* place of encoder_memory in it.
Access_Absolute(t) ==
    CASE thread[t].pc = "addrs" ->
            Hw!Write(thread[t].i, <<0, addrs.treeStr, addrs.textSrc,
                                    2 * MemSize + addrs.dst>>[thread[t].i + 1])
      [] thread[t].pc = "reset" -> Hw!Write(Hw!CONTROL, {0})
      [] thread[t].pc = "start" -> Hw!Write(Hw!CONTROL, {1})
      [] thread[t].pc = "wait"  -> Hw!ReadStatus

\* The slave access a thread is about to make; addresses go out as offsets from
\* encoder_memory.
Access(t) ==
    CASE thread[t].pc = "addrs" ->
            Hw!Write(thread[t].i, <<0, addrs.treeStr, addrs.textSrc,
                                    addrs.dst>>[thread[t].i + 1])
      [] thread[t].pc = "reset" -> Hw!Write(Hw!CONTROL, {0})
      [] thread[t].pc = "start" -> Hw!Write(Hw!CONTROL, {1})
      [] thread[t].pc = "wait"  -> Hw!ReadStatus

\* How the thread goes on after it: write_addrs_to_encoder makes four, and
\* wait_for_encoder repeats its read until the value is not zero.
AfterAccess(t) ==
    LET pc == thread[t].pc
    IN  thread' = [thread EXCEPT
           ![t].i  = IF pc = "addrs" /\ @ < 3 THEN @ + 1 ELSE @,
           ![t].pc = CASE pc = "addrs" -> IF thread[t].i < 3 THEN pc ELSE "reset"
                       [] pc = "reset" -> "start"
                       [] pc = "start" -> "wait"
                       [] pc = "wait"  -> IF ctl.status THEN "total" ELSE pc]

AccessEdge(t, wait, latch) ==
    /\ thread[t].pc \in SlavePcs
    /\ gap >= MinGap
    /\ FpgaEdge(Access(t), wait, latch)
    /\ AfterAccess(t)
    /\ gap' = 1

-----------------------------------------------------------------------------

ThreadStep(t) ==
    \/ WriteCodesToMem(t)
    \/ WriteTreeToMem(t)
    \/ WriteTextToMem(t)
    \/ ReadTotal(t)
    \/ CopyOut(t)
    \/ \E wait \in BOOLEAN, latch \in Latches : AccessEdge(t, wait, latch)

Next ==
    \/ \E t \in Threads :
          \/ \E job \in Jobs, tail \in Tails : Request(t, job, tail)
          \/ ThreadStep(t)
    \/ \E wait \in BOOLEAN, latch \in Latches : Edge(wait, latch)
    \/ Crash

Spec == Init /\ [][Next]_vars

\* The clock runs, the SDRAM controller answers infinitely often, and the
\* kernel runs every thread.
Fairness ==
    /\ WF_vars(\E latch \in Latches : Edge(FALSE, latch))
    /\ \A t \in Threads : WF_vars(ThreadStep(t))

FairSpec == Spec /\ Fairness
-----------------------------------------------------------------------------
(* Properties *)

MemWord == 0 .. MemSize + 4

\* Everything the driver and the entities keep is of its kind.  The addresses in
\* the slave registers are places in the SDRAM, not the processor's view of them
\* (hardware.c:162-167, encoder.vhd:105).
TypeOK ==
    /\ thread \in [Threads -> [pc : Pcs, i : 0 .. 3, job : Jobs,
                               text : Seq(Byte), total : Nat, file : Seq(Byte)]]
    /\ addrs \in [treeStr : MemWord, textSrc : MemWord, dst : MemWord]
    /\ gpio \in BOOLEAN
    /\ mem \in [Addr -> Byte]
    /\ gap \in 1 .. MinGap
    /\ ctl.reg \in [Hw!CODES .. Hw!DST -> MemWord]
    /\ ctl.control \subseteq {0, 1}
    /\ enc.state \in Hw!States /\ enc.mux \in Hw!Muxes
    /\ tree.state \in Hw!Tree!States
    /\ text.state \in Hw!Text!States /\ text.mux \in Hw!Text!Muxes
    /\ cr.state \in Hw!Text!CR!States /\ cw.state \in Hw!Text!CW!States
    /\ Len(cw.wip) <= 64

\* The file the thread's own text has to become.
OwnFile(t) == HfcFile([thread[t].job EXCEPT !.text = thread[t].text])

\* Five state machines share one bus through two multiplexers that a sixth one
\* switches.  Whoever drives a request or looks at an answer is selected, so
\* no latch of a multiplexer is ever read and no request gets lost
\* (encoder.vhd:336-376, text_handler.vhd:364-403).
BusOwned ==
    /\ tree.read \/ tree.write => enc.mux = "TREE"
    /\ text.read \/ text.write => enc.mux = "TXT" /\ text.mux = "TEXT_HANDLER"
    /\ cr.read => enc.mux = "TXT" /\ text.mux = "CODE_RD"
    /\ cw.write => enc.mux = "TXT" /\ text.mux = "CODE_WR"
    /\ enc.write => enc.mux = "OWN"
    /\ tree.state \in {"READ_WAIT", "WRITE_WAIT", "WR_LEN_WAIT"} =>
          tree.read \/ tree.write
    /\ text.state \in {"READ_WAIT", "WR_LEN_WAIT"} => text.read \/ text.write
    /\ cr.state \in {"RD_CODE_ADDR_WAIT", "READ_WAIT"} => cr.read
    /\ cw.state = "WRITE_CODE_WAIT" => cw.write
    /\ enc.state = "WR_TOTAL_LEN_WAIT" => enc.write

\* The one-clock done pulses of the code reader and the code writer are seen
\* by the text handler for the request it made last: never an old one, never
\* before the work is finished (text_handler.vhd:270-302).
PulsesAnswered ==
    /\ text.state = "READ_CODE_WAIT" /\ cr.done =>
          /\ cr.at = text.codeAddr /\ cr.state = "IDLE" /\ ~text.startCR
          /\ \E t \in Threads : cr.code = thread[t].job.codes[Index(text.char) + 1]
    /\ text.state \in {"WRITE_CODE_WAIT", "WAIT_PADDING"} /\ cw.done =>
          cw.code = text.wrCode /\ cw.state = "IDLE" /\ ~text.startCW

\* The layout the driver computes keeps the file behind its inputs: the encoder
\* writes only into the file of the waiting thread, never into the codes, the
\* tree or the text it is still reading.
WritesInFile ==
    Hw!Bus.write =>
        \E t \in Threads :
            /\ thread[t].pc = "wait"
            /\ Hw!Bus.addr > addrs.textSrc + Len(thread[t].text)
            /\ Hw!Bus.addr \in addrs.dst .. addrs.dst + Len(OwnFile(t)) - 1

\* While a thread polls, Status is one only when its own file is complete: it
\* is not left over from the request before (encoder.vhd:209-225).
StatusFresh ==
    \A t \in Threads :
        thread[t].pc = "wait" /\ ctl.status =>
            Bytes(mem, addrs.dst, Len(OwnFile(t))) = OwnFile(t)

AtRest ==
    /\ enc.state = "IDLE" /\ enc.mux = "NONE"
    /\ tree.state = "IDLE" /\ text.state = "IDLE"
    /\ cr.state = "IDLE" /\ cw.state = "IDLE"

\* When no thread waits for it the accelerator rests in every part, so that the
\* next request finds it as the first one did: reset_encoder only resets the
\* state of the top-level process (encoder.vhd:239-240).
EncoderAtRest == (\A t \in Threads : thread[t].pc # "wait") => AtRest

\* An encoding whose process died runs to its end by itself, and all six state
\* machines come to rest although nobody polls for it.  (With a second request
\* behind the crash it does not hold: see EncodesOwnJob.)
ComesToRest == enc.state # "IDLE" ~> AtRest

\* hw_compress implements the service: each request is answered once, with the
\* .hfc file of the requested text.
Service == INSTANCE CompressService WITH
    phase   <- [t \in Threads |-> IF thread[t].pc = "idle" THEN "idle" ELSE "busy"],
    request <- [t \in Threads |-> thread[t].job],
    reply   <- [t \in Threads |-> thread[t].file]

Implements == Service!ServiceSpec

\* wait_for_encoder returns (hardware.c:177-184): once started, the encoder
\* reports done, and the thread stops polling.
WaitReturns ==
    \A t \in Threads :
        thread[t].pc = "start" ~> thread[t].pc \notin {"start", "wait"}

\* What a caller gets is the file of its own text (handlers.c:70-72).
EncodesOwnJob ==
    \A t \in Threads :
        thread[t].pc = "idle" /\ thread[t].file # NoReply =>
            thread[t].file = HfcFile(thread[t].job)
=============================================================================
