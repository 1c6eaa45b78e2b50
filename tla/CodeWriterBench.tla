--------------------------- MODULE CodeWriterBench ---------------------------
(***************************************************************************)
(* The code writer on a bus, driven by every sequence of input signals,    *)
(* as hw/hdl/tb_code_writer.vhd drives it with one.  fed is the history of *)
(* the bits it accepted since the last load.                               *)
(***************************************************************************)
EXTENDS CodeWriter

CONSTANTS Codes,    \* the codes the environment feeds
          Dsts,     \* the destinations it loads
          MemSize,  \* bytes of memory
          MaxBits   \* bound: bits fed after one load

ASSUME CodesAssumption ==
    \A c \in Codes : c \in Bits /\ Len(c) <= MaxCodeLen
ASSUME RoomAssumption ==
    /\ MemSize \in Nat /\ MaxBits \in Nat
    /\ Dsts \subseteq Nat
    /\ \A d \in Dsts \cup {0} : d + (MaxBits \div 8) < MemSize

VARIABLES mem, fed

vars == <<cw, mem, fed>>

Addr == 0 .. MemSize - 1

BenchInit ==
    /\ Init
    /\ mem = [a \in Addr |-> 0]
    /\ fed = <<>>

\* The history: a load starts over, an accepted code is appended.
Record(write, start, code) ==
    fed' = IF cw.state # "IDLE" THEN fed
           ELSE IF write THEN <<>>
           ELSE IF start THEN fed \o code
           ELSE fed

Clock(write, dst, start, code, wait) ==
    /\ cw.state = "IDLE" /\ ~write /\ start => Len(fed) + Len(code) <= MaxBits
    /\ Tick(write, dst, start, code, wait)
    /\ Record(write, start, code)
    /\ mem' = Commit(mem, cw.write, wait, cw.addr, cw.data)

Next == \E write, start, wait \in BOOLEAN, dst \in Dsts, code \in Codes :
            Clock(write, dst, start, code, wait)

Spec == BenchInit /\ [][Next]_vars

\* The memory answers infinitely often: a request does not wait forever.
Ready == \E write, start \in BOOLEAN, dst \in Dsts, code \in Codes :
            Clock(write, dst, start, code, FALSE)

FairSpec == Spec /\ WF_vars(Ready)

-----------------------------------------------------------------------------
(* Properties *)

TypeOK ==
    /\ cw \in [state : States, code : Bits, wip : Bits, dst : Nat,
               off : Nat, done : BOOLEAN, size : Nat, addr : Nat,
               write : BOOLEAN, data : Byte]
    /\ mem \in [Addr -> Byte]
    /\ fed \in Bits

\* The 64-bit register never overflows: at most seven bits are left over when
\* a code is added, so WIP_Idx never falls below -1 (code_writer.vhd:73-78).
WipFits ==
    /\ cw.state \in {"IDLE", "ADD_CODE"} => Len(cw.wip) < 8
    /\ Len(cw.wip) <= 64

\* The bits already written followed by the pending ones: what has been fed,
\* up to the code that waits to be added.
Pending == IF cw.state = "ADD_CODE" THEN Len(cw.code) ELSE 0

\* No bit is lost, repeated or reordered between the codes fed in and the
\* register: the pending bits are exactly the fed bits after the written ones.
PendingKept ==
    /\ 8 * cw.off + Len(cw.wip) + Pending = Len(fed)
    /\ \A i \in 1 .. Len(cw.wip) : cw.wip[i] = fed[8 * cw.off + i]

\* Every byte below the offset is in memory and holds its eight fed bits,
\* whatever waitrequest did and although a byte may be written twice.
StreamWritten ==
    \A j \in 0 .. cw.off - 1 :
        mem[cw.dst + j] = PackByte([i \in 1 .. 8 |-> fed[8 * j + i]])

\* done_o rises only when all whole bytes are out, and encoding_size_o then
\* counts them (code_writer.vhd:117-120).
DoneIsFlushed ==
    [][cw'.done /\ ~cw.done =>
          cw'.size = Len(fed) \div 8 /\ Len(cw.wip) < 8]_vars

\* The Avalon rule for a master: a request is held unchanged until it is
\* served, and dropped only when its byte is stored (code_writer.vhd:93-115).
RequestHeld ==
    [][cw.write => /\ cw'.write => cw'.addr = cw.addr /\ cw'.data = cw.data
                   /\ ~cw'.write => mem'[cw.addr] = cw.data]_vars

\* An accepted code is finished once the memory keeps answering.
CodeFinishes == cw.state = "ADD_CODE" ~> cw.state = "DONE"
=============================================================================
