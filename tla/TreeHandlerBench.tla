--------------------------- MODULE TreeHandlerBench ---------------------------
(***************************************************************************)
(* The tree handler on a bus.  The environment is the encoder: it loads an *)
(* idle handler with the addresses the driver computed, and starts it at   *)
(* any later clock; waitrequest is arbitrary.  len is the length of the    *)
(* string loaded last (history).                                           *)
(***************************************************************************)
EXTENDS TreeHandler

CONSTANTS MemSize,   \* bytes of memory
          Srcs, Dsts, \* the addresses loaded
          Contents   \* what the memory may hold at first

ASSUME MemAssumption ==
    /\ MemSize \in Nat
    /\ Srcs \subseteq Nat /\ Dsts \subseteq Nat
    /\ Contents \subseteq [0 .. MemSize - 1 -> Byte]

VARIABLES mem, len

vars == <<tree, mem, len>>

Addr == 0 .. MemSize - 1

\* At first the handler points at an empty string and has not been loaded.
BenchInit ==
    /\ Init
    /\ mem \in Contents
    /\ len = -1

\* The string at src has length n, and the file at dst, header and tree, lies
\* behind its NUL and inside the memory (the driver's layout).
Fits(src, dst, n) ==
    /\ src + n < dst
    /\ dst + 12 + n <= MemSize
    /\ mem[src + n] = 0
    /\ \A i \in 0 .. n - 1 : mem[src + i] # 0

Clock(write, src, dst, start, wait) ==
    /\ Tick(write, src, dst, start, wait, Fetch(mem, tree.addr))
    /\ mem' = Commit(mem, tree.write, wait, tree.addr, tree.data)

LoadIdle(src, dst, n, wait) ==
    /\ tree.state = "IDLE"
    /\ Fits(src, dst, n)
    /\ Clock(TRUE, src, dst, FALSE, wait)
    /\ len' = n

Run(start, wait) ==
    /\ start => len >= 0 /\ tree.off = 0
    /\ Clock(FALSE, 0, 0, start, wait)
    /\ len' = len

Next ==
    \E wait \in BOOLEAN :
        \/ \E src \in Srcs, dst \in Dsts, n \in 0 .. MemSize :
               LoadIdle(src, dst, n, wait)
        \/ \E start \in BOOLEAN : Run(start, wait)

Spec == BenchInit /\ [][Next]_vars

\* The memory answers infinitely often.
FairSpec == Spec /\ WF_vars(\E start \in BOOLEAN : Run(start, FALSE))

-----------------------------------------------------------------------------
(* Properties *)

TypeOK ==
    /\ tree \in [state : States, src : Nat, dst : Nat, off : Nat, char : Byte,
                 k : 0 .. 3, done : BOOLEAN, size : Nat, addr : Nat,
                 read : BOOLEAN, write : BOOLEAN, data : Byte]
    /\ mem \in [Addr -> Byte]
    /\ len \in Nat \cup {-1}

Loaded == len >= 0

\* The characters passed so far are in the file, behind its header, and equal
\* those of the source, which is still intact: the copy never overtakes or
\* overwrites what it has to read (tree_handler.vhd:70-118).
TreeCopied ==
    Loaded =>
        /\ \A i \in 0 .. tree.off - 1 :
               mem[tree.dst + 12 + i] = mem[tree.src + i]
        /\ mem[tree.src + len] = 0
        /\ \A i \in 0 .. len - 1 : mem[tree.src + i] # 0

\* done_o rises only after the whole string is copied and its length is in the
\* header's second word, least significant byte first (120-170).
DoneIsComplete ==
    [][tree'.done /\ ~tree.done =>
          /\ tree'.size = len /\ tree.off = len
          /\ \A k \in 0 .. 3 : mem'[tree.dst + 4 + k] = WordByte(len, k)]_vars

\* No request leaves the string and its NUL, or the file's second word and
\* its tree description.
InBounds ==
    /\ tree.read => tree.addr \in tree.src .. tree.src + len
    /\ tree.write => \/ tree.addr \in tree.dst + 4 .. tree.dst + 7
                     \/ tree.addr \in tree.dst + 12 .. tree.dst + 11 + len

\* A started copy finishes once the memory keeps answering.
CopyFinishes == tree.state = "SET_RD_ADDR" ~> tree.state = "IDLE" /\ tree.done
=============================================================================
