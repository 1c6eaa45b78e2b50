--------------------------- MODULE CodeReaderBench ---------------------------
(***************************************************************************)
(* The code reader on a bus, started at any time on any of the given table *)
(* entries while the memory stays as it is.                                *)
(***************************************************************************)
EXTENDS CodeReader

CONSTANTS Ats,        \* addresses of table entries
          Contents    \* what the memory may hold

ASSUME ContentsAssumption ==
    \A m \in Contents : \A a \in DOMAIN m : m[a] \in Byte

\* The driver writes every entry of the table, and each points to a string of
\* fewer than 64 digits with its NUL (hardware.c:125-138).
ASSUME TableAssumption ==
    /\ Ats \subseteq Nat
    /\ \A m \in Contents, at \in Ats :
          /\ at .. at + 3 \subseteq DOMAIN m
          /\ \E n \in 0 .. 63 :
                /\ Fetch(m, WordAt(m, at) + n) \notin {Char0, Char1}
                /\ \A i \in 0 .. n - 1 :
                      Fetch(m, WordAt(m, at) + i) \in {Char0, Char1}

VARIABLE mem

vars == <<cr, mem>>

BenchInit == Init /\ mem \in Contents

Clock(start, at, wait) ==
    /\ Tick(start, at, wait, Fetch(mem, cr.addr))
    /\ UNCHANGED mem

Next == \E start, wait \in BOOLEAN, at \in Ats : Clock(start, at, wait)

Spec == BenchInit /\ [][Next]_vars

\* The memory answers infinitely often.
FairSpec == Spec /\ WF_vars(\E start \in BOOLEAN, at \in Ats :
                                Clock(start, at, FALSE))

-----------------------------------------------------------------------------
(* Properties *)

IsBit(a) == Fetch(mem, a) \in {Char0, Char1}

\* Length of the run of '0' and '1' characters at address a.
CodeLen(a) == CHOOSE n \in 0 .. 63 : ~IsBit(a + n) /\ \A i \in 0 .. n - 1 : IsBit(a + i)

CodeAt(at) ==
    LET p == WordAt(mem, at)
    IN  [i \in 1 .. CodeLen(p) |-> mem[p + i - 1] - Char0]

\* The code handed out is the string the table entry points to, whatever was
\* read before it: neither pointer bytes nor bits of an earlier code survive
\* (code_reader.vhd:62-146).
CodeIsString == [][cr'.done /\ ~cr.done => cr'.code = CodeAt(cr.at)]_vars

\* The reader reads its table entry and the string with its terminator, and
\* nothing behind it; a request is held until it is answered.
ReadsItsOwn ==
    [][cr.read => /\ \/ cr.addr \in cr.at .. cr.at + 3
                     \/ LET p == WordAt(mem, cr.at)
                        IN  cr.addr \in p .. p + CodeLen(p)
                  /\ cr'.read => cr'.addr = cr.addr]_vars

\* A started reader finishes once the memory keeps answering.
ReadFinishes == cr.state = "RD_CODE_ADDR" ~> cr.state = "LAST"
=============================================================================
