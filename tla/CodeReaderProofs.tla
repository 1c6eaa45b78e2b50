-------------------------- MODULE CodeReaderProofs ---------------------------
(***************************************************************************)
(* The code reader hands out the string its table entry points to, for     *)
(* every table, every order of entries and every behaviour of waitrequest. *)
(***************************************************************************)
EXTENDS CodeReaderBench, SequenceTheorems, TLAPS

-----------------------------------------------------------------------------
(* The inductive invariant *)

ReaderTypeOK ==
    /\ cr \in [state : States, at : Nat, ptr : [0 .. 3 -> Byte], k : 0 .. 3,
               bits : Bits, done : BOOLEAN, code : Bits, addr : Nat,
               read : BOOLEAN]
    /\ mem \in Contents
    /\ cr.state # "IDLE" => cr.at \in Ats

\* Where the string of the entry begins.
Start == WordAt(mem, cr.at)

\* The string's first n characters are digits.
Digits(n) == \A i \in 0 .. n - 1 : IsBit(Start + i)

\* The bytes of the pointer that have been read.
Pointer ==
    /\ cr.state \in {"RD_CODE_ADDR", "RD_CODE_ADDR_WAIT"} =>
          /\ cr.bits = <<>>
          /\ \A i \in 0 .. cr.k - 1 : cr.ptr[i] = mem[cr.at + i]
    /\ cr.state \in {"SET_RD_ADDR", "READ_WAIT", "LAST"} => CodeAddr = Start

\* The bits are those of the string so far, and the last state is reached at
\* its end.
Prefix ==
    cr.state \in {"SET_RD_ADDR", "READ_WAIT", "LAST"} =>
        /\ Digits(Len(cr.bits))
        /\ \A i \in 1 .. Len(cr.bits) : cr.bits[i] = mem[Start + i - 1] - Char0
        /\ cr.state = "LAST" => ~IsBit(Start + Len(cr.bits))

\* What is on the bus.
Request ==
    /\ cr.read <=> cr.state \in {"RD_CODE_ADDR_WAIT", "READ_WAIT"}
    /\ cr.state = "RD_CODE_ADDR_WAIT" => cr.addr = cr.at + cr.k
    /\ cr.state = "READ_WAIT" => cr.addr = Start + Len(cr.bits)

ReaderInv == ReaderTypeOK /\ Pointer /\ Prefix /\ Request

-----------------------------------------------------------------------------
(* Lemmas about the memory *)

LEMMA WordIsNat ==
    ASSUME NEW a \in Nat, NEW b \in Nat, NEW c \in Nat, NEW d \in Nat
    PROVE  a + 256 * b + 65536 * c + 16777216 * d \in Nat
  OBVIOUS

LEMMA ShortModulo ==
    ASSUME NEW n \in 0 .. 63
    PROVE  n % 64 = n
  OBVIOUS

\* The entry is in the memory; its four bytes are the pointer's.
LEMMA EntryBytes ==
    ASSUME ReaderTypeOK, cr.at \in Ats
    PROVE  /\ \A i \in 0 .. 3 : /\ Fetch(mem, cr.at + i) = mem[cr.at + i]
                               /\ mem[cr.at + i] \in Byte
           /\ Start \in Nat
<1>1. cr.at \in Nat /\ cr.at .. cr.at + 3 \subseteq DOMAIN mem
  BY TableAssumption DEF ReaderTypeOK
<1>2. \A i \in 0 .. 3 : cr.at + i \in DOMAIN mem
  BY <1>1
<1>3. \A i \in 0 .. 3 : mem[cr.at + i] \in Byte
  BY <1>2, ContentsAssumption DEF ReaderTypeOK
<1>4. /\ mem[cr.at] \in Byte /\ mem[cr.at + 1] \in Byte
      /\ mem[cr.at + 2] \in Byte /\ mem[cr.at + 3] \in Byte
  <2>1. cr.at + 0 = cr.at
    BY <1>1
  <2> QED
    BY <1>3, <2>1
<1>5. Start \in Nat
  <2>1. /\ mem[cr.at] \in Nat /\ mem[cr.at + 1] \in Nat
        /\ mem[cr.at + 2] \in Nat /\ mem[cr.at + 3] \in Nat
    <3>1. \A x \in Byte : x \in Nat
      BY DEF Byte
    <3> QED
      BY Zenon, <1>4, <3>1
  <2> QED
    BY <2>1, WordIsNat DEF Start, WordAt
<1> QED
  BY <1>2, <1>3, <1>5 DEF Fetch

\* The string has an end.
LEMMA StringEnds ==
    ASSUME ReaderTypeOK, cr.at \in Ats
    PROVE  \E n \in 0 .. 63 : ~IsBit(Start + n) /\ Digits(n)
  BY TableAssumption DEF ReaderTypeOK, Start, IsBit, Digits

\* CodeLen finds it.
LEMMA LengthOfString ==
    ASSUME ReaderTypeOK, cr.at \in Ats
    PROVE  /\ CodeLen(Start) \in 0 .. 63
           /\ ~IsBit(Start + CodeLen(Start)) /\ Digits(CodeLen(Start))
<1> DEFINE End(n) == ~IsBit(Start + n) /\ \A i \in 0 .. n - 1 : IsBit(Start + i)
<1>1. \E n \in 0 .. 63 : End(n)
  BY StringEnds DEF Digits
<1>2. CodeLen(Start) = CHOOSE n \in 0 .. 63 : End(n)
  BY DEF CodeLen
<1> HIDE DEF End
<1>3. CodeLen(Start) \in 0 .. 63 /\ End(CodeLen(Start))
  BY <1>1, <1>2
<1> QED
  BY <1>3 DEF End, Digits

\* Who has read nothing but digits is not behind the end of the string, and who
\* has found the first other character is there.
LEMMA DigitsBeforeEnd ==
    ASSUME ReaderTypeOK, cr.at \in Ats, NEW n \in Nat, Digits(n)
    PROVE  /\ n <= CodeLen(Start)
           /\ ~IsBit(Start + n) => n = CodeLen(Start)
<1>1. /\ CodeLen(Start) \in 0 .. 63
      /\ ~IsBit(Start + CodeLen(Start)) /\ Digits(CodeLen(Start))
  BY LengthOfString
<1>2. n <= CodeLen(Start)
  <2>1. CASE n > CodeLen(Start)
    <3>1. CodeLen(Start) \in 0 .. n - 1
      BY <1>1, <2>1
    <3> QED
      BY <1>1, <3>1 DEF Digits
  <2> QED
    BY <1>1, <2>1
<1>3. ASSUME ~IsBit(Start + n), n < CodeLen(Start) PROVE FALSE
  <2>1. n \in 0 .. CodeLen(Start) - 1
    BY <1>1, <1>3
  <2> QED
    BY <1>1, <1>3, <2>1 DEF Digits
<1> QED
  BY <1>1, <1>2, <1>3

-----------------------------------------------------------------------------
(* The invariant holds at first and is preserved by every action *)

LEMMA InitInv == BenchInit => ReaderInv
<1> SUFFICES ASSUME BenchInit PROVE ReaderInv
  OBVIOUS
<1> USE DEF BenchInit, Init, Reset
<1>1. <<>> \in Bits /\ Len(<<>>) = 0
  BY EmptySeq DEF Bits
<1>2. ReaderTypeOK
  BY <1>1 DEF ReaderTypeOK, States, Byte
<1> QED
  BY <1>2 DEF ReaderInv, Pointer, Prefix, Request

LEMMA BeginInv ==
    ASSUME ReaderInv, NEW at \in Ats, Begin(TRUE, at), mem' = mem
    PROVE  ReaderInv'
<1>1. /\ ReaderTypeOK /\ Request /\ at \in Nat
      /\ cr.state = "IDLE"
      /\ cr' = [cr EXCEPT !.at = at, !.bits = <<>>, !.k = 0,
                          !.state = "RD_CODE_ADDR"]
  BY TableAssumption DEF ReaderInv, Begin
<1>2. <<>> \in Bits
  BY EmptySeq DEF Bits
<1>3. ReaderTypeOK'
  <2>1. "RD_CODE_ADDR" \in States /\ 0 \in 0 .. 3
    BY DEF States
  <2>2. cr' \in [state : States, at : Nat, ptr : [0 .. 3 -> Byte], k : 0 .. 3,
                 bits : Bits, done : BOOLEAN, code : Bits, addr : Nat,
                 read : BOOLEAN]
    BY <1>1, <1>2, <2>1 DEF ReaderTypeOK
  <2>3. mem' \in Contents /\ cr'.at \in Ats
    BY <1>1 DEF ReaderTypeOK
  <2> QED
    BY <2>2, <2>3 DEF ReaderTypeOK
<1>4. /\ cr'.state = "RD_CODE_ADDR" /\ cr'.bits = <<>> /\ cr'.k = 0
      /\ cr'.read = cr.read
  BY <1>1 DEF ReaderTypeOK
<1>5. Pointer' /\ Prefix' /\ Request'
  BY <1>1, <1>4 DEF Pointer, Prefix, Request
<1> QED
  BY <1>3, <1>5 DEF ReaderInv

LEMMA RestInv ==
    ASSUME ReaderInv, Rest(FALSE), mem' = mem
    PROVE  ReaderInv'
<1>1. /\ ReaderTypeOK /\ cr.state = "IDLE"
      /\ cr' = [cr EXCEPT !.done = FALSE, !.addr = 0, !.read = FALSE]
  BY DEF ReaderInv, Rest
<1>2. ReaderTypeOK'
  BY <1>1 DEF ReaderTypeOK
<1>3. cr'.state = "IDLE" /\ ~cr'.read
  BY <1>1 DEF ReaderTypeOK
<1>4. Pointer' /\ Prefix' /\ Request'
  BY <1>3 DEF Pointer, Prefix, Request
<1> QED
  BY <1>2, <1>4 DEF ReaderInv

LEMMA RdCodeAddrInv ==
    ASSUME ReaderInv, RdCodeAddr, mem' = mem
    PROVE  ReaderInv'
<1>1. /\ ReaderTypeOK /\ Pointer /\ cr.state = "RD_CODE_ADDR"
      /\ cr' = [cr EXCEPT !.addr = cr.at + cr.k, !.read = TRUE,
                          !.state = "RD_CODE_ADDR_WAIT"]
  BY DEF ReaderInv, RdCodeAddr
<1>2. cr.at + cr.k \in Nat
  BY <1>1 DEF ReaderTypeOK
<1>3. ReaderTypeOK'
  BY <1>1, <1>2 DEF ReaderTypeOK, States
<1>4. /\ cr'.state = "RD_CODE_ADDR_WAIT" /\ cr'.read /\ cr'.addr = cr.at + cr.k
      /\ cr'.at = cr.at /\ cr'.k = cr.k /\ cr'.ptr = cr.ptr /\ cr'.bits = cr.bits
  BY <1>1 DEF ReaderTypeOK
<1>5. Pointer' /\ Prefix' /\ Request'
  BY <1>1, <1>4 DEF Pointer, Prefix, Request
<1> QED
  BY <1>3, <1>5 DEF ReaderInv

\* The fourth byte completes the pointer.
LEMMA RdCodeAddrWaitInv ==
    ASSUME ReaderInv, RdCodeAddrWait(FALSE, Fetch(mem, cr.addr)), mem' = mem
    PROVE  ReaderInv'
<1> DEFINE byte == Fetch(mem, cr.addr)
<1>1. /\ ReaderTypeOK /\ Pointer /\ Request /\ cr.state = "RD_CODE_ADDR_WAIT"
      /\ cr.at \in Ats /\ cr.k \in 0 .. 3
      /\ cr' = [cr EXCEPT !.ptr[cr.k] = byte, !.read = FALSE,
                          !.k = IF cr.k < 3 THEN cr.k + 1 ELSE cr.k,
                          !.state = IF cr.k < 3 THEN "RD_CODE_ADDR"
                                    ELSE "SET_RD_ADDR"]
  BY DEF ReaderInv, RdCodeAddrWait, ReaderTypeOK
<1>2. byte = mem[cr.at + cr.k] /\ byte \in Byte
  BY <1>1, EntryBytes DEF Request
<1> HIDE DEF byte
<1>3. /\ cr'.ptr = [cr.ptr EXCEPT ![cr.k] = byte]
      /\ cr'.k = IF cr.k < 3 THEN cr.k + 1 ELSE cr.k
      /\ cr'.state = IF cr.k < 3 THEN "RD_CODE_ADDR" ELSE "SET_RD_ADDR"
      /\ ~cr'.read /\ cr'.at = cr.at /\ cr'.bits = cr.bits /\ cr'.done = cr.done
      /\ cr'.code = cr.code /\ cr'.addr = cr.addr
  BY <1>1 DEF ReaderTypeOK
<1>4. ReaderTypeOK'
  <2>1. cr'.ptr \in [0 .. 3 -> Byte]
    BY <1>1, <1>2, <1>3 DEF ReaderTypeOK
  <2>2. cr'.k \in 0 .. 3 /\ cr'.state \in States
    BY <1>1, <1>3 DEF States
  <2>3. cr' = [cr EXCEPT !.ptr = cr'.ptr, !.read = FALSE, !.k = cr'.k,
                         !.state = cr'.state]
    BY <1>1, <1>3 DEF ReaderTypeOK
  <2>4. cr' \in [state : States, at : Nat, ptr : [0 .. 3 -> Byte], k : 0 .. 3,
                 bits : Bits, done : BOOLEAN, code : Bits, addr : Nat,
                 read : BOOLEAN]
    BY <1>1, <2>1, <2>2, <2>3 DEF ReaderTypeOK
  <2> QED
    BY <1>1, <1>3, <2>4 DEF ReaderTypeOK
<1>5. \A i \in 0 .. cr.k : cr'.ptr[i] = mem[cr.at + i]
  <2>1. \A i \in 0 .. cr.k : i \in 0 .. 3 /\ (i = cr.k \/ i \in 0 .. cr.k - 1)
    BY <1>1
  <2>2. \A i \in 0 .. 3 : cr'.ptr[i] = IF i = cr.k THEN byte ELSE cr.ptr[i]
    BY <1>1, <1>3 DEF ReaderTypeOK
  <2> QED
    BY <1>1, <1>2, <2>1, <2>2 DEF Pointer
<1>6. CASE cr.k < 3
  <2>1. cr'.state = "RD_CODE_ADDR" /\ cr'.k = cr.k + 1 /\ cr'.k - 1 = cr.k
    BY <1>1, <1>3, <1>6
  <2>2. Pointer' /\ Prefix' /\ Request'
    BY <1>1, <1>3, <1>5, <2>1 DEF Pointer, Prefix, Request
  <2> QED
    BY <1>4, <2>2 DEF ReaderInv
<1>7. CASE cr.k = 3
  <2>1. cr'.state = "SET_RD_ADDR" /\ cr'.bits = <<>>
    BY <1>1, <1>3, <1>7 DEF Pointer
  <2>2. CodeAddr' = Start'
    <3>1. /\ cr'.ptr[0] = mem[cr.at + 0] /\ cr'.ptr[1] = mem[cr.at + 1]
          /\ cr'.ptr[2] = mem[cr.at + 2] /\ cr'.ptr[3] = mem[cr.at + 3]
      BY <1>5, <1>7
    <3>2. cr.at + 0 = cr.at /\ 0 + 1 = 1 /\ 0 + 2 = 2 /\ 0 + 3 = 3
      BY <1>1 DEF ReaderTypeOK
    <3> QED
      BY <1>3, <3>1, <3>2 DEF CodeAddr, Start, WordAt
  <2>3. Pointer' /\ Request'
    BY <1>3, <2>1, <2>2 DEF Pointer, Request
  <2>4. Prefix'
    BY <2>1, EmptySeq DEF Prefix, Digits
  <2> QED
    BY <1>4, <2>3, <2>4 DEF ReaderInv
<1> QED
  BY <1>1, <1>6, <1>7

\* What the steps keep that only move the state.
LEMMA StringKept ==
    ASSUME ReaderInv, mem' = mem, cr'.at = cr.at, cr'.ptr = cr.ptr
    PROVE  Start' = Start /\ CodeAddr' = CodeAddr
  BY DEF Start, CodeAddr

LEMMA SetRdAddrInv ==
    ASSUME ReaderInv, SetRdAddr, mem' = mem
    PROVE  ReaderInv'
<1>1. /\ ReaderTypeOK /\ Pointer /\ Prefix /\ cr.state = "SET_RD_ADDR"
      /\ cr.at \in Ats
      /\ cr' = [cr EXCEPT !.addr = CodeAddr + Len(cr.bits), !.read = TRUE,
                          !.state = "READ_WAIT"]
  BY DEF ReaderInv, SetRdAddr, ReaderTypeOK
<1>2. CodeAddr = Start /\ CodeAddr + Len(cr.bits) \in Nat
  <2>1. CodeAddr = Start /\ Start \in Nat
    BY <1>1, EntryBytes DEF Pointer
  <2>2. Len(cr.bits) \in Nat
    BY <1>1, LenProperties DEF ReaderTypeOK, Bits
  <2> QED
    BY <2>1, <2>2
<1>3. ReaderTypeOK'
  BY <1>1, <1>2 DEF ReaderTypeOK, States
<1>4. /\ cr'.state = "READ_WAIT" /\ cr'.read /\ cr'.addr = Start + Len(cr.bits)
      /\ cr'.at = cr.at /\ cr'.ptr = cr.ptr /\ cr'.bits = cr.bits
  BY <1>1, <1>2 DEF ReaderTypeOK
<1>5. Start' = Start /\ CodeAddr' = CodeAddr
  BY <1>4, StringKept
<1>6. Pointer' /\ Request'
  BY <1>2, <1>4, <1>5 DEF Pointer, Request
<1>7. Prefix'
  BY <1>1, <1>4, <1>5 DEF Prefix, Digits, IsBit
<1> QED
  BY <1>3, <1>6, <1>7 DEF ReaderInv

\* One more digit.
LEMMA ReadBitInv ==
    ASSUME ReaderInv, ReadBit(FALSE, Fetch(mem, cr.addr)), mem' = mem
    PROVE  ReaderInv'
<1> DEFINE bit == Fetch(mem, cr.addr) - Char0
<1> DEFINE n == Len(cr.bits)
<1>1. /\ ReaderTypeOK /\ Pointer /\ Prefix /\ Request /\ cr.state = "READ_WAIT"
      /\ cr.at \in Ats /\ cr.bits \in Bits /\ n \in Nat
      /\ Fetch(mem, cr.addr) \in {Char0, Char1}
      /\ cr' = [cr EXCEPT !.bits = Append(@, bit), !.read = FALSE,
                          !.state = "SET_RD_ADDR"]
  BY LenProperties DEF ReaderInv, ReadBit, ReaderTypeOK, Bits
<1>2. /\ bit \in Bit /\ IsBit(Start + n) /\ bit = mem[Start + n] - Char0
  <2>1. cr.addr = Start + n
    BY <1>1 DEF Request
  <2>2. cr.addr \in DOMAIN mem
    BY <1>1 DEF Fetch, Char0, Char1
  <2> QED
    BY <1>1, <2>1, <2>2 DEF IsBit, Fetch, Bit, Char0, Char1
<1> HIDE DEF bit
<1>3. Append(cr.bits, bit) \in Bits
  BY <1>1, <1>2 DEF Bits
<1>4. ReaderTypeOK'
  BY <1>1, <1>3 DEF ReaderTypeOK, States
<1>5. /\ cr'.state = "SET_RD_ADDR" /\ ~cr'.read /\ cr'.at = cr.at
      /\ cr'.ptr = cr.ptr /\ cr'.bits = Append(cr.bits, bit)
  BY <1>1 DEF ReaderTypeOK
<1>6. Start' = Start /\ CodeAddr' = CodeAddr
  BY <1>5, StringKept
<1>7. Pointer' /\ Request'
  BY <1>1, <1>5, <1>6 DEF Pointer, Request
<1>8. /\ Len(cr'.bits) = n + 1 /\ cr'.bits[n + 1] = bit
      /\ \A i \in 1 .. n : cr'.bits[i] = cr.bits[i]
  BY <1>1, <1>2, <1>5 DEF Bits
<1>9. Start \in Nat
  BY <1>1, EntryBytes
<1>10. \A i \in 0 .. n : IsBit(Start + i)
  <2>1. \A i \in 0 .. n : i = n \/ i \in 0 .. n - 1
    BY <1>1
  <2> QED
    BY <1>1, <1>2, <2>1 DEF Prefix, Digits
<1>11. \A i \in 1 .. n + 1 : cr'.bits[i] = mem[Start + i - 1] - Char0
  <2>1. \A i \in 1 .. n + 1 : i = n + 1 \/ i \in 1 .. n
    BY <1>1
  <2>2. Start + (n + 1) - 1 = Start + n
    BY <1>1, <1>9
  <2> QED
    BY <1>1, <1>2, <1>8, <2>1, <2>2 DEF Prefix
<1>12. Prefix'
  <2>1. n + 1 - 1 = n
    BY <1>1
  <2>2. Digits(Len(cr.bits))'
    BY <1>5, <1>6, <1>8, <1>10, <2>1 DEF Digits, IsBit
  <2> QED
    BY <1>5, <1>6, <1>8, <1>11, <2>2 DEF Prefix
<1> QED
  BY <1>4, <1>7, <1>12 DEF ReaderInv

\* The end of the string.
LEMMA ReadEndInv ==
    ASSUME ReaderInv, ReadEnd(FALSE, Fetch(mem, cr.addr)), mem' = mem
    PROVE  ReaderInv'
<1>1. /\ ReaderTypeOK /\ Pointer /\ Prefix /\ Request /\ cr.state = "READ_WAIT"
      /\ Fetch(mem, cr.addr) \notin {Char0, Char1}
      /\ cr' = [cr EXCEPT !.read = FALSE, !.state = "LAST"]
  BY DEF ReaderInv, ReadEnd
<1>2. ReaderTypeOK'
  BY <1>1 DEF ReaderTypeOK, States
<1>3. /\ cr'.state = "LAST" /\ ~cr'.read /\ cr'.at = cr.at
      /\ cr'.ptr = cr.ptr /\ cr'.bits = cr.bits
  BY <1>1 DEF ReaderTypeOK
<1>4. Start' = Start /\ CodeAddr' = CodeAddr
  BY <1>3, StringKept
<1>5. Pointer' /\ Request'
  BY <1>1, <1>3, <1>4 DEF Pointer, Request
<1>6. ~IsBit(Start + Len(cr.bits))
  BY <1>1 DEF Request, IsBit
<1>7. Prefix'
  BY <1>1, <1>3, <1>4, <1>6 DEF Prefix, Digits, IsBit
<1> QED
  BY <1>2, <1>5, <1>7 DEF ReaderInv

\* The whole string is handed out: its length fits into six bits.
LEMMA LastHandsOut ==
    ASSUME ReaderInv, Last
    PROVE  cr'.code = cr.bits /\ cr.bits = CodeAt(cr.at)
<1> DEFINE n == Len(cr.bits)
<1>1. /\ ReaderTypeOK /\ Prefix /\ cr.state = "LAST" /\ cr.at \in Ats
      /\ cr.bits \in Bits /\ n \in Nat
      /\ cr' = [cr EXCEPT !.code = SubSeq(cr.bits, 1, n % 64),
                          !.done = TRUE, !.state = "IDLE"]
  BY LenProperties DEF ReaderInv, Last, ReaderTypeOK, Bits
<1>2. n = CodeLen(Start) /\ n \in 0 .. 63
  BY <1>1, DigitsBeforeEnd, LengthOfString DEF Prefix
<1>3. cr'.code = SubSeq(cr.bits, 1, n)
  <2>1. n % 64 = n
    BY <1>2, ShortModulo
  <2> QED
    BY <1>1, <2>1 DEF ReaderTypeOK
<1>4. SubSeq(cr.bits, 1, n) = cr.bits
  BY <1>1, SubSeqFull DEF Bits
<1>5. cr.bits = [i \in 1 .. n |-> mem[Start + i - 1] - Char0]
  <2>1. cr.bits \in [1 .. n -> Bit]
    BY <1>1, LenProperties DEF Bits
  <2>2. \A i \in 1 .. n : cr.bits[i] = mem[Start + i - 1] - Char0
    BY <1>1 DEF Prefix
  <2> QED
    BY <2>1, <2>2
<1> QED
  BY <1>2, <1>3, <1>4, <1>5 DEF CodeAt, Start

LEMMA LastInv ==
    ASSUME ReaderInv, Last, mem' = mem
    PROVE  ReaderInv'
<1>1. /\ ReaderTypeOK /\ Request /\ cr.state = "LAST" /\ cr.bits \in Bits
      /\ cr' = [cr EXCEPT !.code = SubSeq(cr.bits, 1, Len(cr.bits) % 64),
                          !.done = TRUE, !.state = "IDLE"]
  BY DEF ReaderInv, Last, ReaderTypeOK
<1>2. SubSeq(cr.bits, 1, Len(cr.bits) % 64) \in Bits
  <2>1. cr'.code = cr.bits
    BY LastHandsOut
  <2>2. cr'.code = SubSeq(cr.bits, 1, Len(cr.bits) % 64)
    BY <1>1 DEF ReaderTypeOK
  <2> QED
    BY <1>1, <2>1, <2>2
<1>3. ReaderTypeOK'
  BY <1>1, <1>2 DEF ReaderTypeOK, States
<1>4. cr'.state = "IDLE" /\ cr'.read = cr.read
  BY <1>1 DEF ReaderTypeOK
<1>5. Pointer' /\ Prefix' /\ Request'
  BY <1>1, <1>4 DEF Pointer, Prefix, Request
<1> QED
  BY <1>3, <1>5 DEF ReaderInv

LEMMA NextInv == ReaderInv /\ [Next]_vars => ReaderInv'
<1> SUFFICES ASSUME ReaderInv, [Next]_vars PROVE ReaderInv'
  OBVIOUS
<1>1. ASSUME NEW start \in BOOLEAN, NEW wait \in BOOLEAN, NEW at \in Ats,
             Clock(start, at, wait)
      PROVE  ReaderInv'
  <2> DEFINE rdata == Fetch(mem, cr.addr)
  <2>1. mem' = mem
    BY <1>1 DEF Clock
  <2>2. CASE Begin(start, at)
    BY <2>1, <2>2, BeginInv DEF Begin
  <2>3. CASE Rest(start)
    BY <2>1, <2>3, RestInv DEF Rest
  <2>4. CASE RdCodeAddr
    BY <2>1, <2>4, RdCodeAddrInv
  <2>5. CASE RdCodeAddrWait(wait, rdata)
    BY <2>1, <2>5, RdCodeAddrWaitInv DEF RdCodeAddrWait
  <2>6. CASE SetRdAddr
    BY <2>1, <2>6, SetRdAddrInv
  <2>7. CASE ReadBit(wait, rdata)
    BY <2>1, <2>7, ReadBitInv DEF ReadBit
  <2>8. CASE ReadEnd(wait, rdata)
    BY <2>1, <2>8, ReadEndInv DEF ReadEnd
  <2>9. CASE Last
    BY <2>1, <2>9, LastInv
  <2>10. CASE Stall(wait)
    BY <2>1, <2>10 DEF Stall, ReaderInv, ReaderTypeOK, Pointer, Prefix, Request,
       Start, CodeAddr, Digits, IsBit
  <2> QED
    BY <1>1, <2>2, <2>3, <2>4, <2>5, <2>6, <2>7, <2>8, <2>9, <2>10 DEF Clock, Tick
<1>2. CASE UNCHANGED vars
  BY <1>2 DEF vars, ReaderInv, ReaderTypeOK, Pointer, Prefix, Request, Start,
     CodeAddr, Digits, IsBit
<1> QED
  BY <1>1, <1>2 DEF Next

-----------------------------------------------------------------------------
(* The theorems *)

\* What the reader has read is what its entry and its string hold, in every
\* reachable state.
THEOREM ReaderInvariance == Spec => []ReaderInv
  BY InitInv, NextInv, PTL DEF Spec

\* The code handed out is the string of the entry, whatever was read before it
\* (code_reader.vhd:57-148).
THEOREM HandsOutString == Spec => CodeIsString
<1>1. ReaderInv /\ [Next]_vars => [cr'.done /\ ~cr.done => cr'.code = CodeAt(cr.at)]_vars
  <2> SUFFICES ASSUME ReaderInv, Next, cr'.done, ~cr.done
               PROVE  cr'.code = CodeAt(cr.at)
    OBVIOUS
  <2>1. ReaderTypeOK
    BY DEF ReaderInv
  <2>2. Last
    BY <2>1 DEF Next, Clock, Tick, Begin, Rest, RdCodeAddr, RdCodeAddrWait, SetRdAddr,
       ReadBit, ReadEnd, Stall, ReaderTypeOK
  <2> QED
    BY <2>2, LastHandsOut
<1> QED
  BY <1>1, ReaderInvariance, PTL DEF Spec, CodeIsString

\* The reader asks for its entry and its string with the terminator only, and
\* holds its address until it is answered (code_reader.vhd:72-142).
THEOREM ReadsNothingElse == Spec => ReadsItsOwn
<1> DEFINE Held ==
        cr.read => /\ \/ cr.addr \in cr.at .. cr.at + 3
                      \/ LET p == WordAt(mem, cr.at)
                         IN  cr.addr \in p .. p + CodeLen(p)
                   /\ cr'.read => cr'.addr = cr.addr
<1>1. ReaderInv /\ [Next]_vars => [Held]_vars
  <2> SUFFICES ASSUME ReaderInv, Next, cr.read PROVE Held
    OBVIOUS
  <2>1. /\ ReaderTypeOK /\ Prefix /\ Request
        /\ cr.state \in {"RD_CODE_ADDR_WAIT", "READ_WAIT"} /\ cr.at \in Ats
    BY DEF ReaderInv, ReaderTypeOK, Request
  <2>2. cr'.read => cr'.addr = cr.addr
    BY <2>1 DEF Next, Clock, Tick, Begin, Rest, RdCodeAddr, RdCodeAddrWait, SetRdAddr,
       ReadBit, ReadEnd, Last, Stall, ReaderTypeOK
  <2>3. CASE cr.state = "RD_CODE_ADDR_WAIT"
    <3>1. cr.addr \in cr.at .. cr.at + 3
      BY <2>1, <2>3 DEF ReaderTypeOK, Request
    <3> QED
      BY <2>2, <3>1
  <2>4. CASE cr.state = "READ_WAIT"
    <3>1. Len(cr.bits) \in Nat /\ Start \in Nat
      BY <2>1, EntryBytes, LenProperties DEF ReaderTypeOK, Bits
    <3>2. Len(cr.bits) <= CodeLen(Start) /\ CodeLen(Start) \in 0 .. 63
      BY <2>1, <2>4, <3>1, DigitsBeforeEnd, LengthOfString DEF Prefix
    <3>3. cr.addr = Start + Len(cr.bits)
      BY <2>1, <2>4 DEF Request
    <3> DEFINE end == CodeLen(Start)
    <3>4. cr.addr \in Start .. Start + end
      <4> HIDE DEF end
      <4>1. end \in 0 .. 63 /\ Len(cr.bits) <= end
        BY <3>2 DEF end
      <4> QED
        BY <3>1, <3>3, <4>1
    <3> QED
      BY <2>2, <3>4 DEF Start
  <2> QED
    BY <2>1, <2>3, <2>4
<1> QED
  BY <1>1, ReaderInvariance, PTL DEF Spec, ReadsItsOwn
=============================================================================
