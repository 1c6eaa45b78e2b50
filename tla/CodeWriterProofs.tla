--------------------------- MODULE CodeWriterProofs ---------------------------
(***************************************************************************)
(* The code writer packs its stream correctly for every set of codes, every*)
(* destination, every length of stream and every behaviour of waitrequest. *)
(***************************************************************************)
EXTENDS CodeWriterBench, BitLemmas

-----------------------------------------------------------------------------
(* The inductive invariant *)

\* The request on the bus is the first byte that is still pending.
Request ==
    /\ cw.write <=> cw.state \in {"WRITE_CODE_EXTRA_1", "WRITE_CODE_WAIT"}
    /\ cw.write => /\ cw.addr = cw.dst + cw.off
                   /\ Len(cw.wip) >= 8
                   /\ cw.data = PackByte(cw.wip)

\* Before a code is added less than a byte is pending, and the code that waits
\* is the end of what has been fed.
Waiting ==
    /\ cw.state \in {"IDLE", "ADD_CODE", "DONE"} => Len(cw.wip) < 8
    /\ cw.state = "ADD_CODE" =>
          /\ Len(cw.code) <= MaxCodeLen
          /\ \A i \in 1 .. Len(cw.code) :
                cw.code[i] = fed[8 * cw.off + Len(cw.wip) + i]

\* The stream fits in the memory.
Room ==
    /\ cw.dst \in Dsts \cup {0}
    /\ Len(fed) <= MaxBits

Inv ==
    /\ TypeOK
    /\ WipFits
    /\ PendingKept
    /\ StreamWritten
    /\ Request
    /\ Waiting
    /\ Room

-----------------------------------------------------------------------------
(* Lemmas about the operators *)

\* A number of bits is eight times its bytes and a rest below eight.
LEMMA WholeBytes ==
    ASSUME NEW n \in Nat, NEW q \in Nat, NEW r \in Nat, 8 * q + r = n, r < 8
    PROVE  n \div 8 = q
  BY SMT

\* The bytes the code writer's request covers are in the memory.
LEMMA RequestInMemory ==
    ASSUME Inv, cw.write
    PROVE  cw.addr \in Addr
<1>1. 8 * cw.off + 8 <= MaxBits
  <2>1. /\ cw.off \in Nat /\ Len(cw.wip) \in Nat /\ Len(fed) \in Nat
        /\ MaxBits \in Nat
    BY RoomAssumption, LenProperties DEF Inv, TypeOK
  <2>2. cw.state # "ADD_CODE" /\ Len(cw.wip) >= 8
    BY DEF Inv, Request
  <2>3. 8 * cw.off + Len(cw.wip) = Len(fed)
    BY <2>1, <2>2 DEF Inv, PendingKept, Pending
  <2> QED
    BY <2>1, <2>2, <2>3 DEF Inv, Room
<1>2. cw.off + 1 <= MaxBits \div 8
  BY <1>1, RoomAssumption DEF Inv, TypeOK
<1> QED
  BY <1>2, RoomAssumption DEF Inv, Request, Room, TypeOK, Addr

\* A clock edge leaves the bytes that are written, and if it stores one it is
\* the first pending byte.
LEMMA MemoryStep ==
    ASSUME Inv, NEW wait \in BOOLEAN,
           mem' = Commit(mem, cw.write, wait, cw.addr, cw.data)
    PROVE  /\ mem' \in [Addr -> Byte]
           /\ \A j \in 0 .. cw.off - 1 : mem'[cw.dst + j] = mem[cw.dst + j]
           /\ cw.write /\ ~wait => mem'[cw.dst + cw.off] = PackByte(cw.wip)
<1>1. CASE cw.write /\ ~wait
  <2>1. cw.addr \in Addr /\ cw.addr = cw.dst + cw.off
    BY <1>1, RequestInMemory DEF Inv, Request
  <2>2. mem' = [mem EXCEPT ![cw.addr] = cw.data]
    BY <1>1 DEF Commit
  <2>3. \A j \in 0 .. cw.off - 1 : cw.dst + j # cw.addr
    BY <2>1 DEF Inv, TypeOK
  <2>4. mem \in [Addr -> Byte] /\ cw.data \in Byte
    BY DEF Inv, TypeOK
  <2>5. mem' \in [Addr -> Byte]
    BY <2>1, <2>2, <2>4
  <2>6. \A x \in Addr : x # cw.addr => mem'[x] = mem[x]
    BY <2>2, <2>4
  <2>7. \A j \in 0 .. cw.off - 1 : cw.dst + j \in Addr
    BY <2>1, RoomAssumption DEF Inv, TypeOK, Addr
  <2>8. mem'[cw.addr] = cw.data /\ cw.data = PackByte(cw.wip)
    BY <1>1, <2>1, <2>2, <2>4 DEF Inv, Request
  <2>9. \A j \in 0 .. cw.off - 1 : mem'[cw.dst + j] = mem[cw.dst + j]
    BY <2>3, <2>6, <2>7
  <2> QED
    BY <2>1, <2>5, <2>8, <2>9
<1>2. CASE ~(cw.write /\ ~wait)
  BY <1>2 DEF Commit, Inv, TypeOK
<1> QED
  BY <1>1, <1>2

-----------------------------------------------------------------------------
(* The invariant holds at first and is preserved by every action *)

LEMMA InitInv == BenchInit => Inv
<1> SUFFICES ASSUME BenchInit PROVE Inv
  OBVIOUS
<1> USE DEF BenchInit, Init, Reset
<1>1. <<>> \in Bits /\ Len(<<>>) = 0
  BY EmptySeq DEF Bits
<1>2. TypeOK
  BY <1>1, RoomAssumption DEF TypeOK, States, Addr, Byte
<1>3. Len(cw.wip) = 0 /\ Len(fed) = 0
  BY <1>1
<1> QED
  BY <1>2, <1>3, RoomAssumption DEF Inv, WipFits, PendingKept, Pending, StreamWritten,
     Request, Waiting, Room, TypeOK

\* The lengths as numbers, and their types.
W == Len(cw.wip)
C == Len(cw.code)
F == Len(fed)

Numbers ==
    /\ cw.off \in Nat /\ cw.dst \in Nat
    /\ W \in Nat /\ C \in Nat /\ F \in Nat

Strings == cw.wip \in Bits /\ cw.code \in Bits /\ fed \in Bits

LEMMA InvTypes == Inv => Numbers /\ Strings
  BY LenProperties DEF Inv, TypeOK, Numbers, Strings, Bits, W, C, F

\* What a step has to show once its types are known.
LEMMA InvByParts ==
    ASSUME TypeOK',
           W' <= 64,
           cw'.state \in {"IDLE", "ADD_CODE", "DONE"} => W' < 8,
           8 * cw'.off + W' + (IF cw'.state = "ADD_CODE" THEN C' ELSE 0) = F',
           \A i \in 1 .. W' : cw'.wip[i] = fed'[8 * cw'.off + i],
           StreamWritten', Request', Room',
           cw'.state = "ADD_CODE" =>
              /\ C' <= MaxCodeLen
              /\ \A i \in 1 .. C' : cw'.code[i] = fed'[8 * cw'.off + W' + i]
    PROVE  Inv'
  BY DEF Inv, WipFits, PendingKept, Pending, Waiting, W, C, F

LEMMA LoadInv ==
    ASSUME Inv, NEW dst \in Dsts, NEW wait \in BOOLEAN, NEW start, NEW code,
           Load(TRUE, dst), Record(TRUE, start, code),
           mem' = Commit(mem, cw.write, wait, cw.addr, cw.data)
    PROVE  Inv'
<1>1. /\ fed' = <<>> /\ cw'.wip = <<>> /\ cw'.off = 0 /\ cw'.state = "IDLE"
      /\ cw'.dst = dst /\ cw.state = "IDLE" /\ cw'.write = cw.write
  BY DEF Load, Record, Inv, TypeOK
<1>2. <<>> \in Bits /\ Len(<<>>) = 0
  BY EmptySeq DEF Bits
<1>3. TypeOK'
  BY <1>1, <1>2, MemoryStep, RoomAssumption DEF Load, TypeOK, Inv
<1>4. StreamWritten' /\ Request' /\ Room'
  BY <1>1, <1>2, RoomAssumption DEF StreamWritten, Inv, Request, Room
<1> QED
  BY <1>1, <1>2, <1>3, <1>4, InvByParts DEF W, F

LEMMA AcceptInv ==
    ASSUME Inv, NEW code \in Codes, NEW wait \in BOOLEAN,
           Accept(FALSE, TRUE, code), Record(FALSE, TRUE, code),
           Len(fed) + Len(code) <= MaxBits,
           mem' = Commit(mem, cw.write, wait, cw.addr, cw.data)
    PROVE  Inv'
<1>0. Numbers /\ Strings
  BY InvTypes
<1>1. /\ cw.state = "IDLE" /\ cw'.state = "ADD_CODE" /\ cw'.code = code
      /\ cw'.wip = cw.wip /\ cw'.off = cw.off /\ cw'.dst = cw.dst
      /\ cw'.write = cw.write /\ fed' = fed \o code
  BY DEF Accept, Record, Inv, TypeOK
<1>2. code \in Bits /\ C' <= MaxCodeLen /\ C' \in Nat /\ W' = W
  BY <1>1, CodesAssumption, LenProperties DEF Bits, C, W
<1>3. /\ F' = F + C'
      /\ \A i \in 1 .. F : fed'[i] = fed[i]
      /\ \A i \in 1 .. C' : fed'[F + i] = cw'.code[i]
  BY <1>0, <1>1, <1>2, AppendedBits, Zenon DEF Strings, C, F
<1>4. 8 * cw.off + W = F /\ W < 8 /\ W <= 64
  BY <1>0, <1>1 DEF Inv, PendingKept, Pending, Waiting, WipFits, W, F, Numbers
<1>5. TypeOK'
  <2>1. fed' \in Bits
    BY <1>0, <1>1, <1>2, AppendedBits DEF Strings
  <2> QED
    BY <1>2, <2>1, MemoryStep DEF Accept, TypeOK, Inv, States
<1>6. \A i \in 1 .. W : cw.wip[i] = fed'[8 * cw.off + i]
  <2>1. \A i \in 1 .. W : cw.wip[i] = fed[8 * cw.off + i]
    BY DEF Inv, PendingKept, W
  <2>2. \A i \in 1 .. W : 8 * cw.off + i \in 1 .. F
    BY <1>0, <1>4 DEF Numbers
  <2> QED
    BY <1>3, <2>1, <2>2
<1>7. StreamWritten'
  <2> SUFFICES ASSUME NEW j \in 0 .. cw.off - 1
               PROVE  mem'[cw.dst + j] = PackByte([i \in 1 .. 8 |-> fed'[8 * j + i]])
    BY <1>1 DEF StreamWritten
  <2>1. \A i \in 1 .. 8 : 8 * j + i \in 1 .. F
    BY <1>0, <1>4 DEF Numbers
  <2>2. [i \in 1 .. 8 |-> fed'[8 * j + i]] = [i \in 1 .. 8 |-> fed[8 * j + i]]
    BY <1>3, <2>1
  <2> QED
    BY <2>2, MemoryStep DEF Inv, StreamWritten
<1>8. Request' /\ Room'
  <2>1. F + C' <= MaxBits
    BY <1>1 DEF F, C
  <2> QED
    BY <1>1, <1>3, <2>1 DEF Inv, Request, Room, F
<1> QED
  BY <1>0, <1>1, <1>2, <1>3, <1>4, <1>5, <1>6, <1>7, <1>8, InvByParts DEF Numbers

LEMMA AddCodeInv ==
    ASSUME Inv, NEW wait \in BOOLEAN, AddCode, fed' = fed,
           mem' = Commit(mem, cw.write, wait, cw.addr, cw.data)
    PROVE  Inv'
<1>0. Numbers /\ Strings
  BY InvTypes
<1>1. /\ cw.state = "ADD_CODE" /\ cw'.state = "WRITE_CODE"
      /\ cw'.off = cw.off /\ cw'.dst = cw.dst /\ cw'.write = cw.write
  BY DEF AddCode, Inv, TypeOK
<1>2. /\ W' = W + C /\ F' = F
      /\ \A i \in 1 .. W : cw'.wip[i] = cw.wip[i]
      /\ \A i \in 1 .. C : cw'.wip[W + i] = cw.code[i]
  <2>1. cw'.wip = cw.wip \o cw.code
    BY DEF AddCode, Inv, TypeOK
  <2>2. /\ Len(cw.wip \o cw.code) = Len(cw.wip) + Len(cw.code)
        /\ \A i \in 1 .. Len(cw.wip) : (cw.wip \o cw.code)[i] = cw.wip[i]
        /\ \A i \in 1 .. Len(cw.code) :
              (cw.wip \o cw.code)[Len(cw.wip) + i] = cw.code[i]
    BY <1>0, AppendedBits DEF Strings
  <2>3. F' = F
    BY DEF F
  <2> QED
    BY <2>1, <2>2, <2>3, Zenon DEF W, C
<1>3. W < 8 /\ C <= 57 /\ 8 * cw.off + W + C = F
  BY <1>1 DEF Inv, Waiting, PendingKept, Pending, MaxCodeLen, W, C, F
<1>4. TypeOK'
  <2>1. cw.wip \o cw.code \in Bits
    BY <1>0, AppendedBits DEF Strings
  <2> QED
    BY <2>1, MemoryStep DEF AddCode, TypeOK, Inv, States
<1>5. ASSUME NEW i \in 1 .. W + C
      PROVE  cw'.wip[i] = fed'[8 * cw.off + i]
  <2>1. CASE i \in 1 .. W
    <3>1. cw.wip[i] = fed[8 * cw.off + i]
      BY <2>1 DEF Inv, PendingKept, W
    <3> QED
      BY <1>2, <2>1, <3>1
  <2>2. CASE i \notin 1 .. W
    <3>1. PICK k \in 1 .. C : i = W + k
      <4>1. i - W \in 1 .. C /\ i = W + (i - W)
        BY <1>0, <2>2 DEF Numbers
      <4> QED
        BY <4>1
    <3>2. cw.code[k] = fed[8 * cw.off + W + k]
      BY <1>1 DEF Inv, Waiting, C, W
    <3>3. 8 * cw.off + W + k = 8 * cw.off + i
      BY <1>0, <3>1 DEF Numbers
    <3> QED
      BY <1>2, <3>1, <3>2, <3>3
  <2> QED
    BY <2>1, <2>2
<1>6. StreamWritten' /\ Request' /\ Room'
  BY <1>1, MemoryStep DEF Inv, StreamWritten, Request, Room
<1>7. \A i \in 1 .. W' : cw'.wip[i] = fed'[8 * cw'.off + i]
  BY <1>1, <1>2, <1>5
<1>8. W' <= 64 /\ 8 * cw'.off + W' + 0 = F'
  BY <1>0, <1>1, <1>2, <1>3 DEF Numbers
<1> QED
  BY <1>1, <1>4, <1>6, <1>7, <1>8, InvByParts

\* The edges that neither take bits in nor give a byte away.
LEMMA QuietInv ==
    ASSUME Inv, NEW wait \in BOOLEAN,
           fed' = fed,
           mem' = Commit(mem, cw.write, wait, cw.addr, cw.data),
           \/ Rest(FALSE, FALSE)
           \/ KeepRest
           \/ PutByte
           \/ Extra
           \/ Stall(wait)
           \/ Finish
    PROVE  Inv'
<1>0. Numbers /\ Strings
  BY InvTypes
<1>1. /\ cw'.wip = cw.wip /\ cw'.off = cw.off /\ cw'.dst = cw.dst
      /\ cw.state # "ADD_CODE" /\ cw'.state # "ADD_CODE"
  BY DEF Inv, TypeOK, Rest, KeepRest, PutByte, Extra, Stall, Finish
<1>2. /\ 8 * cw.off + W = F /\ W <= 64
      /\ cw'.state \in {"IDLE", "DONE"} => W < 8
  <2>1. 8 * cw.off + W = F /\ W <= 64
    BY <1>0, <1>1 DEF Inv, WipFits, PendingKept, Pending, Numbers, W, F
  <2>2. ~FullByte => W < 8
    BY <1>0 DEF FullByte, Numbers, W
  <2>3. cw.state \in {"IDLE", "DONE"} => W < 8
    BY DEF Inv, Waiting, W
  <2>4. cw'.state \in {"IDLE", "DONE"} => cw.state \in {"IDLE", "DONE"} \/ ~FullByte
    BY DEF Inv, TypeOK, Rest, KeepRest, PutByte, Extra, Stall, Finish
  <2> QED
    BY <2>1, <2>2, <2>3, <2>4
<1>3. TypeOK'
  <2>1. FullByte => PackByte(cw.wip) \in Byte
    BY <1>0, PackByteType DEF FullByte, Strings
  <2>2. 0 \in Byte
    BY DEF Byte
  <2>3. mem' \in [Addr -> Byte] /\ fed' \in Bits
    BY MemoryStep DEF Inv, TypeOK
  <2>4. CASE Rest(FALSE, FALSE)
    BY <2>2, <2>3, <2>4 DEF Inv, TypeOK, Rest
  <2>5. CASE KeepRest
    BY <2>3, <2>5 DEF Inv, TypeOK, KeepRest, States
  <2>6. CASE PutByte
    <3>1. PackByte(cw.wip) \in Byte /\ cw.dst + cw.off \in Nat
      BY <1>0, <2>1, <2>6 DEF PutByte, Numbers
    <3> QED
      BY <2>3, <2>6, <3>1 DEF Inv, TypeOK, PutByte, States
  <2>7. CASE Extra
    BY <2>3, <2>7 DEF Inv, TypeOK, Extra, States
  <2>8. CASE Stall(wait)
    BY <2>3, <2>8 DEF Inv, TypeOK, Stall
  <2>9. CASE Finish
    BY <2>3, <2>9 DEF Inv, TypeOK, Finish, States
  <2> QED
    BY <2>4, <2>5, <2>6, <2>7, <2>8, <2>9
<1>4. StreamWritten' /\ Room'
  <2>1. \A j \in 0 .. cw.off - 1 : mem'[cw.dst + j] = mem[cw.dst + j]
    BY MemoryStep, Zenon
  <2>2. \A j \in 0 .. cw.off - 1 :
           mem[cw.dst + j] = PackByte([i \in 1 .. 8 |-> fed[8 * j + i]])
    BY Zenon DEF Inv, StreamWritten
  <2>3. cw'.off = cw.off /\ cw'.dst = cw.dst
    BY <1>1, Zenon
  <2>4. \A j \in 0 .. cw.off - 1 :
           mem'[cw.dst + j] = PackByte([i \in 1 .. 8 |-> fed[8 * j + i]])
    BY <2>1, <2>2, Zenon
  <2>5. StreamWritten'
    BY <2>3, <2>4, Zenon DEF StreamWritten
  <2>6. Room'
    BY <2>3, Zenon DEF Inv, Room
  <2> QED
    BY <2>5, <2>6
<1>5. Request'
  BY <1>1 DEF Inv, TypeOK, Request, Rest, KeepRest, PutByte, Extra, Stall, Finish,
              FullByte
<1>6. \A i \in 1 .. W : cw.wip[i] = fed[8 * cw.off + i]
  BY DEF Inv, PendingKept, W
<1>7. W' = W /\ F' = F
  BY <1>1 DEF W, F
<1> QED
  BY <1>0, <1>1, <1>2, <1>3, <1>4, <1>5, <1>6, <1>7, InvByParts DEF Numbers

LEMMA WrittenInv ==
    ASSUME Inv, Written(FALSE), fed' = fed,
           mem' = Commit(mem, cw.write, FALSE, cw.addr, cw.data)
    PROVE  Inv'
<1>0. Numbers /\ Strings
  BY InvTypes
<1>1. /\ cw.state = "WRITE_CODE_WAIT" /\ cw'.state = "WRITE_CODE"
      /\ cw'.off = cw.off + 1 /\ cw'.dst = cw.dst /\ cw'.write = FALSE
  BY DEF Written, Inv, TypeOK
<1>2. cw.write /\ W >= 8 /\ W <= 64 /\ 8 * cw.off + W = F
  BY <1>0, <1>1 DEF Inv, Request, WipFits, PendingKept, Pending, Numbers, W, F
<1>3. /\ W' = W - 8 /\ F' = F
      /\ \A i \in 1 .. W - 8 : cw'.wip[i] = cw.wip[i + 8]
  <2>1. cw'.wip = SubSeq(cw.wip, 9, Len(cw.wip))
    BY DEF Written, Inv, TypeOK
  <2>2. /\ Len(SubSeq(cw.wip, 9, Len(cw.wip))) = Len(cw.wip) - 8
        /\ \A i \in 1 .. Len(cw.wip) - 8 :
              SubSeq(cw.wip, 9, Len(cw.wip))[i] = cw.wip[i + 8]
    BY <1>0, <1>2, DroppedByte DEF Strings, W
  <2>3. F' = F
    BY DEF F
  <2> QED
    BY <2>1, <2>2, <2>3, Zenon DEF W
<1>4. TypeOK'
  <2>1. SubSeq(cw.wip, 9, Len(cw.wip)) \in Bits
    BY <1>0, <1>2, DroppedByte DEF Strings, W
  <2>2. cw.off + 1 \in Nat
    BY <1>0 DEF Numbers
  <2> DEFINE rest == SubSeq(cw.wip, 9, Len(cw.wip))
  <2>3. cw' = [cw EXCEPT !.write = FALSE, !.off = cw.off + 1, !.wip = rest,
                         !.state = "WRITE_CODE"]
    BY DEF Written
  <2> HIDE DEF rest
  <2> QED
    BY <2>1, <2>2, <2>3, MemoryStep DEF TypeOK, Inv, States, rest
<1>5. ASSUME NEW i \in 1 .. W - 8
      PROVE  cw'.wip[i] = fed'[8 * (cw.off + 1) + i]
  <2>1. i + 8 \in 1 .. W /\ 8 * cw.off + (i + 8) = 8 * (cw.off + 1) + i
    BY <1>0 DEF Numbers
  <2>2. cw.wip[i + 8] = fed[8 * cw.off + (i + 8)]
    BY <2>1 DEF Inv, PendingKept, W
  <2> QED
    BY <1>3, <2>1, <2>2
<1>6. StreamWritten'
  <2> SUFFICES ASSUME NEW j \in 0 .. cw.off
               PROVE  mem'[cw.dst + j] = PackByte([i \in 1 .. 8 |-> fed[8 * j + i]])
    <3>1. cw'.off - 1 = cw.off
      BY <1>0, <1>1 DEF Numbers
    <3> QED
      BY <1>1, <3>1, Zenon DEF StreamWritten
  <2>1. CASE j \in 0 .. cw.off - 1
    BY <2>1, MemoryStep DEF Inv, StreamWritten
  <2>2. CASE j = cw.off
    <3>1. ASSUME NEW i \in 1 .. 8
          PROVE  cw.wip[i] = [k \in 1 .. 8 |-> fed[8 * j + k]][i]
      <4>1. i \in 1 .. W
        BY <1>0, <1>2 DEF Numbers
      <4>2. cw.wip[i] = fed[8 * cw.off + i]
        BY <4>1 DEF Inv, PendingKept, W
      <4> QED
        BY <2>2, <4>2
    <3>2. mem'[cw.dst + j] = PackByte(cw.wip)
      BY <1>2, <2>2, MemoryStep
    <3> QED
      BY <3>1, <3>2, PackByteEqual
  <2>3. j \in 0 .. cw.off - 1 \/ j = cw.off
    BY <1>0 DEF Numbers
  <2> QED
    BY <2>1, <2>2, <2>3, Zenon
<1>7. Request' /\ Room'
  BY <1>1 DEF Inv, Request, Room
<1>8. \A i \in 1 .. W' : cw'.wip[i] = fed'[8 * cw'.off + i]
  BY <1>1, <1>3, <1>5
<1>9. W' <= 64 /\ 8 * cw'.off + W' + 0 = F'
  BY <1>0, <1>1, <1>2, <1>3 DEF Numbers
<1> QED
  BY <1>1, <1>4, <1>6, <1>7, <1>8, <1>9, InvByParts

LEMMA NextInv == Inv /\ [Next]_vars => Inv'
<1> SUFFICES ASSUME Inv, [Next]_vars PROVE Inv'
  OBVIOUS
<1>1. CASE UNCHANGED vars
  BY <1>1 DEF vars, Inv, TypeOK, WipFits, PendingKept, Pending, StreamWritten,
              Request, Waiting, Room
<1>2. ASSUME NEW write \in BOOLEAN, NEW start \in BOOLEAN, NEW wait \in BOOLEAN,
             NEW dst \in Dsts, NEW code \in Codes,
             Clock(write, dst, start, code, wait)
      PROVE  Inv'
  <2>1. /\ cw.state = "IDLE" /\ ~write /\ start => Len(fed) + Len(code) <= MaxBits
        /\ Tick(write, dst, start, code, wait)
        /\ Record(write, start, code)
        /\ mem' = Commit(mem, cw.write, wait, cw.addr, cw.data)
    BY <1>2 DEF Clock
  <2>2. cw.state # "IDLE" => fed' = fed
    BY <2>1 DEF Record
  <2>3. CASE Load(write, dst)
    <3>1. write = TRUE
      BY <2>3 DEF Load
    <3> QED
      BY <2>1, <2>3, <3>1, LoadInv
  <2>4. CASE Accept(write, start, code)
    <3>1. write = FALSE /\ start = TRUE /\ cw.state = "IDLE"
      BY <2>4 DEF Accept
    <3> QED
      BY <2>1, <2>4, <3>1, AcceptInv
  <2>5. CASE Rest(write, start)
    <3>1. write = FALSE /\ start = FALSE
      BY <2>5 DEF Rest
    <3>2. fed' = fed
      BY <2>1, <3>1 DEF Record
    <3> QED
      BY <2>1, <2>5, <3>1, <3>2, QuietInv
  <2>6. CASE AddCode
    BY <2>1, <2>2, <2>6, AddCodeInv DEF AddCode
  <2>7. CASE PutByte \/ KeepRest \/ Extra \/ Stall(wait) \/ Finish
    <3>1. fed' = fed
      BY <2>2, <2>7 DEF PutByte, KeepRest, Extra, Stall, Finish
    <3> QED
      BY <2>1, <2>7, <3>1, QuietInv
  <2>8. CASE Written(wait)
    <3>1. wait = FALSE /\ fed' = fed
      BY <2>2, <2>8 DEF Written
    <3> QED
      BY <2>1, <2>8, <3>1, WrittenInv
  <2> QED
    BY <2>1, <2>3, <2>4, <2>5, <2>6, <2>7, <2>8 DEF Tick
<1> QED
  BY <1>1, <1>2 DEF Next

-----------------------------------------------------------------------------
(* Theorems *)

\* The inductive invariant holds in every state of every behaviour.
THEOREM Invariance == Spec => []Inv
<1>1. BenchInit => Inv
  BY InitInv
<1>2. Inv /\ [Next]_vars => Inv'
  BY NextInv
<1> QED
  BY <1>1, <1>2, PTL DEF Spec

\* The registers, the memory and the history keep their types: every address
\* is a natural number and every stored value a byte.
THEOREM TypeCorrect == Spec => []TypeOK
<1>1. Inv => TypeOK
  BY DEF Inv
<1> QED
  BY <1>1, Invariance, PTL

\* WIP_Reg never holds more than its 64 bits, for codes of up to 57 bits.
THEOREM RegisterNeverOverflows == Spec => []WipFits
<1>1. Inv => WipFits
  BY DEF Inv
<1> QED
  BY <1>1, Invariance, PTL

\* The register holds exactly the bits that were fed and are not yet written.
THEOREM NoBitLost == Spec => []PendingKept
<1>1. Inv => PendingKept
  BY DEF Inv
<1> QED
  BY <1>1, Invariance, PTL

\* Memory holds every whole byte of the stream at its place.
THEOREM BytesInMemory == Spec => []StreamWritten
<1>1. Inv => StreamWritten
  BY DEF Inv
<1> QED
  BY <1>1, Invariance, PTL

\* When done_o rises nothing but the last, incomplete byte is pending and the
\* size that encoding_size_o reports is the number of whole bytes fed.
THEOREM DoneCountsBytes == Spec => DoneIsFlushed
<1>1. ASSUME Inv, [Next]_vars
      PROVE  [cw'.done /\ ~cw.done =>
                 cw'.size = Len(fed) \div 8 /\ Len(cw.wip) < 8]_vars
  <2> SUFFICES ASSUME Next, cw'.done, ~cw.done
               PROVE  cw'.size = Len(fed) \div 8 /\ Len(cw.wip) < 8
    BY <1>1 DEF vars
  <2>1. Finish
    <3>1. PICK write \in BOOLEAN, start \in BOOLEAN, wait \in BOOLEAN,
               dst \in Dsts, code \in Codes : Tick(write, dst, start, code, wait)
      BY Zenon DEF Next, Clock
    <3>2. TypeOK
      BY <1>1 DEF Inv
    <3>3. ~Load(write, dst) /\ ~Accept(write, start, code) /\ ~Rest(write, start)
      BY <3>2 DEF TypeOK, Load, Accept, Rest
    <3>4. ~AddCode /\ ~PutByte /\ ~KeepRest
      BY <3>2 DEF TypeOK, AddCode, PutByte, KeepRest
    <3>5. ~Extra /\ ~Stall(wait) /\ ~Written(wait)
      BY <3>2 DEF TypeOK, Extra, Stall, Written
    <3> QED
      BY <3>1, <3>3, <3>4, <3>5, Zenon DEF Tick
  <2>2. cw'.size = cw.off /\ cw.state = "DONE"
    BY <1>1, <2>1 DEF Finish, Inv, TypeOK
  <2>3. Numbers
    BY <1>1, InvTypes
  <2>4. W < 8 /\ 8 * cw.off + W = F
    <3>1. W < 8
      BY <1>1, <2>2 DEF Inv, Waiting, W
    <3>2. 8 * cw.off + W + 0 = F
      BY <1>1, <2>2 DEF Inv, PendingKept, Pending, W, F
    <3> QED
      BY <2>3, <3>1, <3>2 DEF Numbers
  <2>5. F \div 8 = cw.off
    BY <2>3, <2>4, WholeBytes DEF Numbers
  <2> QED
    BY <2>2, <2>4, <2>5 DEF W, F
<1> QED
  BY <1>1, Invariance, PTL DEF Spec, DoneIsFlushed

\* The code writer keeps the master's side of the bus protocol: a request does
\* not change while it waits and is not dropped before its byte is stored.
THEOREM MasterKeepsProtocol == Spec => RequestHeld
<1>1. ASSUME Inv, [Next]_vars
      PROVE  [cw.write => /\ cw'.write => cw'.addr = cw.addr /\ cw'.data = cw.data
                          /\ ~cw'.write => mem'[cw.addr] = cw.data]_vars
  <2> SUFFICES ASSUME Next, cw.write
               PROVE  /\ cw'.write => cw'.addr = cw.addr /\ cw'.data = cw.data
                      /\ ~cw'.write => mem'[cw.addr] = cw.data
    BY <1>1 DEF vars
  <2>1. PICK wait \in BOOLEAN :
           /\ Extra \/ Stall(wait) \/ Written(wait)
           /\ mem' = Commit(mem, cw.write, wait, cw.addr, cw.data)
    <3>1. PICK write, start, wait \in BOOLEAN, dst \in Dsts, code \in Codes :
             Clock(write, dst, start, code, wait)
      BY Zenon DEF Next
    <3>2. /\ Tick(write, dst, start, code, wait)
          /\ mem' = Commit(mem, cw.write, wait, cw.addr, cw.data)
      BY <3>1, Zenon DEF Clock
    <3>3. cw.state \in {"WRITE_CODE_EXTRA_1", "WRITE_CODE_WAIT"}
      BY <1>1, Zenon DEF Inv, Request
    <3>4. /\ cw.state # "IDLE" /\ cw.state # "ADD_CODE"
          /\ cw.state # "WRITE_CODE" /\ cw.state # "DONE"
      BY <3>3
    <3>5. Extra \/ Stall(wait) \/ Written(wait)
      BY <3>2, <3>4, Zenon DEF Tick, Load, Accept, Rest, AddCode, PutByte, KeepRest, Finish
    <3> QED
      BY <3>2, <3>5, Zenon
  <2>2. CASE Extra \/ Stall(wait)
    BY <1>1, <2>2 DEF Extra, Stall, Inv, TypeOK
  <2>3. CASE Written(wait)
    <3>1. wait = FALSE /\ cw'.write = FALSE
      BY <1>1, <2>3 DEF Written, Inv, TypeOK
    <3>2. mem' = [mem EXCEPT ![cw.addr] = cw.data]
      BY <2>1, <3>1 DEF Commit
    <3>3. cw.addr \in Addr /\ mem \in [Addr -> Byte]
      BY <1>1, RequestInMemory DEF Inv, TypeOK
    <3> QED
      BY <3>1, <3>2, <3>3
  <2> QED
    BY <2>1, <2>2, <2>3
<1> QED
  BY <1>1, Invariance, PTL DEF Spec, RequestHeld
=============================================================================
