--------------------------- MODULE CodedFileProofs ---------------------------
(***************************************************************************)
(* First part: the software coder packs its stream correctly, in a buffer  *)
(* that is never checked, for every text, every code table with codes up   *)
(* to MaxCode bits and every size of the buffer from MaxCode + 8 on.       *)
(*                                                                         *)
(* Second part: decompress gives the text back, from the file of any of    *)
(* the three coders, for every text and every prefix code.                 *)
(***************************************************************************)
EXTENDS CodedFile, BitLemmas

CoderInv ==
    /\ CoderTypeOK
    /\ WorkingFits
    /\ BitsKept
    /\ BytesPacked
    /\ AllWritten

\* The lengths as numbers.
W == Len(working)
F == Len(fed)
N == Len(out)

LEMMA CoderNumbers ==
    ASSUME CoderTypeOK
    PROVE  W \in Nat /\ F \in Nat /\ N \in Nat /\ Len(text) \in Nat /\ pos \in Nat
<1>1. text \in Seq(Nat)
  BY TextsAssumption DEF CoderTypeOK
<1> QED
  BY <1>1, LenProperties DEF CoderTypeOK, Bits, W, F, N

LEMMA AppendedByte ==
    ASSUME NEW s \in Seq(Byte), NEW b \in Byte
    PROVE  /\ Append(s, b) \in Seq(Byte)
           /\ Len(Append(s, b)) = Len(s) + 1
           /\ \A k \in 1 .. Len(s) : Append(s, b)[k] = s[k]
           /\ Append(s, b)[Len(s) + 1] = b
  BY AppendProperties

-----------------------------------------------------------------------------
(* One lemma per action *)

LEMMA CoderInitInv == CoderInit => CoderInv
<1> SUFFICES ASSUME CoderInit PROVE CoderInv
  OBVIOUS
<1>1. /\ <<>> \in Bits /\ <<>> \in Seq(Byte) /\ Len(<<>>) = 0
  BY EmptySeq DEF Bits
<1>2. text \in Seq(Nat)
  BY TextsAssumption DEF CoderInit
<1>3. CoderTypeOK
  BY <1>1, <1>2, LenProperties DEF CoderInit, CoderRest, CoderTypeOK
<1> QED
  BY <1>1, <1>3, WorkingAssumption DEF CoderInit, CoderRest, CoderInv, WorkingFits,
     BitsKept, BytesPacked, AllWritten

LEMMA AddCodeInv == CoderInv /\ AddCode => CoderInv'
<1> SUFFICES ASSUME CoderInv, AddCode PROVE CoderInv'
  OBVIOUS
<1>1. W \in Nat /\ F \in Nat /\ N \in Nat /\ Len(text) \in Nat /\ pos \in Nat
  BY CoderNumbers DEF CoderInv
<1> DEFINE code == codes[text[pos + 1]]
<1>2. code \in Bits /\ Len(code) <= MaxCode /\ Len(code) \in Nat
  BY CodeTablesAssumption, LenProperties DEF AddCode, CoderInv, CoderTypeOK, Bits
<1>3. working \in Bits /\ fed \in Bits
  BY DEF CoderInv, CoderTypeOK
<1>4. working' = working \o code /\ fed' = fed \o code
  BY DEF AddCode
<1> HIDE DEF code
<1>5. /\ working' \in Bits /\ W' = W + Len(code)
      /\ \A k \in 1 .. W : working'[k] = working[k]
      /\ \A k \in 1 .. Len(code) : working'[W + k] = code[k]
  BY <1>2, <1>3, <1>4, AppendedBits, Zenon DEF W
<1>6. /\ fed' \in Bits /\ F' = F + Len(code)
      /\ \A k \in 1 .. F : fed'[k] = fed[k]
      /\ \A k \in 1 .. Len(code) : fed'[F + k] = code[k]
  BY <1>2, <1>3, <1>4, AppendedBits, Zenon DEF F
<1>7. coder = "run" /\ coder' = "run" /\ W < 8 /\ out' = out /\ N' = N
  BY DEF AddCode, W, N
<1>8. 8 * N + W = F /\ \A k \in 1 .. W : working[k] = fed[8 * N + k]
  BY <1>7 DEF CoderInv, BitsKept, W, F, N
<1>9. CoderTypeOK'
  BY <1>1, <1>5, <1>6 DEF AddCode, CoderInv, CoderTypeOK, inputVars
<1>10. WorkingFits'
  BY <1>1, <1>2, <1>5, <1>7, WorkingAssumption DEF WorkingFits, W
<1>11. BitsKept'
  <2>1. 8 * N' + W' = F'
    <3>1. W' = W + Len(code) /\ F' = F + Len(code) /\ N' = N /\ 8 * N + W = F
      BY <1>5, <1>6, <1>7, <1>8, Zenon
    <3>2. W \in Nat /\ N \in Nat /\ F \in Nat /\ Len(code) \in Nat
      BY <1>1, <1>2, Zenon
    <3>3. 8 * N + (W + Len(code)) = F + Len(code)
      BY <3>1, <3>2
    <3> QED
      BY <3>1, <3>3, Zenon
  <2>2. ASSUME NEW k \in 1 .. W' PROVE working'[k] = fed'[8 * N' + k]
    <3>1. CASE k <= W
      <4>1. k \in 1 .. W /\ 8 * N + k \in 1 .. F
        BY <1>1, <1>8, <3>1
      <4> QED
        BY <1>5, <1>6, <1>7, <1>8, <4>1
    <3>2. CASE ~(k <= W)
      <4>1. PICK i \in 1 .. Len(code) : k = W + i
        <5>1. k - W \in 1 .. Len(code) /\ k = W + (k - W)
          BY <1>1, <1>2, <1>5, <3>2
        <5> QED
          BY <5>1
      <4>2. 8 * N' + k = F + i
        BY <1>1, <1>7, <1>8, <4>1
      <4> QED
        BY <1>5, <1>6, <4>1, <4>2
    <3> QED
      BY <3>1, <3>2
  <2> QED
    BY <2>1, <2>2 DEF BitsKept, W, F, N
<1>12. BytesPacked'
  <2> SUFFICES ASSUME NEW k \in 1 .. N
               PROVE  out[k] = PackByte([i \in 1 .. 8 |-> StreamBit(8 * (k - 1) + i)'])
    BY <1>7 DEF BytesPacked, N
  <2>1. ASSUME NEW i \in 1 .. 8
        PROVE  StreamBit(8 * (k - 1) + i)' = StreamBit(8 * (k - 1) + i)
    <3>1. 8 * (k - 1) + i \in 1 .. F /\ 8 * (k - 1) + i <= F'
      BY <1>1, <1>2, <1>6, <1>8
    <3> QED
      BY <1>6, <3>1 DEF StreamBit, F
  <2>2. [i \in 1 .. 8 |-> StreamBit(8 * (k - 1) + i)']
          = [i \in 1 .. 8 |-> StreamBit(8 * (k - 1) + i)]
    BY <2>1
  <2> QED
    BY <2>2 DEF CoderInv, BytesPacked, N
<1>13. AllWritten'
  BY <1>7 DEF AllWritten
<1> QED
  BY <1>9, <1>10, <1>11, <1>12, <1>13 DEF CoderInv

LEMMA OutsideInv == CoderInv /\ Outside => CoderInv'
<1> SUFFICES ASSUME CoderInv, Outside PROVE CoderInv'
  OBVIOUS
<1>1. /\ UNCHANGED <<prog, text, codes, pos, working, out, fed>>
      /\ coder = "run" /\ coder' \in {"invalid", "fault"}
  BY DEF Outside, inputVars
<1> QED
  BY <1>1 DEF CoderInv, CoderTypeOK, WorkingFits, BitsKept, BytesPacked,
     StreamBit, AllWritten

LEMMA OutByteInv == CoderInv /\ OutByte => CoderInv'
<1> SUFFICES ASSUME CoderInv, OutByte PROVE CoderInv'
  OBVIOUS
<1>1. W \in Nat /\ F \in Nat /\ N \in Nat
  BY CoderNumbers DEF CoderInv
<1>2. /\ working \in Bits /\ out \in Seq(Byte) /\ W >= 8
      /\ out' = Append(out, PackByte(working))
      /\ working' = SubSeq(working, 9, Len(working))
      /\ fed' = fed /\ coder = "run" /\ coder' = "run"
  BY DEF OutByte, CoderInv, CoderTypeOK, W
<1>3. PackByte(working) \in Byte
  BY <1>2, PackByteType DEF W
<1>4. /\ out' \in Seq(Byte) /\ N' = N + 1
      /\ \A k \in 1 .. N : out'[k] = out[k]
      /\ out'[N + 1] = PackByte(working)
  BY <1>2, <1>3, AppendedByte, Zenon DEF N
<1>5. /\ working' \in Bits /\ W' = W - 8
      /\ \A k \in 1 .. W - 8 : working'[k] = working[k + 8]
  BY <1>2, DroppedByte, Zenon DEF W
<1>6. 8 * N + W = F /\ \A k \in 1 .. W : working[k] = fed[8 * N + k]
  BY <1>2 DEF CoderInv, BitsKept, W, F, N
<1>7. CoderTypeOK'
  BY <1>4, <1>5 DEF OutByte, CoderInv, CoderTypeOK, inputVars
<1>8. WorkingFits'
  BY <1>1, <1>5, WorkingAssumption DEF CoderInv, WorkingFits, W
<1>9. BitsKept'
  <2>1. 8 * N' + W' = F'
    <3>1. W' = W - 8 /\ N' = N + 1 /\ 8 * N + W = F
      BY <1>4, <1>5, <1>6, Zenon
    <3>2. F' = F
      BY <1>2 DEF F
    <3>3. 8 * (N + 1) + (W - 8) = F
      BY <1>1, <3>1
    <3> QED
      BY <3>1, <3>2, <3>3, Zenon
  <2>2. ASSUME NEW k \in 1 .. W' PROVE working'[k] = fed'[8 * N' + k]
    <3>1. k \in 1 .. W - 8 /\ k + 8 \in 1 .. W /\ 8 * N' + k = 8 * N + (k + 8)
      BY <1>1, <1>4, <1>5
    <3> QED
      BY <1>2, <1>5, <1>6, <3>1
  <2> QED
    BY <2>1, <2>2 DEF BitsKept, W, F, N
<1>10. BytesPacked'
  <2> SUFFICES ASSUME NEW k \in 1 .. N + 1
               PROVE  out'[k] = PackByte([i \in 1 .. 8 |-> StreamBit(8 * (k - 1) + i)])
    BY <1>2, <1>4 DEF BytesPacked, StreamBit, N
  <2>1. CASE k \in 1 .. N
    BY <1>4, <2>1 DEF CoderInv, BytesPacked, N
  <2>2. CASE k = N + 1
    <3>1. ASSUME NEW i \in 1 .. 8
          PROVE  working[i] = [l \in 1 .. 8 |-> StreamBit(8 * (k - 1) + l)][i]
      <4>1. i \in 1 .. W /\ 8 * (k - 1) + i = 8 * N + i /\ 8 * N + i <= F
        BY <1>1, <1>2, <1>6, <2>2
      <4> QED
        BY <1>6, <4>1 DEF StreamBit, F
    <3>2. PackByte(working) = PackByte([l \in 1 .. 8 |-> StreamBit(8 * (k - 1) + l)])
      BY <3>1, PackByteEqual, Zenon
    <3> QED
      BY <1>4, <2>2, <3>2
  <2> QED
    BY <1>1, <2>1, <2>2
<1>11. AllWritten'
  BY <1>2 DEF AllWritten
<1> QED
  BY <1>7, <1>8, <1>9, <1>10, <1>11 DEF CoderInv

LEMMA FinishInv == CoderInv /\ Finish => CoderInv'
<1> SUFFICES ASSUME CoderInv, Finish PROVE CoderInv'
  OBVIOUS
<1>1. W \in Nat /\ F \in Nat /\ N \in Nat
  BY CoderNumbers DEF CoderInv
<1>2. /\ working' = working /\ fed' = fed /\ working \in Bits /\ W < 8
      /\ out \in Seq(Byte) /\ coder = "run" /\ coder' = "done"
  BY DEF Finish, inputVars, CoderInv, CoderTypeOK, W
<1>3. 8 * N + W = F /\ \A k \in 1 .. W : working[k] = fed[8 * N + k]
  BY <1>2 DEF CoderInv, BitsKept, W, F, N
<1>4. WorkingFits' /\ BitsKept'
  BY <1>2 DEF CoderInv, WorkingFits, BitsKept
<1>5. CASE working = <<>>
  <2>1. out' = out /\ W = 0
    BY <1>5, EmptySeq DEF Finish, W
  <2>2. CoderTypeOK' /\ BytesPacked'
    BY <1>2, <2>1 DEF Finish, inputVars, CoderInv, CoderTypeOK, BytesPacked, StreamBit
  <2>3. AllWritten'
    BY <1>1, <1>2, <1>3, <2>1 DEF AllWritten, F, N
  <2> QED
    BY <1>4, <2>2, <2>3 DEF CoderInv
<1>6. CASE working # <<>>
  <2> DEFINE zeros == [k \in 1 .. 8 |-> 0]
  <2>1. zeros \in Bits /\ Len(zeros) = 8 /\ \A k \in 1 .. 8 : zeros[k] = 0
    BY DEF Bits, Bit
  <2>2. out' = Append(out, PackByte(working \o zeros))
    BY <1>6 DEF Finish
  <2>3. W > 0
    BY <1>1, <1>2, <1>6, EmptySeq DEF W, Bits
  <2> HIDE DEF zeros
  <2>4. /\ working \o zeros \in Bits /\ Len(working \o zeros) = W + 8
        /\ \A k \in 1 .. W : (working \o zeros)[k] = working[k]
        /\ \A k \in 1 .. 8 : (working \o zeros)[W + k] = zeros[k]
    <3>1. working \in Bits /\ zeros \in Bits
      BY <1>2, <2>1, Zenon
    <3>2. Len(working \o zeros) = Len(working) + Len(zeros)
      BY <3>1, AppendedBits, Zenon
    <3>3. \A k \in 1 .. Len(zeros) : (working \o zeros)[Len(working) + k] = zeros[k]
      BY <3>1, AppendedBits, Zenon
    <3>4. \A k \in 1 .. Len(working) : (working \o zeros)[k] = working[k]
      BY <3>1, AppendedBits, Zenon
    <3>5. working \o zeros \in Bits
      BY <3>1, AppendedBits, Zenon
    <3>6. Len(zeros) = 8
      BY <2>1, Zenon
    <3> QED
      BY <3>2, <3>3, <3>4, <3>5, <3>6, Zenon DEF W
  <2>5. PackByte(working \o zeros) \in Byte
    <3>1. Len(working \o zeros) >= 8
      BY <1>1, <2>4
    <3> QED
      BY <2>4, <3>1, PackByteType
  <2>6. /\ out' \in Seq(Byte) /\ N' = N + 1
        /\ \A k \in 1 .. N : out'[k] = out[k]
        /\ out'[N + 1] = PackByte(working \o zeros)
    BY <1>2, <2>2, <2>5, AppendedByte, Zenon DEF N
  <2>7. CoderTypeOK'
    BY <1>2, <2>6 DEF Finish, inputVars, CoderInv, CoderTypeOK
  <2>8. AllWritten'
    <3>1. N' = N + 1 /\ F' = F /\ 8 * N + W = F /\ W > 0 /\ W < 8
      BY <1>2, <1>3, <2>3, <2>6 DEF F
    <3>2. 8 * (N + 1) - F \in 0 .. 7
      BY <1>1, <3>1
    <3>3. 8 * N' - F' \in 0 .. 7
      BY <3>1, <3>2, Zenon
    <3> QED
      BY <3>3, Zenon DEF AllWritten, F, N
  <2>9. BytesPacked'
    <3> SUFFICES ASSUME NEW k \in 1 .. N + 1
                 PROVE  out'[k] = PackByte([i \in 1 .. 8 |-> StreamBit(8 * (k - 1) + i)])
      BY <1>2, <2>6 DEF BytesPacked, StreamBit, N
    <3>1. CASE k \in 1 .. N
      BY <2>6, <3>1 DEF CoderInv, BytesPacked, N
    <3>2. CASE k = N + 1
      <4>1. ASSUME NEW i \in 1 .. 8
            PROVE  (working \o zeros)[i] = [l \in 1 .. 8 |-> StreamBit(8 * (k - 1) + l)][i]
        <5>1. 8 * (k - 1) + i = 8 * N + i
          BY <1>1, <3>2
        <5>2. CASE i <= W
          <6>1. i \in 1 .. W /\ 8 * N + i <= F
            BY <1>1, <1>3, <5>2
          <6> QED
            BY <1>3, <2>4, <5>1, <6>1 DEF StreamBit, F
        <5>3. CASE ~(i <= W)
          <6>1. i - W \in 1 .. 8 /\ W + (i - W) = i /\ ~(8 * N + i <= F)
            BY <1>1, <1>3, <5>3
          <6>2. (working \o zeros)[i] = 0
            BY <2>1, <2>4, <6>1
          <6> QED
            BY <5>1, <6>1, <6>2 DEF StreamBit, F
        <5> QED
          BY <5>2, <5>3
      <4>2. PackByte(working \o zeros)
              = PackByte([l \in 1 .. 8 |-> StreamBit(8 * (k - 1) + l)])
        BY <4>1, PackByteEqual, Zenon
      <4> QED
        BY <2>6, <3>2, <4>2
    <3> QED
      BY <1>1, <3>1, <3>2
  <2> QED
    BY <1>4, <2>7, <2>8, <2>9 DEF CoderInv
<1> QED
  BY <1>5, <1>6

-----------------------------------------------------------------------------
(* The theorems *)

\* The invariant of the software coder always holds (handlers.c:200-228).
THEOREM CoderInvariance == CoderSpec => []CoderInv
<1>1. CoderInv /\ [CoderNext]_coderVars => CoderInv'
  <2> SUFFICES ASSUME CoderInv, [CoderNext]_coderVars PROVE CoderInv'
    OBVIOUS
  <2>1. CASE UNCHANGED coderVars
    BY <2>1 DEF coderVars, CoderInv, CoderTypeOK, WorkingFits, BitsKept,
       BytesPacked, StreamBit, AllWritten
  <2> QED
    BY <2>1, AddCodeInv, OutsideInv, OutByteInv, FinishInv DEF CoderNext
<1> QED
  BY <1>1, CoderInitInv, PTL DEF CoderSpec

\* working_string is never written beyond its end, although strcpy does not
\* look: seven bits left over, the longest code and a terminator fit
\* (handlers.c:208; for 56 letters, 7 + 55 + 1 characters of 64).
THEOREM WorkingNeverOverflows == CoderSpec => []WorkingFits
  BY CoderInvariance, PTL DEF CoderInv

\* No bit is lost, repeated or moved between the code table and the bytes
\* (handlers.c:208-219).
THEOREM NoCodeBitLost == CoderSpec => []BitsKept
  BY CoderInvariance, PTL DEF CoderInv

\* Each byte of the file is made of its own eight bits (handlers.c:213-228).
THEOREM BytesOfStream == CoderSpec => []BytesPacked
  BY CoderInvariance, PTL DEF CoderInv

\* At the end all bits are in the file, with less than a byte of padding
\* (handlers.c:222-228).
THEOREM EndsComplete == CoderSpec => []AllWritten
  BY CoderInvariance, PTL DEF CoderInv


-----------------------------------------------------------------------------
(* Bits, sequences and the alphabet *)

\* The bits of a byte are the bits it was made of.
LEMMA BitsBack ==
    ASSUME NEW b, \A i \in 1 .. 8 : b[i] \in 0 .. 1
    PROVE  byte_to_str(PackByte(b)) = [i \in 1 .. 8 |-> b[i]]
<1> DEFINE p == PackByte(b)
           b1 == b[1]
           b2 == b[2]
           b3 == b[3]
           b4 == b[4]
           b5 == b[5]
           b6 == b[6]
           b7 == b[7]
           b8 == b[8]
<1>1. /\ b1 \in 0 .. 1 /\ b2 \in 0 .. 1 /\ b3 \in 0 .. 1 /\ b4 \in 0 .. 1
      /\ b5 \in 0 .. 1 /\ b6 \in 0 .. 1 /\ b7 \in 0 .. 1 /\ b8 \in 0 .. 1
  OBVIOUS
<1>2. p = 128 * b1 + 64 * b2 + 32 * b3 + 16 * b4 + 8 * b5 + 4 * b6 + 2 * b7 + b8
  BY DEF PackByte
<1> HIDE DEF p, b1, b2, b3, b4, b5, b6, b7, b8
<1>3. (p \div 128) % 2 = b1
  BY <1>1, <1>2
<1>4. (p \div 64) % 2 = b2
  BY <1>1, <1>2
<1>5. (p \div 32) % 2 = b3
  BY <1>1, <1>2
<1>6. (p \div 16) % 2 = b4
  BY <1>1, <1>2
<1>7. (p \div 8) % 2 = b5
  BY <1>1, <1>2
<1>8. (p \div 4) % 2 = b6
  BY <1>1, <1>2
<1>9. (p \div 2) % 2 = b7
  BY <1>1, <1>2
<1>10. (p \div 1) % 2 = b8
  BY <1>1, <1>2
<1>11. ASSUME NEW k \in 1 .. 8
       PROVE  (p \div <<128, 64, 32, 16, 8, 4, 2, 1>>[k]) % 2 = b[k]
  <2>1. k = 1 \/ k = 2 \/ k = 3 \/ k = 4 \/ k = 5 \/ k = 6 \/ k = 7 \/ k = 8
    OBVIOUS
  <2> QED
    BY <1>3, <1>4, <1>5, <1>6, <1>7, <1>8, <1>9, <1>10, <2>1
    DEF b1, b2, b3, b4, b5, b6, b7, b8
<1> QED
  BY <1>11 DEF byte_to_str, p

\* What it means for bits to be the beginning of bits.
LEMMA PrefixBits ==
    ASSUME NEW s \in Bits, NEW t \in Bits
    PROVE  IsPrefix(s, t) <=>
              Len(s) <= Len(t) /\ \A i \in 1 .. Len(s) : s[i] = t[i]
<1>1. Len(s) \in Nat /\ Len(t) \in Nat
  BY LenProperties DEF Bits
<1> DEFINE n == Len(s)
<1>2. SUFFICES ASSUME n <= Len(t)
               PROVE  SubSeq(s, 1, n) = SubSeq(t, 1, n) <=> \A i \in 1 .. n : s[i] = t[i]
  BY DEF IsPrefix
<1>3. /\ \A i \in 1 .. n : s[i] \in Bit /\ t[i] \in Bit
  BY <1>1, <1>2, ElementOfSeq DEF Bits
<1>4. /\ SubSeq(s, 1, n) \in Bits /\ SubSeq(t, 1, n) \in Bits
      /\ Len(SubSeq(s, 1, n)) = n /\ Len(SubSeq(t, 1, n)) = n
      /\ \A i \in 1 .. n : SubSeq(s, 1, n)[i] = s[i] /\ SubSeq(t, 1, n)[i] = t[i]
  <2>1. n - 1 + 1 = n /\ \A i \in 1 .. n : 1 + i - 1 = i
    BY <1>1
  <2>2. n = 0 \/ 1 <= n
    BY <1>1
  <2> QED
    BY <1>1, <1>2, <1>3, <2>1, <2>2, SubSeqProperties DEF Bits
<1> HIDE DEF n
<1>5. (\A i \in 1 .. n : s[i] = t[i]) => SubSeq(s, 1, n) = SubSeq(t, 1, n)
  BY <1>4, SeqEqual DEF Bits
<1> QED
  BY <1>4, <1>5

\* A sequence behind a sequence.
LEMMA Behind ==
    ASSUME NEW s \in Seq(Nat), NEW t \in Seq(Nat)
    PROVE  /\ s \o t \in Seq(Nat)
           /\ Len(s \o t) = Len(s) + Len(t)
           /\ \A i \in 1 .. Len(s) : (s \o t)[i] = s[i]
           /\ \A i \in 1 .. Len(t) : (s \o t)[Len(s) + i] = t[i]
<1> DEFINE m == Len(s)
           n == Len(t)
<1>1. m \in Nat /\ n \in Nat
  BY LenProperties, Zenon
<1>2. /\ s \o t \in Seq(Nat)
      /\ Len(s \o t) = m + n
      /\ \A i \in 1 .. m + n : (s \o t)[i] = IF i <= m THEN s[i] ELSE t[i - m]
  BY ConcatProperties, Zenon
<1> HIDE DEF m, n
<1>3. ASSUME NEW i \in 1 .. m PROVE (s \o t)[i] = s[i]
  <2>1. i \in 1 .. m + n /\ i <= m
    BY <1>1
  <2> QED
    BY <1>2, <2>1
<1>4. ASSUME NEW i \in 1 .. n PROVE (s \o t)[m + i] = t[i]
  <2>1. m + i \in 1 .. m + n /\ ~(m + i <= m) /\ m + i - m = i
    BY <1>1
  <2> QED
    BY <1>1, <1>2, <2>1
<1> QED
  BY <1>2, <1>3, <1>4, Zenon DEF m, n

\* s is made of a, b and c, one behind the other.
MadeOf(s, a, b, c) ==
    /\ s \in Seq(Nat)
    /\ Len(s) = Len(a) + Len(b) + Len(c)
    /\ \A i \in 1 .. Len(a) : s[i] = a[i]
    /\ \A i \in 1 .. Len(b) : s[Len(a) + i] = b[i]
    /\ \A i \in 1 .. Len(c) : s[Len(a) + Len(b) + i] = c[i]

\* Three sequences one behind the other.
LEMMA ThreeParts ==
    ASSUME NEW a \in Seq(Nat), NEW b \in Seq(Nat), NEW c \in Seq(Nat)
    PROVE  MadeOf((a \o b) \o c, a, b, c)
<1> DEFINE ab == a \o b
<1>1. /\ ab \in Seq(Nat) /\ Len(ab) = Len(a) + Len(b)
      /\ \A i \in 1 .. Len(a) : ab[i] = a[i]
      /\ \A i \in 1 .. Len(b) : ab[Len(a) + i] = b[i]
  BY Behind, Zenon
<1>2. Len(a) \in Nat /\ Len(b) \in Nat
  BY LenProperties, Zenon
<1> HIDE DEF ab
<1>3. /\ ab \o c \in Seq(Nat) /\ Len(ab \o c) = Len(ab) + Len(c)
      /\ \A i \in 1 .. Len(ab) : (ab \o c)[i] = ab[i]
      /\ \A i \in 1 .. Len(c) : (ab \o c)[Len(ab) + i] = c[i]
  BY <1>1, Behind, Zenon
<1>4. \A i \in 1 .. Len(a) : i \in 1 .. Len(ab)
  BY <1>1, <1>2
<1>5. \A i \in 1 .. Len(b) : Len(a) + i \in 1 .. Len(ab)
  BY <1>1, <1>2
<1>6. \A i \in 1 .. Len(c) : (ab \o c)[Len(a) + Len(b) + i] = c[i]
  BY <1>1, <1>3, Zenon
<1> QED
  BY <1>1, <1>3, <1>4, <1>5, <1>6, Zenon DEF ab, MadeOf

\* The alphabet, place by place.
LEMMA AlphabetPlaces ==
    /\ letters \in Seq(Nat) /\ Len(letters) = 56
    /\ \A i \in 1 .. 26 : letters[i] = 64 + i
    /\ \A i \in 1 .. 26 : letters[26 + i] = 96 + i
    /\ letters[53] = 32 /\ letters[54] = 44 /\ letters[55] = 46 /\ letters[56] = 10
<1> DEFINE m == 26
           k == 4
           a == [i \in 1 .. 26 |-> 64 + i]
           b == [i \in 1 .. 26 |-> 96 + i]
           c == <<32, 44, 46, 10>>
<1>1. /\ m \in Nat /\ k \in Nat
      /\ a \in [1 .. m -> Nat] /\ b \in [1 .. m -> Nat] /\ c \in [1 .. k -> Nat]
  OBVIOUS
<1>2. /\ \A i \in 1 .. m : a[i] = 64 + i
      /\ \A i \in 1 .. m : b[i] = 96 + i
  OBVIOUS
<1>3. c[1] = 32 /\ c[2] = 44 /\ c[3] = 46 /\ c[4] = 10
  OBVIOUS
<1>4. letters = (a \o b) \o c
  BY DEF letters
<1> HIDE DEF a, b, c, m, k
<1>5. /\ letters \in Seq(Nat) /\ Len(letters) = m + m + k
      /\ \A i \in 1 .. m : letters[i] = a[i]
      /\ \A i \in 1 .. m : letters[m + i] = b[i]
      /\ \A i \in 1 .. k : letters[m + m + i] = c[i]
  <2>1. /\ a \in Seq(Nat) /\ b \in Seq(Nat) /\ c \in Seq(Nat)
        /\ Len(a) = m /\ Len(b) = m /\ Len(c) = k
    <3>1. \A f \in [1 .. m -> Nat] : f \in Seq(Nat) /\ Len(f) = m
      BY <1>1, IsASeq
    <3>2. \A f \in [1 .. k -> Nat] : f \in Seq(Nat) /\ Len(f) = k
      BY <1>1, IsASeq
    <3> QED
      BY <1>1, <3>1, <3>2, Zenon
  <2>2. MadeOf(letters, a, b, c)
    BY <1>4, <2>1, ThreeParts, Zenon
  <2> QED
    BY <2>1, <2>2, Zenon DEF MadeOf
<1>6. letters \in Seq(Nat) /\ Len(letters) = 56
  BY <1>5 DEF m, k
<1>7. \A i \in 1 .. 26 : letters[i] = 64 + i
  BY <1>2, <1>5 DEF m
<1>8. \A i \in 1 .. 26 : letters[26 + i] = 96 + i
  BY <1>2, <1>5 DEF m
<1>9. letters[53] = 32 /\ letters[54] = 44 /\ letters[55] = 46 /\ letters[56] = 10
  <2>1. /\ 1 \in 1 .. k /\ 2 \in 1 .. k /\ 3 \in 1 .. k /\ 4 \in 1 .. k
        /\ m + m + 1 = 53 /\ m + m + 2 = 54 /\ m + m + 3 = 55 /\ m + m + 4 = 56
    BY DEF m, k
  <2>2. /\ letters[m + m + 1] = c[1] /\ letters[m + m + 2] = c[2]
        /\ letters[m + m + 3] = c[3] /\ letters[m + m + 4] = c[4]
    BY <1>5, <2>1, Zenon
  <2> QED
    BY <1>3, <2>1, <2>2
<1> QED
  BY <1>6, <1>7, <1>8, <1>9, Zenon

\* The letters that have a code: the k-th is the one whose place is k - 1, and
\* the place of a character that has no code is that of 'A'.
LEMMA DataPlaces ==
    /\ data \in Seq(Nat) /\ Len(data) = NLetters
    /\ data[1] = 65 /\ data[2] = 66
    /\ \A k \in 1 .. NLetters : data[k] \in ToSet(data)
    /\ \A c \in ToSet(data) : \E k \in 1 .. NLetters : c = data[k]
    /\ \A c \in Nat : Index(c) < NLetters =>
          /\ Index(c) + 1 \in 1 .. NLetters
          /\ data[Index(c) + 1] = IF c \in ToSet(data) THEN c ELSE 65
<1>0. NLetters \in 2 .. 56
  BY NLettersAssumption
<1>1. /\ data \in Seq(Nat) /\ Len(data) = NLetters
      /\ \A k \in 1 .. NLetters : data[k] = letters[k]
  <2> DEFINE S == Nat
  <2>1. letters \in Seq(S) /\ Len(letters) = 56
    BY AlphabetPlaces
  <2> HIDE DEF S
  <2>2. \A k \in 1 .. NLetters : letters[k] \in S
    <3> TAKE k \in 1 .. NLetters
    <3>1. k \in 1 .. 56
      BY <1>0
    <3>2. k \in 1 .. Len(letters)
      BY <2>1, <3>1, Zenon
    <3> QED
      BY <2>1, <3>2, ElementOfSeq, Zenon
  <2>3. /\ SubSeq(letters, 1, NLetters) \in Seq(S)
        /\ Len(SubSeq(letters, 1, NLetters)) = NLetters - 1 + 1
        /\ \A k \in 1 .. NLetters - 1 + 1 :
              SubSeq(letters, 1, NLetters)[k] = letters[1 + k - 1]
    <3>1. 1 \in Int /\ NLetters \in Int /\ 1 <= NLetters
      BY <1>0
    <3>2. (IF 1 <= NLetters THEN NLetters - 1 + 1 ELSE 0) = NLetters - 1 + 1
      BY <3>1
    <3> QED
      BY <2>1, <2>2, <3>1, <3>2, SubSeqProperties
  <2>4. NLetters - 1 + 1 = NLetters /\ \A k \in 1 .. NLetters : 1 + k - 1 = k
    BY <1>0
  <2> QED
    BY <2>3, <2>4 DEF data, S
<1>2. DOMAIN data = 1 .. NLetters
  BY <1>1, LenProperties
<1>3. /\ \A k \in 1 .. NLetters : data[k] \in ToSet(data)
      /\ \A c \in ToSet(data) : \E k \in 1 .. NLetters : c = data[k]
  BY <1>2 DEF ToSet
<1>4. data[1] = 65 /\ data[2] = 66
  <2>1. /\ 1 \in 1 .. NLetters /\ 2 \in 1 .. NLetters
        /\ 1 \in 1 .. 26 /\ 2 \in 1 .. 26 /\ 64 + 1 = 65 /\ 64 + 2 = 66
    BY <1>0
  <2>2. letters[1] = 64 + 1 /\ letters[2] = 64 + 2
    BY <2>1, AlphabetPlaces, Zenon
  <2>3. data[1] = letters[1] /\ data[2] = letters[2]
    BY <1>1, <2>1, Zenon
  <2> QED
    BY <2>1, <2>2, <2>3, Zenon
<1>5. \A k \in 1 .. 56 : Index(letters[k]) = k - 1
  <2> TAKE k \in 1 .. 56
  <2>1. CASE k \in 1 .. 26
    <3>1. letters[k] = 64 + k
      BY <2>1, AlphabetPlaces
    <3>2. 64 + k \in 65 .. 90 /\ (64 + k) - 65 = k - 1 /\ 64 + k \notin 97 .. 122
          /\ 64 + k # 32 /\ 64 + k # 44 /\ 64 + k # 46 /\ 64 + k # 10
      BY <2>1
    <3> QED
      BY <3>1, <3>2 DEF Index
  <2>2. CASE k \in 27 .. 52
    <3>1. letters[k] = 70 + k
      <4>1. /\ k - 26 \in 1 .. 26 /\ 26 + (k - 26) = k
            /\ 96 + (k - 26) = 70 + k
        BY <2>2
      <4>2. letters[26 + (k - 26)] = 96 + (k - 26)
        BY <4>1, AlphabetPlaces, Zenon
      <4> QED
        BY <4>1, <4>2, Zenon
    <3>2. 70 + k \in 97 .. 122 /\ (70 + k) - 71 = k - 1 /\ 70 + k \notin 65 .. 90
          /\ 70 + k # 32 /\ 70 + k # 44 /\ 70 + k # 46 /\ 70 + k # 10
      BY <2>2
    <3> QED
      BY <3>1, <3>2 DEF Index
  <2>3. CASE k \notin 1 .. 52
    <3>1. k = 53 \/ k = 54 \/ k = 55 \/ k = 56
      BY <2>3
    <3>2. Index(32) = 52 /\ Index(44) = 53 /\ Index(46) = 54 /\ Index(10) = 55
      BY DEF Index
    <3>3. letters[53] = 32 /\ letters[54] = 44 /\ letters[55] = 46 /\ letters[56] = 10
      BY AlphabetPlaces, Zenon
    <3> QED
      BY <3>1, <3>2, <3>3
  <2> QED
    BY <2>1, <2>2, <2>3
<1>6. \A c \in Nat : /\ Index(c) \in 0 .. 55
                     /\ Index(c) # 0 \/ c = 65 => letters[Index(c) + 1] = c
  <2> TAKE c \in Nat
  <2>1. CASE c \in 65 .. 90
    <3>1. Index(c) = c - 65
      BY <2>1 DEF Index
    <3>2. Index(c) \in 0 .. 55 /\ Index(c) + 1 \in 1 .. 26 /\ 64 + (Index(c) + 1) = c
      BY <2>1, <3>1
    <3>3. letters[Index(c) + 1] = 64 + (Index(c) + 1)
      BY <3>2, AlphabetPlaces, Zenon
    <3> QED
      BY <3>2, <3>3
  <2>2. CASE c \in 97 .. 122
    <3>1. Index(c) = c - 71
      BY <2>2 DEF Index
    <3>2. /\ Index(c) \in 0 .. 55 /\ c - 96 \in 1 .. 26
          /\ Index(c) + 1 = 26 + (c - 96) /\ 96 + (c - 96) = c
      BY <2>2, <3>1
    <3>3. letters[26 + (c - 96)] = 96 + (c - 96)
      BY <3>2, AlphabetPlaces, Zenon
    <3> QED
      BY <3>2, <3>3
  <2>3. CASE c \in {32, 44, 46, 10}
    <3>1. Index(32) = 52 /\ Index(44) = 53 /\ Index(46) = 54 /\ Index(10) = 55
      BY DEF Index
    <3>2. letters[53] = 32 /\ letters[54] = 44 /\ letters[55] = 46 /\ letters[56] = 10
      BY AlphabetPlaces, Zenon
    <3> QED
      BY <2>3, <3>1, <3>2
  <2>4. CASE c \notin 65 .. 90 /\ c \notin 97 .. 122 /\ c \notin {32, 44, 46, 10}
    <3>1. Index(c) = 0
      BY <2>4 DEF Index
    <3> QED
      BY <2>4, <3>1
  <2> QED
    BY <2>1, <2>2, <2>3, <2>4
<1>7. ASSUME NEW c \in Nat, Index(c) < NLetters
      PROVE  /\ Index(c) + 1 \in 1 .. NLetters
             /\ data[Index(c) + 1] = IF c \in ToSet(data) THEN c ELSE 65
  <2>1. Index(c) + 1 \in 1 .. NLetters
    BY <1>0, <1>6, <1>7
  <2>2. CASE c \in ToSet(data)
    <3>1. PICK k \in 1 .. NLetters : c = data[k]
      BY <1>3, <2>2
    <3>2. k \in 1 .. 56
      BY <1>0
    <3>3. Index(c) = k - 1
      BY <1>1, <1>5, <3>1, <3>2
    <3> QED
      BY <2>1, <2>2, <3>1, <3>3
  <2>3. CASE c \notin ToSet(data)
    <3>1. Index(c) = 0
      <4>1. ASSUME Index(c) # 0 PROVE FALSE
        BY <1>1, <1>3, <1>6, <2>1, <2>3, <4>1
      <4> QED
        BY <4>1
    <3> QED
      BY <1>4, <2>1, <2>3, <3>1
  <2> QED
    BY <2>1, <2>2, <2>3
<1> QED
  BY <1>1, <1>3, <1>4, <1>7

\* No code is empty.
LEMMA CodesNotEmpty ==
    ASSUME NEW table \in CodeTables, PrefixCode(table)
    PROVE  \A c \in DOMAIN table :
              table[c] \in Bits /\ Len(table[c]) \in 1 .. MaxCode
<1> TAKE c \in DOMAIN table
<1>1. table[c] \in Bits /\ Len(table[c]) <= MaxCode /\ Len(table[c]) \in Nat
  BY CodeTablesAssumption, LenProperties DEF Bits
<1>2. MaxCode \in Nat
  BY WorkingAssumption
<1>3. PICK d \in DOMAIN table : d # c
  BY DataPlaces, NLettersAssumption DEF PrefixCode
<1>4. table[d] \in Bits /\ Len(table[d]) \in Nat
  BY CodeTablesAssumption, LenProperties DEF Bits
<1>5. ~IsPrefix(table[c], table[d])
  BY <1>3, Zenon DEF PrefixCode
<1>6. Len(table[c]) # 0
  <2>1. SUFFICES ASSUME Len(table[c]) = 0 PROVE IsPrefix(table[c], table[d])
    BY <1>5
  <2>2. SubSeq(table[c], 1, 0) = <<>> /\ SubSeq(table[d], 1, 0) = <<>>
    BY SubSeqEmpty, <1>1, <1>4 DEF Bits
  <2> QED
    BY <1>4, <2>1, <2>2 DEF IsPrefix
<1> QED
  BY <1>1, <1>2, <1>6

\* Each sequence stands in the joined ones at its place.
LEMMA JoinedPlaces ==
    ASSUME NEW K \in Nat, NEW c \in [1 .. K -> Bits], NEW n \in 1 .. K
    PROVE  /\ Len(c[n]) \in Nat /\ Len(Joined(c, n - 1)) \in Nat
           /\ Len(Joined(c, n)) = Len(Joined(c, n - 1)) + Len(c[n])
           /\ \A i \in 1 .. Len(c[n]) :
                 Joined(c, K)[Len(Joined(c, n - 1)) + i] = c[n][i]
<1> DEFINE L(k) == Len(Joined(c, k))
<1>1. /\ \A k \in 0 .. K : Joined(c, k) \in Bits
      /\ \A k \in 1 .. K : Joined(c, k) = Joined(c, k - 1) \o c[k]
  BY JoinedSteps, Zenon DEF Bits
<1>2. \A k \in 0 .. K : L(k) \in Nat
  BY <1>1, LenProperties DEF Bits
<1>3. \A k \in 1 .. K : k \in 0 .. K /\ k - 1 \in 0 .. K
  OBVIOUS
<1>4. \A k \in 1 .. K : c[k] \in Bits /\ Len(c[k]) \in Nat
  BY LenProperties DEF Bits
<1>5. ASSUME NEW k \in 1 .. K
      PROVE  /\ L(k) = L(k - 1) + Len(c[k])
             /\ \A i \in 1 .. L(k - 1) : Joined(c, k)[i] = Joined(c, k - 1)[i]
             /\ \A i \in 1 .. Len(c[k]) : Joined(c, k)[L(k - 1) + i] = c[k][i]
  <2>1. Joined(c, k - 1) \in Bits /\ c[k] \in Bits
    BY <1>1, <1>3, <1>4, Zenon
  <2>2. Joined(c, k) = Joined(c, k - 1) \o c[k]
    BY <1>1, Zenon
  <2>3. /\ Len(Joined(c, k)) = Len(Joined(c, k - 1)) + Len(c[k])
        /\ \A i \in 1 .. Len(Joined(c, k - 1)) :
              Joined(c, k)[i] = Joined(c, k - 1)[i]
        /\ \A i \in 1 .. Len(c[k]) :
              Joined(c, k)[Len(Joined(c, k - 1)) + i] = c[k][i]
    BY <2>1, <2>2, AppendedBits
  <2> QED
    BY <2>3
<1>6. L(n) = L(n - 1) + Len(c[n]) /\ L(n - 1) \in Nat /\ Len(c[n]) \in Nat
  BY <1>2, <1>3, <1>4, <1>5, Zenon
<1>7. ASSUME NEW i \in 1 .. Len(c[n])
      PROVE  Joined(c, K)[L(n - 1) + i] = c[n][i]
  <2> DEFINE p == L(n - 1) + i
             D == {k \in Nat : n + k \in 1 .. K =>
                      p \in 1 .. L(n + k) /\ Joined(c, n + k)[p] = c[n][i]}
  <2>1. p \in 1 .. L(n)
    BY <1>6
  <2> HIDE DEF L
  <2>2. 0 \in D
    <3>1. n + 0 = n /\ 0 \in Nat
      OBVIOUS
    <3>2. Joined(c, n)[p] = c[n][i]
      BY <1>5, Zenon
    <3> QED
      BY <2>1, <3>1, <3>2
  <2>3. ASSUME NEW k \in Nat, k \in D PROVE k + 1 \in D
    <3> SUFFICES ASSUME n + (k + 1) \in 1 .. K
                 PROVE  /\ p \in 1 .. L(n + (k + 1))
                        /\ Joined(c, n + (k + 1))[p] = c[n][i]
      OBVIOUS
    <3> DEFINE m == n + (k + 1)
    <3>1. m \in 1 .. K /\ m - 1 = n + k /\ n + k \in 1 .. K
      OBVIOUS
    <3>2. p \in 1 .. L(n + k) /\ Joined(c, n + k)[p] = c[n][i]
      BY <2>3, <3>1
    <3> HIDE DEF m, p
    <3>3. /\ L(m) = L(n + k) + Len(c[m])
          /\ \A q \in 1 .. L(n + k) : Joined(c, m)[q] = Joined(c, n + k)[q]
      BY <1>5, <3>1
    <3>4. L(m) \in Nat /\ L(n + k) \in Nat /\ Len(c[m]) \in Nat
      BY <1>2, <1>3, <1>4, <3>1
    <3>5. p \in 1 .. L(m)
      BY <3>2, <3>3, <3>4
    <3> QED
      BY <3>2, <3>3, <3>5 DEF m
  <2>4. Nat \subseteq D
    <3> HIDE DEF D
    <3> QED
      BY <2>2, <2>3, SetInduction
  <2>5. K - n \in Nat /\ n + (K - n) = K /\ K \in 1 .. K
    OBVIOUS
  <2>6. K - n \in D
    BY <2>4, <2>5, Zenon
  <2>7. Joined(c, n + (K - n))[p] = c[n][i]
    <3> HIDE DEF p
    <3> QED
      BY <2>5, <2>6
  <2> QED
    BY <2>5, <2>7
<1> QED
  BY <1>6, <1>7

\* How long bounded sequences can get together.
LEMMA JoinedBound ==
    ASSUME NEW K \in Nat, NEW c \in [1 .. K -> Bits], NEW M \in Nat,
           \A n \in 1 .. K : Len(c[n]) <= M
    PROVE  Len(Joined(c, K)) \in Nat /\ Len(Joined(c, K)) <= M * K
<1> DEFINE L(k) == Len(Joined(c, k))
           D == {k \in Nat : k \in 0 .. K => L(k) \in Nat /\ L(k) <= M * k}
<1>1. 0 \in D
  <2>1. Joined(c, 0) = <<>>
    BY JoinedSteps, Zenon DEF Bits
  <2>2. L(0) = 0
    BY <2>1, EmptySeq
  <2> QED
    BY <2>2
<1>2. ASSUME NEW k \in Nat, k \in D PROVE k + 1 \in D
  <2> SUFFICES ASSUME k + 1 \in 0 .. K PROVE L(k + 1) \in Nat /\ L(k + 1) <= M * (k + 1)
    OBVIOUS
  <2>1. k + 1 \in 1 .. K /\ k \in 0 .. K /\ (k + 1) - 1 = k
    OBVIOUS
  <2>2. L(k) \in Nat /\ L(k) <= M * k
    BY <1>2, <2>1
  <2>3. L(k + 1) = L(k) + Len(c[k + 1]) /\ Len(c[k + 1]) \in Nat
    <3>1. /\ Len(c[k + 1]) \in Nat
          /\ Len(Joined(c, k + 1)) = Len(Joined(c, (k + 1) - 1)) + Len(c[k + 1])
      BY <2>1, JoinedPlaces, Zenon
    <3> QED
      BY <2>1, <3>1, Zenon
  <2>4. Len(c[k + 1]) <= M
    BY <2>1
  <2> HIDE DEF L
  <2>5. M * (k + 1) = M * k + M /\ M * k \in Nat
    OBVIOUS
  <2> QED
    BY <2>2, <2>3, <2>4, <2>5
<1>3. Nat \subseteq D
  <2> HIDE DEF D
  <2> QED
    BY <1>1, <1>2, SetInduction
<1>4. K \in 0 .. K
  OBVIOUS
<1> QED
  BY <1>3, <1>4


-----------------------------------------------------------------------------
(* What decompress finds in a file *)

\* A word is four bytes that hold it.
LEMMA FourBytes ==
    ASSUME NEW w \in Words
    PROVE  /\ LittleEndian(w) \in Seq(Nat) /\ Len(LittleEndian(w)) = 4
           /\ \A k \in 1 .. 4 : LittleEndian(w)[k] = WordByte(w, k - 1)
<1> DEFINE f == LittleEndian(w)
           n == 4
<1>1. \A k \in 1 .. 4 : WordByte(w, k - 1) \in Nat
  <2>1. w \in Nat
    BY SMT DEF Words
  <2>2. \A k \in 1 .. 4 : k - 1 \in 0 .. 3
    OBVIOUS
  <2>3. \A k \in 1 .. 4 : WordByte(w, k - 1) \in Byte
    BY <2>1, <2>2, WordByteType, Zenon
  <2> QED
    BY <2>3 DEF Byte
<1>2. f \in [1 .. n -> Nat] /\ n \in Nat
  BY <1>1 DEF LittleEndian
<1>3. \A k \in 1 .. 4 : f[k] = WordByte(w, k - 1)
  BY DEF LittleEndian
<1> HIDE DEF f, n
<1>4. f \in Seq(Nat) /\ Len(f) = n
  BY <1>2, IsASeq
<1> QED
  BY <1>3, <1>4 DEF f, n

\* Four bytes somewhere that are those of a word.
LEMMA WordFound ==
    ASSUME NEW w \in Words, NEW f, NEW a \in Nat,
           \A k \in 1 .. 4 : f[a + k] = LittleEndian(w)[k]
    PROVE  WordAt(f, a + 1) = w
<1>1. /\ 1 \in 1 .. 4 /\ 2 \in 1 .. 4 /\ 3 \in 1 .. 4 /\ 4 \in 1 .. 4
      /\ 1 - 1 = 0 /\ 2 - 1 = 1 /\ 3 - 1 = 2 /\ 4 - 1 = 3
      /\ a + 1 + 1 = a + 2 /\ a + 1 + 2 = a + 3 /\ a + 1 + 3 = a + 4
  OBVIOUS
<1>2. /\ f[a + 1] = WordByte(w, 0) /\ f[a + 1 + 1] = WordByte(w, 1)
      /\ f[a + 1 + 2] = WordByte(w, 2) /\ f[a + 1 + 3] = WordByte(w, 3)
  <2>1. \A k \in 1 .. 4 : f[a + k] = WordByte(w, k - 1)
    BY FourBytes, Zenon
  <2>2. /\ f[a + 1] = WordByte(w, 1 - 1) /\ f[a + 2] = WordByte(w, 2 - 1)
        /\ f[a + 3] = WordByte(w, 3 - 1) /\ f[a + 4] = WordByte(w, 4 - 1)
    BY <1>1, <2>1, Zenon
  <2> QED
    BY <1>1, <2>2
<1> QED
  BY <1>2, WordBack DEF WordAt

\* f has three words, a description t and a body u.
HasParts(f, a, b, c, t, u) ==
    /\ Len(f) = 12 + Len(t) + Len(u)
    /\ WordAt(f, 1) = a /\ WordAt(f, 5) = b /\ WordAt(f, 9) = c
    /\ \A k \in 1 .. Len(u) : f[12 + Len(t) + k] = u[k]

\* What decompress finds in a file.
LEMMA FileParts ==
    ASSUME NEW a \in Words, NEW b \in Words, NEW c \in Words,
           NEW t \in Seq(Byte), NEW u \in Seq(Byte), NEW f,
           f = LittleEndian(a) \o LittleEndian(b) \o LittleEndian(c) \o t \o u
    PROVE  HasParts(f, a, b, c, t, u)
<1> DEFINE x == LittleEndian(a)
           y == LittleEndian(b)
           z == LittleEndian(c)
           h == x \o y \o z
<1>1. t \in Seq(Nat) /\ u \in Seq(Nat)
  <2>1. Byte \subseteq Nat
    BY DEF Byte
  <2>2. \A s \in Seq(Byte) : s \in Seq(Nat)
    BY <2>1, SeqMonotonic
  <2> QED
    BY <2>2
<1>2. /\ x \in Seq(Nat) /\ y \in Seq(Nat) /\ z \in Seq(Nat)
      /\ Len(x) = 4 /\ Len(y) = 4 /\ Len(z) = 4
  BY FourBytes, Zenon
<1>3. f = (h \o t) \o u
  OBVIOUS
<1> HIDE DEF x, y, z
<1>4. /\ h \in Seq(Nat) /\ Len(h) = 12
      /\ \A i \in 1 .. 4 : h[i] = x[i]
      /\ \A i \in 1 .. 4 : h[4 + i] = y[i]
      /\ \A i \in 1 .. 4 : h[8 + i] = z[i]
  <2>1. MadeOf(h, x, y, z)
    BY <1>2, ThreeParts, Zenon
  <2> HIDE DEF h
  <2>2. h \in Seq(Nat) /\ Len(h) = 12
    BY <1>2, <2>1 DEF MadeOf
  <2>3. \A i \in 1 .. 4 : h[i] = x[i]
    BY <1>2, <2>1, Zenon DEF MadeOf
  <2>4. \A i \in 1 .. 4 : h[4 + i] = y[i]
    BY <1>2, <2>1, Zenon DEF MadeOf
  <2>5. \A i \in 1 .. 4 : h[8 + i] = z[i]
    <3>1. \A i \in 1 .. 4 : h[4 + 4 + i] = z[i]
      BY <1>2, <2>1, Zenon DEF MadeOf
    <3>2. \A i \in 1 .. 4 : 4 + 4 + i = 8 + i
      OBVIOUS
    <3> QED
      BY <3>1, <3>2
  <2> QED
    BY <2>1, <2>2, <2>3, <2>4, <2>5, Zenon
<1> HIDE DEF h
<1>5. /\ Len(f) = Len(h) + Len(t) + Len(u)
      /\ \A i \in 1 .. Len(h) : f[i] = h[i]
      /\ \A i \in 1 .. Len(u) : f[Len(h) + Len(t) + i] = u[i]
  <2>1. MadeOf(f, h, t, u)
    BY <1>1, <1>3, <1>4, ThreeParts, Zenon
  <2> QED
    BY <2>1, Zenon DEF MadeOf
<1>6. \A i \in 1 .. 12 : f[i] = h[i]
  BY <1>4, <1>5, Zenon
<1>7. /\ \A i \in 1 .. 4 : f[0 + i] = x[i]
      /\ \A i \in 1 .. 4 : f[4 + i] = y[i]
      /\ \A i \in 1 .. 4 : f[8 + i] = z[i]
  <2>1. \A i \in 1 .. 4 : /\ 0 + i = i
                          /\ i \in 1 .. 12 /\ 4 + i \in 1 .. 12 /\ 8 + i \in 1 .. 12
    OBVIOUS
  <2> QED
    BY <1>4, <1>6, <2>1
<1>8. WordAt(f, 0 + 1) = a /\ WordAt(f, 4 + 1) = b /\ WordAt(f, 8 + 1) = c
  <2>1. 0 \in Nat /\ 4 \in Nat /\ 8 \in Nat
    OBVIOUS
  <2> QED
    BY <1>7, <2>1, WordFound DEF x, y, z
<1>9. 0 + 1 = 1 /\ 4 + 1 = 5 /\ 8 + 1 = 9
  OBVIOUS
<1>10. /\ Len(f) = 12 + Len(t) + Len(u)
       /\ \A k \in 1 .. Len(u) : f[12 + Len(t) + k] = u[k]
  BY <1>4, <1>5
<1> QED
  BY <1>8, <1>9, <1>10 DEF HasParts

-----------------------------------------------------------------------------
(* The message *)

\* What the file of a coder that ends normally holds, and the code of each of
\* its letters.
Message == IF prog = "hardware" THEN HardText ELSE text
Size == Len(Message)
CodeOf(c) == IF c \in DOMAIN codes THEN codes[c] ELSE <<>>
Sent == [i \in 1 .. Size |-> CodeOf(Message[i])]

\* Where the code of the letter behind the n-th begins.
At(n) == Len(Joined(Sent, n))

\* The bits of the body: behind those of the codes there are zeros.
Padded(i) == IF i <= At(Size) THEN Joined(Sent, Size)[i] ELSE 0

InputOK ==
    /\ prog \in {"server", "tool", "hardware"}
    /\ text \in Texts /\ tail \in Tails
    /\ codes # <<>> => /\ codes \in CodeTables /\ PrefixCode(codes)
                       /\ tree \in Seq(Byte) /\ Len(tree) = TreeLength

\* The message stays as long as the text, what follows it, and the codes do.
LEMMA MessageStays ==
    ASSUME UNCHANGED <<prog, text, tail, codes>>
    PROVE  /\ Message' = Message /\ Size' = Size /\ Sent' = Sent
           /\ \A n : At(n)' = At(n)
           /\ \A i : Padded(i)' = Padded(i)
<1>1. Message' = Message
  BY DEF Message, HardText
<1>2. Size' = Size
  BY <1>1 DEF Size
<1>3. Sent' = Sent
  BY <1>1, <1>2 DEF Sent, CodeOf
<1>4. \A n : At(n)' = At(n)
  BY <1>3 DEF At
<1>5. \A i : Padded(i)' = Padded(i)
  BY <1>2, <1>3, <1>4 DEF Padded
<1> QED
  BY <1>1, <1>2, <1>3, <1>4, <1>5

LEMMA TextTypes ==
    ASSUME InputOK
    PROVE  /\ text \in Seq(Nat) /\ tail \in Seq(Nat)
           /\ Len(text) \in Nat /\ Len(tail) \in Nat
           /\ text \o tail \in Seq(Nat)
           /\ Len(text \o tail) = Len(text) + Len(tail)
<1>1. text \in Seq(Nat) /\ tail \in Seq(Nat)
  BY TextsAssumption, TailsAssumption DEF InputOK
<1> QED
  BY <1>1, Behind, LenProperties

\* The message is as long as what its coder reads.
LEMMA MessageType ==
    ASSUME InputOK
    PROVE  /\ Size \in Nat
           /\ Size = IF prog = "hardware" THEN Len(text) + Len(tail) ELSE Len(text)
           /\ Message = [k \in 1 .. Size |-> Message[k]]
<1>1. CASE prog = "hardware"
  <2> DEFINE n == Len(text \o tail)
             h(k) == IF (text \o tail)[k] \in DOMAIN codes
                     THEN (text \o tail)[k] ELSE 65
             f == [k \in 1 .. n |-> h(k)]
  <2>1. n \in Nat /\ n = Len(text) + Len(tail)
    BY TextTypes
  <2>2. \A k \in 1 .. n : h(k) \in Nat
    BY TextTypes, ElementOfSeq
  <2>3. Message = f
    BY <1>1 DEF Message, HardText
  <2> HIDE DEF h, n
  <2>4. f \in [1 .. n -> Nat] /\ f = [k \in 1 .. n |-> f[k]]
    BY <2>2
  <2> HIDE DEF f
  <2>5. Len(f) = n
    BY <2>1, <2>4, IsASeq
  <2>6. Size = n
    BY <2>3, <2>5 DEF Size
  <2> QED
    BY <1>1, <2>1, <2>3, <2>4, <2>6
<1>2. CASE prog # "hardware"
  <2>1. Message = text /\ Size = Len(text)
    BY <1>2 DEF Message, Size
  <2>2. text \in Seq(Nat) /\ Len(text) \in Nat
    BY TextTypes
  <2>3. text \in [1 .. Len(text) -> Nat]
    BY <2>2, LenProperties
  <2> QED
    BY <1>2, <2>1, <2>2, <2>3
<1> QED
  BY <1>1, <1>2

LEMMA SentType ==
    ASSUME InputOK, codes # <<>>
    PROVE  /\ Sent \in [1 .. Size -> Bits]
           /\ \A k \in 1 .. Size : Len(Sent[k]) \in Nat /\ Len(Sent[k]) <= MaxCode
<1>1. MaxCode \in Nat /\ <<>> \in Bits /\ Len(<<>>) = 0
  BY WorkingAssumption, EmptySeq DEF Bits
<1>2. codes \in CodeTables /\ PrefixCode(codes)
  BY DEF InputOK
<1>3. \A c : CodeOf(c) \in Bits /\ Len(CodeOf(c)) \in Nat /\ Len(CodeOf(c)) <= MaxCode
  <2> TAKE c
  <2>1. CASE c \in DOMAIN codes
    <3>1. CodeOf(c) \in Bits /\ Len(CodeOf(c)) \in 1 .. MaxCode
      BY <1>2, <2>1, CodesNotEmpty DEF CodeOf
    <3> QED
      BY <1>1, <3>1
  <2>2. CASE c \notin DOMAIN codes
    BY <1>1, <2>2 DEF CodeOf
  <2> QED
    BY <2>1, <2>2
<1> QED
  BY <1>3 DEF Sent

\* Joining sequences of bits.
LEMMA JoinedBits ==
    ASSUME NEW K \in Nat, NEW c \in [1 .. K -> Bits]
    PROVE  /\ Joined(c, 0) = <<>>
           /\ \A n \in 0 .. K : /\ Joined(c, n) \in Bits /\ Len(Joined(c, n)) \in Nat
                                /\ Len(Joined(c, n)) <= Len(Joined(c, K))
           /\ \A n \in 1 .. K : Joined(c, n) = Joined(c, n - 1) \o c[n]
<1>1. /\ Joined(c, 0) = <<>>
      /\ \A n \in 0 .. K : Joined(c, n) \in Bits
      /\ \A n \in 1 .. K : Joined(c, n) = Joined(c, n - 1) \o c[n]
  BY JoinedSteps, Zenon DEF Bits
<1>2. \A n \in 0 .. K : /\ Len(Joined(c, n)) \in Nat
                        /\ Len(Joined(c, n)) <= Len(Joined(c, K))
  BY JoinedGrows, Zenon DEF Bits
<1> QED
  BY <1>1, <1>2, Zenon

\* Every letter's code stands in the body at the letter's place.
LEMMA CodePlace ==
    ASSUME InputOK, codes # <<>>, NEW n \in 1 .. Size, Message[n] \in DOMAIN codes
    PROVE  /\ codes[Message[n]] \in Bits /\ Len(codes[Message[n]]) \in 1 .. MaxCode
           /\ At(n - 1) \in Nat /\ At(n) \in Nat /\ At(Size) \in Nat
           /\ At(n) = At(n - 1) + Len(codes[Message[n]]) /\ At(n) <= At(Size)
           /\ \A i \in 1 .. Len(codes[Message[n]]) :
                 Padded(At(n - 1) + i) = codes[Message[n]][i]
<1> DEFINE c == codes[Message[n]]
<1>1. c \in Bits /\ Len(c) \in 1 .. MaxCode
  BY CodesNotEmpty DEF InputOK
<1>2. Size \in Nat /\ Sent \in [1 .. Size -> Bits] /\ Sent[n] = c
  <2>1. Sent[n] = c
    BY DEF Sent, CodeOf
  <2> QED
    BY <2>1, MessageType, SentType
<1> HIDE DEF c
<1>3. n \in 0 .. Size /\ n - 1 \in 0 .. Size /\ Size \in 0 .. Size
  BY <1>2
<1>4. /\ At(n - 1) \in Nat /\ At(n) \in Nat /\ At(Size) \in Nat /\ At(n) <= At(Size)
  BY <1>2, <1>3, JoinedBits, Zenon DEF At
<1>5. /\ At(n) = At(n - 1) + Len(c)
      /\ \A i \in 1 .. Len(c) : Joined(Sent, Size)[At(n - 1) + i] = c[i]
  BY <1>2, JoinedPlaces, Zenon DEF At
<1>6. ASSUME NEW i \in 1 .. Len(c) PROVE Padded(At(n - 1) + i) = c[i]
  <2>1. At(n - 1) + i <= At(Size)
    BY <1>1, <1>4, <1>5
  <2> QED
    BY <1>5, <2>1 DEF Padded
<1> QED
  BY <1>1, <1>4, <1>5, <1>6 DEF c

-----------------------------------------------------------------------------
(* The coder encodes the message *)

\* The coder has fed the codes of the letters before pos.
FedCodes ==
    IF coder = "idle" THEN CoderRest
    ELSE /\ CoderInv /\ codes # <<>>
         /\ fed = Joined(Sent, pos)
         /\ \A k \in 1 .. pos : text[k] \in DOMAIN codes
         /\ coder = "done" => pos = Len(text)

LEMMA CodingStep ==
    ASSUME InputOK, FedCodes, codes = <<>>, Coding
    PROVE  InputOK' /\ FedCodes' /\ UNCHANGED decoderVars
<1>1. /\ codes' \in CodeTables /\ PrefixCode(codes')
      /\ tree' \in Seq(Byte) /\ Len(tree') = TreeLength
      /\ UNCHANGED <<prog, text, tail, pos, working, out, fed>>
      /\ UNCHANGED decoderVars
      /\ coder' = IF prog = "hardware" THEN "idle" ELSE "run"
  BY DEF Coding, CodesReady
<1>2. InputOK'
  BY <1>1 DEF InputOK
<1>3. CoderRest'
  BY <1>1 DEF FedCodes, CoderRest
<1>4. CASE prog = "hardware"
  BY <1>1, <1>2, <1>3, <1>4 DEF FedCodes
<1>5. CASE prog # "hardware"
  <2>1. coder' = "run" /\ prog' \in {"server", "tool"} /\ text' \in Texts
    BY <1>1, <1>5 DEF InputOK
  <2>2. codes' # <<>>
    <3>1. DOMAIN codes' # {}
      BY <1>1, DataPlaces, NLettersAssumption DEF PrefixCode
    <3> QED
      BY <3>1
  <2>3. /\ <<>> \in Bits /\ <<>> \in Seq(Byte) /\ Len(<<>>) = 0
    BY EmptySeq DEF Bits
  <2>4. text \in Seq(Nat) /\ text' = text /\ Len(text) \in Nat
    BY <1>1, TextTypes
  <2>5. CoderTypeOK'
    BY <1>1, <1>3, <2>1, <2>3, <2>4 DEF CoderRest, CoderTypeOK
  <2>6. CoderInv'
    BY <1>3, <2>1, <2>3, <2>5, WorkingAssumption DEF CoderRest, CoderInv, WorkingFits,
       BitsKept, BytesPacked, AllWritten
  <2>7. Joined(Sent', 0) = <<>>
    <3>1. [i \in 1 .. 0 |-> Sent'[i]] = <<>> /\ <<>> \in Seq(Nat) /\ Len(<<>>) = 0
      BY EmptySeq
    <3> QED
      BY <3>1 DEF Joined, FlattenSeq
  <2> QED
    BY <1>2, <1>1, <1>3, <2>1, <2>2, <2>6, <2>7 DEF FedCodes, CoderRest
<1> QED
  BY <1>4, <1>5

LEMMA EncodeStep ==
    ASSUME InputOK, FedCodes, Encode
    PROVE  /\ InputOK' /\ FedCodes' /\ coder = "run"
           /\ UNCHANGED <<prog, text, codes, tail, tree, decoderVars>>
<1>1. /\ coder = "run" /\ UNCHANGED <<prog, text, codes, tail, tree, decoderVars>>
      /\ coder' \in {"run", "done", "invalid", "fault"}
  BY DEF Encode, CoderNext, AddCode, Outside, OutByte, Finish, inputVars
<1>2. InputOK'
  BY <1>1 DEF InputOK
<1>3. /\ CoderInv /\ codes # <<>> /\ fed = Joined(Sent, pos)
      /\ \A k \in 1 .. pos : text[k] \in DOMAIN codes
      /\ pos \in 0 .. Len(text) /\ prog # "hardware"
  BY <1>1 DEF FedCodes, CoderInv, CoderTypeOK
<1>4. CoderInv'
  BY <1>3, AddCodeInv, OutsideInv, OutByteInv, FinishInv DEF Encode, CoderNext
<1>5. Sent' = Sent
  BY <1>1, MessageStays
<1>6. /\ fed' = Joined(Sent, pos')
      /\ \A k \in 1 .. pos' : text[k] \in DOMAIN codes
      /\ coder' = "done" => pos' = Len(text)
  <2>1. CASE AddCode
    <3>1. /\ pos' = pos + 1 /\ pos < Len(text) /\ coder' = "run"
          /\ text[pos + 1] \in DOMAIN codes /\ fed' = fed \o codes[text[pos + 1]]
      BY <1>1, <2>1 DEF AddCode
    <3>2. Message = text /\ Size = Len(text)
      BY <1>3 DEF Message, Size
    <3>3. Size \in Nat /\ Sent \in [1 .. Size -> Bits]
      BY <1>3, MessageType, SentType
    <3>4. pos + 1 \in 1 .. Size /\ (pos + 1) - 1 = pos
      BY <1>3, <3>1, <3>2, <3>3
    <3>5. Sent[pos + 1] = codes[text[pos + 1]]
      BY <3>1, <3>2, <3>4 DEF Sent, CodeOf
    <3>6. Joined(Sent, pos + 1) = Joined(Sent, pos) \o Sent[pos + 1]
      <4>1. \A n \in 1 .. Size : Joined(Sent, n) = Joined(Sent, n - 1) \o Sent[n]
        BY <3>3, JoinedBits, Zenon
      <4> QED
        BY <3>4, <4>1
    <3>7. \A k \in 1 .. pos + 1 : k \in 1 .. pos \/ k = pos + 1
      BY <1>3
    <3> QED
      BY <1>3, <3>1, <3>5, <3>6, <3>7
  <2>2. CASE Outside \/ OutByte \/ Finish
    <3>1. UNCHANGED <<pos, fed>> /\ (coder' = "done" => pos = Len(text))
      BY <1>1, <2>2 DEF Outside, OutByte, Finish
    <3> QED
      BY <1>3, <3>1
  <2>3. AddCode \/ Outside \/ OutByte \/ Finish
    BY DEF Encode, CoderNext
  <2> QED
    BY <2>1, <2>2, <2>3, Zenon
<1> QED
  BY <1>1, <1>2, <1>3, <1>4, <1>5, <1>6 DEF FedCodes

\* A coder that ended normally has written the message.
LEMMA WroteMessage ==
    ASSUME InputOK, FedCodes, coder = "done"
    PROVE  /\ out \in Seq(Byte) /\ Len(out) \in Nat
           /\ 8 * Len(out) - At(Size) \in 0 .. 7
           /\ \A k \in 1 .. Size : Message[k] \in DOMAIN codes
           /\ \A k \in 1 .. Len(out) :
                 byte_to_str(out[k]) = [i \in 1 .. 8 |-> Padded(8 * (k - 1) + i)]
<1>1. /\ CoderInv /\ codes # <<>> /\ fed = Joined(Sent, pos) /\ pos = Len(text)
      /\ \A k \in 1 .. pos : text[k] \in DOMAIN codes
      /\ prog # "hardware"
  BY DEF FedCodes, CoderInv, CoderTypeOK
<1>2. Message = text /\ Size = pos
  BY <1>1 DEF Message, Size
<1>3. Len(fed) = At(Size) /\ \A i : StreamBit(i) = Padded(i)
  BY <1>1, <1>2 DEF At, StreamBit, Padded
<1>4. out \in Seq(Byte) /\ Len(out) \in Nat
  BY <1>1, LenProperties DEF CoderInv, CoderTypeOK
<1>5. 8 * Len(out) - At(Size) \in 0 .. 7
  BY <1>1, <1>3 DEF CoderInv, AllWritten
<1>6. ASSUME NEW k \in 1 .. Len(out)
      PROVE  byte_to_str(out[k]) = [i \in 1 .. 8 |-> Padded(8 * (k - 1) + i)]
  <2> DEFINE b == [i \in 1 .. 8 |-> StreamBit(8 * (k - 1) + i)]
  <2>1. out[k] = PackByte(b)
    BY <1>1 DEF CoderInv, BytesPacked
  <2>2. fed \in Bits
    BY <1>1 DEF CoderInv, CoderTypeOK
  <2>3. \A i \in 1 .. 8 : b[i] \in 0 .. 1
    <3> TAKE i \in 1 .. 8
    <3> DEFINE p == 8 * (k - 1) + i
    <3>1. p \in Nat /\ p >= 1
      OBVIOUS
    <3>2. b[i] = StreamBit(p)
      OBVIOUS
    <3> HIDE DEF p, b
    <3>3. StreamBit(p) \in 0 .. 1
      <4>1. CASE p <= Len(fed)
        <5>1. fed[p] \in Bit
          BY <2>2, <3>1, <4>1, ElementOfSeq, LenProperties DEF Bits
        <5> QED
          BY <4>1, <5>1 DEF StreamBit, Bit
      <4>2. CASE ~(p <= Len(fed))
        BY <4>2 DEF StreamBit
      <4> QED
        BY <4>1, <4>2
    <3> QED
      BY <3>2, <3>3
  <2>4. byte_to_str(PackByte(b)) = [i \in 1 .. 8 |-> b[i]]
    <3> HIDE DEF b
    <3> QED
      BY <2>3, BitsBack, Zenon
  <2>5. [i \in 1 .. 8 |-> b[i]] = [i \in 1 .. 8 |-> Padded(8 * (k - 1) + i)]
    BY <1>3
  <2> QED
    BY <2>1, <2>4, <2>5
<1> QED
  BY <1>1, <1>2, <1>4, <1>5, <1>6

-----------------------------------------------------------------------------
(* The file holds the message *)

\* Bits of padding at the end of the body.
Slack == IF prog = "hardware" THEN 8 ELSE 7

\* The file of a coder that ended normally.
FileWhole ==
    /\ BodyBytes \in Nat /\ header_len \in Nat
    /\ Len(file) = 12 + header_len + BodyBytes
    /\ uncompressed_len = Size
    /\ \A k \in 1 .. BodyBytes :
          byte_to_str(file[12 + header_len + k])
            = [i \in 1 .. 8 |-> Padded(8 * (k - 1) + i)]
    /\ 8 * BodyBytes - At(Size) \in 0 .. Slack
    /\ \A k \in 1 .. Size : Message[k] \in DOMAIN codes

\* The file of a tool that gave up.
FileCut == BodyBytes \in Int /\ BodyBytes < 0

LEMMA HeaderWords ==
    /\ total_len = WordAt(file, 1)
    /\ header_len = WordAt(file, 5)
    /\ uncompressed_len = WordAt(file, 9)
    /\ BodyBytes = total_len - 12 - header_len
<1>1. 4 * 0 + 1 = 1 /\ 4 * 1 + 1 = 5 /\ 4 * 2 + 1 = 9
  OBVIOUS
<1> QED
  BY <1>1 DEF total_len, header_len, uncompressed_len, HeaderWord, BodyBytes

LEMMA HeaderWordsNext ==
    /\ total_len' = WordAt(file', 1)
    /\ header_len' = WordAt(file', 5)
    /\ uncompressed_len' = WordAt(file', 9)
    /\ BodyBytes' = total_len' - 12 - header_len'
<1>1. 4 * 0 + 1 = 1 /\ 4 * 1 + 1 = 5 /\ 4 * 2 + 1 = 9
  OBVIOUS
<1> QED
  BY <1>1 DEF total_len, header_len, uncompressed_len, HeaderWord, BodyBytes

\* How long the message and its code get.
LEMMA MessageBound ==
    ASSUME InputOK, codes # <<>>, NEW n \in Nat, 8 * n - At(Size) \in 0 .. 8
    PROVE  /\ Size \in Words /\ At(Size) \in Nat
           /\ TreeLength \in Words /\ 12 + TreeLength + n \in Words
<1> DEFINE m == Len(text) + Len(tail)
           t == TreeLength
           a == At(Size)
<1>1. m \in Nat /\ Size \in Nat /\ Size <= m
  BY TextTypes, MessageType
<1>2. t \in Nat
  BY NLettersAssumption DEF TreeLength
<1>3. a \in Nat /\ a <= MaxCode * Size
  <2>1. Sent \in [1 .. Size -> Bits] /\ \A k \in 1 .. Size : Len(Sent[k]) <= MaxCode
    BY SentType
  <2>2. MaxCode \in Nat
    BY WorkingAssumption
  <2> QED
    BY <1>1, <2>1, <2>2, JoinedBound, Zenon DEF At
<1>4. m <= 2147483647 /\ 12 + t + (MaxCode * m) \div 8 + 1 <= 2147483647
  BY FileAssumption DEF InputOK
<1> HIDE DEF m, t, a
<1>5. MaxCode * Size <= MaxCode * m /\ MaxCode * m \in Nat /\ MaxCode * Size \in Nat
  BY <1>1, WorkingAssumption
<1> DEFINE z == MaxCode * m
<1>6. z \in Nat /\ a <= z /\ 12 + t + z \div 8 + 1 <= 2147483647
  BY <1>3, <1>4, <1>5
<1>7. 8 * n - a \in 0 .. 8
  BY DEF a
<1> HIDE DEF z
<1>8. n <= z \div 8 + 1
  BY <1>3, <1>6, <1>7
<1>9. Size \in Words
  BY <1>1, <1>4 DEF Words
<1>10. t \in Words /\ 12 + t + n \in Words
  BY <1>2, <1>6, <1>8 DEF Words
<1> QED
  BY <1>3, <1>9, <1>10 DEF a, t

\* A file with a body that holds the message.
LEMMA FileMade ==
    ASSUME InputOK, codes # <<>>, UNCHANGED <<prog, text, tail, codes>>,
           NEW body \in Seq(Byte), Len(body) \in Nat,
           8 * Len(body) - At(Size) \in 0 .. Slack,
           \A k \in 1 .. Len(body) :
              byte_to_str(body[k]) = [i \in 1 .. 8 |-> Padded(8 * (k - 1) + i)],
           \A k \in 1 .. Size : Message[k] \in DOMAIN codes,
           file' = LittleEndian(12 + Len(tree) + Len(body)) \o LittleEndian(Len(tree))
                     \o LittleEndian(Size) \o tree \o body
    PROVE  FileWhole'
<1> DEFINE n == Len(body)
           t == Len(tree)
<1>1. tree \in Seq(Byte) /\ t = TreeLength /\ t \in Nat
  BY NLettersAssumption DEF InputOK, TreeLength
<1>2. Slack \in 0 .. 8
  BY DEF Slack
<1>3. 8 * n - At(Size) \in 0 .. 8
  <2>1. 8 * n - At(Size) \in 0 .. Slack
    OBVIOUS
  <2> QED
    BY <1>2, <2>1
<1>4. Size \in Words /\ t \in Words /\ 12 + t + n \in Words
  <2>1. n \in Nat
    OBVIOUS
  <2> HIDE DEF n
  <2> QED
    BY <1>1, <1>3, <2>1, MessageBound
<1>5. /\ Len(file') = 12 + t + n
      /\ WordAt(file', 1) = 12 + t + n /\ WordAt(file', 5) = t /\ WordAt(file', 9) = Size
      /\ \A k \in 1 .. n : file'[12 + t + k] = body[k]
  <2> DEFINE total == 12 + Len(tree) + Len(body)
  <2>1. /\ total \in Words /\ Len(tree) \in Words /\ Size \in Words
        /\ tree \in Seq(Byte) /\ body \in Seq(Byte)
    BY <1>1, <1>4
  <2>2. file' = LittleEndian(total) \o LittleEndian(Len(tree)) \o LittleEndian(Size)
                  \o tree \o body
    OBVIOUS
  <2> HIDE DEF total
  <2>3. HasParts(file', total, Len(tree), Size, tree, body)
    BY <2>1, <2>2, FileParts, Zenon
  <2> QED
    BY <2>3, Zenon DEF total, HasParts
<1>6. /\ header_len' = t /\ uncompressed_len' = Size /\ total_len' = 12 + t + n
      /\ BodyBytes' = total_len' - 12 - header_len'
  BY <1>5, HeaderWordsNext, Zenon
<1>7. BodyBytes' = n
  <2> HIDE DEF n, t
  <2>1. n \in Nat
    BY DEF n
  <2> QED
    BY <1>1, <1>6, <2>1
<1>8. /\ Message' = Message /\ Size' = Size /\ At(Size)' = At(Size) /\ codes' = codes
      /\ Slack' = Slack /\ \A i : Padded(i)' = Padded(i)
  <2>1. /\ Message' = Message /\ Size' = Size /\ \A i : Padded(i)' = Padded(i)
        /\ Sent' = Sent
    BY MessageStays
  <2>2. At(Size)' = At(Size)
    BY <2>1 DEF At
  <2>3. Slack' = Slack
    BY DEF Slack
  <2> QED
    BY <2>1, <2>2, <2>3
<1>9. \A k \in 1 .. n : byte_to_str(file'[12 + t + k])
                          = [i \in 1 .. 8 |-> Padded(8 * (k - 1) + i)']
  <2> TAKE k \in 1 .. n
  <2>1. byte_to_str(file'[12 + t + k]) = [i \in 1 .. 8 |-> Padded(8 * (k - 1) + i)]
    BY <1>5
  <2> QED
    BY <1>8, <2>1
<1> QED
  BY <1>1, <1>5, <1>6, <1>7, <1>8, <1>9 DEF FileWhole

LEMMA DeliverSoftStep ==
    ASSUME InputOK, FedCodes, DeliverSoft
    PROVE  IF coder = "invalid" THEN FileCut' ELSE coder = "done" /\ FileWhole'
<1>1. /\ coder \in {"done", "invalid"} /\ codes # <<>> /\ file' = SoftFile
      /\ UNCHANGED <<prog, text, tail, codes>>
  BY DEF DeliverSoft, Deliver, coderVars
<1>2. prog # "hardware"
  BY <1>1 DEF FedCodes, CoderInv, CoderTypeOK
<1>3. Message = text /\ Size = Len(text) /\ Slack = 7
  BY <1>2 DEF Message, Size, Slack
<1>4. CASE coder = "done"
  <2>1. file' = LittleEndian(12 + Len(tree) + Len(out)) \o LittleEndian(Len(tree))
                  \o LittleEndian(Size) \o tree \o out
    BY <1>1, <1>3, <1>4 DEF SoftFile
  <2>2. /\ out \in Seq(Byte) /\ Len(out) \in Nat
        /\ 8 * Len(out) - At(Size) \in 0 .. Slack
        /\ \A k \in 1 .. Size : Message[k] \in DOMAIN codes
        /\ \A k \in 1 .. Len(out) :
              byte_to_str(out[k]) = [i \in 1 .. 8 |-> Padded(8 * (k - 1) + i)]
    BY <1>3, <1>4, WroteMessage
  <2>3. FileWhole'
    BY <1>1, <2>1, <2>2, FileMade, Zenon
  <2> QED
    BY <1>4, <2>3
<1>5. CASE coder = "invalid"
  <2> DEFINE total == 0
             t == Len(tree)
  <2>1. file' = LittleEndian(total) \o LittleEndian(Len(tree))
                  \o LittleEndian(Size) \o tree \o out
    BY <1>1, <1>3, <1>5 DEF SoftFile
  <2>2. out \in Seq(Byte) /\ tree \in Seq(Byte) /\ t = TreeLength
    BY <1>1, <1>5 DEF FedCodes, CoderInv, CoderTypeOK, InputOK
  <2>3. Size \in Words /\ t \in Words /\ total \in Words
    <3>1. At(Size) \in Nat
      <4>1. Size \in Nat /\ Sent \in [1 .. Size -> Bits]
        BY <1>1, MessageType, SentType
      <4>2. Size \in 0 .. Size
        BY <4>1
      <4> QED
        BY <4>1, <4>2, JoinedBits, Zenon DEF At
    <3>2. PICK n \in Nat : 8 * n - At(Size) \in 0 .. 8
      <4> DEFINE a == At(Size)
                 q == (a + 7) \div 8
      <4>1. q \in Nat /\ 8 * q - a \in 0 .. 8
        <5>1. a \in Nat
          BY <3>1
        <5> HIDE DEF a
        <5> QED
          BY <5>1
      <4> HIDE DEF q
      <4> QED
        BY <4>1
    <3>3. Size \in Words /\ TreeLength \in Words
      BY <1>1, <3>2, MessageBound
    <3> QED
      BY <2>2, <3>3 DEF Words
  <2> HIDE DEF total
  <2>4. WordAt(file', 1) = total /\ WordAt(file', 5) = Len(tree)
    <3>1. HasParts(file', total, Len(tree), Size, tree, out)
      BY <2>1, <2>2, <2>3, FileParts, Zenon
    <3> QED
      BY <3>1, Zenon DEF HasParts
  <2>5. BodyBytes' = total - 12 - t
    BY <2>4, HeaderWordsNext
  <2>6. t \in Nat /\ total = 0
    BY <2>3 DEF Words, total
  <2>7. FileCut'
    <3> HIDE DEF t
    <3> QED
      BY <2>5, <2>6 DEF FileCut
  <2> QED
    BY <1>5, <2>7
<1> QED
  BY <1>1, <1>4, <1>5

\* The whole bytes of bits and eight zeros.
LEMMA PackedParts ==
    ASSUME NEW s \in Bits
    PROVE  /\ Packed(s) \in Seq(Byte) /\ Len(Packed(s)) \in Nat
           /\ 8 * Len(Packed(s)) - Len(s) \in 0 .. 8
           /\ \A k \in 1 .. Len(Packed(s)) :
                 byte_to_str(Packed(s)[k]) =
                   [i \in 1 .. 8 |-> IF 8 * (k - 1) + i <= Len(s)
                                     THEN s[8 * (k - 1) + i] ELSE 0]
<1> DEFINE zeros == [i \in 1 .. 8 |-> 0]
           p == s \o zeros
           n == Len(s)
           q == (n + 8) \div 8
           part(k) == SubSeq(p, 8 * k - 7, 8 * k)
           f == [k \in 1 .. q |-> PackByte(part(k))]
           bit(i) == IF i <= n THEN s[i] ELSE 0
<1>1. zeros \in Bits /\ Len(zeros) = 8 /\ \A k \in 1 .. 8 : zeros[k] = 0
  BY DEF Bits, Bit
<1>2. n \in Nat
  BY LenProperties DEF Bits
<1>3. q \in Nat /\ 8 * q <= n + 8 /\ 8 * q - n \in 0 .. 8
  <2> HIDE DEF n
  <2> QED
    BY <1>2
<1> HIDE DEF zeros
<1>4. /\ p \in Bits /\ Len(p) = n + 8
      /\ \A i \in 1 .. n + 8 : p[i] = bit(i)
  <2>1. /\ p \in Bits /\ Len(p) = Len(s) + Len(zeros)
        /\ \A i \in 1 .. Len(s) : p[i] = s[i]
        /\ \A i \in 1 .. Len(zeros) : p[Len(s) + i] = zeros[i]
    BY <1>1, AppendedBits, Zenon
  <2>2. Len(p) = n + 8
    BY <1>1, <2>1
  <2>3. ASSUME NEW i \in 1 .. n + 8 PROVE p[i] = bit(i)
    <3> HIDE DEF p, n
    <3>1. CASE i <= n
      <4>1. i \in 1 .. n
        BY <1>2, <3>1
      <4> QED
        BY <2>1, <3>1, <4>1 DEF n
    <3>2. CASE ~(i <= n)
      <4>1. i - n \in 1 .. 8 /\ n + (i - n) = i
        BY <1>2, <3>2
      <4>2. p[n + (i - n)] = zeros[i - n]
        BY <1>1, <2>1, <4>1 DEF n
      <4> QED
        BY <1>1, <3>2, <4>1, <4>2
    <3> QED
      BY <3>1, <3>2
  <2> QED
    BY <2>1, <2>2, <2>3
<1>5. Packed(s) = f
  BY <1>4 DEF Packed, zeros
<1> HIDE DEF p, n, q
<1>6. ASSUME NEW k \in 1 .. q
      PROVE  /\ part(k) \in Bits /\ Len(part(k)) >= 8
             /\ \A i \in 1 .. 8 : part(k)[i] = bit(8 * (k - 1) + i)
             /\ \A i \in 1 .. 8 : part(k)[i] \in 0 .. 1
  <2> DEFINE a == 8 * k - 7
             b == 8 * k
  <2>1. /\ a \in Nat /\ b \in Nat /\ a >= 1 /\ a <= b /\ b <= n + 8 /\ b - a + 1 = 8
        /\ \A i \in 1 .. 8 : /\ a + i - 1 = 8 * (k - 1) + i
                             /\ a + i - 1 \in 1 .. n + 8
    BY <1>2, <1>3
  <2> HIDE DEF a, b
  <2>2. \A i \in a .. b : p[i] \in Bit
    <3>1. p \in Seq(Bit) /\ \A i \in a .. b : i \in 1 .. Len(p)
      BY <1>2, <1>4, <2>1 DEF Bits
    <3> QED
      BY <3>1, ElementOfSeq
  <2>3. /\ SubSeq(p, a, b) \in Seq(Bit)
        /\ Len(SubSeq(p, a, b)) = 8
        /\ \A i \in 1 .. 8 : SubSeq(p, a, b)[i] = p[a + i - 1]
    <3>1. a \in Int /\ b \in Int /\ p \in Seq(Bit)
      BY <1>4, <2>1 DEF Bits
    <3> QED
      BY <2>1, <2>2, <3>1, SubSeqProperties
  <2>4. part(k) = SubSeq(p, a, b)
    BY DEF a, b
  <2> HIDE DEF part, bit
  <2>5. \A i \in 1 .. 8 : part(k)[i] = bit(8 * (k - 1) + i)
    BY <1>4, <2>1, <2>3, <2>4
  <2>6. part(k) \in Seq(Bit) /\ Len(part(k)) = 8
    BY <2>3, <2>4, Zenon
  <2>7. \A i \in 1 .. 8 : part(k)[i] \in Bit
    BY <2>6, ElementOfSeq
  <2>8. part(k) \in Bits /\ Len(part(k)) >= 8
    BY <2>6 DEF Bits
  <2> QED
    BY <2>5, <2>7, <2>8 DEF Bit
<1> HIDE DEF part, bit
<1>7. \A k \in 1 .. q : PackByte(part(k)) \in Byte
  BY <1>6, PackByteType, Zenon
<1>8. f \in [1 .. q -> Byte] /\ \A k \in 1 .. q : f[k] = PackByte(part(k))
  BY <1>7
<1>9. ASSUME NEW k \in 1 .. q
      PROVE  byte_to_str(f[k]) = [i \in 1 .. 8 |-> bit(8 * (k - 1) + i)]
  <2>1. byte_to_str(PackByte(part(k))) = [i \in 1 .. 8 |-> part(k)[i]]
    BY <1>6, BitsBack, Zenon
  <2>2. [i \in 1 .. 8 |-> part(k)[i]] = [i \in 1 .. 8 |-> bit(8 * (k - 1) + i)]
    BY <1>6
  <2> QED
    BY <1>8, <2>1, <2>2
<1> HIDE DEF f
<1>10. f \in Seq(Byte) /\ Len(f) = q
  BY <1>3, <1>8, IsASeq
<1> QED
  BY <1>3, <1>5, <1>9, <1>10 DEF bit, n

\* What hw_compress is given.
HardJob ==
    [codes |-> [k \in 1 .. NLetters |-> codes[data[k]]],
     tree |-> tree, text |-> text \o tail]

\* The accelerator encodes the message.
LEMMA HardBits ==
    ASSUME InputOK, codes # <<>>, prog = "hardware"
    PROVE  /\ CodeBits(HardJob) = Joined(Sent, Size)
           /\ \A k \in 1 .. Size : Message[k] \in DOMAIN codes
<1> DEFINE all == text \o tail
<1>1. /\ all \in Seq(Nat) /\ Len(all) = Len(text) + Len(tail) /\ Size = Len(all)
      /\ \A i \in 1 .. Len(text) : all[i] = text[i]
      /\ \A i \in 1 .. Len(tail) : all[Len(text) + i] = tail[i]
      /\ Len(text) \in Nat /\ Len(tail) \in Nat
  <2>1. text \in Seq(Nat) /\ tail \in Seq(Nat) /\ Len(text) \in Nat /\ Len(tail) \in Nat
    BY TextTypes
  <2>2. /\ all \in Seq(Nat) /\ Len(all) = Len(text) + Len(tail)
        /\ \A i \in 1 .. Len(text) : all[i] = text[i]
        /\ \A i \in 1 .. Len(tail) : all[Len(text) + i] = tail[i]
    BY <2>1, Behind, Zenon
  <2>3. Size = Len(text) + Len(tail)
    BY MessageType
  <2> QED
    BY <2>1, <2>2, <2>3, Zenon
<1>2. Message = HardText /\ DOMAIN codes = ToSet(data)
  BY DEF Message, InputOK, PrefixCode
<1> HIDE DEF all
<1>3. ASSUME NEW i \in 1 .. Len(all)
      PROVE  all[i] \in Nat /\ Index(all[i]) < NLetters
  <2>1. \A s \in Texts \cup Tails : \A k \in 1 .. Len(s) :
           s[k] \in Nat /\ Index(s[k]) < NLetters
    <3>1. \A x \in 1 .. 255 : x \in Nat
      OBVIOUS
    <3> QED
      BY <3>1, CharactersAssumption, Zenon
  <2>2. CASE i <= Len(text)
    <3>1. i \in 1 .. Len(text) /\ text \in Texts
      BY <1>1, <2>2 DEF InputOK
    <3> QED
      BY <1>1, <2>1, <3>1
  <2>3. CASE ~(i <= Len(text))
    <3>1. i - Len(text) \in 1 .. Len(tail) /\ Len(text) + (i - Len(text)) = i
      BY <1>1, <2>3
    <3>2. all[i] = tail[i - Len(text)] /\ tail \in Tails
      BY <1>1, <3>1 DEF InputOK
    <3> QED
      BY <2>1, <3>1, <3>2
  <2> QED
    BY <2>2, <2>3
<1>4. ASSUME NEW i \in 1 .. Size
      PROVE  /\ Message[i] \in DOMAIN codes
             /\ HardJob.codes[Index(all[i]) + 1] = CodeOf(Message[i])
  <2>1. all[i] \in Nat /\ Index(all[i]) < NLetters
    BY <1>1, <1>3
  <2>2. /\ Index(all[i]) + 1 \in 1 .. NLetters
        /\ data[Index(all[i]) + 1] = IF all[i] \in DOMAIN codes THEN all[i] ELSE 65
    BY <1>2, <2>1, DataPlaces
  <2>3. Message[i] = IF all[i] \in DOMAIN codes THEN all[i] ELSE 65
    <3>1. HardText = [k \in 1 .. Len(all) |->
                          IF all[k] \in DOMAIN codes THEN all[k] ELSE 65]
      BY DEF HardText, all
    <3>2. i \in 1 .. Len(all)
      BY <1>1
    <3> QED
      BY <1>2, <3>1, <3>2
  <2>4. Message[i] \in DOMAIN codes
    <3>1. data[Index(all[i]) + 1] \in ToSet(data)
      BY <2>2, DataPlaces
    <3> QED
      BY <1>2, <2>2, <2>3, <3>1
  <2>5. HardJob.codes[Index(all[i]) + 1] = codes[data[Index(all[i]) + 1]]
    BY <2>2 DEF HardJob
  <2> QED
    BY <2>2, <2>3, <2>4, <2>5 DEF CodeOf
<1>5. HardJob.text = all
  BY DEF HardJob, all
<1>6. CodeBits(HardJob) = Joined(Sent, Size)
  <2> DEFINE c == [i \in 1 .. Size |-> HardJob.codes[Index(all[i]) + 1]]
  <2>1. c = Sent
    BY <1>4 DEF Sent
  <2>2. CodeBits(HardJob) = FlattenSeq(c)
    BY <1>1, <1>5 DEF CodeBits
  <2>3. Sent = [i \in 1 .. Size |-> Sent[i]]
    BY DEF Sent
  <2> QED
    BY <2>1, <2>2, <2>3 DEF Joined
<1> QED
  BY <1>4, <1>6

LEMMA DeliverHardStep ==
    ASSUME InputOK, DeliverHard
    PROVE  FileWhole'
<1>1. /\ prog = "hardware" /\ codes # <<>> /\ file' = HardFile
      /\ UNCHANGED <<prog, text, tail, codes>>
  BY DEF DeliverHard, Deliver, coderVars
<1> DEFINE s == Joined(Sent, Size)
           body == Packed(s)
<1>2. s \in Bits /\ Len(s) = At(Size)
  <2>1. Size \in Nat /\ Sent \in [1 .. Size -> Bits]
    BY <1>1, MessageType, SentType
  <2>2. Size \in 0 .. Size
    BY <2>1
  <2> QED
    BY <2>1, <2>2, JoinedBits, Zenon DEF At
<1>3. /\ CodeBits(HardJob) = s
      /\ \A k \in 1 .. Size : Message[k] \in DOMAIN codes
  BY <1>1, HardBits
<1>4. Size = Len(text \o tail)
  BY <1>1, MessageType, TextTypes
<1> HIDE DEF s
<1>5. file' = LittleEndian(12 + Len(tree) + Len(body)) \o LittleEndian(Len(tree))
                \o LittleEndian(Size) \o tree \o body
  <2>1. file' = HfcFile(HardJob)
    BY <1>1 DEF HardFile, HardJob
  <2>2. HardJob.tree = tree /\ HardJob.text = text \o tail
    BY DEF HardJob
  <2> QED
    BY <1>3, <1>4, <2>1, <2>2 DEF HfcFile
<1>6. /\ body \in Seq(Byte) /\ Len(body) \in Nat
      /\ 8 * Len(body) - At(Size) \in 0 .. Slack
      /\ \A k \in 1 .. Len(body) :
            byte_to_str(body[k]) =
              [i \in 1 .. 8 |-> IF 8 * (k - 1) + i <= Len(s)
                                THEN s[8 * (k - 1) + i] ELSE 0]
  BY <1>1, <1>2, PackedParts DEF Slack
<1> HIDE DEF body
<1>7. \A k \in 1 .. Len(body) :
         byte_to_str(body[k]) = [i \in 1 .. 8 |-> Padded(8 * (k - 1) + i)]
  <2>1. \A i : Padded(i) = IF i <= Len(s) THEN s[i] ELSE 0
    BY <1>2 DEF Padded, s
  <2> QED
    BY <1>6, <2>1
<1> QED
  BY <1>1, <1>3, <1>5, <1>6, <1>7, FileMade, Zenon

-----------------------------------------------------------------------------
(* decompress follows the message *)

\* Bits of the body that have been decoded.
Consumed == 8 * bytesRead - Len(dwork)

NoneMatches(n) == \A l \in 1 .. n : ~IsPrefix(codes[data[l]], dwork)

\* What is stored is the beginning of the message (or the message and letters
\* of the padding), and what is pending are the bits behind its code.
Follows ==
    /\ dwork \in Bits /\ stored \in Seq(Nat)
    /\ bytesRead \in 0 .. BodyBytes
    /\ Consumed \in Nat /\ Len(dwork) <= MaxCode + 7
    /\ \A i \in 1 .. Len(dwork) : dwork[i] = Padded(Consumed + i)
    /\ Len(stored) <= Size => Consumed = At(Len(stored))
    /\ Len(stored) >= Size => Consumed >= At(Size) + (Len(stored) - Size)
    /\ \A k \in 1 .. Len(stored) : k <= Size => stored[k] = Message[k]

\* Between two searches no code is the beginning of what is pending.
Search ==
    /\ decoder = "match" => j \in 0 .. NLetters /\ (~matches => NoneMatches(j))
    /\ decoder # "match" => j = 0 /\ NoneMatches(NLetters)

DecoderPart ==
    /\ decoder \in {"idle", "open", "read", "match", "done", "runaway"}
    /\ decoder \in {"idle", "open"} =>
          bytesRead = 0 /\ dwork = <<>> /\ j = 0 /\ stored = <<>>
    /\ decoder # "idle" =>
          /\ codes # <<>> /\ coder # "run"
          /\ IF coder = "invalid" THEN FileCut ELSE FileWhole
    /\ decoder \notin {"idle", "open"} =>
          /\ rebuilt = codes
          /\ IF coder = "invalid"
             THEN bytesRead = 0 /\ dwork = <<>> /\ decoder \in {"read", "runaway"}
             ELSE /\ Follows /\ Search /\ decoder # "runaway"
                  /\ decoder = "done" => bytesRead = BodyBytes

\* The state while the file of a coder that ended normally is decoded.
Underway == InputOK /\ codes # <<>> /\ FileWhole /\ Follows

LEMMA LetterCodes ==
    ASSUME InputOK, codes # <<>>
    PROVE  /\ \A k \in 1 .. NLetters : data[k] \in DOMAIN codes
           /\ \A c \in DOMAIN codes :
                 /\ \E k \in 1 .. NLetters : c = data[k]
                 /\ c \in Nat
                 /\ codes[c] \in Bits /\ Len(codes[c]) \in Nat
                 /\ Len(codes[c]) >= 1 /\ Len(codes[c]) <= MaxCode
<1>1. DOMAIN codes = ToSet(data) /\ codes \in CodeTables /\ PrefixCode(codes)
  BY DEF InputOK, PrefixCode
<1>2. \A k \in 1 .. NLetters : data[k] \in DOMAIN codes
  BY <1>1, DataPlaces
<1>3. \A c \in DOMAIN codes : \E k \in 1 .. NLetters : c = data[k]
  BY <1>1, DataPlaces
<1>4. \A k \in 1 .. NLetters : data[k] \in Nat
  BY DataPlaces, ElementOfSeq
<1>5. \A c \in DOMAIN codes : codes[c] \in Bits /\ Len(codes[c]) \in 1 .. MaxCode
  BY <1>1, CodesNotEmpty
<1>6. MaxCode \in Nat
  BY WorkingAssumption
<1>7. \A n \in 1 .. MaxCode : n \in Nat /\ n >= 1 /\ n <= MaxCode
  BY <1>6
<1> QED
  BY <1>2, <1>3, <1>4, <1>5, <1>7

LEMMA UnderwayNumbers ==
    ASSUME Underway
    PROVE  /\ Len(dwork) \in Nat /\ Len(stored) \in Nat /\ Size \in Nat
           /\ bytesRead \in Nat /\ BodyBytes \in Nat /\ bytesRead <= BodyBytes
           /\ Consumed \in Nat /\ Consumed = 8 * bytesRead - Len(dwork)
           /\ MaxCode \in Nat /\ MaxCode + 8 <= WorkingSize /\ WorkingSize \in Nat
           /\ At(Size) \in Nat /\ Slack \in Nat /\ Slack <= 8
           /\ 8 * BodyBytes - At(Size) \in Nat /\ 8 * BodyBytes - At(Size) <= Slack
<1>1. Len(dwork) \in Nat /\ Len(stored) \in Nat
  BY LenProperties DEF Underway, Follows, Bits
<1>2. Size \in Nat
  BY MessageType DEF Underway
<1>3. BodyBytes \in Nat /\ bytesRead \in 0 .. BodyBytes /\ Consumed \in Nat
  BY DEF Underway, FileWhole, Follows
<1>4. bytesRead \in Nat /\ bytesRead <= BodyBytes
  BY <1>3
<1>5. At(Size) \in Nat
  <2>1. Sent \in [1 .. Size -> Bits] /\ Size \in 0 .. Size
    BY <1>2, SentType DEF Underway
  <2> QED
    BY <1>2, <2>1, JoinedBits, Zenon DEF At
<1>6. Slack \in Nat /\ Slack <= 8
  BY DEF Slack
<1>7. 8 * BodyBytes - At(Size) \in Nat /\ 8 * BodyBytes - At(Size) <= Slack
  <2>1. 8 * BodyBytes - At(Size) \in 0 .. Slack
    BY DEF Underway, FileWhole
  <2> QED
    BY <1>6, <2>1
<1> QED
  BY <1>1, <1>2, <1>3, <1>4, <1>5, <1>6, <1>7, WorkingAssumption DEF Consumed

\* The next letter of the message and where its code stands.
LEMMA NextLetter ==
    ASSUME Underway, Len(stored) < Size, NEW d, d = Message[Len(stored) + 1]
    PROVE  /\ d \in DOMAIN codes
           /\ Consumed = At(Len(stored))
           /\ At(Len(stored) + 1) = Consumed + Len(codes[d])
           /\ Consumed + Len(codes[d]) <= At(Size)
           /\ \A i \in 1 .. Len(codes[d]) : Padded(Consumed + i) = codes[d][i]
<1> DEFINE n == Len(stored) + 1
<1>1. n \in 1 .. Size /\ n - 1 = Len(stored)
  <2> DEFINE s == Len(stored)
  <2>1. s \in Nat /\ Size \in Nat /\ s < Size
    BY UnderwayNumbers, Zenon
  <2>2. s + 1 \in 1 .. Size /\ (s + 1) - 1 = s
    <3> HIDE DEF s
    <3> QED
      BY <2>1
  <2> QED
    BY <2>2
<1>2. Consumed = At(Len(stored))
  BY UnderwayNumbers DEF Underway, Follows
<1> HIDE DEF n
<1>3. d = Message[n] /\ Message[n] \in DOMAIN codes
  BY <1>1 DEF Underway, FileWhole, n
<1>4. /\ At(n) = At(n - 1) + Len(codes[d]) /\ At(n) <= At(Size)
      /\ \A i \in 1 .. Len(codes[d]) : Padded(At(n - 1) + i) = codes[d][i]
  BY <1>1, <1>3, CodePlace DEF Underway
<1> QED
  BY <1>1, <1>2, <1>3, <1>4 DEF n

\* No code is the beginning of another: the one found is the right one.
LEMMA MatchIsNext ==
    ASSUME Underway, Len(stored) < Size, NEW c \in DOMAIN codes,
           IsPrefix(codes[c], dwork)
    PROVE  c = Message[Len(stored) + 1]
<1> DEFINE d == Message[Len(stored) + 1]
           a == codes[c]
           b == codes[d]
           m == Len(a)
           n == Len(b)
<1>1. d \in DOMAIN codes /\ \A i \in 1 .. n : Padded(Consumed + i) = b[i]
  BY NextLetter, Zenon
<1>2. /\ a \in Bits /\ m \in Nat /\ b \in Bits /\ n \in Nat
      /\ dwork \in Bits /\ Len(dwork) \in Nat
  BY <1>1, LetterCodes, UnderwayNumbers DEF Underway, Follows
<1>3. m <= Len(dwork) /\ \A i \in 1 .. m : a[i] = dwork[i]
  BY <1>2, PrefixBits, Zenon
<1>4. \A i \in 1 .. m : a[i] = Padded(Consumed + i)
  <2>1. \A i \in 1 .. Len(dwork) : dwork[i] = Padded(Consumed + i)
    BY DEF Underway, Follows
  <2>2. \A i \in 1 .. m : i \in 1 .. Len(dwork)
    <3> HIDE DEF m
    <3> QED
      BY <1>2, <1>3
  <2> QED
    BY <1>3, <2>1, <2>2, Zenon
<1>5. /\ a \in Bits /\ b \in Bits
      /\ c # d => ~IsPrefix(a, b) /\ ~IsPrefix(b, a)
  BY <1>1, <1>2, Zenon DEF Underway, InputOK, PrefixCode
<1> HIDE DEF a, b, m, n, d
<1>6. CASE m <= n
  <2>1. \A i \in 1 .. m : i \in 1 .. n
    BY <1>2, <1>6
  <2>2. \A i \in 1 .. m : a[i] = b[i]
    BY <1>1, <1>4, <2>1, Zenon
  <2>3. IsPrefix(a, b)
    BY <1>5, <1>6, <2>2, PrefixBits, Zenon DEF m, n
  <2> QED
    BY <1>5, <2>3, Zenon DEF d
<1>7. CASE ~(m <= n)
  <2>1. n <= m /\ \A i \in 1 .. n : i \in 1 .. m
    BY <1>2, <1>7
  <2>2. \A i \in 1 .. n : b[i] = a[i]
    BY <1>1, <1>4, <2>1, Zenon
  <2>3. IsPrefix(b, a)
    BY <1>5, <2>1, <2>2, PrefixBits, Zenon DEF m, n
  <2> QED
    BY <1>5, <2>3, Zenon DEF d
<1> QED
  BY <1>6, <1>7, Zenon

\* If no code is found, the one of the next letter is not complete.
LEMMA NextIncomplete ==
    ASSUME Underway, Len(stored) < Size, NoneMatches(NLetters), NEW d,
           d = Message[Len(stored) + 1]
    PROVE  d \in DOMAIN codes /\ Len(dwork) < Len(codes[d])
<1> DEFINE b == codes[d]
           n == Len(b)
<1>1. d \in DOMAIN codes /\ \A i \in 1 .. n : Padded(Consumed + i) = b[i]
  BY NextLetter, Zenon
<1>2. b \in Bits /\ n \in Nat /\ dwork \in Bits /\ Len(dwork) \in Nat
  BY <1>1, LetterCodes, UnderwayNumbers DEF Underway, Follows
<1>3. PICK k \in 1 .. NLetters : d = data[k]
  BY <1>1, LetterCodes DEF Underway
<1>4. ~IsPrefix(b, dwork)
  BY <1>3 DEF NoneMatches
<1>5. SUFFICES ASSUME ~(Len(dwork) < n) PROVE FALSE
  BY <1>1, Zenon
<1> HIDE DEF b, n
<1>6. n <= Len(dwork) /\ \A i \in 1 .. n : i \in 1 .. Len(dwork)
  BY <1>2, <1>5
<1>7. \A i \in 1 .. n : b[i] = dwork[i]
  BY <1>1, <1>6, Zenon DEF Underway, Follows
<1> QED
  BY <1>2, <1>4, <1>6, <1>7, PrefixBits, Zenon DEF n

-----------------------------------------------------------------------------
(* The steps of decompress *)

LEMMA FileStays ==
    ASSUME UNCHANGED <<prog, text, tail, codes, file>>
    PROVE  /\ FileWhole => FileWhole'
           /\ FileCut => FileCut'
           /\ BodyBytes' = BodyBytes
<1>1. /\ BodyBytes' = BodyBytes /\ header_len' = header_len
      /\ uncompressed_len' = uncompressed_len
  BY DEF BodyBytes, total_len, header_len, uncompressed_len, HeaderWord
<1>2. Message' = Message /\ Size' = Size /\ \A i : Padded(i)' = Padded(i)
  BY MessageStays
<1>3. At(Size)' = At(Size) /\ Slack' = Slack
  BY MessageStays DEF At, Slack
<1>4. FileWhole => FileWhole'
  BY <1>1, <1>2, <1>3 DEF FileWhole
<1> QED
  BY <1>1, <1>4 DEF FileCut

LEMMA FollowsStays ==
    ASSUME Follows,
           UNCHANGED <<prog, text, tail, codes, file, bytesRead, dwork, stored>>
    PROVE  Follows'
<1>1. /\ Message' = Message /\ Size' = Size
      /\ (\A i : Padded(i)' = Padded(i)) /\ (\A n : At(n)' = At(n))
  BY MessageStays
<1>2. BodyBytes' = BodyBytes
  BY FileStays
<1>3. At(Size)' = At(Size) /\ At(Len(stored))' = At(Len(stored))
  BY MessageStays DEF At
<1>4. Consumed' = Consumed
  BY DEF Consumed
<1> QED
  BY <1>1, <1>2, <1>3, <1>4 DEF Follows

LEMMA PaddedBits ==
    ASSUME InputOK, codes # <<>>, NEW p \in Nat, p >= 1
    PROVE  Padded(p) \in Bit
<1>1. Joined(Sent, Size) \in Bits /\ At(Size) = Len(Joined(Sent, Size))
  <2>1. Size \in Nat /\ Sent \in [1 .. Size -> Bits]
    BY MessageType, SentType
  <2>2. Size \in 0 .. Size
    BY <2>1
  <2> QED
    BY <2>1, <2>2, JoinedBits, Zenon DEF At
<1>2. CASE p <= At(Size)
  <2>1. p \in 1 .. Len(Joined(Sent, Size))
    BY <1>1, <1>2, LenProperties DEF Bits
  <2>2. Joined(Sent, Size)[p] \in Bit
    BY <1>1, <2>1, ElementOfSeq DEF Bits
  <2> QED
    BY <1>2, <2>2 DEF Padded
<1>3. CASE ~(p <= At(Size))
  BY <1>3 DEF Padded, Bit
<1> QED
  BY <1>2, <1>3

\* Before the first byte is read.
LEMMA StartFollows ==
    ASSUME InputOK, codes # <<>>, FileWhole, bytesRead = 0, dwork = <<>>, stored = <<>>
    PROVE  Follows /\ NoneMatches(NLetters)
<1>1. /\ dwork \in Bits /\ stored \in Seq(Nat) /\ Len(dwork) = 0 /\ Len(stored) = 0
  BY EmptySeq DEF Bits
<1>2. Size \in Nat /\ BodyBytes \in Nat /\ MaxCode \in Nat
  BY MessageType, WorkingAssumption DEF FileWhole
<1>3. Consumed = 0
  <2>1. Consumed = 8 * 0 - 0
    BY <1>1, Zenon DEF Consumed
  <2> QED
    BY <2>1
<1>4. At(0) = 0
  <2>1. Joined(Sent, 0) = <<>>
    BY <1>2, SentType, JoinedBits, Zenon
  <2> QED
    BY <2>1, EmptySeq DEF At
<1>5. Follows
  <2>1. bytesRead \in 0 .. BodyBytes /\ Consumed \in Nat /\ Len(dwork) <= MaxCode + 7
    BY <1>1, <1>2, <1>3
  <2>2. /\ \A i \in 1 .. Len(dwork) : dwork[i] = Padded(Consumed + i)
        /\ \A k \in 1 .. Len(stored) : k <= Size => stored[k] = Message[k]
    BY <1>1
  <2>3. Consumed = At(Len(stored))
    BY <1>1, <1>3, <1>4
  <2>4. Len(stored) >= Size => Consumed >= At(Size) + (Len(stored) - Size)
    <3>1. ASSUME Len(stored) >= Size PROVE Size = 0
      BY <1>1, <1>2, <3>1
    <3>2. Size = 0 => At(Size) = 0
      BY <1>4
    <3> QED
      BY <1>1, <1>3, <3>1, <3>2
  <2> QED
    BY <1>1, <2>1, <2>2, <2>3, <2>4 DEF Follows
<1>6. ASSUME NEW l \in 1 .. NLetters PROVE ~IsPrefix(codes[data[l]], dwork)
  <2> DEFINE b == codes[data[l]]
  <2>1. b \in Bits /\ Len(b) \in Nat /\ Len(b) >= 1
    BY LetterCodes
  <2> HIDE DEF b
  <2>2. ~(Len(b) <= Len(dwork))
    BY <1>1, <2>1
  <2>3. ~IsPrefix(b, dwork)
    BY <1>1, <2>1, <2>2, PrefixBits, Zenon
  <2> QED
    BY <2>3 DEF b
<1> QED
  BY <1>5, <1>6 DEF NoneMatches

LEMMA ReadByteStep ==
    ASSUME Underway, Search, ReadByte, UNCHANGED <<prog, text, tail, codes>>
    PROVE  Follows' /\ Search'
<1> DEFINE h == header_len
           n == bytesRead + 1
           w == Len(dwork)
           v == [i \in 1 .. 8 |-> Padded(8 * bytesRead + i)]
<1>1. /\ bytesRead < BodyBytes /\ bytesRead' = n /\ decoder = "read"
      /\ decoder' = "match" /\ j' = j /\ stored' = stored /\ file' = file
      /\ dwork' = dwork \o byte_to_str(file[13 + h + bytesRead])
  BY DEF ReadByte
<1>2. j = 0 /\ NoneMatches(NLetters)
  BY <1>1 DEF Search
<1>3. /\ bytesRead \in Nat /\ BodyBytes \in Nat /\ h \in Nat /\ w \in Nat
      /\ Consumed \in Nat /\ Consumed = 8 * bytesRead - w /\ MaxCode \in Nat
  BY UnderwayNumbers DEF Underway, FileWhole
<1>4. dwork' = dwork \o v
  <2>1. n \in 1 .. BodyBytes /\ 13 + h + bytesRead = 12 + h + n /\ n - 1 = bytesRead
    <3> HIDE DEF h
    <3> QED
      BY <1>1, <1>3
  <2>2. byte_to_str(file[12 + h + n]) = [i \in 1 .. 8 |-> Padded(8 * (n - 1) + i)]
    BY <2>1 DEF Underway, FileWhole
  <2> QED
    BY <1>1, <2>1, <2>2
<1>5. v \in Bits /\ Len(v) = 8 /\ \A i \in 1 .. 8 : v[i] = Padded(8 * bytesRead + i)
  <2>1. \A i \in 1 .. 8 : 8 * bytesRead + i \in Nat /\ 8 * bytesRead + i >= 1
    BY <1>3
  <2>2. \A i \in 1 .. 8 : Padded(8 * bytesRead + i) \in Bit
    BY <2>1, PaddedBits DEF Underway
  <2> DEFINE m == 8
  <2>3. v \in [1 .. m -> Bit] /\ m \in Nat
    BY <2>2
  <2>4. \A i \in 1 .. 8 : v[i] = Padded(8 * bytesRead + i)
    OBVIOUS
  <2> HIDE DEF v, m
  <2>5. v \in Seq(Bit) /\ Len(v) = m
    BY <2>3, IsASeq
  <2> QED
    BY <2>4, <2>5 DEF m, Bits
<1> HIDE DEF v, h, n
<1>6. /\ dwork' \in Bits /\ Len(dwork') = w + 8
      /\ \A i \in 1 .. w : dwork'[i] = dwork[i]
      /\ \A i \in 1 .. 8 : dwork'[w + i] = v[i]
  <2>1. dwork \in Bits
    BY DEF Underway, Follows
  <2>2. /\ dwork' \in Bits /\ Len(dwork') = Len(dwork) + Len(v)
        /\ \A i \in 1 .. Len(dwork) : dwork'[i] = dwork[i]
        /\ \A i \in 1 .. Len(v) : dwork'[Len(dwork) + i] = v[i]
    BY <1>4, <1>5, <2>1, AppendedBits, Zenon
  <2> QED
    BY <1>5, <2>2
<1>7. w < MaxCode
  <2>1. CASE Len(stored) < Size
    <3> DEFINE d == Message[Len(stored) + 1]
    <3>1. d \in DOMAIN codes /\ w < Len(codes[d])
      BY <1>2, <2>1, NextIncomplete
    <3>2. Len(codes[d]) \in Nat /\ Len(codes[d]) <= MaxCode
      BY <3>1, LetterCodes DEF Underway
    <3> HIDE DEF d, w
    <3> QED
      BY <1>3, <3>1, <3>2
  <2>2. CASE ~(Len(stored) < Size)
    <3> DEFINE s == Len(stored)
               a == At(Size)
    <3>1. /\ s \in Nat /\ Size \in Nat /\ a \in Nat /\ 8 * BodyBytes - a <= Slack
          /\ Slack \in Nat /\ Slack <= 8
          /\ s >= Size => Consumed >= a + (s - Size)
      BY UnderwayNumbers, Zenon DEF Underway, Follows
    <3>2. MaxCode >= 1
      <4>1. 1 \in 1 .. NLetters
        BY NLettersAssumption
      <4>2. data[1] \in DOMAIN codes
        BY <4>1, LetterCodes DEF Underway
      <4>3. Len(codes[data[1]]) \in Nat /\ Len(codes[data[1]]) >= 1
              /\ Len(codes[data[1]]) <= MaxCode
        BY <4>2, LetterCodes DEF Underway
      <4> QED
        BY <1>3, <4>3
    <3>3. ~(s < Size)
      BY <2>2
    <3> HIDE DEF s, a, w
    <3>4. Consumed >= a
      BY <1>3, <3>1, <3>3
    <3> QED
      BY <1>1, <1>3, <3>1, <3>2, <3>4
  <2> QED
    BY <2>1, <2>2
<1>8. Consumed' = Consumed
  <2>1. Consumed' = 8 * bytesRead' - Len(dwork')
    BY DEF Consumed
  <2>2. Consumed' = 8 * (bytesRead + 1) - (w + 8)
    BY <1>1, <1>6, <2>1 DEF n
  <2> HIDE DEF w
  <2>3. 8 * (bytesRead + 1) - (w + 8) = 8 * bytesRead - w
    BY <1>3
  <2> QED
    BY <1>3, <2>2, <2>3, Zenon
<1>9. ASSUME NEW i \in 1 .. w + 8 PROVE dwork'[i] = Padded(Consumed + i)
  <2>1. CASE i <= w
    <3>1. i \in 1 .. w
      BY <1>3, <2>1
    <3>2. dwork[i] = Padded(Consumed + i)
      BY <3>1 DEF Underway, Follows
    <3> QED
      BY <1>6, <3>1, <3>2
  <2>2. CASE ~(i <= w)
    <3> HIDE DEF w
    <3>1. i - w \in 1 .. 8 /\ w + (i - w) = i /\ 8 * bytesRead + (i - w) = Consumed + i
      BY <1>3, <2>2
    <3>2. dwork'[w + (i - w)] = Padded(8 * bytesRead + (i - w))
      BY <1>5, <1>6, <3>1
    <3> QED
      BY <3>1, <3>2
  <2> QED
    BY <2>1, <2>2
<1>10. /\ Message' = Message /\ Size' = Size /\ BodyBytes' = BodyBytes
       /\ (\A i : Padded(i)' = Padded(i))
       /\ At(Size)' = At(Size) /\ At(Len(stored))' = At(Len(stored))
  <2>1. Message' = Message /\ Size' = Size /\ Sent' = Sent /\ \A i : Padded(i)' = Padded(i)
    BY MessageStays
  <2>2. BodyBytes' = BodyBytes
    BY <1>1, FileStays
  <2> QED
    BY <1>1, <2>1, <2>2 DEF At
<1>11. Follows'
  <2>1. bytesRead' \in 0 .. BodyBytes /\ w + 8 <= MaxCode + 7
    <3> HIDE DEF w
    <3> QED
      BY <1>1, <1>3, <1>7 DEF n
  <2>2. \A i \in 1 .. Len(dwork') : dwork'[i] = Padded(Consumed + i)
    BY <1>6, <1>9
  <2>3. /\ stored \in Seq(Nat) /\ Consumed \in Nat
        /\ Len(stored) <= Size => Consumed = At(Len(stored))
        /\ Len(stored) >= Size => Consumed >= At(Size) + (Len(stored) - Size)
        /\ \A k \in 1 .. Len(stored) : k <= Size => stored[k] = Message[k]
    BY DEF Underway, Follows
  <2>4. dwork' \in Bits /\ Len(dwork') <= MaxCode + 7
    BY <1>6, <2>1
  <2>5. \A i \in 1 .. Len(dwork') : dwork'[i] = Padded(Consumed + i)'
    BY <1>8, <1>10, <2>2
  <2> QED
    BY <1>1, <1>8, <1>10, <2>1, <2>3, <2>4, <2>5 DEF Follows
<1>12. Search'
  <2>1. 0 \in 0 .. NLetters /\ \A l \in 1 .. 0 : FALSE
    BY NLettersAssumption
  <2> QED
    BY <1>1, <1>2, <2>1 DEF Search, NoneMatches
<1> QED
  BY <1>11, <1>12

LEMMA NoMatchStep ==
    ASSUME Underway, Search, rebuilt = codes, NoMatch,
           UNCHANGED <<prog, text, tail, codes>>
    PROVE  Follows' /\ Search'
<1>1. /\ decoder = "match" /\ decoder' = "match" /\ j < NLetters /\ j' = j + 1
      /\ ~IsPrefix(codes[data[j + 1]], dwork)
      /\ UNCHANGED <<file, bytesRead, dwork, stored>> /\ (matches' <=> matches)
  BY DEF NoMatch
<1>2. Follows'
  BY <1>1, FollowsStays DEF Underway
<1>3. j \in 0 .. NLetters /\ (~matches => NoneMatches(j))
  BY <1>1, Zenon DEF Search
<1>4. /\ j + 1 \in 0 .. NLetters
      /\ \A l \in 1 .. j + 1 : l \in 1 .. j \/ l = j + 1
  BY <1>1, <1>3, NLettersAssumption
<1>5. NoneMatches(j) => NoneMatches(j + 1)
  BY <1>1, <1>4, Zenon DEF NoneMatches
<1>6. ~matches' => NoneMatches(j)'
  BY <1>1, <1>3, <1>5 DEF NoneMatches
<1> QED
  BY <1>1, <1>2, <1>4, <1>6, Zenon DEF Search

LEMMA AppendedLetter ==
    ASSUME NEW s \in Seq(Nat), NEW c \in Nat
    PROVE  /\ Append(s, c) \in Seq(Nat)
           /\ Len(Append(s, c)) = Len(s) + 1
           /\ \A k \in 1 .. Len(s) : Append(s, c)[k] = s[k]
           /\ Append(s, c)[Len(s) + 1] = c
  BY AppendProperties

LEMMA MatchStep ==
    ASSUME Underway, Search, rebuilt = codes, Match,
           UNCHANGED <<prog, text, tail, codes>>
    PROVE  Follows' /\ Search'
<1> DEFINE c == data[j + 1]
           m == Len(codes[c])
           w == Len(dwork)
           s == Len(stored)
<1>1. /\ decoder = "match" /\ decoder' = "match" /\ j < NLetters /\ j' = j + 1
      /\ IsPrefix(codes[c], dwork) /\ matches'
      /\ stored' = Append(stored, c) /\ dwork' = SubSeq(dwork, m + 1, w)
      /\ UNCHANGED <<file, bytesRead>>
  BY DEF Match
<1>2. /\ j \in 0 .. NLetters /\ j + 1 \in 0 .. NLetters /\ j + 1 \in 1 .. NLetters
  BY <1>1, NLettersAssumption DEF Search
<1>3. /\ c \in DOMAIN codes /\ c \in Nat /\ codes[c] \in Bits
      /\ m \in Nat /\ m >= 1 /\ m <= MaxCode
  BY <1>2, LetterCodes, Zenon DEF Underway
<1>4. /\ w \in Nat /\ s \in Nat /\ Size \in Nat /\ bytesRead \in Nat /\ At(Size) \in Nat
      /\ Consumed \in Nat /\ Consumed = 8 * bytesRead - w /\ MaxCode \in Nat
      /\ dwork \in Bits /\ stored \in Seq(Nat)
      /\ w <= MaxCode + 7 /\ bytesRead \in 0 .. BodyBytes
      /\ \A i \in 1 .. w : dwork[i] = Padded(Consumed + i)
      /\ s >= Size => Consumed >= At(Size) + (s - Size)
      /\ \A k \in 1 .. s : k <= Size => stored[k] = Message[k]
  BY UnderwayNumbers, Zenon DEF Underway, Follows
<1>5. m <= w
  BY <1>1, <1>3, <1>4, PrefixBits, Zenon
<1>6. s < Size => c = Message[s + 1] /\ Consumed + m = At(s + 1)
  <2>1. ASSUME s < Size PROVE c = Message[s + 1]
    BY <1>1, <1>3, <2>1, MatchIsNext
  <2>2. ASSUME s < Size PROVE At(s + 1) = Consumed + m
    BY <2>1, <2>2, NextLetter, Zenon
  <2> QED
    BY <2>1, <2>2
<1> HIDE DEF c, m
<1>7. /\ stored' \in Seq(Nat) /\ Len(stored') = s + 1
      /\ \A k \in 1 .. s : stored'[k] = stored[k]
      /\ stored'[s + 1] = c
  BY <1>1, <1>3, <1>4, AppendedLetter, Zenon
<1>8. /\ dwork' \in Bits /\ Len(dwork') = w - m
      /\ \A i \in 1 .. w - m : dwork'[i] = dwork[m + i]
  <2> DEFINE a == m + 1
  <2> HIDE DEF w
  <2>1. /\ a \in Int /\ w \in Int /\ (IF a <= w THEN w - a + 1 ELSE 0) = w - m
        /\ w - a + 1 = w - m /\ \A i \in 1 .. w - m : a + i - 1 = m + i
        /\ \A i \in a .. w : i \in 1 .. w
    BY <1>3, <1>4, <1>5
  <2>2. dwork \in Seq(Bit) /\ \A i \in a .. w : dwork[i] \in Bit
    BY <1>4, <2>1, ElementOfSeq DEF Bits, w
  <2> HIDE DEF a
  <2>3. /\ SubSeq(dwork, a, w) \in Seq(Bit)
        /\ Len(SubSeq(dwork, a, w)) = IF a <= w THEN w - a + 1 ELSE 0
        /\ \A i \in 1 .. w - a + 1 : SubSeq(dwork, a, w)[i] = dwork[a + i - 1]
    BY <2>1, <2>2, SubSeqProperties
  <2>4. dwork' = SubSeq(dwork, a, w)
    BY <1>1 DEF a
  <2>5. \A i \in 1 .. w - m : dwork'[i] = dwork[m + i]
    BY <2>1, <2>3, <2>4
  <2> QED
    BY <2>1, <2>3, <2>4, <2>5 DEF Bits
<1>9. Consumed' = Consumed + m
  <2>1. Consumed' = 8 * bytesRead - (w - m)
    BY <1>1, <1>8 DEF Consumed
  <2> HIDE DEF w
  <2>2. 8 * bytesRead - (w - m) = (8 * bytesRead - w) + m
    BY <1>3, <1>4
  <2> QED
    BY <1>4, <2>1, <2>2, Zenon
<1>10. /\ Message' = Message /\ Size' = Size /\ BodyBytes' = BodyBytes
       /\ (\A i : Padded(i)' = Padded(i))
       /\ At(Size)' = At(Size) /\ At(Len(stored))' = At(s + 1)
  <2>1. Message' = Message /\ Size' = Size /\ Sent' = Sent /\ \A i : Padded(i)' = Padded(i)
    BY MessageStays
  <2>2. BodyBytes' = BodyBytes
    BY <1>1, FileStays
  <2>3. At(Len(stored))' = At(s + 1)
    BY <1>7, <2>1 DEF At
  <2> QED
    BY <2>1, <2>2, <2>3 DEF At
<1>11. \A i \in 1 .. w - m : dwork'[i] = Padded((Consumed + m) + i)
  <2> HIDE DEF w
  <2> TAKE i \in 1 .. w - m
  <2>1. m + i \in 1 .. w /\ Consumed + (m + i) = (Consumed + m) + i
    BY <1>3, <1>4, <1>5
  <2>2. dwork'[i] = Padded(Consumed + (m + i))
    BY <1>4, <1>8, <2>1, Zenon
  <2> QED
    BY <2>1, <2>2
<1>12. Consumed + m \in Nat /\ w - m <= MaxCode + 7
  <2> HIDE DEF w
  <2> QED
    BY <1>3, <1>4, <1>5
<1>13. \A n : n = s + 1 =>
          /\ n <= Size => Consumed + m = At(s + 1)
          /\ n >= Size => Consumed + m >= At(Size) + (n - Size)
  <2> HIDE DEF w, s
  <2>2. s + 1 <= Size => s < Size
    BY <1>4
  <2>3. ASSUME s + 1 <= Size PROVE Consumed + m = At(s + 1)
    BY <1>6, <2>2, <2>3
  <2>4. ASSUME s + 1 >= Size PROVE Consumed + m >= At(Size) + (s + 1 - Size)
    <3>1. CASE s >= Size
      BY <1>3, <1>4, <3>1
    <3>2. CASE ~(s >= Size)
      <4>1. s < Size /\ s + 1 = Size
        BY <1>4, <2>4, <3>2
      <4>2. Consumed + m = At(Size) /\ s + 1 - Size = 0
        BY <1>4, <1>6, <4>1
      <4> QED
        BY <1>4, <4>2
    <3> QED
      BY <3>1, <3>2
  <2> TAKE n
  <2> HAVE n = s + 1
  <2>5. /\ n <= Size => Consumed + m = At(s + 1)
        /\ n >= Size => Consumed + m >= At(Size) + (n - Size)
    BY <1>4, <2>3, <2>4
  <2> QED
    BY <2>5
<1>14. \A k \in 1 .. s + 1 : k <= Size => stored'[k] = Message[k]
  <2> HIDE DEF s
  <2> TAKE k \in 1 .. s + 1
  <2> HAVE k <= Size
  <2>1. CASE k \in 1 .. s
    BY <1>4, <1>7, <2>1
  <2>2. CASE k \notin 1 .. s
    <3>1. k = s + 1 /\ s < Size
      BY <1>4, <2>2
    <3> QED
      BY <1>6, <1>7, <3>1
  <2> QED
    BY <2>1, <2>2
<1>15. Follows'
  <2>1. /\ dwork' \in Bits /\ stored' \in Seq(Nat) /\ bytesRead' \in 0 .. BodyBytes
        /\ Consumed + m \in Nat /\ Len(dwork') <= MaxCode + 7
    BY <1>1, <1>4, <1>7, <1>8, <1>12
  <2>2. /\ \A i \in 1 .. Len(dwork') : dwork'[i] = Padded((Consumed + m) + i)
        /\ Len(stored') <= Size => Consumed + m = At(s + 1)
        /\ Len(stored') >= Size => Consumed + m >= At(Size) + (Len(stored') - Size)
        /\ \A k \in 1 .. Len(stored') : k <= Size => stored'[k] = Message[k]
    <3> HIDE DEF s, w
    <3>1. Len(dwork') = w - m /\ Len(stored') = s + 1
      BY <1>7, <1>8, Zenon
    <3>2. \A i \in 1 .. Len(dwork') : dwork'[i] = Padded((Consumed + m) + i)
      BY <3>1, <1>11
    <3>3. /\ Len(stored') <= Size => Consumed + m = At(s + 1)
          /\ Len(stored') >= Size => Consumed + m >= At(Size) + (Len(stored') - Size)
      BY <3>1, <1>13, Zenon
    <3>4. \A k \in 1 .. Len(stored') : k <= Size => stored'[k] = Message[k]
      BY <3>1, <1>14
    <3> QED
      BY <3>2, <3>3, <3>4, Zenon
  <2>3. \A i \in 1 .. Len(dwork') : dwork'[i] = Padded(Consumed + i)'
    BY <1>9, <1>10, <2>2
  <2> HIDE DEF s, w
  <2> QED
    BY <1>9, <1>10, <2>1, <2>2, <2>3 DEF Follows
<1>16. Search'
  BY <1>1, <1>2 DEF Search
<1> QED
  BY <1>15, <1>16

LEMMA NextSearchStep ==
    ASSUME Underway, Search, NextSearch, UNCHANGED <<prog, text, tail, codes>>
    PROVE  Follows' /\ Search' /\ decoder' \in {"match", "read"}
<1>1. /\ decoder = "match" /\ j = NLetters /\ j' = 0
      /\ decoder' = IF matches THEN "match" ELSE "read"
      /\ UNCHANGED <<file, bytesRead, dwork, stored>>
  BY DEF NextSearch
<1>2. Follows'
  BY <1>1, FollowsStays DEF Underway
<1>3. ~matches => NoneMatches(NLetters)
  BY <1>1, Zenon DEF Search
<1>4. NoneMatches(NLetters)' <=> NoneMatches(NLetters)
  BY <1>1 DEF NoneMatches
<1>5. CASE matches
  <2>1. decoder' = "match"
    BY <1>1, <1>5
  <2>2. 0 \in 0 .. NLetters /\ \A l \in 1 .. 0 : FALSE
    BY NLettersAssumption
  <2>3. NoneMatches(j)'
    BY <1>1, <2>2 DEF NoneMatches
  <2> QED
    BY <1>1, <1>2, <2>1, <2>2, <2>3 DEF Search
<1>6. CASE ~matches
  <2>1. decoder' = "read"
    BY <1>1, <1>6
  <2> QED
    BY <1>1, <1>2, <1>3, <1>4, <1>6, <2>1 DEF Search
<1> QED
  BY <1>5, <1>6

LEMMA TerminateStep ==
    ASSUME Underway, Search, Terminate, UNCHANGED <<prog, text, tail, codes>>
    PROVE  Follows' /\ Search' /\ decoder' = "done" /\ bytesRead' = BodyBytes'
<1>1. /\ decoder = "read" /\ decoder' = "done" /\ bytesRead = BodyBytes
      /\ UNCHANGED <<file, bytesRead, dwork, stored, j>>
  BY DEF Terminate
<1>2. Follows'
  BY <1>1, FollowsStays DEF Underway
<1>3. Search'
  <2>1. j = 0 /\ NoneMatches(NLetters)
    BY <1>1 DEF Search
  <2>2. NoneMatches(NLetters)'
    BY <1>1, <2>1 DEF NoneMatches
  <2> QED
    BY <1>1, <2>1, <2>2 DEF Search
<1>4. BodyBytes' = BodyBytes
  BY <1>1, FileStays
<1> QED
  BY <1>1, <1>2, <1>3, <1>4

\* A complete file is not read behind its end.
LEMMA NeverBehindEnd ==
    ASSUME Underway, ReadBehindEnd
    PROVE  FALSE
<1>1. /\ BodyBytes \in Nat /\ header_len \in Nat /\ bytesRead \in Nat
      /\ Len(file) = 12 + header_len + BodyBytes
  BY UnderwayNumbers DEF Underway, FileWhole
<1>2. \/ BodyBytes < 0
      \/ bytesRead < BodyBytes /\ 12 + header_len + bytesRead >= Len(file)
  BY DEF ReadBehindEnd
<1> QED
  BY <1>1, <1>2

-----------------------------------------------------------------------------
(* All steps *)

\* The inductive invariant.
CodedInv == InputOK /\ FedCodes /\ DecoderPart

LEMMA CodedInitInv == CodedInit => CodedInv
<1> SUFFICES ASSUME CodedInit PROVE CodedInv
  OBVIOUS
<1>1. InputOK
  BY DEF CodedInit, InputOK
<1>2. FedCodes
  BY DEF CodedInit, FedCodes
<1>3. DecoderPart
  BY DEF CodedInit, DecoderRest, DecoderPart
<1> QED
  BY <1>1, <1>2, <1>3 DEF CodedInv

LEMMA CoderStays ==
    ASSUME InputOK, FedCodes, UNCHANGED <<coderVars, tail, tree>>
    PROVE  InputOK' /\ FedCodes'
<1>1. UNCHANGED <<prog, text, codes, pos, working, out, fed, coder, tail, tree>>
  BY DEF coderVars
<1>2. InputOK'
  BY <1>1 DEF InputOK
<1>3. CASE coder = "idle"
  BY <1>1, <1>2, <1>3 DEF FedCodes, CoderRest
<1>4. CASE coder # "idle"
  <2>1. /\ CoderInv /\ codes # <<>> /\ fed = Joined(Sent, pos)
        /\ \A k \in 1 .. pos : text[k] \in DOMAIN codes
        /\ coder = "done" => pos = Len(text)
    BY <1>4 DEF FedCodes
  <2>2. CoderInv'
    BY <1>1, <2>1 DEF CoderInv, CoderTypeOK, WorkingFits, BitsKept, BytesPacked,
       StreamBit, AllWritten
  <2>3. Sent' = Sent
    BY <1>1, MessageStays
  <2> QED
    BY <1>1, <1>2, <1>4, <2>1, <2>2, <2>3 DEF FedCodes
<1> QED
  BY <1>3, <1>4

\* The decoder has not begun.
LEMMA DecoderWaits ==
    ASSUME DecoderPart, UNCHANGED decoderVars, decoder = "idle"
    PROVE  DecoderPart'
<1>1. /\ bytesRead = 0 /\ dwork = <<>> /\ j = 0 /\ stored = <<>>
      /\ UNCHANGED <<bytesRead, dwork, j, stored, decoder>>
  BY DEF DecoderPart, decoderVars
<1> QED
  BY <1>1 DEF DecoderPart

LEMMA CodingInv == CodedInv /\ Coding => CodedInv'
<1> SUFFICES ASSUME CodedInv, Coding PROVE CodedInv'
  OBVIOUS
<1>1. codes = <<>> /\ InputOK /\ FedCodes /\ DecoderPart
  BY DEF CodedInv, Coding
<1>2. decoder = "idle"
  BY <1>1 DEF DecoderPart
<1>3. InputOK' /\ FedCodes' /\ UNCHANGED decoderVars
  BY <1>1, CodingStep
<1> QED
  BY <1>1, <1>2, <1>3, DecoderWaits DEF CodedInv

LEMMA EncodeInv == CodedInv /\ Encode => CodedInv'
<1> SUFFICES ASSUME CodedInv, Encode PROVE CodedInv'
  OBVIOUS
<1>1. /\ InputOK' /\ FedCodes' /\ coder = "run" /\ DecoderPart /\ UNCHANGED decoderVars
  BY EncodeStep DEF CodedInv
<1>2. decoder = "idle"
  BY <1>1 DEF DecoderPart
<1> QED
  BY <1>1, <1>2, DecoderWaits DEF CodedInv

\* A file that is delivered.
LEMMA DeliverInv == CodedInv /\ (DeliverSoft \/ DeliverHard) => CodedInv'
<1> SUFFICES ASSUME CodedInv, DeliverSoft \/ DeliverHard PROVE CodedInv'
  OBVIOUS
<1>1. /\ codes # <<>> /\ decoder = "idle" /\ decoder' = "open"
      /\ UNCHANGED <<coderVars, tail, tree>>
      /\ UNCHANGED <<codes, coder, bytesRead, dwork, j, stored>>
  BY DEF DeliverSoft, DeliverHard, Deliver, coderVars
<1>2. InputOK /\ FedCodes /\ DecoderPart
  BY DEF CodedInv
<1>3. InputOK' /\ FedCodes'
  BY <1>1, <1>2, CoderStays
<1>4. bytesRead = 0 /\ dwork = <<>> /\ j = 0 /\ stored = <<>>
  BY <1>1, <1>2 DEF DecoderPart
<1>5. coder # "run" /\ IF coder = "invalid" THEN FileCut' ELSE FileWhole'
  <2>1. CASE DeliverSoft
    <3>1. IF coder = "invalid" THEN FileCut' ELSE coder = "done" /\ FileWhole'
      BY <1>2, <2>1, DeliverSoftStep
    <3> QED
      BY <3>1
  <2>2. CASE DeliverHard
    <3>1. FileWhole' /\ prog = "hardware"
      BY <1>2, <2>2, DeliverHardStep DEF DeliverHard
    <3>2. coder = "idle"
      BY <1>2, <3>1 DEF FedCodes, CoderInv, CoderTypeOK
    <3> QED
      BY <3>1, <3>2
  <2> QED
    BY <2>1, <2>2
<1>6. DecoderPart'
  BY <1>1, <1>4, <1>5 DEF DecoderPart
<1> QED
  BY <1>3, <1>6 DEF CodedInv

LEMMA OpenInv == CodedInv /\ OpenFile => CodedInv'
<1> SUFFICES ASSUME CodedInv, OpenFile PROVE CodedInv'
  OBVIOUS
<1>1. /\ decoder = "open" /\ decoder' = "read" /\ rebuilt' = codes
      /\ UNCHANGED <<coderVars, tail, tree>>
      /\ UNCHANGED <<prog, text, tail, codes, coder>>
      /\ UNCHANGED <<file, bytesRead, dwork, j, stored>>
  BY DEF OpenFile, Open, coderVars
<1>2. InputOK /\ FedCodes /\ DecoderPart
  BY DEF CodedInv
<1>3. InputOK' /\ FedCodes'
  BY <1>1, <1>2, CoderStays
<1>4. /\ bytesRead = 0 /\ dwork = <<>> /\ j = 0 /\ stored = <<>>
      /\ codes # <<>> /\ coder # "run"
      /\ IF coder = "invalid" THEN FileCut ELSE FileWhole
  BY <1>1, <1>2 DEF DecoderPart
<1>5. CASE coder = "invalid"
  <2>1. FileCut'
    BY <1>1, <1>4, <1>5, FileStays
  <2>2. DecoderPart'
    BY <1>1, <1>4, <1>5, <2>1 DEF DecoderPart
  <2> QED
    BY <1>3, <2>2 DEF CodedInv
<1>6. CASE coder # "invalid"
  <2>1. FileWhole /\ FileWhole'
    BY <1>1, <1>4, <1>6, FileStays
  <2>2. Follows /\ NoneMatches(NLetters)
    BY <1>2, <1>4, <2>1, StartFollows
  <2>3. Follows'
    BY <1>1, <2>2, FollowsStays
  <2>4. NoneMatches(NLetters)'
    BY <1>1, <2>2 DEF NoneMatches
  <2>5. Search'
    BY <1>1, <1>4, <2>4 DEF Search
  <2>6. DecoderPart'
    BY <1>1, <1>4, <1>6, <2>1, <2>3, <2>5 DEF DecoderPart
  <2> QED
    BY <1>3, <2>6 DEF CodedInv
<1> QED
  BY <1>5, <1>6

LEMMA DecodeInv == CodedInv /\ Decode => CodedInv'
<1> SUFFICES ASSUME CodedInv, Decode PROVE CodedInv'
  OBVIOUS
<1>1. /\ DecoderLoop /\ decoder \in {"read", "match"} /\ UNCHANGED <<file, rebuilt>>
      /\ UNCHANGED <<coderVars, tail, tree>> /\ UNCHANGED <<prog, text, tail, codes, coder>>
  BY DEF Decode, DecoderLoop, ReadByte, ReadBehindEnd, NoMatch, Match, NextSearch,
     Terminate, coderVars
<1>2. InputOK /\ FedCodes /\ DecoderPart
  BY DEF CodedInv
<1>3. InputOK' /\ FedCodes'
  BY <1>1, <1>2, CoderStays
<1>4. /\ codes # <<>> /\ coder # "run" /\ rebuilt = codes
      /\ IF coder = "invalid" THEN FileCut ELSE FileWhole
  BY <1>1, <1>2 DEF DecoderPart
<1>5. CASE coder = "invalid"
  <2>1. /\ bytesRead = 0 /\ dwork = <<>> /\ decoder = "read"
        /\ BodyBytes \in Int /\ BodyBytes < 0 /\ FileCut'
    BY <1>1, <1>2, <1>4, <1>5, FileStays DEF DecoderPart, FileCut
  <2>2. ReadBehindEnd
    <3>1. ~ReadByte
      BY <2>1 DEF ReadByte
    <3>2. ~Terminate
      BY <2>1 DEF Terminate
    <3>3. ~NoMatch /\ ~Match /\ ~NextSearch
      BY <2>1 DEF NoMatch, Match, NextSearch
    <3> QED
      BY <1>1, <3>1, <3>2, <3>3, Zenon DEF DecoderLoop
  <2>3. decoder' = "runaway" /\ UNCHANGED <<bytesRead, dwork>>
    BY <2>2 DEF ReadBehindEnd
  <2>4. DecoderPart'
    BY <1>1, <1>4, <1>5, <2>1, <2>3 DEF DecoderPart
  <2> QED
    BY <1>3, <2>4 DEF CodedInv
<1>6. CASE coder # "invalid"
  <2>1. Underway /\ Search
    BY <1>1, <1>2, <1>4, <1>6 DEF DecoderPart, Underway
  <2>2. /\ Follows' /\ Search' /\ decoder' \in {"read", "match", "done"}
        /\ decoder' = "done" => bytesRead' = BodyBytes'
    <3>1. CASE ReadByte
      <4>1. decoder' = "match"
        BY <3>1 DEF ReadByte
      <4> QED
        BY <1>1, <2>1, <3>1, <4>1, ReadByteStep
    <3>2. CASE ReadBehindEnd
      BY <2>1, <3>2, NeverBehindEnd
    <3>3. CASE NoMatch
      <4>1. decoder' = "match"
        BY <3>3 DEF NoMatch
      <4> QED
        BY <1>1, <1>4, <2>1, <3>3, <4>1, NoMatchStep
    <3>4. CASE Match
      <4>1. decoder' = "match"
        BY <3>4 DEF Match
      <4> QED
        BY <1>1, <1>4, <2>1, <3>4, <4>1, MatchStep
    <3>5. CASE NextSearch
      <4>1. Follows' /\ Search' /\ decoder' \in {"match", "read"}
        BY <1>1, <2>1, <3>5, NextSearchStep
      <4> QED
        BY <4>1
    <3>6. CASE Terminate
      BY <1>1, <2>1, <3>6, TerminateStep
    <3> QED
      BY <1>1, <3>1, <3>2, <3>3, <3>4, <3>5, <3>6 DEF DecoderLoop
  <2>3. FileWhole'
    BY <1>1, <1>4, <1>6, FileStays
  <2>4. DecoderPart'
    BY <1>1, <1>4, <1>6, <2>2, <2>3 DEF DecoderPart
  <2> QED
    BY <1>3, <2>4 DEF CodedInv
<1> QED
  BY <1>5, <1>6

LEMMA CodedStays == CodedInv /\ UNCHANGED codedVars => CodedInv'
<1> SUFFICES ASSUME CodedInv, UNCHANGED codedVars PROVE CodedInv'
  OBVIOUS
<1>1. /\ UNCHANGED <<coderVars, tail, tree>> /\ UNCHANGED <<prog, text, tail, codes, coder>>
      /\ UNCHANGED <<file, rebuilt, bytesRead, dwork, j, stored, decoder>>
      /\ (matches' <=> matches)
  BY DEF codedVars, coderVars, decoderVars
<1>2. InputOK' /\ FedCodes' /\ DecoderPart
  BY <1>1, CoderStays DEF CodedInv
<1>3. /\ (FileWhole => FileWhole') /\ (FileCut => FileCut') /\ BodyBytes' = BodyBytes
  BY <1>1, FileStays
<1>4. Follows => Follows'
  BY <1>1, FollowsStays
<1>5. Search => Search'
  <2>1. NoneMatches(j) => NoneMatches(j)'
    BY <1>1 DEF NoneMatches
  <2>2. NoneMatches(NLetters) => NoneMatches(NLetters)'
    BY <1>1 DEF NoneMatches
  <2> QED
    BY <1>1, <2>1, <2>2 DEF Search
<1>6. DecoderPart'
  BY <1>1, <1>2, <1>3, <1>4, <1>5 DEF DecoderPart
<1> QED
  BY <1>2, <1>6 DEF CodedInv

-----------------------------------------------------------------------------
(* The theorems of the second part *)

\* The invariant of coder, file and decompress always holds.
THEOREM CodedInvariance == CodedSpec => []CodedInv
<1>1. CodedInv /\ [CodedNext]_codedVars => CodedInv'
  BY CodingInv, EncodeInv, DeliverInv, OpenInv, DecodeInv, CodedStays DEF CodedNext
<1> QED
  BY <1>1, CodedInitInv, PTL DEF CodedSpec

\* decompress is through with the file of a coder that ended normally.
LEMMA AtTheEnd ==
    ASSUME CodedInv, decoder = "done"
    PROVE  Underway /\ Len(stored) >= Size
<1>1. /\ Underway /\ Search /\ bytesRead = BodyBytes /\ NoneMatches(NLetters)
  BY DEF CodedInv, DecoderPart, Underway, Search
<1>2. SUFFICES ASSUME ~(Len(stored) >= Size) PROVE FALSE
  BY <1>1
<1> DEFINE s == Len(stored)
           w == Len(dwork)
           d == Message[s + 1]
           m == Len(codes[d])
           a == At(Size)
<1>3. /\ s \in Nat /\ Size \in Nat /\ w \in Nat /\ a \in Nat /\ BodyBytes \in Nat
      /\ 8 * BodyBytes - a \in Nat /\ Consumed = 8 * bytesRead - w
  BY <1>1, UnderwayNumbers, Zenon
<1>4. s < Size
  <2>1. ~(s >= Size)
    BY <1>2
  <2> HIDE DEF s
  <2> QED
    BY <1>3, <2>1
<1>5. d \in DOMAIN codes /\ w < m /\ Consumed + m <= a
  BY <1>1, <1>4, NextIncomplete, NextLetter, Zenon
<1>6. m \in Nat
  BY <1>1, <1>5, LetterCodes DEF Underway
<1> HIDE DEF s, w, d, m, a
<1> QED
  BY <1>1, <1>3, <1>5, <1>6

\* Neither working_string is written beyond its end, the coder's or that of
\* decompress, although nothing checks their lengths (handlers.c:208,
\* decompress.c:61).
THEOREM BuffersHold == CodedSpec => []BuffersFit
<1>1. CodedInv => BuffersFit
  <2> SUFFICES ASSUME CodedInv PROVE BuffersFit
    OBVIOUS
  <2>1. /\ MaxCode \in Nat /\ WorkingSize \in Nat /\ MaxCode + 8 <= WorkingSize
        /\ Len(<<>>) = 0
    BY WorkingAssumption
  <2>2. WorkingFits
    <3>1. CASE coder = "idle"
      <4>1. Len(working) = 0
        BY <2>1, <3>1 DEF CodedInv, FedCodes, CoderRest
      <4> QED
        BY <2>1, <4>1 DEF WorkingFits
    <3>2. CASE coder # "idle"
      BY <3>2 DEF CodedInv, FedCodes, CoderInv
    <3> QED
      BY <3>1, <3>2
  <2>3. Len(dwork) + 1 <= WorkingSize
    <3>1. CASE decoder \in {"idle", "open"} \/ coder = "invalid"
      <4>1. Len(dwork) = 0
        BY <2>1, <3>1 DEF CodedInv, DecoderPart
      <4> QED
        BY <2>1, <4>1
    <3>2. CASE ~(decoder \in {"idle", "open"} \/ coder = "invalid")
      <4>1. Underway
        BY <3>2 DEF CodedInv, DecoderPart, Underway
      <4>2. Len(dwork) \in Nat /\ Len(dwork) <= MaxCode + 7
        BY <4>1, UnderwayNumbers DEF Underway, Follows
      <4> HIDE DEF Underway
      <4> QED
        BY <2>1, <4>2
    <3> QED
      BY <3>1, <3>2
  <2> QED
    BY <2>2, <2>3 DEF BuffersFit
<1> QED
  BY <1>1, CodedInvariance, PTL

\* decompress prints the text that was compressed: that of the request for the
\* two coders in C, and for the accelerator that text, all that follows it up
\* to a NUL, and an 'A' for each character without a code
\* (decompress.c:58-81, handlers.c:186-228, letter_indexer.vhd:87).
THEOREM TextComesBack == CodedSpec => []TextReturns
<1>1. CodedInv => TextReturns
  <2> SUFFICES ASSUME CodedInv, decoder = "done" PROVE Shown = Message
    BY DEF TextReturns, Message
  <2>1. Underway /\ Len(stored) >= Size
    BY AtTheEnd
  <2>2. /\ Size \in Nat /\ uncompressed_len = Size /\ Len(stored) \in Nat
        /\ Message = [k \in 1 .. Size |-> Message[k]]
        /\ \A k \in 1 .. Len(stored) : k <= Size => stored[k] = Message[k]
    BY <2>1, MessageType, UnderwayNumbers DEF Underway, FileWhole, Follows
  <2>3. \A k \in 1 .. Size : k <= Len(stored) /\ k \in 1 .. Len(stored) /\ k <= Size
    BY <2>1, <2>2
  <2>4. \A k \in 1 .. Size :
           (IF k <= Len(stored) THEN stored[k] ELSE 0) = Message[k]
    BY <2>2, <2>3
  <2>5. Shown = [k \in 1 .. Size |-> Message[k]]
    BY <2>2, <2>4 DEF Shown
  <2> QED
    BY <2>2, <2>5
<1> QED
  BY <1>1, CodedInvariance, PTL

\* decompress never reads past the end of a complete file (decompress.c:58-60).
THEOREM FileIsRead == CodedSpec => []ReadsOnlyFile
<1>1. CodedInv => ReadsOnlyFile
  BY DEF CodedInv, DecoderPart, ReadsOnlyFile
<1> QED
  BY <1>1, CodedInvariance, PTL

\* What is stored behind the text are at most the bits of the padding, each
\* taken for a letter (decompress.c:53, 71).
THEOREM OverrunIsBounded == CodedSpec => []OverrunBounded
<1>1. CodedInv => OverrunBounded
  <2> SUFFICES ASSUME CodedInv, decoder \notin {"idle", "open", "runaway"},
                      coder # "invalid"
               PROVE  Len(stored) - uncompressed_len <= Slack
    BY DEF OverrunBounded, Slack
  <2>1. Underway /\ uncompressed_len = Size
    BY DEF CodedInv, DecoderPart, Underway, FileWhole
  <2> DEFINE s == Len(stored)
             w == Len(dwork)
             a == At(Size)
  <2>2. /\ s \in Nat /\ Size \in Nat /\ w \in Nat /\ a \in Nat /\ BodyBytes \in Nat
        /\ bytesRead \in Nat /\ bytesRead <= BodyBytes /\ Consumed \in Nat
        /\ Slack \in Nat /\ 8 * BodyBytes - a <= Slack /\ Consumed = 8 * bytesRead - w
    BY <2>1, UnderwayNumbers, Zenon
  <2>3. s >= Size => Consumed >= a + (s - Size)
    BY <2>1, Zenon DEF Underway, Follows
  <2> HIDE DEF s, w, a
  <2>4. s - Size <= Slack
    BY <2>2, <2>3
  <2> QED
    BY <2>1, <2>4 DEF s
<1> QED
  BY <1>1, CodedInvariance, PTL

\* Each byte of a file in the making is made of its own eight bits
\* (handlers.c:213-228).
THEOREM BytesOfFile == CodedSpec => []BytesPacked
<1>1. CodedInv => BytesPacked
  <2> SUFFICES ASSUME CodedInv PROVE BytesPacked
    OBVIOUS
  <2>1. CASE coder = "idle"
    <3>1. out = <<>>
      BY <2>1 DEF CodedInv, FedCodes, CoderRest
    <3> QED
      BY <3>1, EmptySeq DEF BytesPacked
  <2>2. CASE coder # "idle"
    BY <2>2 DEF CodedInv, FedCodes, CoderInv
  <2> QED
    BY <2>1, <2>2
<1> QED
  BY <1>1, CodedInvariance, PTL
=============================================================================
