------------------------------ MODULE BitLemmas ------------------------------
(***************************************************************************)
(* Facts about bit sequences, bytes and the operators Sdram packs them     *)
(* with, about words and strings in its memory, and about recursive        *)
(* functions, cited by the proofs about the code writer, the software      *)
(* coder and hw_compress.                                                  *)
(***************************************************************************)
EXTENDS Sdram, SequencesExt, SequenceTheorems, NaturalsInduction, WellFoundedInduction, TLAPS

\* Eight bits make a byte.
LEMMA PackByteBound ==
    ASSUME NEW b,
           b[1] \in 0 .. 1, b[2] \in 0 .. 1, b[3] \in 0 .. 1, b[4] \in 0 .. 1,
           b[5] \in 0 .. 1, b[6] \in 0 .. 1, b[7] \in 0 .. 1, b[8] \in 0 .. 1
    PROVE  PackByte(b) \in Byte
  BY DEF PackByte, Byte

\* The first eight of a sequence of bits make a byte.
LEMMA PackByteType ==
    ASSUME NEW b \in Bits, Len(b) >= 8
    PROVE  PackByte(b) \in Byte
<1>1. \A i \in 1 .. 8 : b[i] \in 0 .. 1
  BY ElementOfSeq DEF Bit, Bits
<1> QED
  BY <1>1, PackByteBound

\* A byte depends on its eight bits alone.
LEMMA PackByteEqual ==
    ASSUME NEW b, NEW c, \A i \in 1 .. 8 : b[i] = c[i]
    PROVE  PackByte(b) = PackByte(c)
  BY DEF PackByte

\* Bits behind bits are bits.
LEMMA AppendedBits ==
    ASSUME NEW s \in Bits, NEW t \in Bits
    PROVE  /\ s \o t \in Bits
           /\ Len(s \o t) = Len(s) + Len(t)
           /\ \A i \in 1 .. Len(s) : (s \o t)[i] = s[i]
           /\ \A i \in 1 .. Len(t) : (s \o t)[Len(s) + i] = t[i]
<1>1. Len(s) \in Nat /\ Len(t) \in Nat
  BY LenProperties DEF Bits
<1>2. /\ s \o t \in Bits
      /\ Len(s \o t) = Len(s) + Len(t)
      /\ \A i \in 1 .. Len(s) + Len(t) :
            (s \o t)[i] = IF i <= Len(s) THEN s[i] ELSE t[i - Len(s)]
  BY ConcatProperties DEF Bits
<1>3. ASSUME NEW i \in 1 .. Len(s) PROVE (s \o t)[i] = s[i]
  BY <1>1, <1>2
<1>4. ASSUME NEW i \in 1 .. Len(t) PROVE (s \o t)[Len(s) + i] = t[i]
  <2>1. Len(s) + i \in 1 .. Len(s) + Len(t) /\ ~(Len(s) + i <= Len(s))
        /\ Len(s) + i - Len(s) = i
    BY <1>1
  <2> QED
    BY <1>2, <2>1
<1> QED
  BY <1>2, <1>3, <1>4

\* (Of numbers alone: the SMT solver is lost when it sees a sequence as well.)
LEMMA NineIsNext ==
    /\ \A n \in Nat : n >= 8 => (IF 9 <= n THEN n - 9 + 1 ELSE 0) = n - 8
    /\ \A n \in Nat : n - 9 + 1 = n - 8
  OBVIOUS

\* What is left of bits behind the first byte.
LEMMA DroppedByte ==
    ASSUME NEW s \in Bits, Len(s) >= 8
    PROVE  /\ SubSeq(s, 9, Len(s)) \in Bits
           /\ Len(SubSeq(s, 9, Len(s))) = Len(s) - 8
           /\ \A i \in 1 .. Len(s) - 8 : SubSeq(s, 9, Len(s))[i] = s[i + 8]
<1>1. Len(s) \in Nat
  BY LenProperties DEF Bits
<1>2. \A i \in 9 .. Len(s) : s[i] \in Bit
  BY <1>1, ElementOfSeq DEF Bits
<1>3. /\ SubSeq(s, 9, Len(s)) \in Bits
      /\ Len(SubSeq(s, 9, Len(s))) = IF 9 <= Len(s) THEN Len(s) - 9 + 1 ELSE 0
      /\ \A i \in 1 .. Len(s) - 9 + 1 : SubSeq(s, 9, Len(s))[i] = s[9 + i - 1]
  BY <1>1, <1>2, SubSeqProperties DEF Bits
<1>4. /\ (IF 9 <= Len(s) THEN Len(s) - 9 + 1 ELSE 0) = Len(s) - 8
      /\ Len(s) - 9 + 1 = Len(s) - 8
  BY <1>1, NineIsNext, Zenon
<1>5. \A i \in 1 .. Len(s) - 8 : 9 + i - 1 = i + 8
  BY <1>1
<1> QED
  BY <1>3, <1>4, <1>5

-----------------------------------------------------------------------------
(* Induction, said of sets *)

\* A set of numbers that is not empty has a least element.
LEMMA LeastElement ==
    ASSUME NEW S \in SUBSET Nat, S # {}
    PROVE  \E n \in S : \A m \in S : n <= m
<1>1. PICK n \in S : \A m \in S : ~(<<m, n>> \in OpToRel(<, Nat))
  BY NatLessThanWellFounded, WFMin
<1>2. \A m \in S : ~(m < n)
  BY <1>1 DEF OpToRel
<1>3. \A m \in S : n <= m
  BY <1>2
<1> QED
  BY <1>3

\* What holds of 0 and is handed on by every number holds of all numbers.
LEMMA SetInduction ==
    ASSUME NEW S, 0 \in S, \A n \in Nat : n \in S => n + 1 \in S
    PROVE  Nat \subseteq S
<1> DEFINE Bad == Nat \ S
<1>1. SUFFICES ASSUME Bad # {} PROVE FALSE
  OBVIOUS
<1>2. PICK k \in Bad : \A m \in Bad : k <= m
  BY <1>1, LeastElement
<1>3. k # 0 /\ k \in Nat
  BY <1>2
<1>4. k - 1 \in Nat /\ ~(k <= k - 1) /\ (k - 1) + 1 = k
  BY <1>3
<1>5. k - 1 \in S
  BY <1>2, <1>4
<1> QED
  BY <1>2, <1>4, <1>5

\* f begins with b and goes from each value to the next by g.
Steps(f, b, g, n) ==
    \A i \in 1 .. n : f[i] = IF i = 1 THEN b ELSE g[i][f[i - 1]]

\* There is such a function.
LEMMA Recursion ==
    ASSUME NEW X, NEW b \in X, NEW g \in [Nat -> [X -> X]], NEW n \in Nat
    PROVE  \E f \in [1 .. n -> X] : Steps(f, b, g, n)
<1> DEFINE Fine(k, f) ==
              /\ f \in [1 .. k -> X]
              /\ \A i \in 1 .. k : f[i] = IF i = 1 THEN b ELSE g[i][f[i - 1]]
           S == {k \in Nat : \E f : Fine(k, f)}
<1>1. 0 \in S
  <2>1. Fine(0, [i \in 1 .. 0 |-> b])
    OBVIOUS
  <2> QED
    BY <2>1
<1>2. ASSUME NEW k \in Nat, k \in S PROVE k + 1 \in S
  <2>1. PICK f : Fine(k, f)
    BY <1>2
  <2> DEFINE last == IF k + 1 = 1 THEN b ELSE g[k + 1][f[k]]
             h == [i \in 1 .. k + 1 |-> IF i = k + 1 THEN last ELSE f[i]]
  <2>2. last \in X
    <3>1. CASE k = 0
      BY <3>1
    <3>2. CASE k # 0
      <4>1. k \in 1 .. k
        BY <3>2
      <4>2. f[k] \in X
        BY <2>1, <4>1
      <4>3. k + 1 \in Nat /\ g[k + 1] \in [X -> X]
        OBVIOUS
      <4>4. g[k + 1][f[k]] \in X
        BY <4>2, <4>3
      <4> QED
        BY <3>2, <4>4
    <3> QED
      BY <3>1, <3>2
  <2>3. \A i \in 1 .. k + 1 : i = k + 1 \/ i \in 1 .. k
    OBVIOUS
  <2>4. \A i \in 1 .. k : i \in 1 .. k + 1 /\ i # k + 1
    OBVIOUS
  <2>5. h[k + 1] = last /\ (\A i \in 1 .. k : h[i] = f[i])
    <3> HIDE DEF last
    <3>1. k + 1 \in 1 .. k + 1
      OBVIOUS
    <3> QED
      BY <2>4, <3>1
  <2>6. h \in [1 .. k + 1 -> X]
    <3> HIDE DEF last
    <3> QED
      BY <2>1, <2>2, <2>3
  <2> HIDE DEF h
  <2>7. ASSUME NEW i \in 1 .. k + 1
        PROVE  h[i] = IF i = 1 THEN b ELSE g[i][h[i - 1]]
    <3>1. i # 1 => i - 1 \in 1 .. k
      OBVIOUS
    <3>2. i # 1 => h[i - 1] = f[i - 1]
      BY <2>5, <3>1
    <3>3. CASE i = k + 1
      <4>1. i - 1 = k
        BY <3>3
      <4> QED
        BY <2>5, <3>2, <3>3, <4>1
    <3>4. CASE i \in 1 .. k
      <4>1. f[i] = IF i = 1 THEN b ELSE g[i][f[i - 1]]
        BY <2>1, <3>4
      <4> QED
        BY <2>5, <3>2, <3>4, <4>1
    <3> QED
      BY <2>3, <3>3, <3>4
  <2>8. Fine(k + 1, h)
    BY <2>6, <2>7
  <2> QED
    BY <2>8
<1>3. n \in S
  <2> HIDE DEF S
  <2> QED
    BY <1>1, <1>2, SetInduction
<1> QED
  BY <1>3 DEF Steps

-----------------------------------------------------------------------------
(* Sequences joined, one behind the other *)

\* The first n of the sequences in c, one behind the other.
Joined(c, n) == FlattenSeq([i \in 1 .. n |-> c[i]])

\* Joining sequences one after the other.
LEMMA JoinedSteps ==
    ASSUME NEW S, NEW N \in Nat, NEW c \in [1 .. N -> Seq(S)]
    PROVE  /\ Joined(c, 0) = <<>>
           /\ \A n \in 0 .. N : Joined(c, n) \in Seq(S)
           /\ \A n \in 1 .. N : Joined(c, n) = Joined(c, n - 1) \o c[n]
<1>1. Joined(c, 0) = <<>> /\ <<>> \in Seq(S)
  <2>1. [i \in 1 .. 0 |-> c[i]] = <<>> /\ <<>> \in Seq(S) /\ Len(<<>>) = 0
    BY EmptySeq
  <2> QED
    BY <2>1 DEF Joined, FlattenSeq
<1> DEFINE g == [i \in Nat |-> [p \in Seq(S) |-> IF i \in 1 .. N THEN p \o c[i] ELSE p]]
           b == IF N = 0 THEN <<>> ELSE c[1]
<1>2. b \in Seq(S)
  BY <1>1
<1>3. \A p \in Seq(S) : \A i \in 1 .. N : p \o c[i] \in Seq(S)
  BY ConcatProperties
<1>4. g \in [Nat -> [Seq(S) -> Seq(S)]]
  BY <1>3
<1>5. PICK f \in [1 .. N -> Seq(S)] : Steps(f, b, g, N)
  <2> HIDE DEF g, b
  <2> QED
    BY <1>2, <1>4, Recursion
<1>6. \A i \in 1 .. N : f[i] = IF i = 1 THEN c[1] ELSE f[i - 1] \o c[i]
  <2> TAKE i \in 1 .. N
  <2>1. CASE i = 1
    <3>1. f[i] = b
      <4> HIDE DEF g, b
      <4> QED
        BY <1>5, <2>1 DEF Steps
    <3>2. N # 0
      OBVIOUS
    <3> QED
      BY <2>1, <3>1, <3>2
  <2>2. CASE i # 1
    <3>1. i - 1 \in 1 .. N /\ i \in Nat
      BY <2>2
    <3>2. f[i - 1] \in Seq(S)
      BY <1>5, <3>1
    <3>3. g[i][f[i - 1]] = f[i - 1] \o c[i]
      BY <3>1, <3>2
    <3> HIDE DEF g, b
    <3> QED
      BY <1>5, <2>2, <3>3 DEF Steps
  <2> QED
    BY <2>1, <2>2
<1> HIDE DEF g, b
<1>7. ASSUME NEW n \in 1 .. N PROVE Joined(c, n) = f[n]
  <2> DEFINE s == [i \in 1 .. n |-> c[i]]
             E(h) == h = [i \in 1 .. Len(s) |-> IF i = 1 THEN s[i] ELSE h[i - 1] \o s[i]]
             h == CHOOSE h : E(h)
             r == [i \in 1 .. n |-> f[i]]
  <2>1. Len(s) = n
    <3>1. s \in [1 .. n -> Seq(S)] /\ n \in Nat
      OBVIOUS
    <3> HIDE DEF s
    <3> QED
      BY <3>1, IsASeq
  <2>2. \A i \in 1 .. n : s[i] = c[i] /\ i \in 1 .. N
    OBVIOUS
  <2>3. Joined(c, n) = h[n]
    <3>1. FlattenSeq(s) = h[Len(s)]
      <4>1. Len(s) # 0
        BY <2>1
      <4> HIDE DEF s
      <4> QED
        BY <4>1 DEF FlattenSeq
    <3> QED
      BY <2>1, <3>1 DEF Joined
  <2> HIDE DEF s
  <2>4. E(r)
    <3>1. \A i \in 1 .. n : r[i] = IF i = 1 THEN s[i] ELSE r[i - 1] \o s[i]
      <4> TAKE i \in 1 .. n
      <4>1. i # 1 => i - 1 \in 1 .. n
        OBVIOUS
      <4> QED
        BY <1>6, <2>2, <4>1
    <3> QED
      BY <2>1, <3>1
  <2>5. E(h)
    <3> HIDE DEF E
    <3> QED
      BY <2>4
  <2> HIDE DEF h
  <2>6. \A i \in 1 .. n : h[i] = IF i = 1 THEN c[i] ELSE h[i - 1] \o c[i]
    BY <2>1, <2>2, <2>5
  <2> DEFINE D == {k \in Nat : k \in 1 .. n => h[k] = f[k]}
  <2>7. 0 \in D
    OBVIOUS
  <2>8. ASSUME NEW k \in Nat, k \in D PROVE k + 1 \in D
    <3> SUFFICES ASSUME k + 1 \in 1 .. n PROVE h[k + 1] = f[k + 1]
      OBVIOUS
    <3>1. k + 1 \in 1 .. N /\ (k + 1) - 1 = k
      OBVIOUS
    <3>2. CASE k = 0
      BY <1>6, <2>6, <3>1, <3>2
    <3>3. CASE k # 0
      <4>1. k \in 1 .. n /\ k + 1 # 1
        BY <3>3
      <4>2. h[k] = f[k]
        BY <2>8, <4>1
      <4>3. f[k + 1] = f[k] \o c[k + 1]
        BY <1>6, <3>1, <4>1
      <4>4. h[k + 1] = h[k] \o c[k + 1]
        BY <2>6, <3>1, <4>1
      <4> QED
        BY <4>2, <4>3, <4>4
    <3> QED
      BY <3>2, <3>3
  <2>9. Nat \subseteq D
    <3> HIDE DEF D
    <3> QED
      BY <2>7, <2>8, SetInduction
  <2> QED
    BY <2>3, <2>9
<1>8. \A n \in 0 .. N : Joined(c, n) \in Seq(S)
  <2> TAKE n \in 0 .. N
  <2>1. n = 0 \/ n \in 1 .. N
    OBVIOUS
  <2> QED
    BY <1>1, <1>5, <1>7, <2>1
<1>9. \A n \in 1 .. N : Joined(c, n) = Joined(c, n - 1) \o c[n]
  <2> TAKE n \in 1 .. N
  <2>1. CASE n = 1
    <3>1. Joined(c, 1) = c[1] /\ 1 - 1 = 0 /\ c[1] \in Seq(S) /\ 1 \in 1 .. N
      BY <1>6, <1>7, <2>1
    <3> QED
      BY <1>1, <2>1, <3>1, ConcatEmptySeq
  <2>2. CASE n # 1
    <3>1. n - 1 \in 1 .. N
      BY <2>2
    <3> QED
      BY <1>6, <1>7, <2>2, <3>1
  <2> QED
    BY <2>1, <2>2
<1> QED
  BY <1>1, <1>8, <1>9

\* Fewer sequences make no more bits.
LEMMA JoinedGrows ==
    ASSUME NEW S, NEW N \in Nat, NEW c \in [1 .. N -> Seq(S)], NEW n \in 0 .. N
    PROVE  Len(Joined(c, n)) \in Nat /\ Len(Joined(c, n)) <= Len(Joined(c, N))
<1> DEFINE L(k) == Len(Joined(c, k))
           D == {k \in Nat : n + k \in 0 .. N => L(n) <= L(n + k)}
<1>1. \A k \in 0 .. N : L(k) \in Nat
  BY JoinedSteps, LenProperties
<1>2. \A k \in 1 .. N : L(k - 1) <= L(k)
  <2> TAKE k \in 1 .. N
  <2>1. k - 1 \in 0 .. N
    OBVIOUS
  <2>2. Joined(c, k) = Joined(c, k - 1) \o c[k] /\ Joined(c, k - 1) \in Seq(S) /\ c[k] \in Seq(S)
    BY <2>1, JoinedSteps
  <2>3. L(k) = L(k - 1) + Len(c[k]) /\ Len(c[k]) \in Nat /\ L(k - 1) \in Nat
    BY <1>1, <2>1, <2>2, ConcatProperties, LenProperties
  <2> HIDE DEF L
  <2> QED
    BY <2>3
<1> HIDE DEF L
<1>3. 0 \in D
  BY <1>1
<1>4. ASSUME NEW k \in Nat, k \in D PROVE k + 1 \in D
  <2> SUFFICES ASSUME n + (k + 1) \in 0 .. N PROVE L(n) <= L(n + (k + 1))
    OBVIOUS
  <2>1. /\ n + (k + 1) \in 1 .. N /\ (n + (k + 1)) - 1 = n + k /\ n + k \in 0 .. N
        /\ n \in 0 .. N
    OBVIOUS
  <2>2. L(n + k) <= L(n + (k + 1)) /\ L(n) <= L(n + k)
    BY <1>2, <1>4, <2>1
  <2> QED
    BY <1>1, <2>1, <2>2
<1>5. Nat \subseteq D
  <2> HIDE DEF D
  <2> QED
    BY <1>3, <1>4, SetInduction
<1>6. N - n \in Nat /\ n + (N - n) = N /\ N \in 0 .. N
  OBVIOUS
<1> QED
  BY <1>1, <1>5, <1>6 DEF L

-----------------------------------------------------------------------------
(* Words and strings in memory *)

\* Every byte of a word is a byte.
LEMMA WordByteType ==
    ASSUME NEW w \in Nat, NEW k \in 0 .. 3
    PROVE  WordByte(w, k) \in Byte
<1>1. \A d \in {1, 256, 65536, 16777216} : (w \div d) % 256 \in Byte
  BY DEF Byte
<1>2. <<1, 256, 65536, 16777216>>[k + 1] \in {1, 256, 65536, 16777216}
  <2>1. k = 0 \/ k = 1 \/ k = 2 \/ k = 3
    OBVIOUS
  <2> QED
    BY <2>1
<1> QED
  BY <1>1, <1>2 DEF WordByte

\* What a word can hold.
Words == {w \in Nat : w < 4294967296}

\* What is not above a word is a word.
LEMMA WordsBelow ==
    ASSUME NEW v \in Words, NEW w \in Nat, w <= v
    PROVE  w \in Words
  BY SMT DEF Words

\* Reading a word that was written gives it back.
LEMMA WordBack ==
    ASSUME NEW w \in Words
    PROVE  WordByte(w, 0) + 256 * WordByte(w, 1) + 65536 * WordByte(w, 2)
             + 16777216 * WordByte(w, 3) = w
<1>0. w \in Nat
  BY SMT DEF Words
<1>1. /\ WordByte(w, 0) = w % 256 /\ WordByte(w, 1) = (w \div 256) % 256
      /\ WordByte(w, 2) = (w \div 65536) % 256
      /\ WordByte(w, 3) = (w \div 16777216) % 256
  <2>1. w \div 1 = w
    BY SMT, <1>0
  <2> QED
    BY SMT, <2>1 DEF WordByte
<1> DEFINE a == w \div 256
           b == a \div 256
           c == b \div 256
<1>2. w \div 65536 = b /\ w \div 16777216 = c
  BY SMT, <1>0
<1>3. /\ a \in Nat /\ b \in Nat /\ c \in Nat /\ c < 256
      /\ w = 256 * a + (w % 256)
      /\ a = 256 * b + (a % 256)
      /\ b = 256 * c + (b % 256)
  <2> DEFINE Divides(n) == /\ n \div 256 \in Nat /\ n % 256 \in Nat
                           /\ n = 256 * (n \div 256) + (n % 256)
  <2>1. \A n \in Nat : Divides(n)
    BY SMT
  <2> HIDE DEF Divides
  <2>2. a \in Nat /\ w % 256 \in Nat /\ w = 256 * a + (w % 256)
    <3>1. Divides(w)
      BY <1>0, <2>1
    <3> QED
      BY Zenon, <3>1 DEF Divides
  <2> HIDE DEF a
  <2>3. b \in Nat /\ a % 256 \in Nat /\ a = 256 * b + (a % 256)
    <3>1. Divides(a)
      BY <2>1, <2>2
    <3> QED
      BY Zenon, <3>1 DEF Divides
  <2> HIDE DEF b
  <2>4. c \in Nat /\ b % 256 \in Nat /\ b = 256 * c + (b % 256)
    <3>1. Divides(b)
      BY <2>1, <2>3
    <3> QED
      BY Zenon, <3>1 DEF Divides
  <2> HIDE DEF c
  <2>6. c < 256
    BY SMT, <2>2, <2>3, <2>4 DEF Words
  <2> QED
    BY <2>2, <2>3, <2>4, <2>6, Zenon
<1> HIDE DEF a, b, c
<1>4. c % 256 = c
  BY SMT, <1>3
<1>5. w % 256 \in Nat /\ a % 256 \in Nat /\ b % 256 \in Nat
  BY SMT, <1>0, <1>3
<1>6. (w % 256) + 256 * (a % 256) + 65536 * (b % 256) + 16777216 * c = w
  BY SMT, <1>3, <1>5
<1> QED
  BY SMT, <1>1, <1>2, <1>4, <1>6 DEF a

\* A memory of n bytes.
Memory(n) == [0 .. n - 1 -> Byte]

\* The string s and its NUL are at address a.
StringAt(m, a, s) ==
    /\ \A i \in 1 .. Len(s) : m[a + i - 1] = s[i]
    /\ m[a + Len(s)] = 0

\* A word that is written stands there, and nothing else has changed.
LEMMA WordWritten ==
    ASSUME NEW n \in Nat, NEW m \in Memory(n), NEW a \in Nat, a + 3 < n,
           NEW w \in Words
    PROVE  /\ PutWord(m, a, w) \in Memory(n)
           /\ WordAt(PutWord(m, a, w), a) = w
           /\ \A x \in 0 .. n - 1 : x < a \/ x > a + 3 => PutWord(m, a, w)[x] = m[x]
<1> DEFINE p == PutWord(m, a, w)
<1>1. p = [x \in 0 .. n - 1 |-> IF x \in a .. a + 3 THEN WordByte(w, x - a) ELSE m[x]]
  BY DEF PutWord, Memory
<1>2. \A x \in 0 .. n - 1 : x \in a .. a + 3 => x - a \in 0 .. 3
  OBVIOUS
<1>3. p \in Memory(n)
  <2>1. w \in Nat
    BY SMT DEF Words
  <2> QED
    BY <1>1, <1>2, <2>1, WordByteType DEF Memory
<1>4. /\ a \in 0 .. n - 1 /\ a + 1 \in 0 .. n - 1 /\ a + 2 \in 0 .. n - 1
      /\ a + 3 \in 0 .. n - 1
      /\ a \in a .. a + 3 /\ a + 1 \in a .. a + 3 /\ a + 2 \in a .. a + 3
      /\ a + 3 \in a .. a + 3
      /\ a - a = 0 /\ (a + 1) - a = 1 /\ (a + 2) - a = 2 /\ (a + 3) - a = 3
  OBVIOUS
<1>5. /\ p[a] = WordByte(w, 0) /\ p[a + 1] = WordByte(w, 1)
      /\ p[a + 2] = WordByte(w, 2) /\ p[a + 3] = WordByte(w, 3)
  <2> HIDE DEF p
  <2> QED
    BY <1>1, <1>4
<1>6. WordAt(p, a) = w
  <2> HIDE DEF p
  <2> QED
    BY <1>5, WordBack DEF WordAt
<1>7. \A x \in 0 .. n - 1 : x < a \/ x > a + 3 => p[x] = m[x]
  <2> HIDE DEF p
  <2> QED
    BY <1>1
<1> QED
  BY <1>3, <1>6, <1>7

\* A string that is written stands there with its NUL, and nothing else has changed.
LEMMA StringWritten ==
    ASSUME NEW n \in Nat, NEW m \in Memory(n), NEW a \in Nat,
           NEW s \in Seq(Byte), a + Len(s) < n
    PROVE  /\ PutStr(m, a, s) \in Memory(n)
           /\ StringAt(PutStr(m, a, s), a, s)
           /\ \A x \in 0 .. n - 1 : x < a \/ x > a + Len(s) => PutStr(m, a, s)[x] = m[x]
<1> DEFINE p == PutStr(m, a, s)
           k == Len(s)
<1>1. k \in Nat /\ \A i \in 1 .. k : s[i] \in Byte
  BY LenProperties, ElementOfSeq
<1>2. p = [x \in 0 .. n - 1 |-> IF x \in a .. a + k - 1 THEN s[x - a + 1]
                                ELSE IF x = a + k THEN 0 ELSE m[x]]
  BY DEF PutStr, Memory
<1> HIDE DEF k
<1>3. \A x \in 0 .. n - 1 : x \in a .. a + k - 1 => x - a + 1 \in 1 .. k
  BY <1>1
<1>4. p \in Memory(n)
  BY <1>1, <1>2, <1>3 DEF Memory, Byte
<1>5. ASSUME NEW i \in 1 .. k PROVE p[a + i - 1] = s[i]
  <2>1. /\ a + i - 1 \in 0 .. n - 1 /\ a + i - 1 \in a .. a + k - 1
        /\ (a + i - 1) - a + 1 = i
    BY <1>1 DEF k
  <2> HIDE DEF p
  <2> QED
    BY <1>2, <2>1
<1>6. p[a + k] = 0
  <2>1. a + k \in 0 .. n - 1 /\ a + k \notin a .. a + k - 1
    BY <1>1 DEF k
  <2> HIDE DEF p
  <2> QED
    BY <1>2, <2>1
<1>7. \A x \in 0 .. n - 1 : x < a \/ x > a + k => p[x] = m[x]
  <2> HIDE DEF p
  <2> QED
    BY <1>1, <1>2
<1> QED
  BY <1>4, <1>5, <1>6, <1>7 DEF StringAt, k

\* str_len_mem finds the end of a string without NULs.
LEMMA StringLength ==
    ASSUME NEW n \in Nat, NEW m \in Memory(n), NEW a \in Nat,
           NEW s \in Seq(Byte), a + Len(s) < n, StringAt(m, a, s),
           \A i \in 1 .. Len(s) : s[i] # 0
    PROVE  StrLen(m, a) = Len(s)
<1> DEFINE End(k) == m[a + k] = 0 /\ \A i \in 0 .. k - 1 : m[a + i] # 0
<1>1. Len(s) \in Nat /\ Len(s) \in 0 .. n - 1 /\ DOMAIN m = 0 .. n - 1
  BY LenProperties DEF Memory
<1>2. \A i \in 0 .. Len(s) - 1 : m[a + i] # 0
  <2> TAKE i \in 0 .. Len(s) - 1
  <2>1. i + 1 \in 1 .. Len(s) /\ a + (i + 1) - 1 = a + i
    BY <1>1
  <2> QED
    BY <2>1 DEF StringAt
<1>3. m[a + Len(s)] = 0
  BY DEF StringAt
<1>4. ASSUME NEW k \in 0 .. n - 1, End(k) PROVE k = Len(s)
  <2>1. ~(k < Len(s))
    BY <1>1, <1>2, <1>4
  <2>2. ~(Len(s) < k)
    BY <1>1, <1>3, <1>4
  <2> QED
    BY <1>1, <2>1, <2>2
<1>5. StrLen(m, a) = CHOOSE k \in 0 .. n - 1 : End(k)
  BY <1>1 DEF StrLen
<1>6. End(Len(s))
  BY <1>2, <1>3
<1> HIDE DEF End
<1> QED
  BY <1>1, <1>4, <1>5, <1>6

\* A string stays where nothing is written.
LEMMA StringStays ==
    ASSUME NEW m, NEW p, NEW a \in Nat, NEW s, Len(s) \in Nat, StringAt(m, a, s),
           \A x \in a .. a + Len(s) : p[x] = m[x]
    PROVE  StringAt(p, a, s)
<1>1. \A i \in 1 .. Len(s) : a + i - 1 \in a .. a + Len(s)
  OBVIOUS
<1>2. a + Len(s) \in a .. a + Len(s)
  OBVIOUS
<1> QED
  BY <1>1, <1>2 DEF StringAt

\* A word stays where nothing is written.
LEMMA WordStays ==
    ASSUME NEW m, NEW p, NEW a \in Nat, \A x \in a .. a + 3 : p[x] = m[x]
    PROVE  WordAt(p, a) = WordAt(m, a)
<1>1. /\ a \in a .. a + 3 /\ a + 1 \in a .. a + 3 /\ a + 2 \in a .. a + 3
      /\ a + 3 \in a .. a + 3
  OBVIOUS
<1> QED
  BY <1>1 DEF WordAt
=============================================================================
