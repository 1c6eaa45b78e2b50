-------------------------- MODULE TreeHandlerProofs --------------------------
(***************************************************************************)
(* The tree handler copies every description to every place behind it, and *)
(* reports its end only when the copy and its length are complete, however *)
(* long the memory makes it wait.                                          *)
(***************************************************************************)
EXTENDS TreeHandlerBench, TLAPS

-----------------------------------------------------------------------------
(* The inductive invariant *)

\* The file lies behind the string, inside the memory, and the copy does not
\* pass the string's end.  Nothing moves before the first load.
Layout ==
    /\ Loaded => /\ tree.src + len < tree.dst
                 /\ tree.dst + 12 + len <= MemSize
                 /\ tree.off <= len
    /\ tree.state # "IDLE" => Loaded

\* What is on the bus.
Request ==
    /\ tree.read <=> tree.state = "READ_WAIT"
    /\ tree.write <=>
          tree.state \in {"WRITE_WAIT_EXTRA", "WRITE_WAIT", "WR_LEN_WAIT"}
    /\ tree.read => tree.addr = tree.src + tree.off
    /\ tree.write /\ tree.state # "WR_LEN_WAIT" =>
          tree.addr = tree.dst + 12 + tree.off /\ tree.data = tree.char
    /\ tree.write /\ tree.state = "WR_LEN_WAIT" =>
          /\ tree.addr = tree.dst + 4 + tree.k
          /\ tree.data = WordByte(tree.off, tree.k)

\* What the handler knows of the character it works on: it is the source's, it
\* is not the end where it is copied, and it is in the file when Offset moves.
Current ==
    /\ tree.state \in {"CHECK_END", "SET_WR_ADDR", "WRITE_WAIT_EXTRA",
                       "WRITE_WAIT"} =>
          tree.char = mem[tree.src + tree.off]
    /\ tree.state \in {"SET_WR_ADDR", "WRITE_WAIT_EXTRA", "WRITE_WAIT"} =>
          tree.char # 0
    /\ tree.state = "INCREMENT" =>
          /\ mem[tree.src + tree.off] # 0
          /\ mem[tree.dst + 12 + tree.off] = mem[tree.src + tree.off]

\* The length is written when all is copied, byte after byte.
LengthWritten ==
    tree.state \in {"WR_LEN", "WR_LEN_WAIT"} =>
        /\ tree.off = len
        /\ \A i \in 0 .. tree.k - 1 : mem[tree.dst + 4 + i] = WordByte(len, i)

TreeInv ==
    /\ TypeOK
    /\ TreeCopied
    /\ Layout
    /\ Request
    /\ Current
    /\ LengthWritten

-----------------------------------------------------------------------------
(* Lemmas about the operators *)

LEMMA WordByteIsByte ==
    ASSUME NEW w \in Nat, NEW k \in 0 .. 3
    PROVE  WordByte(w, k) \in Byte
<1> DEFINE divisor == <<1, 256, 65536, 16777216>>[k + 1]
<1>1. divisor \in {1, 256, 65536, 16777216}
  <2>1. k = 0 \/ k = 1 \/ k = 2 \/ k = 3
    OBVIOUS
  <2> QED
    BY <2>1
<1>2. w \div divisor \in Nat
  BY <1>1
<1> HIDE DEF divisor
<1>3. (w \div divisor) % 256 \in Byte
  BY <1>2 DEF Byte
<1> QED
  BY <1>3 DEF WordByte, divisor

\* A started copy has characters left, or is at the end of the string.
LEMMA CopyGoesOn ==
    ASSUME TreeInv,
           tree.state \in {"SET_WR_ADDR", "WRITE_WAIT_EXTRA", "WRITE_WAIT",
                           "INCREMENT"}
    PROVE  tree.off < len
<1>1. Loaded /\ tree.off <= len /\ tree.off \in Nat /\ len \in Nat
  BY DEF TreeInv, Layout, TypeOK, Loaded
<1>2. mem[tree.src + tree.off] # 0 /\ mem[tree.src + len] = 0
  BY <1>1 DEF TreeInv, Current, TreeCopied
<1>3. tree.off # len
  BY <1>2
<1> QED
  BY <1>1, <1>3

\* A request to write lies in the file.
LEMMA WritesInFile ==
    ASSUME TreeInv, tree.write
    PROVE  /\ Loaded /\ tree.addr \in Addr /\ tree.addr > tree.src + len
           /\ tree.state = "WR_LEN_WAIT" =>
                 tree.addr = tree.dst + 4 + tree.k /\ tree.k \in 0 .. 3
           /\ tree.state # "WR_LEN_WAIT" =>
                 tree.addr = tree.dst + 12 + tree.off
<1>1. /\ tree.src \in Nat /\ tree.dst \in Nat /\ tree.off \in Nat
      /\ tree.k \in 0 .. 3 /\ MemSize \in Nat
  BY MemAssumption DEF TreeInv, TypeOK
<1>2. tree.state \in {"WRITE_WAIT_EXTRA", "WRITE_WAIT", "WR_LEN_WAIT"}
  BY DEF TreeInv, Request
<1>3. Loaded
  BY <1>2 DEF TreeInv, Layout
<1>4. /\ len \in Nat /\ tree.src + len < tree.dst /\ tree.dst + 12 + len <= MemSize
      /\ tree.off <= len
  BY <1>3 DEF TreeInv, Layout, TypeOK, Loaded
<1>5. CASE tree.state = "WR_LEN_WAIT"
  <2>1. tree.addr = tree.dst + 4 + tree.k
    BY <1>5 DEF TreeInv, Request
  <2> QED
    BY <1>1, <1>3, <1>4, <1>5, <2>1 DEF Addr
<1>6. CASE tree.state # "WR_LEN_WAIT"
  <2>1. tree.addr = tree.dst + 12 + tree.off
    BY <1>6 DEF TreeInv, Request
  <2>2. tree.off < len
    BY <1>2, <1>6, CopyGoesOn
  <2> QED
    BY <1>1, <1>3, <1>4, <1>6, <2>1, <2>2 DEF Addr
<1> QED
  BY <1>5, <1>6

\* A clock edge leaves the source, the characters copied so far and the length
\* bytes written so far, and stores what is on the bus.
LEMMA MemoryStep ==
    ASSUME TreeInv, NEW wait \in BOOLEAN,
           mem' = Commit(mem, tree.write, wait, tree.addr, tree.data)
    PROVE  /\ mem' \in [Addr -> Byte]
           /\ ~tree.write => mem' = mem
           /\ Loaded =>
                 /\ \A i \in 0 .. len : mem'[tree.src + i] = mem[tree.src + i]
                 /\ \A i \in 0 .. tree.off - 1 :
                       mem'[tree.dst + 12 + i] = mem[tree.dst + 12 + i]
           /\ tree.state = "WR_LEN_WAIT" =>
                 \A i \in 0 .. tree.k - 1 :
                     mem'[tree.dst + 4 + i] = mem[tree.dst + 4 + i]
           /\ tree.write /\ ~wait => mem'[tree.addr] = tree.data
<1>1. /\ tree.src \in Nat /\ tree.dst \in Nat /\ tree.off \in Nat
      /\ tree.data \in Byte /\ mem \in [Addr -> Byte] /\ MemSize \in Nat
  BY MemAssumption DEF TreeInv, TypeOK
<1>2. CASE tree.write /\ ~wait
  <2>1. Loaded /\ tree.addr \in Addr /\ tree.addr > tree.src + len
    BY <1>2, WritesInFile
  <2>2. mem' = [mem EXCEPT ![tree.addr] = tree.data]
    BY <1>2 DEF Commit
  <2>3. /\ mem' \in [Addr -> Byte] /\ mem'[tree.addr] = tree.data
        /\ \A x \in Addr : x # tree.addr => mem'[x] = mem[x]
    BY <1>1, <2>1, <2>2
  <2>4. /\ len \in Nat /\ tree.src + len < tree.dst
        /\ tree.dst + 12 + len <= MemSize /\ tree.off <= len
    BY <2>1 DEF TreeInv, Layout, TypeOK, Loaded
  <2>5. \A i \in 0 .. len : tree.src + i \in Addr /\ tree.src + i # tree.addr
    BY <1>1, <2>1, <2>4 DEF Addr
  <2>6. /\ tree.state = "WR_LEN_WAIT" =>
              tree.addr = tree.dst + 4 + tree.k /\ tree.k \in 0 .. 3
        /\ tree.state # "WR_LEN_WAIT" => tree.addr = tree.dst + 12 + tree.off
    BY <1>2, WritesInFile
  <2>7. ASSUME NEW i \in 0 .. tree.off - 1
        PROVE  tree.dst + 12 + i \in Addr /\ tree.dst + 12 + i # tree.addr
    <3>1. tree.dst + 12 + i \in Addr
      BY <1>1, <2>4 DEF Addr
    <3>2. CASE tree.state = "WR_LEN_WAIT"
      <4>1. tree.addr = tree.dst + 4 + tree.k /\ tree.k \in 0 .. 3
        BY <2>6, <3>2
      <4> QED
        BY <1>1, <3>1, <4>1
    <3>3. CASE tree.state # "WR_LEN_WAIT"
      <4>1. tree.addr = tree.dst + 12 + tree.off
        BY <2>6, <3>3
      <4> QED
        BY <1>1, <3>1, <4>1
    <3> QED
      BY <3>2, <3>3
  <2>8. ASSUME tree.state = "WR_LEN_WAIT", NEW i \in 0 .. tree.k - 1
        PROVE  tree.dst + 4 + i \in Addr /\ tree.dst + 4 + i # tree.addr
    <3>1. tree.addr = tree.dst + 4 + tree.k /\ tree.k \in 0 .. 3
      BY <2>6, <2>8
    <3>2. i \in Nat /\ i < tree.k /\ tree.k <= 3
      BY <2>8, <3>1
    <3>3. tree.dst + 4 + i \in Addr
      <4>1. tree.dst + 4 + i < MemSize
        BY <1>1, <2>4, <3>1, <3>2
      <4> QED
        BY <1>1, <3>2, <4>1 DEF Addr
    <3>4. tree.dst + 4 + i # tree.addr
      BY <1>1, <3>1, <3>2
    <3> QED
      BY <3>3, <3>4
  <2> QED
    BY <1>2, <2>3, <2>5, <2>7, <2>8
<1>3. CASE ~(tree.write /\ ~wait)
  BY <1>1, <1>3 DEF Commit
<1> QED
  BY <1>2, <1>3

\* What a step keeps that leaves the place of the copy alone.
LEMMA CopyKept ==
    ASSUME TreeInv, NEW wait \in BOOLEAN,
           mem' = Commit(mem, tree.write, wait, tree.addr, tree.data), len' = len,
           tree'.src = tree.src, tree'.dst = tree.dst, tree'.off = tree.off
    PROVE  TreeCopied' /\ (Loaded => tree'.src + len' < tree'.dst
                                    /\ tree'.dst + 12 + len' <= MemSize
                                    /\ tree'.off <= len')
<1>1. Loaded' <=> Loaded
  BY DEF Loaded
<1>2. Loaded => tree'.src + len' < tree'.dst /\ tree'.dst + 12 + len' <= MemSize
                /\ tree'.off <= len'
  BY DEF TreeInv, Layout
<1>3. ASSUME Loaded PROVE TreeCopied'
  <2>1. /\ \A i \in 0 .. len : mem'[tree.src + i] = mem[tree.src + i]
        /\ \A i \in 0 .. tree.off - 1 :
              mem'[tree.dst + 12 + i] = mem[tree.dst + 12 + i]
    BY <1>3, MemoryStep
  <2>2. /\ \A i \in 0 .. tree.off - 1 : mem[tree.dst + 12 + i] = mem[tree.src + i]
        /\ mem[tree.src + len] = 0
        /\ \A i \in 0 .. len - 1 : mem[tree.src + i] # 0
    BY <1>3 DEF TreeInv, TreeCopied
  <2>3. len \in Nat /\ tree.off \in Nat /\ tree.off <= len
    BY <1>3 DEF TreeInv, TypeOK, Layout, Loaded
  <2>4. \A i \in 0 .. tree.off - 1 : mem'[tree.dst + 12 + i] = mem'[tree.src + i]
    BY <2>1, <2>2, <2>3
  <2>5. mem'[tree.src + len] = 0 /\ \A i \in 0 .. len - 1 : mem'[tree.src + i] # 0
    BY <2>1, <2>2, <2>3
  <2> QED
    BY <2>4, <2>5 DEF TreeCopied
<1> QED
  BY <1>1, <1>2, <1>3 DEF TreeCopied

-----------------------------------------------------------------------------
(* The invariant holds at first and is preserved by every action *)

LEMMA InitInv == BenchInit => TreeInv
  BY MemAssumption DEF BenchInit, Init, Reset, TreeInv, TypeOK, TreeCopied, Layout,
     Request, Current, LengthWritten, Loaded, States, Addr, Byte

\* A rising edge without a load: what all branches share.
Edge(wait) ==
    /\ TreeInv
    /\ mem' = Commit(mem, tree.write, wait, tree.addr, tree.data)
    /\ len' = len

LEMMA SetRdAddrInv ==
    ASSUME NEW wait \in BOOLEAN, Edge(wait), SetRdAddr
    PROVE  TreeInv'
<1> USE DEF SetRdAddr
<1>1. TypeOK /\ Layout /\ Request /\ Current /\ LengthWritten
  BY DEF Edge, TreeInv
<1>2. mem' \in [Addr -> Byte] /\ mem' = mem
  BY <1>1, MemoryStep DEF Edge, Request
<1>3. /\ tree'.src = tree.src /\ tree'.dst = tree.dst
      /\ tree'.off = tree.off /\ len' = len
  BY <1>1 DEF Edge, TypeOK
<1>4. TypeOK'
  <2>1. tree.src + tree.off \in Nat
    BY <1>1 DEF TypeOK
  <2> QED
    BY <1>1, <1>2, <1>3, <2>1 DEF TypeOK, States
<1>5. TreeCopied' /\ Layout'
  <2>1. Loaded /\ Loaded'
    BY <1>1, <1>3 DEF Layout, Loaded
  <2> QED
    BY <1>3, <2>1, CopyKept DEF Edge, Layout
<1>6. Request'
  BY <1>1 DEF TypeOK, Request
<1>7. Current'
  BY <1>1, <1>2, <1>3 DEF TypeOK, Current
<1>8. LengthWritten'
  BY <1>1, <1>2, <1>3 DEF TypeOK, LengthWritten
<1> QED
  BY <1>4, <1>5, <1>6, <1>7, <1>8 DEF TreeInv

LEMMA ReadWaitInv ==
    ASSUME NEW wait \in BOOLEAN, Edge(wait), ReadWait(wait, Fetch(mem, tree.addr))
    PROVE  TreeInv'
<1> USE DEF ReadWait
<1>1. TypeOK /\ Layout /\ Request
  BY DEF Edge, TreeInv
<1>2. mem' \in [Addr -> Byte] /\ mem' = mem
  BY <1>1, MemoryStep DEF Edge, Request
<1>3. Fetch(mem, tree.addr) = mem[tree.src + tree.off] /\ Fetch(mem, tree.addr) \in Byte
  <2>1. /\ len \in Nat /\ tree.src + len < tree.dst
        /\ tree.dst + 12 + len <= MemSize /\ tree.off <= len
        /\ tree.src \in Nat /\ tree.dst \in Nat /\ tree.off \in Nat /\ MemSize \in Nat
    BY <1>1, MemAssumption DEF Layout, TypeOK, Loaded
  <2>2. tree.addr = tree.src + tree.off /\ tree.src + tree.off \in Addr
    BY <1>1, <2>1 DEF Request, Addr
  <2> QED
    BY <1>1, <2>2 DEF TypeOK, Fetch
<1>4. /\ tree'.src = tree.src /\ tree'.dst = tree.dst
      /\ tree'.off = tree.off /\ len' = len
  BY <1>1 DEF Edge, TypeOK
<1>5. TypeOK'
  BY <1>1, <1>2, <1>3, <1>4 DEF TypeOK, States
<1>6. TreeCopied' /\ Layout'
  <2>1. Loaded /\ Loaded'
    BY <1>1, <1>4 DEF Layout, Loaded
  <2> QED
    BY <1>4, <2>1, CopyKept DEF Edge, Layout
<1>7. Request'
  BY <1>1 DEF TypeOK, Request
<1>8. Current' /\ LengthWritten'
  BY <1>1, <1>2, <1>3 DEF TypeOK, Current, LengthWritten
<1> QED
  BY <1>5, <1>6, <1>7, <1>8 DEF TreeInv

LEMMA CheckEndInv ==
    ASSUME NEW wait \in BOOLEAN, Edge(wait), CheckEnd
    PROVE  TreeInv'
<1> USE DEF CheckEnd
<1>1. TypeOK /\ Layout /\ Request /\ Current /\ LengthWritten
  BY DEF Edge, TreeInv
<1>2. mem' \in [Addr -> Byte] /\ mem' = mem
  BY <1>1, MemoryStep DEF Edge, Request
<1>3. /\ tree'.src = tree.src /\ tree'.dst = tree.dst
      /\ tree'.off = tree.off /\ len' = len
  BY <1>1 DEF Edge, TypeOK
<1>4. TypeOK'
  <2>1. CASE tree.char = 0
    <3>1. tree' = [tree EXCEPT !.state = "WR_LEN", !.k = 0] /\ 0 \in 0 .. 3
      BY <2>1
    <3> HIDE DEF CheckEnd
    <3> QED
      BY <1>1, <1>2, <1>3, <3>1 DEF TypeOK, States
  <2>2. CASE tree.char # 0
    BY <1>1, <1>2, <1>3, <2>2 DEF TypeOK, States
  <2> QED
    BY <2>1, <2>2
<1>5. TreeCopied' /\ Layout'
  <2>1. Loaded /\ Loaded'
    BY <1>1, <1>3 DEF Layout, Loaded
  <2> QED
    BY <1>3, <2>1, CopyKept DEF Edge, Layout
<1>6. Request'
  BY <1>1 DEF TypeOK, Request
<1>7. Current'
  BY <1>1, <1>2, <1>3 DEF TypeOK, Current
<1>8. LengthWritten'
  <2>1. CASE tree.char = 0
    <3>1. Loaded /\ tree.off \in 0 .. len /\ len \in Nat
      BY <1>1 DEF Layout, TypeOK, Loaded
    <3>2. mem[tree.src + tree.off] = 0 /\ \A i \in 0 .. len - 1 : mem[tree.src + i] # 0
      BY <1>1, <2>1, <3>1 DEF Edge, Current, TreeInv, TreeCopied
    <3>3. tree.off = len
      BY <3>1, <3>2
    <3>4. tree'.k = 0 /\ tree'.off = tree.off
      BY <1>1, <2>1 DEF TypeOK
    <3> QED
      BY <1>3, <3>3, <3>4 DEF LengthWritten
  <2>2. CASE tree.char # 0
    BY <1>1, <2>2 DEF TypeOK, LengthWritten
  <2> QED
    BY <2>1, <2>2
<1> QED
  BY <1>4, <1>5, <1>6, <1>7, <1>8 DEF TreeInv

LEMMA SetWrAddrInv ==
    ASSUME NEW wait \in BOOLEAN, Edge(wait), SetWrAddr
    PROVE  TreeInv'
<1> USE DEF SetWrAddr
<1>1. TypeOK /\ Layout /\ Request /\ Current /\ LengthWritten
  BY DEF Edge, TreeInv
<1>2. mem' \in [Addr -> Byte] /\ mem' = mem
  BY <1>1, MemoryStep DEF Edge, Request
<1>3. /\ tree'.src = tree.src /\ tree'.dst = tree.dst
      /\ tree'.off = tree.off /\ len' = len
  BY <1>1 DEF Edge, TypeOK
<1>4. TypeOK'
  <2>1. tree.dst + 12 + tree.off \in Nat
    BY <1>1 DEF TypeOK
  <2> QED
    BY <1>1, <1>2, <1>3, <2>1 DEF TypeOK, States
<1>5. TreeCopied' /\ Layout'
  <2>1. Loaded /\ Loaded'
    BY <1>1, <1>3 DEF Layout, Loaded
  <2> QED
    BY <1>3, <2>1, CopyKept DEF Edge, Layout
<1>6. Request'
  BY <1>1 DEF TypeOK, Request
<1>7. Current'
  BY <1>1, <1>2, <1>3 DEF TypeOK, Current
<1>8. LengthWritten'
  BY <1>1, <1>2, <1>3 DEF TypeOK, LengthWritten
<1> QED
  BY <1>4, <1>5, <1>6, <1>7, <1>8 DEF TreeInv

LEMMA WriteWaitExtraInv ==
    ASSUME NEW wait \in BOOLEAN, Edge(wait), WriteWaitExtra
    PROVE  TreeInv'
<1> USE DEF WriteWaitExtra
<1>1. TypeOK /\ Layout /\ Request /\ Current /\ LengthWritten
  BY DEF Edge, TreeInv
<1>2. /\ mem' \in [Addr -> Byte]
      /\ mem'[tree.src + tree.off] = mem[tree.src + tree.off]
  <2>1. Loaded /\ tree.off \in 0 .. len
    BY <1>1 DEF Layout, TypeOK, Loaded
  <2> QED
    BY <2>1, MemoryStep DEF Edge
<1>3. /\ tree'.src = tree.src /\ tree'.dst = tree.dst
      /\ tree'.off = tree.off /\ len' = len
  BY <1>1 DEF Edge, TypeOK
<1>4. TypeOK'
  BY <1>1, <1>2, <1>3 DEF TypeOK, States
<1>5. TreeCopied' /\ Layout'
  <2>1. Loaded /\ Loaded'
    BY <1>1, <1>3 DEF Layout, Loaded
  <2> QED
    BY <1>3, <2>1, CopyKept DEF Edge, Layout
<1>6. Request'
  BY <1>1 DEF TypeOK, Request
<1>7. Current'
  BY <1>1, <1>2, <1>3 DEF TypeOK, Current
<1>8. LengthWritten'
  BY <1>1, <1>2, <1>3 DEF TypeOK, LengthWritten
<1> QED
  BY <1>4, <1>5, <1>6, <1>7, <1>8 DEF TreeInv

LEMMA WriteWaitInv ==
    ASSUME NEW wait \in BOOLEAN, Edge(wait), WriteWait(wait)
    PROVE  TreeInv'
<1> USE DEF WriteWait
<1>1. TypeOK /\ Layout /\ Request /\ Current /\ LengthWritten
  BY DEF Edge, TreeInv
<1>2. /\ mem' \in [Addr -> Byte]
      /\ mem'[tree.src + tree.off] = mem[tree.src + tree.off]
  <2>1. Loaded /\ tree.off \in 0 .. len
    BY <1>1 DEF Layout, TypeOK, Loaded
  <2> QED
    BY <2>1, MemoryStep DEF Edge
<1>3. /\ tree'.src = tree.src /\ tree'.dst = tree.dst
      /\ tree'.off = tree.off /\ len' = len
  BY <1>1 DEF Edge, TypeOK
<1>4. TypeOK'
  BY <1>1, <1>2, <1>3 DEF TypeOK, States
<1>5. TreeCopied' /\ Layout'
  <2>1. Loaded /\ Loaded'
    BY <1>1, <1>3 DEF Layout, Loaded
  <2> QED
    BY <1>3, <2>1, CopyKept DEF Edge, Layout
<1>6. Request'
  BY <1>1 DEF TypeOK, Request
<1>7. Current'
  <2>1. mem'[tree.dst + 12 + tree.off] = tree.char
    BY <1>1, MemoryStep DEF Edge, Request
  <2> QED
    BY <1>1, <1>2, <1>3, <2>1 DEF TypeOK, Current
<1>8. LengthWritten'
  BY <1>1, <1>2, <1>3 DEF TypeOK, LengthWritten
<1> QED
  BY <1>4, <1>5, <1>6, <1>7, <1>8 DEF TreeInv

LEMMA IncrementInv ==
    ASSUME NEW wait \in BOOLEAN, Edge(wait), Increment
    PROVE  TreeInv'
<1> USE DEF Increment
<1>1. TypeOK /\ TreeCopied /\ Layout /\ Request /\ Current
  BY DEF Edge, TreeInv
<1>2. mem' \in [Addr -> Byte] /\ mem' = mem
  BY <1>1, MemoryStep DEF Edge, Request
<1>3. /\ tree.off \in Nat /\ len \in Nat /\ tree.off < len /\ Loaded /\ Loaded'
      /\ tree'.src = tree.src /\ tree'.dst = tree.dst
      /\ tree'.off = tree.off + 1 /\ len' = len
  BY <1>1, CopyGoesOn DEF Edge, TypeOK, Layout, Loaded
<1>4. TypeOK'
  <2>1. tree.off + 1 \in Nat
    BY <1>3
  <2> QED
    BY <1>1, <1>2, <1>3, <2>1 DEF TypeOK, States
<1>5. TreeCopied'
  <2>1. mem[tree.dst + 12 + tree.off] = mem[tree.src + tree.off]
    BY <1>1 DEF Current
  <2>2. \A i \in 0 .. tree.off : i = tree.off \/ i \in 0 .. tree.off - 1
    BY <1>3
  <2>3. \A i \in 0 .. tree.off : mem[tree.dst + 12 + i] = mem[tree.src + i]
    BY <1>1, <1>3, <2>1, <2>2 DEF TreeCopied
  <2> QED
    BY <1>1, <1>2, <1>3, <2>3 DEF TreeCopied
<1>6. Layout'
  BY <1>1, <1>3 DEF Layout
<1>7. Request' /\ Current' /\ LengthWritten'
  BY <1>1 DEF TypeOK, Request, Current, LengthWritten
<1> QED
  BY <1>4, <1>5, <1>6, <1>7 DEF TreeInv

LEMMA WrLenInv ==
    ASSUME NEW wait \in BOOLEAN, Edge(wait), WrLen
    PROVE  TreeInv'
<1> USE DEF WrLen
<1>1. TypeOK /\ Layout /\ Request /\ Current /\ LengthWritten
  BY DEF Edge, TreeInv
<1>2. mem' \in [Addr -> Byte] /\ mem' = mem
  BY <1>1, MemoryStep DEF Edge, Request
<1>3. /\ tree'.src = tree.src /\ tree'.dst = tree.dst
      /\ tree'.off = tree.off /\ len' = len
  BY <1>1 DEF Edge, TypeOK
<1>4. TypeOK'
  <2>1. tree.dst + 4 + tree.k \in Nat /\ WordByte(tree.off, tree.k) \in Byte
    BY <1>1, WordByteIsByte DEF TypeOK
  <2> QED
    BY <1>1, <1>2, <1>3, <2>1 DEF TypeOK, States
<1>5. TreeCopied' /\ Layout'
  <2>1. Loaded /\ Loaded'
    BY <1>1, <1>3 DEF Layout, Loaded
  <2> QED
    BY <1>3, <2>1, CopyKept DEF Edge, Layout
<1>6. Request'
  BY <1>1 DEF TypeOK, Request
<1>7. Current'
  BY <1>1, <1>2, <1>3 DEF TypeOK, Current
<1>8. LengthWritten'
  BY <1>1, <1>2, <1>3 DEF TypeOK, LengthWritten
<1> QED
  BY <1>4, <1>5, <1>6, <1>7, <1>8 DEF TreeInv

LEMMA WrLenWaitInv ==
    ASSUME NEW wait \in BOOLEAN, Edge(wait), WrLenWait(wait)
    PROVE  TreeInv'
<1> USE DEF WrLenWait
<1>1. TypeOK /\ Layout /\ Request /\ Current /\ LengthWritten
  BY DEF Edge, TreeInv
<1>2. /\ mem' \in [Addr -> Byte]
      /\ mem'[tree.src + tree.off] = mem[tree.src + tree.off]
  <2>1. Loaded /\ tree.off \in 0 .. len
    BY <1>1 DEF Layout, TypeOK, Loaded
  <2> QED
    BY <2>1, MemoryStep DEF Edge
<1>3. /\ tree'.src = tree.src /\ tree'.dst = tree.dst
      /\ tree'.off = tree.off /\ len' = len
  BY <1>1 DEF Edge, TypeOK
<1>4. TypeOK'
  <2>1. tree.k + 1 \in 0 .. 3
    BY <1>1 DEF TypeOK
  <2> QED
    BY <1>1, <1>2, <1>3, <2>1 DEF TypeOK, States
<1>5. TreeCopied' /\ Layout'
  <2>1. Loaded /\ Loaded'
    BY <1>1, <1>3 DEF Layout, Loaded
  <2> QED
    BY <1>3, <2>1, CopyKept DEF Edge, Layout
<1>6. Request'
  BY <1>1 DEF TypeOK, Request
<1>7. Current'
  BY <1>1, <1>2, <1>3 DEF TypeOK, Current
<1>8. LengthWritten'
  <2>1. /\ tree.off = len /\ tree.k \in 0 .. 3
        /\ \A i \in 0 .. tree.k - 1 : mem'[tree.dst + 4 + i] = WordByte(len, i)
    BY <1>1, MemoryStep DEF Edge, LengthWritten, TypeOK
  <2>2. mem'[tree.dst + 4 + tree.k] = WordByte(len, tree.k)
    BY <1>1, <2>1, MemoryStep DEF Edge, Request
  <2>3. \A i \in 0 .. tree.k : i = tree.k \/ i \in 0 .. tree.k - 1
    BY <2>1
  <2>4. tree'.k = tree.k + 1 /\ tree'.k - 1 = tree.k
    BY <1>1, <2>1 DEF TypeOK
  <2> QED
    BY <1>3, <2>1, <2>2, <2>3, <2>4 DEF LengthWritten
<1> QED
  BY <1>4, <1>5, <1>6, <1>7, <1>8 DEF TreeInv

LEMMA WrLenLastInv ==
    ASSUME NEW wait \in BOOLEAN, Edge(wait), WrLenLast(wait)
    PROVE  TreeInv'
<1> USE DEF WrLenLast
<1>1. TypeOK /\ Layout /\ Request /\ Current /\ LengthWritten
  BY DEF Edge, TreeInv
<1>2. /\ mem' \in [Addr -> Byte]
      /\ mem'[tree.src + tree.off] = mem[tree.src + tree.off]
  <2>1. Loaded /\ tree.off \in 0 .. len
    BY <1>1 DEF Layout, TypeOK, Loaded
  <2> QED
    BY <2>1, MemoryStep DEF Edge
<1>3. /\ tree'.src = tree.src /\ tree'.dst = tree.dst
      /\ tree'.off = tree.off /\ len' = len
  BY <1>1 DEF Edge, TypeOK
<1>4. TypeOK'
  BY <1>1, <1>2, <1>3 DEF TypeOK, States
<1>5. TreeCopied' /\ Layout'
  <2>1. Loaded /\ Loaded'
    BY <1>1, <1>3 DEF Layout, Loaded
  <2> QED
    BY <1>3, <2>1, CopyKept DEF Edge, Layout
<1>6. Request'
  BY <1>1 DEF TypeOK, Request
<1>7. Current'
  BY <1>1, <1>2, <1>3 DEF TypeOK, Current
<1>8. LengthWritten'
  BY <1>1, <1>2, <1>3 DEF TypeOK, LengthWritten
<1> QED
  BY <1>4, <1>5, <1>6, <1>7, <1>8 DEF TreeInv

LEMMA StallInv ==
    ASSUME NEW wait \in BOOLEAN, Edge(wait), Stall(wait)
    PROVE  TreeInv'
<1> USE DEF Stall
<1>1. TypeOK /\ Layout /\ Request /\ Current /\ LengthWritten
  BY DEF Edge, TreeInv
<1>2. /\ mem' \in [Addr -> Byte]
      /\ mem'[tree.src + tree.off] = mem[tree.src + tree.off]
  <2>1. Loaded /\ tree.off \in 0 .. len
    BY <1>1 DEF Layout, TypeOK, Loaded
  <2> QED
    BY <2>1, MemoryStep DEF Edge
<1>3. /\ tree'.src = tree.src /\ tree'.dst = tree.dst
      /\ tree'.off = tree.off /\ len' = len
  BY <1>1 DEF Edge, TypeOK
<1>4. TypeOK'
  BY <1>1, <1>2, <1>3 DEF TypeOK, States
<1>5. TreeCopied' /\ Layout'
  <2>1. Loaded /\ Loaded'
    BY <1>1, <1>3 DEF Layout, Loaded
  <2> QED
    BY <1>3, <2>1, CopyKept DEF Edge, Layout
<1>6. Request'
  BY <1>1 DEF TypeOK, Request
<1>7. Current'
  BY <1>1, <1>2, <1>3 DEF TypeOK, Current
<1>8. LengthWritten'
  <2>1. CASE tree.state = "WR_LEN_WAIT"
    <3>1. /\ tree.off = len
          /\ \A i \in 0 .. tree.k - 1 : mem'[tree.dst + 4 + i] = WordByte(len, i)
      BY <1>1, <2>1, MemoryStep DEF Edge, LengthWritten
    <3> QED
      BY <1>3, <3>1 DEF LengthWritten
  <2>2. CASE tree.state # "WR_LEN_WAIT"
    BY <2>2 DEF LengthWritten
  <2> QED
    BY <2>1, <2>2
<1> QED
  BY <1>4, <1>5, <1>6, <1>7, <1>8 DEF TreeInv

LEMMA IdleInv ==
    ASSUME NEW wait \in BOOLEAN, Edge(wait), NEW start \in BOOLEAN, Idle(start),
           start => len >= 0 /\ tree.off = 0
    PROVE  TreeInv'
<1> USE DEF Idle
<1>1. TypeOK /\ Layout /\ Request
  BY DEF Edge, TreeInv
<1>2. mem' \in [Addr -> Byte] /\ mem' = mem
  BY <1>1, MemoryStep DEF Edge, Request
<1>3. /\ tree'.src = tree.src /\ tree'.dst = tree.dst
      /\ tree'.off = tree.off /\ len' = len
  BY <1>1 DEF Edge, TypeOK
<1>4. TypeOK'
  BY <1>1, <1>2, <1>3 DEF TypeOK, States
<1>5. TreeCopied' /\ Layout'
  <2>1. tree'.state # "IDLE" => Loaded
    BY <1>1 DEF TypeOK, Loaded
  <2> QED
    BY <1>3, <2>1, CopyKept DEF Edge, Layout, Loaded
<1>6. Request' /\ Current' /\ LengthWritten'
  BY <1>1 DEF TypeOK, Request, Current, LengthWritten
<1> QED
  BY <1>4, <1>5, <1>6 DEF TreeInv

\* A load finds the handler idle and nothing on the bus.
LEMMA LoadInv ==
    ASSUME TreeInv, NEW wait \in BOOLEAN, NEW src \in Srcs, NEW dst \in Dsts,
           NEW n \in 0 .. MemSize, LoadIdle(src, dst, n, wait)
    PROVE  TreeInv'
<1>1. TypeOK /\ Request /\ src \in Nat /\ dst \in Nat /\ n \in Nat
  BY MemAssumption DEF TreeInv
<1>2. tree' = [tree EXCEPT !.src = src, !.dst = dst, !.off = 0]
  BY DEF LoadIdle, Clock, Tick, Load
<1>3. tree.state = "IDLE" /\ ~tree.write /\ ~tree.read /\ len' = n
  BY <1>1 DEF LoadIdle, Request
<1>4. mem' = mem
  BY <1>3 DEF LoadIdle, Clock, Commit
<1>5. /\ tree'.state = "IDLE" /\ ~tree'.write /\ ~tree'.read
      /\ tree'.src = src /\ tree'.dst = dst /\ tree'.off = 0
  BY <1>1, <1>2, <1>3 DEF TypeOK
<1>6. TypeOK'
  BY <1>1, <1>2, <1>3, <1>4 DEF TypeOK
<1>7. TreeCopied' /\ Layout'
  BY <1>1, <1>3, <1>4, <1>5 DEF LoadIdle, Fits, TreeCopied, Layout
<1>8. Request' /\ Current' /\ LengthWritten'
  BY <1>5 DEF Request, Current, LengthWritten
<1> QED
  BY <1>6, <1>7, <1>8 DEF TreeInv

LEMMA RunInv ==
    ASSUME TreeInv, NEW wait \in BOOLEAN, NEW start \in BOOLEAN, Run(start, wait)
    PROVE  TreeInv'
<1>1. Edge(wait)
  BY DEF Run, Clock, Edge
<1>2. /\ start => len >= 0 /\ tree.off = 0
      /\ \/ Idle(start)
         \/ SetRdAddr
         \/ ReadWait(wait, Fetch(mem, tree.addr))
         \/ CheckEnd
         \/ SetWrAddr
         \/ WriteWaitExtra
         \/ WriteWait(wait)
         \/ Increment
         \/ WrLen
         \/ WrLenWait(wait)
         \/ WrLenLast(wait)
         \/ Stall(wait)
  BY DEF Run, Clock, Tick, Load
<1> QED
  BY <1>1, <1>2, IdleInv, SetRdAddrInv, ReadWaitInv, CheckEndInv, SetWrAddrInv,
     WriteWaitExtraInv, WriteWaitInv, IncrementInv, WrLenInv, WrLenWaitInv,
     WrLenLastInv, StallInv

LEMMA NextInv == TreeInv /\ [Next]_vars => TreeInv'
<1> SUFFICES ASSUME TreeInv, [Next]_vars PROVE TreeInv'
  OBVIOUS
<1>1. CASE Next
  BY <1>1, LoadInv, RunInv DEF Next
<1>2. CASE UNCHANGED vars
  BY <1>2 DEF vars, TreeInv, TypeOK, TreeCopied, Layout, Request, Current,
     LengthWritten, Loaded
<1> QED
  BY <1>1, <1>2

-----------------------------------------------------------------------------
(* The theorems *)

\* Everything the copy relies on holds in every reachable state.
THEOREM TreeInvariance == Spec => []TreeInv
  BY InitInv, NextInv, PTL DEF Spec

\* The registers, the memory and the history keep their types.
THEOREM TreeTypeCorrect == Spec => []TypeOK
<1>1. TreeInv => TypeOK
  BY DEF TreeInv
<1> QED
  BY <1>1, TreeInvariance, PTL

\* The characters passed so far are in the file and the source is intact, for
\* every description, every layout and every memory (tree_handler.vhd:70-118).
THEOREM CopyIsFaithful == Spec => []TreeCopied
<1>1. TreeInv => TreeCopied
  BY DEF TreeInv
<1> QED
  BY <1>1, TreeInvariance, PTL

\* No request leaves the string with its NUL, or the file's second word and its
\* description (tree_handler.vhd:73-163).
THEOREM KeepsInBounds == Spec => []InBounds
<1>1. ASSUME TreeInv PROVE InBounds
  <2>1. TypeOK /\ Layout /\ Request
    BY <1>1 DEF TreeInv
  <2>2. ASSUME tree.read PROVE tree.addr \in tree.src .. tree.src + len
    BY <2>1, <2>2 DEF Request, Layout, TypeOK, Loaded
  <2>3. ASSUME tree.write
        PROVE  \/ tree.addr \in tree.dst + 4 .. tree.dst + 7
               \/ tree.addr \in tree.dst + 12 .. tree.dst + 11 + len
    <3>1. CASE tree.state = "WR_LEN_WAIT"
      BY <2>1, <2>3, <3>1 DEF Request, TypeOK
    <3>2. CASE tree.state # "WR_LEN_WAIT"
      <4>1. tree.addr = tree.dst + 12 + tree.off /\ tree.off < len
        BY <1>1, <2>1, <2>3, <3>2, CopyGoesOn DEF Request
      <4> QED
        BY <2>1, <4>1 DEF TypeOK
    <3> QED
      BY <3>1, <3>2
  <2> QED
    BY <2>2, <2>3 DEF InBounds
<1> QED
  BY <1>1, TreeInvariance, PTL

\* done_o rises only after the whole string and the four bytes of its length
\* are in the memory (tree_handler.vhd:119-171).
THEOREM DoneAfterCopy == Spec => DoneIsComplete
<1> DEFINE Complete ==
        tree'.done /\ ~tree.done =>
            /\ tree'.size = len /\ tree.off = len
            /\ \A k \in 0 .. 3 : mem'[tree.dst + 4 + k] = WordByte(len, k)
<1>1. TreeInv /\ [Next]_vars => [Complete]_vars
  <2> SUFFICES ASSUME TreeInv, Next, tree'.done, ~tree.done PROVE Complete
    OBVIOUS
  <2>1. TypeOK /\ Request /\ LengthWritten
    BY DEF TreeInv
  <2>2. PICK wait \in BOOLEAN, start \in BOOLEAN : Run(start, wait)
    <3>1. ASSUME NEW wait \in BOOLEAN, NEW src \in Srcs, NEW dst \in Dsts,
                 NEW n \in 0 .. MemSize, LoadIdle(src, dst, n, wait)
          PROVE  FALSE
      <4>1. tree'.done = tree.done
        BY <2>1, <3>1 DEF LoadIdle, Clock, Tick, Load, TypeOK
      <4> QED
        BY <4>1
    <3> QED
      BY <3>1 DEF Next
  <2>3. WrLenLast(wait)
    BY <2>1, <2>2 DEF Run, Clock, Tick, Load, Idle, SetRdAddr, ReadWait, CheckEnd,
       SetWrAddr, WriteWaitExtra, WriteWait, Increment, WrLen, WrLenWait, Stall, TypeOK
  <2>4. mem' = Commit(mem, tree.write, wait, tree.addr, tree.data)
    BY <2>2 DEF Run, Clock
  <2>5. tree.state = "WR_LEN_WAIT" /\ ~wait /\ tree.k = 3 /\ tree'.size = tree.off
    BY <2>1, <2>3 DEF WrLenLast, TypeOK
  <2>6. tree.off = len /\ \A i \in 0 .. 2 : mem'[tree.dst + 4 + i] = WordByte(len, i)
    BY <2>1, <2>4, <2>5, MemoryStep DEF Edge, LengthWritten
  <2>7. mem'[tree.dst + 4 + 3] = WordByte(len, 3)
    BY <2>1, <2>4, <2>5, <2>6, MemoryStep DEF Request
  <2>8. \A k \in 0 .. 3 : k = 3 \/ k \in 0 .. 2
    OBVIOUS
  <2> QED
    BY <2>5, <2>6, <2>7, <2>8
<1> QED
  BY <1>1, TreeInvariance, PTL DEF Spec, DoneIsComplete
=============================================================================
