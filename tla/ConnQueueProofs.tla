---------------------------- MODULE ConnQueueProofs ----------------------------
(***************************************************************************)
(* What survives of the queue although enqueue takes no lock, for every    *)
(* number of workers and connections, if memory is sequentially consistent *)
(* (see ConnQueue).                                                        *)
(***************************************************************************)
EXTENDS ConnQueue, SequenceTheorems, TLAPS

InCall == {"sock", "old", "next", "head", "empty", "tail"}

\* The connections the queue can know: the newest one is not linked yet while
\* enqueue has not stored it.
Known == IF epc \in {"test", "head", "load", "link"} THEN n - 1 ELSE n

NamesKnown ==
    /\ head <= Known /\ tail <= Known
    /\ \A c \in Node : next[c] <= Known
    /\ \A c \in freed : c <= Known
    /\ \A w \in Workers : sock[w] <= Known /\ old[w] <= Known /\ nxt[w] <= Known
    /\ epc # "accept" => n # NULL
    /\ epc \in {"load", "link"} => n > 1
    /\ epc = "link" => etail < n

NextIsLater == \A c \in Conns : next[c] = NULL \/ next[c] > c

\* One worker at a time is between lock and unlock.
MutexHeld == \A w \in Workers : wpc[w] # "lock" <=> mutex = w

\* enqueue stores head only when no dequeue is under way.
EmptyIsQuiet ==
    /\ epc = "head" => tail = NULL
    /\ tail = NULL /\ epc \in {"accept", "test", "head"} =>
          head = NULL /\ \A w \in Workers : wpc[w] \notin InCall

InDequeue(w) ==
    /\ wpc[w] \in {"sock", "old", "next", "head"} => head # NULL
    /\ wpc[w] \in {"old", "next", "head"} => sock[w] = head
    /\ wpc[w] \in {"next", "head"} => old[w] = head
    /\ wpc[w] \in {"empty", "tail", "free"} => old[w] = sock[w] /\ sock[w] # NULL
    /\ wpc[w] = "head" => nxt[w] = NULL \/ nxt[w] > head
    /\ wpc[w] = "tail" => head = NULL
    /\ wpc[w] \in {"empty", "tail", "free", "unlock"} =>
          sock[w] = NULL \/ head = NULL \/ head > sock[w]

\* What is freed, handed out or in the hands of a worker comes before the head.
Passed ==
    /\ head # NULL =>
          /\ \A c \in freed : c < head
          /\ \A k \in 1 .. Len(served) : served[k] < head
    /\ \A w \in Workers :
        /\ wpc[w] \in {"empty", "tail", "free"} => \A c \in freed : c < old[w]
        /\ wpc[w] \in {"empty", "tail", "free", "unlock"} /\ sock[w] # NULL =>
              \A k \in 1 .. Len(served) : served[k] < sock[w]
    /\ \A k \in 1 .. Len(served) : served[k] <= Known

QueueInv ==
    /\ TypeOK
    /\ NamesKnown
    /\ NextIsLater
    /\ MutexHeld
    /\ EmptyIsQuiet
    /\ \A w \in Workers : InDequeue(w)
    /\ Passed
    /\ ServedInOrder

-----------------------------------------------------------------------------
(* One lemma per action *)

LEMMA AcceptInv ==
    ASSUME QueueInv, Accept PROVE QueueInv'
<1> USE ConnsAssumption
       DEF QueueInv, NULL, Conns, Node, evars, wvars, Accept
<1>1. TypeOK'
  BY DEF TypeOK
<1>2. NamesKnown'
  BY DEF NamesKnown, Known, TypeOK
<1>3. NextIsLater'
  BY DEF NextIsLater, NamesKnown, TypeOK
<1>4. MutexHeld'
  BY DEF MutexHeld
<1>5. EmptyIsQuiet'
  BY DEF EmptyIsQuiet, NamesKnown, TypeOK
<1>6. ASSUME NEW w \in Workers PROVE InDequeue(w)'
  BY DEF InDequeue, EmptyIsQuiet, InCall, NamesKnown, Known, TypeOK
<1>7. Passed'
  BY DEF Passed, NamesKnown, Known, TypeOK
<1>8. ServedInOrder'
  BY DEF ServedInOrder
<1> QED
  BY <1>1, <1>2, <1>3, <1>4, <1>5, <1>6, <1>7, <1>8

LEMMA TestTailInv ==
    ASSUME QueueInv, TestTail PROVE QueueInv'
<1> USE ConnsAssumption
       DEF QueueInv, NULL, Conns, Node, evars, wvars, TestTail
<1>1. TypeOK'
  BY DEF TypeOK
<1>2. NamesKnown'
  BY DEF NamesKnown, Known, TypeOK
<1>3. NextIsLater'
  BY DEF NextIsLater, NamesKnown, TypeOK
<1>4. MutexHeld'
  BY DEF MutexHeld
<1>5. EmptyIsQuiet'
  BY DEF EmptyIsQuiet, NamesKnown, TypeOK
<1>6. ASSUME NEW w \in Workers PROVE InDequeue(w)'
  BY DEF InDequeue, EmptyIsQuiet, InCall, NamesKnown, Known, TypeOK
<1>7. Passed'
  BY DEF Passed, NamesKnown, Known, TypeOK
<1>8. ServedInOrder'
  BY DEF ServedInOrder
<1> QED
  BY <1>1, <1>2, <1>3, <1>4, <1>5, <1>6, <1>7, <1>8

LEMMA SetHeadInv ==
    ASSUME QueueInv, SetHead PROVE QueueInv'
<1> USE ConnsAssumption
       DEF QueueInv, NULL, Conns, Node, evars, wvars, SetHead
<1>1. TypeOK'
  BY DEF TypeOK
<1>2. NamesKnown'
  <2>1. Known = n - 1 /\ Known' = n /\ n \in Nat
    BY DEF Known, TypeOK
  <2>2. \A m \in Node : m <= Known => m <= n
    BY <2>1
  <2>3. \A w \in Workers : sock[w] <= n /\ old[w] <= n /\ nxt[w] <= n
    BY <2>2 DEF NamesKnown, TypeOK
  <2>4. tail <= n /\ (\A c \in Node : next[c] <= n) /\ (\A c \in freed : c <= n)
    BY <2>2 DEF NamesKnown, TypeOK
  <2>5. n <= n
    BY <2>1
  <2> QED
    BY <2>1, <2>3, <2>4, <2>5 DEF NamesKnown
<1>3. NextIsLater'
  BY DEF NextIsLater, NamesKnown, TypeOK
<1>4. MutexHeld'
  BY DEF MutexHeld
<1>5. EmptyIsQuiet'
  BY DEF EmptyIsQuiet, NamesKnown, TypeOK
<1>6. ASSUME NEW w \in Workers PROVE InDequeue(w)'
  BY DEF InDequeue, EmptyIsQuiet, InCall, NamesKnown, Known, TypeOK
<1>7. Passed'
  BY DEF Passed, NamesKnown, Known, TypeOK
<1>8. ServedInOrder'
  BY DEF ServedInOrder
<1> QED
  BY <1>1, <1>2, <1>3, <1>4, <1>5, <1>6, <1>7, <1>8

LEMMA LoadTailInv ==
    ASSUME QueueInv, LoadTail PROVE QueueInv'
<1> USE ConnsAssumption
       DEF QueueInv, NULL, Conns, Node, evars, wvars, LoadTail
<1>1. TypeOK'
  BY DEF TypeOK
<1>2. NamesKnown'
  BY DEF NamesKnown, Known, TypeOK
<1>3. NextIsLater'
  BY DEF NextIsLater, NamesKnown, TypeOK
<1>4. MutexHeld'
  BY DEF MutexHeld
<1>5. EmptyIsQuiet'
  BY DEF EmptyIsQuiet, NamesKnown, TypeOK
<1>6. ASSUME NEW w \in Workers PROVE InDequeue(w)'
  BY DEF InDequeue, EmptyIsQuiet, InCall, NamesKnown, Known, TypeOK
<1>7. Passed'
  BY DEF Passed, NamesKnown, Known, TypeOK
<1>8. ServedInOrder'
  BY DEF ServedInOrder
<1> QED
  BY <1>1, <1>2, <1>3, <1>4, <1>5, <1>6, <1>7, <1>8

LEMMA LinkInv ==
    ASSUME QueueInv, Link PROVE QueueInv'
<1> USE ConnsAssumption
       DEF QueueInv, NULL, Conns, Node, evars, wvars, Link
<1>1. TypeOK'
  BY DEF TypeOK
<1>2. NamesKnown'
  <2>1. Known = n - 1 /\ Known' = n /\ n \in Nat
    BY DEF Known, TypeOK
  <2>2. \A m \in Node : m <= Known => m <= n
    BY <2>1
  <2>3. \A c \in Node : next'[c] <= n
    BY <2>1, <2>2 DEF NamesKnown, TypeOK
  <2> QED
    BY <2>1, <2>2, <2>3 DEF NamesKnown, TypeOK
<1>3. NextIsLater'
  BY DEF NextIsLater, NamesKnown, TypeOK
<1>4. MutexHeld'
  BY DEF MutexHeld
<1>5. EmptyIsQuiet'
  BY DEF EmptyIsQuiet, NamesKnown, TypeOK
<1>6. ASSUME NEW w \in Workers PROVE InDequeue(w)'
  BY DEF InDequeue, EmptyIsQuiet, InCall, NamesKnown, Known, TypeOK
<1>7. Passed'
  BY DEF Passed, NamesKnown, Known, TypeOK
<1>8. ServedInOrder'
  BY DEF ServedInOrder
<1> QED
  BY <1>1, <1>2, <1>3, <1>4, <1>5, <1>6, <1>7, <1>8

LEMMA SetTailInv ==
    ASSUME QueueInv, SetTail PROVE QueueInv'
<1> USE ConnsAssumption
       DEF QueueInv, NULL, Conns, Node, evars, wvars, SetTail
<1>1. TypeOK'
  BY DEF TypeOK
<1>2. NamesKnown'
  BY DEF NamesKnown, Known, TypeOK
<1>3. NextIsLater'
  BY DEF NextIsLater, NamesKnown, TypeOK
<1>4. MutexHeld'
  BY DEF MutexHeld
<1>5. EmptyIsQuiet'
  BY DEF EmptyIsQuiet, NamesKnown, TypeOK
<1>6. ASSUME NEW w \in Workers PROVE InDequeue(w)'
  BY DEF InDequeue, EmptyIsQuiet, InCall, NamesKnown, Known, TypeOK
<1>7. Passed'
  BY DEF Passed, NamesKnown, Known, TypeOK
<1>8. ServedInOrder'
  BY DEF ServedInOrder
<1> QED
  BY <1>1, <1>2, <1>3, <1>4, <1>5, <1>6, <1>7, <1>8

LEMMA LinkFaultInv ==
    ASSUME QueueInv, LinkFault PROVE QueueInv'
<1> USE ConnsAssumption
       DEF QueueInv, NULL, Conns, Node, evars, wvars, LinkFault
<1>1. TypeOK'
  BY DEF TypeOK
<1>2. NamesKnown'
  BY DEF NamesKnown, Known, TypeOK
<1>3. NextIsLater'
  BY DEF NextIsLater, NamesKnown, TypeOK
<1>4. MutexHeld'
  BY DEF MutexHeld
<1>5. EmptyIsQuiet'
  BY DEF EmptyIsQuiet, NamesKnown, TypeOK
<1>6. ASSUME NEW w \in Workers PROVE InDequeue(w)'
  BY DEF InDequeue, EmptyIsQuiet, InCall, NamesKnown, Known, TypeOK
<1>7. Passed'
  BY DEF Passed, NamesKnown, Known, TypeOK
<1>8. ServedInOrder'
  BY DEF ServedInOrder
<1> QED
  BY <1>1, <1>2, <1>3, <1>4, <1>5, <1>6, <1>7, <1>8

LEMMA LockInv ==
    ASSUME QueueInv, NEW w \in Workers, Lock(w) PROVE QueueInv'
<1> USE ConnsAssumption, WorkersAssumption
       DEF QueueInv, NULL, Conns, Node, evars, wvars, Lock, Goto
<1>1. TypeOK'
  BY DEF TypeOK
<1>2. NamesKnown'
  BY DEF NamesKnown, Known, TypeOK
<1>3. NextIsLater'
  BY DEF NextIsLater
<1>4. MutexHeld'
  BY DEF MutexHeld, TypeOK
<1>5. EmptyIsQuiet'
  BY DEF EmptyIsQuiet, InCall, MutexHeld, InDequeue, TypeOK
<1>6. ASSUME NEW v \in Workers PROVE InDequeue(v)'
  BY DEF InDequeue, MutexHeld, NextIsLater, TypeOK
<1>7. Passed'
  BY DEF Passed, NamesKnown, Known, MutexHeld, InDequeue, TypeOK
<1>8. ServedInOrder'
  BY DEF ServedInOrder
<1> QED
  BY <1>1, <1>2, <1>3, <1>4, <1>5, <1>6, <1>7, <1>8

LEMMA TestHeadInv ==
    ASSUME QueueInv, NEW w \in Workers, TestHead(w) PROVE QueueInv'
<1> USE ConnsAssumption, WorkersAssumption
       DEF QueueInv, NULL, Conns, Node, evars, wvars, TestHead, Goto
<1>1. TypeOK'
  BY DEF TypeOK
<1>2. NamesKnown'
  BY DEF NamesKnown, Known, TypeOK
<1>3. NextIsLater'
  BY DEF NextIsLater
<1>4. MutexHeld'
  BY DEF MutexHeld, TypeOK
<1>5. EmptyIsQuiet'
  BY DEF EmptyIsQuiet, InCall, MutexHeld, InDequeue, TypeOK
<1>6. ASSUME NEW v \in Workers PROVE InDequeue(v)'
  BY DEF InDequeue, MutexHeld, NextIsLater, TypeOK
<1>7. Passed'
  BY DEF Passed, NamesKnown, Known, MutexHeld, InDequeue, TypeOK
<1>8. ServedInOrder'
  BY DEF ServedInOrder
<1> QED
  BY <1>1, <1>2, <1>3, <1>4, <1>5, <1>6, <1>7, <1>8

LEMMA LoadSocketInv ==
    ASSUME QueueInv, NEW w \in Workers, LoadSocket(w) PROVE QueueInv'
<1> USE ConnsAssumption, WorkersAssumption
       DEF QueueInv, NULL, Conns, Node, evars, wvars, LoadSocket, Goto
<1>1. TypeOK'
  BY DEF TypeOK
<1>2. NamesKnown'
  BY DEF NamesKnown, Known, TypeOK
<1>3. NextIsLater'
  BY DEF NextIsLater
<1>4. MutexHeld'
  BY DEF MutexHeld, TypeOK
<1>5. EmptyIsQuiet'
  BY DEF EmptyIsQuiet, InCall, MutexHeld, InDequeue, TypeOK
<1>6. ASSUME NEW v \in Workers PROVE InDequeue(v)'
  BY DEF InDequeue, MutexHeld, NextIsLater, TypeOK
<1>7. Passed'
  BY DEF Passed, NamesKnown, Known, MutexHeld, InDequeue, TypeOK
<1>8. ServedInOrder'
  BY DEF ServedInOrder
<1> QED
  BY <1>1, <1>2, <1>3, <1>4, <1>5, <1>6, <1>7, <1>8

LEMMA LoadOldInv ==
    ASSUME QueueInv, NEW w \in Workers, LoadOld(w) PROVE QueueInv'
<1> USE ConnsAssumption, WorkersAssumption
       DEF QueueInv, NULL, Conns, Node, evars, wvars, LoadOld, Goto
<1>1. TypeOK'
  BY DEF TypeOK
<1>2. NamesKnown'
  BY DEF NamesKnown, Known, TypeOK
<1>3. NextIsLater'
  BY DEF NextIsLater
<1>4. MutexHeld'
  BY DEF MutexHeld, TypeOK
<1>5. EmptyIsQuiet'
  BY DEF EmptyIsQuiet, InCall, MutexHeld, InDequeue, TypeOK
<1>6. ASSUME NEW v \in Workers PROVE InDequeue(v)'
  BY DEF InDequeue, MutexHeld, NextIsLater, TypeOK
<1>7. Passed'
  BY DEF Passed, NamesKnown, Known, MutexHeld, InDequeue, TypeOK
<1>8. ServedInOrder'
  BY DEF ServedInOrder
<1> QED
  BY <1>1, <1>2, <1>3, <1>4, <1>5, <1>6, <1>7, <1>8

LEMMA LoadNextInv ==
    ASSUME QueueInv, NEW w \in Workers, LoadNext(w) PROVE QueueInv'
<1> USE ConnsAssumption, WorkersAssumption
       DEF QueueInv, NULL, Conns, Node, evars, wvars, LoadNext, Goto
<1>1. TypeOK'
  BY DEF TypeOK
<1>2. NamesKnown'
  BY DEF NamesKnown, Known, TypeOK
<1>3. NextIsLater'
  BY DEF NextIsLater
<1>4. MutexHeld'
  BY DEF MutexHeld, TypeOK
<1>5. EmptyIsQuiet'
  BY DEF EmptyIsQuiet, InCall, MutexHeld, InDequeue, TypeOK
<1>6. ASSUME NEW v \in Workers PROVE InDequeue(v)'
  BY DEF InDequeue, MutexHeld, NextIsLater, TypeOK
<1>7. Passed'
  BY DEF Passed, NamesKnown, Known, MutexHeld, InDequeue, TypeOK
<1>8. ServedInOrder'
  BY DEF ServedInOrder
<1> QED
  BY <1>1, <1>2, <1>3, <1>4, <1>5, <1>6, <1>7, <1>8

LEMMA StoreHeadInv ==
    ASSUME QueueInv, NEW w \in Workers, StoreHead(w) PROVE QueueInv'
<1> USE ConnsAssumption, WorkersAssumption
       DEF QueueInv, NULL, Conns, Node, evars, wvars, StoreHead, Goto
<1>1. TypeOK'
  BY DEF TypeOK
<1>2. NamesKnown'
  BY DEF NamesKnown, Known, TypeOK
<1>3. NextIsLater'
  BY DEF NextIsLater
<1>4. MutexHeld'
  BY DEF MutexHeld, TypeOK
<1>5. EmptyIsQuiet'
  BY DEF EmptyIsQuiet, InCall, MutexHeld, InDequeue, TypeOK
<1>6. ASSUME NEW v \in Workers PROVE InDequeue(v)'
  BY DEF InDequeue, MutexHeld, NextIsLater, TypeOK
<1>7. Passed'
  BY DEF Passed, NamesKnown, Known, MutexHeld, InDequeue, TypeOK
<1>8. ServedInOrder'
  BY DEF ServedInOrder
<1> QED
  BY <1>1, <1>2, <1>3, <1>4, <1>5, <1>6, <1>7, <1>8

LEMMA TestEmptyInv ==
    ASSUME QueueInv, NEW w \in Workers, TestEmpty(w) PROVE QueueInv'
<1> USE ConnsAssumption, WorkersAssumption
       DEF QueueInv, NULL, Conns, Node, evars, wvars, TestEmpty, Goto
<1>1. TypeOK'
  BY DEF TypeOK
<1>2. NamesKnown'
  BY DEF NamesKnown, Known, TypeOK
<1>3. NextIsLater'
  BY DEF NextIsLater
<1>4. MutexHeld'
  BY DEF MutexHeld, TypeOK
<1>5. EmptyIsQuiet'
  BY DEF EmptyIsQuiet, InCall, MutexHeld, InDequeue, TypeOK
<1>6. ASSUME NEW v \in Workers PROVE InDequeue(v)'
  BY DEF InDequeue, MutexHeld, NextIsLater, TypeOK
<1>7. Passed'
  BY DEF Passed, NamesKnown, Known, MutexHeld, InDequeue, TypeOK
<1>8. ServedInOrder'
  BY DEF ServedInOrder
<1> QED
  BY <1>1, <1>2, <1>3, <1>4, <1>5, <1>6, <1>7, <1>8

LEMMA ClearTailInv ==
    ASSUME QueueInv, NEW w \in Workers, ClearTail(w) PROVE QueueInv'
<1> USE ConnsAssumption, WorkersAssumption
       DEF QueueInv, NULL, Conns, Node, evars, wvars, ClearTail, Goto
<1>1. TypeOK'
  BY DEF TypeOK
<1>2. NamesKnown'
  BY DEF NamesKnown, Known, TypeOK
<1>3. NextIsLater'
  BY DEF NextIsLater
<1>4. MutexHeld'
  BY DEF MutexHeld, TypeOK
<1>5. EmptyIsQuiet'
  BY DEF EmptyIsQuiet, InCall, MutexHeld, InDequeue, TypeOK
<1>6. ASSUME NEW v \in Workers PROVE InDequeue(v)'
  BY DEF InDequeue, MutexHeld, NextIsLater, TypeOK
<1>7. Passed'
  BY DEF Passed, NamesKnown, Known, MutexHeld, InDequeue, TypeOK
<1>8. ServedInOrder'
  BY DEF ServedInOrder
<1> QED
  BY <1>1, <1>2, <1>3, <1>4, <1>5, <1>6, <1>7, <1>8

LEMMA FreeInv ==
    ASSUME QueueInv, NEW w \in Workers, Free(w) PROVE QueueInv'
<1> USE ConnsAssumption, WorkersAssumption
       DEF QueueInv, NULL, Conns, Node, evars, wvars, Free, Goto
<1>1. TypeOK'
  BY DEF TypeOK, InDequeue
<1>2. NamesKnown'
  BY DEF NamesKnown, Known, TypeOK
<1>3. NextIsLater'
  BY DEF NextIsLater
<1>4. MutexHeld'
  BY DEF MutexHeld, TypeOK
<1>5. EmptyIsQuiet'
  BY DEF EmptyIsQuiet, InCall, MutexHeld, InDequeue, TypeOK
<1>6. ASSUME NEW v \in Workers PROVE InDequeue(v)'
  BY DEF InDequeue, MutexHeld, NextIsLater, TypeOK
<1>7. Passed'
  BY DEF Passed, NamesKnown, Known, MutexHeld, InDequeue, TypeOK
<1>8. ServedInOrder'
  BY DEF ServedInOrder
<1> QED
  BY <1>1, <1>2, <1>3, <1>4, <1>5, <1>6, <1>7, <1>8

LEMMA UnlockInv ==
    ASSUME QueueInv, NEW w \in Workers, Unlock(w) PROVE QueueInv'
<1> USE ConnsAssumption, WorkersAssumption
       DEF QueueInv, NULL, Conns, Node, evars, wvars, Goto
<1>1. /\ served \in Seq(Conns) /\ sock[w] \in Node /\ wpc[w] = "unlock"
      /\ served' = IF sock[w] = NULL THEN served ELSE Append(served, sock[w])
  BY DEF TypeOK, Unlock
<1>2. CASE sock[w] = NULL
  <2>1. served' = served
    BY <1>1, <1>2
  <2>2. TypeOK' /\ NamesKnown' /\ NextIsLater' /\ ServedInOrder'
    BY <2>1 DEF Unlock, TypeOK, NamesKnown, Known, NextIsLater, ServedInOrder
  <2>3. MutexHeld' /\ EmptyIsQuiet'
    BY DEF Unlock, MutexHeld, EmptyIsQuiet, InCall, TypeOK
  <2>4. ASSUME NEW v \in Workers PROVE InDequeue(v)'
    BY DEF Unlock, InDequeue, MutexHeld, TypeOK
  <2>5. Passed'
    BY <2>1 DEF Unlock, Passed, Known, MutexHeld, TypeOK
  <2> QED
    BY <2>2, <2>3, <2>4, <2>5
<1>3. CASE sock[w] # NULL
  <2> DEFINE l == Len(served)
  <2>1. sock[w] \in Conns /\ l \in Nat
    BY <1>1, <1>3, LenProperties
  <2>2. /\ served' \in Seq(Conns) /\ Len(served') = l + 1
        /\ \A k \in 1 .. l : served'[k] = served[k]
        /\ served'[l + 1] = sock[w]
    BY <1>1, <1>3, <2>1, AppendProperties
  <2>3. \A k \in 1 .. l : served[k] \in Conns
    BY <1>1, ElementOfSeq
  <2> HIDE DEF l
  <2>4. TypeOK'
    BY <2>2 DEF Unlock, TypeOK
  <2>5. NamesKnown' /\ NextIsLater'
    BY DEF Unlock, NamesKnown, Known, NextIsLater
  <2>6. MutexHeld' /\ EmptyIsQuiet'
    BY DEF Unlock, MutexHeld, EmptyIsQuiet, InCall, TypeOK
  <2>7. ASSUME NEW v \in Workers PROVE InDequeue(v)'
    BY DEF Unlock, InDequeue, MutexHeld, TypeOK
  <2>8. \A k \in 1 .. l : served[k] < sock[w]
    BY <1>1, <1>3 DEF Passed, l
  <2>9. \A k \in 1 .. Len(served') : served'[k] <= sock[w]
    <3>1. \A k \in 1 .. l + 1 : k = l + 1 \/ k \in 1 .. l
      BY <2>1
    <3> QED
      BY <2>1, <2>2, <2>3, <2>8, <3>1
  <2>10. Passed'
    <3>1. sock[w] <= Known /\ (head # NULL => sock[w] < head)
      BY <1>1, <1>3, <2>1 DEF InDequeue, NamesKnown, TypeOK
    <3>2. \A k \in 1 .. Len(served') : served'[k] \in Conns
      BY <2>2, ElementOfSeq
    <3>3. Known' = Known /\ Known \in Int /\ head' = head /\ head \in Node
      BY DEF Unlock, Known, TypeOK
    <3>4. \A k \in 1 .. Len(served') :
            served'[k] <= Known' /\ (head' # NULL => served'[k] < head')
      BY <2>1, <2>9, <3>1, <3>2, <3>3
    <3>5. \A v \in Workers : wpc'[v] = "lock"
      BY <1>1 DEF Unlock, MutexHeld, TypeOK
    <3>6. head' # NULL => \A c \in freed' : c < head'
      BY <3>3 DEF Unlock, Passed
    <3> QED
      BY <3>4, <3>5, <3>6 DEF Passed
  <2>11. ServedInOrder'
    <3> SUFFICES ASSUME NEW i \in 1 .. l + 1, NEW j \in 1 .. l + 1, i < j
                 PROVE  served'[i] < served'[j]
      BY <2>2 DEF ServedInOrder
    <3>1. i \in 1 .. l
      BY <2>1
    <3>2. CASE j \in 1 .. l
      BY <2>2, <3>1, <3>2 DEF ServedInOrder, l
    <3>3. CASE j = l + 1
      BY <2>2, <2>8, <3>1, <3>3
    <3> QED
      BY <2>1, <3>2, <3>3
  <2> QED
    BY <2>4, <2>5, <2>6, <2>7, <2>10, <2>11
<1> QED
  BY <1>2, <1>3

-----------------------------------------------------------------------------
(* The theorems *)

LEMMA InitQueueInv == Init => QueueInv
<1> SUFFICES ASSUME Init PROVE QueueInv
  OBVIOUS
<1> USE ConnsAssumption, WorkersAssumption DEF Init, NULL, Conns, Node
<1>1. served \in Seq(Conns) /\ Len(served) = 0
  BY EmptySeq
<1>2. TypeOK
  BY <1>1 DEF TypeOK
<1>3. NamesKnown /\ NextIsLater /\ EmptyIsQuiet /\ \A w \in Workers : InDequeue(w)
  BY DEF NamesKnown, Known, NextIsLater, EmptyIsQuiet, InCall, InDequeue
<1>4. MutexHeld
  BY DEF MutexHeld
<1>5. Passed /\ ServedInOrder
  BY <1>1 DEF Passed, ServedInOrder
<1> QED
  BY <1>2, <1>3, <1>4, <1>5 DEF QueueInv

LEMMA NextQueueInv == QueueInv /\ [Next]_vars => QueueInv'
<1> SUFFICES ASSUME QueueInv, [Next]_vars PROVE QueueInv'
  OBVIOUS
<1>1. CASE UNCHANGED vars
  BY <1>1 DEF vars, evars, wvars, QueueInv, TypeOK, NamesKnown, Known, NextIsLater,
     MutexHeld, EmptyIsQuiet, InDequeue, Passed, ServedInOrder
<1>2. CASE Enqueue
  BY <1>2, AcceptInv, TestTailInv, SetHeadInv, LoadTailInv, LinkInv, LinkFaultInv,
     SetTailInv DEF Enqueue
<1>3. ASSUME NEW w \in Workers, Dequeue(w) PROVE QueueInv'
  BY <1>3, LockInv, TestHeadInv, LoadSocketInv, LoadOldInv, LoadNextInv,
     StoreHeadInv, TestEmptyInv, ClearTailInv, FreeInv, UnlockInv DEF Dequeue
<1> QED
  BY <1>1, <1>2, <1>3 DEF Next

\* The invariant of the queue holds whatever main and the workers interleave
\* (conn_queue.c:8-34, main.c:23-32, 107-111).
THEOREM QueueInvariance == Spec => []QueueInv
  BY InitQueueInv, NextQueueInv, PTL DEF Spec

\* Every variable of the queue keeps its type, and only connections are
\* handed out, never NULL.
THEOREM QueueTypeCorrect == Spec => []TypeOK
  BY QueueInvariance, PTL DEF QueueInv

\* In a sequentially consistent memory, dequeue never reads a freed node nor frees
\* one twice (conn_queue.c:25-31).
THEOREM DequeueTouchesLiveNodes == Spec => []NoUseAfterFree
<1>1. QueueInv => NoUseAfterFree
  <2> SUFFICES ASSUME QueueInv, NEW w \in Workers
               PROVE  /\ wpc[w] \in {"sock", "old", "next"} => head \in Conns \ freed
                      /\ wpc[w] \in {"next", "head", "empty", "tail", "free"} =>
                            old[w] \in Conns \ freed /\ old[w] = sock[w]
    BY DEF NoUseAfterFree
  <2> QED
    BY ConnsAssumption DEF QueueInv, TypeOK, InDequeue, Passed, Node, Conns, NULL
<1> QED
  BY <1>1, QueueInvariance, PTL

\* A step of the program is a step of the lossy queue or changes nothing there.
LEMMA StepIsLossy ==
    ASSUME QueueInv, QueueInv', [Next]_vars PROVE [Lossy!QueueNext]_Lossy!queueVars
<1> USE DEF Lossy!queueVars
<1>1. CASE UNCHANGED vars
  BY <1>1 DEF vars, evars, wvars
<1>2. CASE fault = "none" /\ Accept
  <2>1. Lossy!Enter
    BY <1>2 DEF Lossy!Enter, Accept, wvars
  <2> QED
    BY <2>1 DEF Lossy!QueueNext
<1>3. CASE fault = "none" /\ LinkFault
  <2>1. n > 1 /\ fault' # "none"
    BY <1>3 DEF LinkFault, QueueInv, NamesKnown
  <2>2. Lossy!Break
    BY <1>3, <2>1 DEF Lossy!Break, LinkFault, evars, wvars
  <2> QED
    BY <2>2 DEF Lossy!QueueNext
<1>4. CASE TestTail \/ SetHead \/ LoadTail \/ Link \/ SetTail
  BY <1>4 DEF TestTail, SetHead, LoadTail, Link, SetTail, wvars
<1>5. ASSUME NEW w \in Workers, fault = "none", Unlock(w), sock[w] # NULL
      PROVE  Lossy!QueueNext
  <2>1. /\ sock[w] \in Conns /\ sock[w] <= n
        /\ \A k \in 1 .. Len(served) : served[k] < sock[w]
    BY <1>5, ConnsAssumption DEF QueueInv, TypeOK, NamesKnown, Known, Passed, Unlock,
       Node, Conns, NULL
  <2>2. sock[w] \in Lossy!Waiting
    BY <2>1, ConnsAssumption DEF Lossy!Waiting, Conns, QueueInv, TypeOK, Node, NULL
  <2>3. Lossy!Leave(sock[w])
    BY <1>5, <2>2 DEF Lossy!Leave, Unlock, evars
  <2> QED
    BY <2>1, <2>3 DEF Lossy!QueueNext, Conns, QueueInv, TypeOK, Node, NULL
<1>6. ASSUME NEW w \in Workers, Dequeue(w), ~(Unlock(w) /\ sock[w] # NULL)
      PROVE  UNCHANGED <<n, served, fault>>
  BY <1>6 DEF Dequeue, Lock, TestHead, LoadSocket, LoadOld, LoadNext, StoreHead,
     TestEmpty, ClearTail, Free, Unlock, evars, NULL
<1> QED
  BY <1>1, <1>2, <1>3, <1>4, <1>5, <1>6 DEF Next, Enqueue

\* In a sequentially consistent memory, the queue of the program is a lossy queue:
\* no connection is handed out twice or before an earlier one (conn_queue.c,
\* main.c:23-32, 107-111).
THEOREM QueueIsLossy == Spec => Implements
<1>1. Init => Lossy!QueueInit
  BY DEF Init, Lossy!QueueInit, NULL
<1> QED
  BY <1>1, QueueInvariance, StepIsLossy, PTL DEF Spec, Implements, Lossy!QueueSpec
=============================================================================
