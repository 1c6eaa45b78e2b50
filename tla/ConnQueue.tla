------------------------------ MODULE ConnQueue ------------------------------
(***************************************************************************)
(* linux_program/src/conn_queue.c and its two users in main.c: the main    *)
(* thread accepts connections and enqueues them without taking queue_mutex,*)
(* the workers of the pool dequeue them under it.                          *)
(*                                                                         *)
(* One step is one access to shared memory (head, tail or a field of a     *)
(* node), in program order, as in the build without optimisation that the  *)
(* Makefile makes.  A node is named by the number of its connection; a     *)
(* freed node is not allocated again.  Once the program dereferences NULL  *)
(* or writes to a freed node (fault) its further behaviour is undefined    *)
(* and the model stops.                                                    *)
(*                                                                         *)
(* Assumption: memory is sequentially consistent.  A node is published     *)
(* without a barrier; on cores that reorder stores, what holds here need   *)
(* not hold, while what fails here fails all the more.                     *)
(***************************************************************************)
EXTENDS Integers, Sequences, FiniteSets

CONSTANTS Workers,   \* the threads of the pool (10 in the source)
          NoWorker,  \* a value that is no worker: the mutex is free
          MaxConns   \* bound: connections accepted

ASSUME ConnsAssumption == MaxConns \in Nat
ASSUME WorkersAssumption == NoWorker \notin Workers

VARIABLES
    head, tail,   \* the queue: a node, or NULL
    next,         \* the field next of each node (NoUseAfterFree: never that of NULL)
    freed,        \* the nodes given back to malloc
    epc, n, etail,    \* the main thread: its place, its node, the tail it loaded
    mutex,        \* the worker that holds queue_mutex, or NoWorker
    wpc, sock, old, nxt,  \* per worker: its place and the locals of dequeue
    served,       \* history: connections in the order dequeue returned them
    fault         \* the undefined behaviour met, if any

evars == <<epc, n, etail>>
wvars == <<mutex, wpc, sock, old, nxt, freed, served>>
vars == <<head, tail, next, evars, wvars, fault>>

NULL == 0
Conns == 1 .. MaxConns
Node == Conns \cup {NULL}

Init ==
    /\ head = NULL /\ tail = NULL
    /\ next = [c \in Node |-> NULL]
    /\ freed = {}
    /\ epc = "accept" /\ n = NULL /\ etail = NULL
    /\ mutex = NoWorker
    /\ wpc = [w \in Workers |-> "lock"]
    /\ sock = [w \in Workers |-> NULL]
    /\ old = [w \in Workers |-> NULL]
    /\ nxt = [w \in Workers |-> NULL]
    /\ served = <<>>
    /\ fault = "none"

-----------------------------------------------------------------------------
(* enqueue, by the main thread *)

\* accept returned the next connection; its node is allocated and filled.
Accept ==
    /\ epc = "accept" /\ n < MaxConns
    /\ n' = n + 1
    /\ epc' = "test"
    /\ UNCHANGED <<head, tail, next, etail, wvars, fault>>

\* Mutant: the empty-queue case is always taken.
TestTail_AlwaysHead ==
    /\ epc = "test"
    /\ epc' = "head"
    /\ UNCHANGED <<head, tail, next, n, etail, wvars, fault>>

TestTail ==
    /\ epc = "test"
    /\ epc' = IF tail = NULL THEN "head" ELSE "load"
    /\ UNCHANGED <<head, tail, next, n, etail, wvars, fault>>

SetHead ==
    /\ epc = "head"
    /\ head' = n
    /\ epc' = "tail"
    /\ UNCHANGED <<tail, next, n, etail, wvars, fault>>

\* tail->next = new_node loads tail a second time.
LoadTail ==
    /\ epc = "load"
    /\ etail' = tail
    /\ epc' = "link"
    /\ UNCHANGED <<head, tail, next, n, wvars, fault>>

Link ==
    /\ epc = "link" /\ etail \in Conns \ freed
    /\ next' = [next EXCEPT ![etail] = n]
    /\ epc' = "tail"
    /\ UNCHANGED <<head, tail, n, etail, wvars, fault>>

LinkFault ==
    /\ epc = "link" /\ etail \notin Conns \ freed
    /\ fault' = IF etail = NULL THEN "null" ELSE "freed"
    /\ UNCHANGED <<head, tail, next, evars, wvars>>

SetTail ==
    /\ epc = "tail"
    /\ tail' = n
    /\ epc' = "accept"
    /\ UNCHANGED <<head, next, n, etail, wvars, fault>>

Enqueue ==
    Accept \/ TestTail \/ SetHead \/ LoadTail \/ Link \/ LinkFault \/ SetTail

-----------------------------------------------------------------------------
(* common_thread_function and dequeue, by worker w *)

Goto(w, pc) == wpc' = [wpc EXCEPT ![w] = pc]

\* Mutant: the mutex is not taken.
Lock_NoMutex(w) ==
    /\ wpc[w] = "lock"
    /\ mutex' = w
    /\ Goto(w, "test")
    /\ UNCHANGED <<head, tail, next, evars, sock, old, nxt, freed, served, fault>>

Lock(w) ==
    /\ wpc[w] = "lock" /\ mutex = NoWorker
    /\ mutex' = w
    /\ Goto(w, "test")
    /\ UNCHANGED <<head, tail, next, evars, sock, old, nxt, freed, served, fault>>

\* An empty queue: dequeue returns NULL and the worker spins.
TestHead(w) ==
    /\ wpc[w] = "test"
    /\ sock' = [sock EXCEPT ![w] = NULL]
    /\ Goto(w, IF head = NULL THEN "unlock" ELSE "sock")
    /\ UNCHANGED <<head, tail, next, evars, mutex, old, nxt, freed, served, fault>>

LoadSocket(w) ==
    /\ wpc[w] = "sock"
    /\ sock' = [sock EXCEPT ![w] = head]
    /\ Goto(w, "old")
    /\ UNCHANGED <<head, tail, next, evars, mutex, old, nxt, freed, served, fault>>

LoadOld(w) ==
    /\ wpc[w] = "old"
    /\ old' = [old EXCEPT ![w] = head]
    /\ Goto(w, "next")
    /\ UNCHANGED <<head, tail, next, evars, mutex, sock, nxt, freed, served, fault>>

LoadNext(w) ==
    /\ wpc[w] = "next"
    /\ nxt' = [nxt EXCEPT ![w] = next[head]]
    /\ Goto(w, "head")
    /\ UNCHANGED <<head, tail, next, evars, mutex, sock, old, freed, served, fault>>

\* Mutant: head is not moved on.
StoreHead_Forgotten(w) ==
    /\ wpc[w] = "head"
    /\ Goto(w, "empty")
    /\ UNCHANGED <<head, tail, next, evars, mutex, sock, old, nxt, freed, served, fault>>

StoreHead(w) ==
    /\ wpc[w] = "head"
    /\ head' = nxt[w]
    /\ Goto(w, "empty")
    /\ UNCHANGED <<tail, next, evars, mutex, sock, old, nxt, freed, served, fault>>

TestEmpty(w) ==
    /\ wpc[w] = "empty"
    /\ Goto(w, IF head = NULL THEN "tail" ELSE "free")
    /\ UNCHANGED <<head, tail, next, evars, mutex, sock, old, nxt, freed, served, fault>>

ClearTail(w) ==
    /\ wpc[w] = "tail"
    /\ tail' = NULL
    /\ Goto(w, "free")
    /\ UNCHANGED <<head, next, evars, mutex, sock, old, nxt, freed, served, fault>>

Free(w) ==
    /\ wpc[w] = "free"
    /\ freed' = freed \cup {old[w]}
    /\ Goto(w, "unlock")
    /\ UNCHANGED <<head, tail, next, evars, mutex, sock, old, nxt, served, fault>>

\* The mutex is released and a connection goes to handler.
Unlock(w) ==
    /\ wpc[w] = "unlock"
    /\ mutex' = NoWorker
    /\ served' = IF sock[w] = NULL THEN served ELSE Append(served, sock[w])
    /\ Goto(w, "lock")
    /\ UNCHANGED <<head, tail, next, evars, sock, old, nxt, freed, fault>>

Dequeue(w) ==
    \/ Lock(w)      \/ TestHead(w)  \/ LoadSocket(w) \/ LoadOld(w)
    \/ LoadNext(w)  \/ StoreHead(w) \/ TestEmpty(w)  \/ ClearTail(w)
    \/ Free(w)      \/ Unlock(w)

-----------------------------------------------------------------------------

Next == fault = "none" /\ (Enqueue \/ \E w \in Workers : Dequeue(w))

Spec == Init /\ [][Next]_vars

\* The kernel runs the main thread and some worker of the pool.
Fairness ==
    /\ WF_vars(fault = "none" /\ Enqueue)
    /\ WF_vars(fault = "none" /\ \E w \in Workers : Dequeue(w))

FairSpec == Spec /\ Fairness

-----------------------------------------------------------------------------
(* Properties *)

TypeOK ==
    /\ head \in Node /\ tail \in Node /\ n \in Node /\ etail \in Node
    /\ next \in [Node -> Node]
    /\ freed \subseteq Conns
    /\ epc \in {"accept", "test", "head", "load", "link", "tail"}
    /\ mutex \in Workers \cup {NoWorker}
    /\ wpc \in [Workers -> {"lock", "test", "sock", "old", "next", "head",
                            "empty", "tail", "free", "unlock"}]
    /\ sock \in [Workers -> Node] /\ old \in [Workers -> Node]
    /\ nxt \in [Workers -> Node]
    /\ served \in Seq(Conns)
    /\ fault \in {"none", "null", "freed"}

\* No connection is handed to two workers, and connections are handed out in
\* the order they were accepted, although enqueue runs unlocked beside dequeue.
ServedInOrder ==
    \A i, j \in 1 .. Len(served) : i < j => served[i] < served[j]

\* The queue is a lossy one.
Lossy == INSTANCE LossyQueue
            WITH accepted <- n, served <- served, broken <- fault # "none"

\* Every step of enqueue or dequeue lets one connection enter or leave, breaks
\* the program, or changes nothing that the server can see.
Implements == Lossy!QueueSpec

\* dequeue never reads a node that is freed already, nor frees one twice.
NoUseAfterFree ==
    \A w \in Workers :
        /\ wpc[w] \in {"sock", "old", "next"} => head \in Conns \ freed
        /\ wpc[w] \in {"next", "head", "empty", "tail", "free"} =>
              old[w] \in Conns \ freed /\ old[w] = sock[w]

\* The nodes a walk from head meets.
Queued ==
    LET from[c \in Node] == IF c = NULL THEN {} ELSE {c} \cup from[next[c]]
    IN  from[head]

\* The connection at the head is served, unless the program meets undefined
\* behaviour first: enqueue never replaces a head that is not served yet.
\* (Further back it does not hold: StoreHead may drop what Link just added.)
HeadIsServed ==
    \A c \in Conns :
        head = c ~> (\E i \in 1 .. Len(served) : served[i] = c)
                       \/ fault # "none"

\* Every connection accepted is served or can still be (main.c:106, "Wait for
\* connections and add them to the queue"), while no call is in progress.
NoneLost ==
    /\ fault = "none"
    /\ epc = "accept" /\ mutex = NoWorker =>
          \A c \in 1 .. n : \/ \E i \in 1 .. Len(served) : served[i] = c
                            \/ c \in Queued
=============================================================================
