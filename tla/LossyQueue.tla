------------------------------ MODULE LossyQueue ------------------------------
(***************************************************************************)
(* What the connection queue promises the server, although enqueue takes   *)
(* no lock: connections are handed out in the order they were accepted,    *)
(* each at most once and only after it was accepted.  Some may be skipped  *)
(* and never come again, and from the second on the queue may break the    *)
(* program.  ConnQueue is shown to implement this, and Server uses it.     *)
(***************************************************************************)
EXTENDS Integers, Sequences

VARIABLES
    accepted,  \* how many connections were accepted; they are 1 .. accepted
    served,    \* those handed to a worker, in this order
    broken     \* the program met undefined behaviour in the queue

queueVars == <<accepted, served, broken>>

QueueInit == accepted = 0 /\ served = <<>> /\ broken = FALSE

\* Those that can still be handed out.
Waiting ==
    {c \in 1 .. accepted : \A k \in 1 .. Len(served) : served[k] < c}

Enter ==
    /\ ~broken
    /\ accepted' = accepted + 1
    /\ UNCHANGED <<served, broken>>

\* Mutant: what was handed out once is handed out again.
Leave_Again(c) ==
    /\ ~broken /\ c \in 1 .. accepted
    /\ served' = Append(served, c)
    /\ UNCHANGED <<accepted, broken>>

Leave(c) ==
    /\ ~broken /\ c \in Waiting
    /\ served' = Append(served, c)
    /\ UNCHANGED <<accepted, broken>>

Break ==
    /\ ~broken /\ accepted > 1
    /\ broken' = TRUE
    /\ UNCHANGED <<accepted, served>>

QueueNext == Enter \/ (\E c \in 1 .. accepted : Leave(c)) \/ Break

QueueSpec == QueueInit /\ [][QueueNext]_queueVars
=============================================================================
