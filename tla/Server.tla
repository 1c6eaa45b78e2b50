-------------------------------- MODULE Server --------------------------------
(***************************************************************************)
(* The process server: main of main.c, the workers of the pool with the    *)
(* function handler of handlers.c and all it calls, and the thread of the  *)
(* LEDs.  Between main and the workers is the lossy queue.                 *)
(*                                                                         *)
(* Descriptors are the resource: a socket or an open file takes a free one *)
(* of Fds.  What is sent through a descriptor reaches the connection that  *)
(* owns it at that moment.                                                 *)
(***************************************************************************)
EXTENDS LossyQueue, Leds, FiniteSets

CONSTANTS
    Workers,   \* the threads of the pool (10 in the source)
    NFds,      \* descriptors left beside those main keeps open
    MaxItems   \* bound: values returned by accept

ASSUME ServerAssumption == NFds \in Nat /\ MaxItems \in Nat

Fds == 1 .. NFds
Items == 1 .. MaxItems

\* What a descriptor may stand for beside a connection.
Nobody == 0
AFile == -1

BadFd == -1

\* What recv may bring: a request, the end or an error of the connection.
Requests == {"page", "style", "icon", "soft", "hard", "post", "bad",
             "closed", "reset"}

VARIABLES
    mpc,        \* main: "pool", "listen", "addrs", "led" or "accept"
    mapped,     \* addrs points to the mapped FPGA
    len,        \* main's len, not initialised: "garbage" is a negative one
    died,       \* how the process ended: "no", "exit", "null" or "pipe"
    owner,      \* per descriptor: a connection, AFile or Nobody
    fd,         \* per item of the queue: its descriptor, or BadFd
    kind,       \* per item: what recv brought, "unread" or "over"
    reply,      \* per item: what was sent to it; "cut" is a send that failed
    wpc, item,  \* per worker: its place and its item
    opened,     \* per worker: the descriptors of files that it will close
    outcome,    \* per worker: the answer it prepared
    gpio,       \* the LEDs that show which part of the work is under way
    downloads   \* history: files opened by compress and hw_compress

mainVars == <<mpc, len, mapped>>
fdVars == <<owner, opened, downloads>>
itemVars == <<fd, kind, reply>>
workerVars == <<wpc, item, outcome>>
vars == <<queueVars, ledVars, mainVars, died, fdVars, itemVars, workerVars, gpio>>

\* The FPGA has just been configured: no LED is on.
Init ==
    /\ QueueInit /\ LedInit /\ leds = {}
    /\ mpc = "pool" /\ mapped = FALSE /\ len \in {"valid", "garbage"}
    /\ died = "no"
    /\ owner = [f \in Fds |-> Nobody]
    /\ fd = [c \in Items |-> BadFd]
    /\ kind = [c \in Items |-> "unread"]
    /\ reply = [c \in Items |-> <<>>]
    /\ wpc = [w \in Workers |-> "idle"]
    /\ item = [w \in Workers |-> 0]
    /\ opened = [w \in Workers |-> {}]
    /\ outcome = [w \in Workers |-> "none"]
    /\ gpio = {}
    /\ downloads = 0

Alive == died = "no" /\ ~broken

Die(cause) == died' = cause

Free == {f \in Fds : owner[f] = Nobody}

\* The kernel gives the lowest free descriptor.
Lowest == {f \in Free : \A g \in Free : f <= g}

-----------------------------------------------------------------------------
(* main *)

\* Creating or binding the socket, and mapping the FPGA, may fail and end it.
Advance(from, to) ==
    /\ mpc = from
    /\ \/ mpc' = to /\ UNCHANGED died
       \/ from # "pool" /\ Die("exit") /\ UNCHANGED mpc
    /\ UNCHANGED <<queueVars, ledVars, len, fdVars, itemVars, workerVars, gpio>>

StartPool == Advance("pool", "listen") /\ UNCHANGED mapped
Listen == Advance("listen", "addrs") /\ UNCHANGED mapped

\* Mutant: the mapping is left to those that use it.
MapFpga_Later == Advance("addrs", "led") /\ UNCHANGED mapped

MapFpga == Advance("addrs", "led") /\ mapped' = (mpc' = "led")

\* If the thread cannot be created, main goes on without it.
StartLeds ==
    /\ mpc = "led"
    /\ StartLedThread \/ UNCHANGED ledVars
    /\ mpc' = "accept"
    /\ UNCHANGED <<queueVars, len, mapped, died, fdVars, itemVars, workerVars, gpio>>

\* A client is accepted.  If len was negative, its connection is dropped and
\* accept fails, now and ever after.
Accept ==
    /\ mpc = "accept" /\ accepted < MaxItems
    /\ Enter
    /\ \E f \in Lowest :
        IF len = "garbage" THEN UNCHANGED <<fd, owner>>
        ELSE /\ fd' = [fd EXCEPT ![accepted + 1] = f]
             /\ owner' = [owner EXCEPT ![f] = accepted + 1]
    /\ UNCHANGED <<ledVars, mainVars, died, opened, downloads, kind, reply,
                   workerVars, gpio>>

\* No descriptor is left: accept returns -1 at once, which is not 0.
AcceptFails ==
    /\ mpc = "accept" /\ accepted < MaxItems /\ Free = {}
    /\ Enter
    /\ UNCHANGED <<ledVars, mainVars, died, fdVars, itemVars, workerVars, gpio>>

\* The queue breaks.
QueueFault ==
    /\ mpc = "accept"
    /\ Break
    /\ UNCHANGED <<ledVars, mainVars, died, fdVars, itemVars, workerVars, gpio>>

Main == StartPool \/ Listen \/ MapFpga \/ StartLeds \/ Accept \/ AcceptFails
          \/ QueueFault

-----------------------------------------------------------------------------
(* A worker: the request *)

Goto(w, pc) == wpc' = [wpc EXCEPT ![w] = pc]
Socket(w) == fd[item[w]]

Take(w) ==
    /\ wpc[w] = "idle" /\ mpc # "pool"
    /\ \E c \in 1 .. accepted :
        /\ Leave(c)
        /\ item' = [item EXCEPT ![w] = c]
    /\ Goto(w, "recv")
    /\ UNCHANGED <<ledVars, mainVars, died, fdVars, itemVars, outcome, gpio>>

\* Where a request leads.  Errors and POST get the error page at once.
Begin(w, r) ==
    /\ Goto(w, CASE r = "closed" -> "close"
                 [] r \in {"page", "style"} -> "page"
                 [] r \in {"soft", "hard"} -> "input"
                 [] OTHER -> "send")
    /\ outcome' = [outcome EXCEPT ![w] =
                     CASE r = "icon" -> "status0"
                       [] r \in {"reset", "post"} -> "500"
                       [] r = "style" -> "css"
                       [] r = "soft" -> "hfc"
                       [] r = "hard" -> "hw_hfc"
                       [] OTHER -> "none"]

\* recv returns.  parse_request cannot handle a "bad" request (another method,
\* a header line without a value): it leaves or uses a NULL.
Receive(w) ==
    /\ wpc[w] = "recv" /\ Socket(w) # BadFd
    /\ \E r \in Requests :
        /\ kind' = [kind EXCEPT ![item[w]] = r]
        /\ IF r = "bad" THEN Die("null") /\ UNCHANGED <<wpc, outcome>>
           ELSE Begin(w, r) /\ UNCHANGED died
    /\ UNCHANGED <<queueVars, ledVars, mainVars, fdVars, fd, reply, item, gpio>>

\* recv on descriptor -1 fails; handler goes on all the same.
ReceiveBad(w) ==
    /\ wpc[w] = "recv" /\ Socket(w) = BadFd
    /\ Begin(w, "reset")
    /\ UNCHANGED <<queueVars, ledVars, mainVars, died, fdVars, itemVars, item, gpio>>

-----------------------------------------------------------------------------
(* A worker: get_handler *)

\* fopen in index_handler and style_handler.  Without a file the response
\* stays as calloc made it.
OpenPage(w) ==
    /\ wpc[w] = "page"
    /\ \/ /\ \E f \in Lowest :
                /\ owner' = [owner EXCEPT ![f] = AFile]
                /\ opened' = [opened EXCEPT ![w] = {f}]
          /\ Goto(w, IF outcome[w] = "css" THEN "shut" ELSE "list")
          /\ UNCHANGED outcome
       \/ /\ Goto(w, "send")
          /\ outcome' = [outcome EXCEPT ![w] = "status0"]
          /\ UNCHANGED <<owner, opened>>
    /\ UNCHANGED <<queueVars, ledVars, mainVars, died, downloads, itemVars, item, gpio>>

\* opendir in add_items; the path of the request may not be a directory.
ListDirectory(w) ==
    /\ wpc[w] = "list"
    /\ \/ /\ \E f \in Lowest :
                /\ owner' = [owner EXCEPT ![f] = AFile]
                /\ opened' = [opened EXCEPT ![w] = @ \cup {f}]
          /\ outcome' = [outcome EXCEPT ![w] = "page"]
       \/ /\ outcome' = [outcome EXCEPT ![w] = "bare"]
          /\ UNCHANGED <<owner, opened>>
    /\ Goto(w, "shut")
    /\ UNCHANGED <<queueVars, ledVars, mainVars, died, downloads, itemVars, item, gpio>>

\* Mutant: of two descriptors only one is closed.
Shut_ForgetsOne(w) ==
    /\ wpc[w] = "shut"
    /\ \E f \in opened[w] : owner' = [owner EXCEPT ![f] = Nobody]
    /\ opened' = [opened EXCEPT ![w] = {}]
    /\ Goto(w, "send")
    /\ UNCHANGED <<queueVars, ledVars, mainVars, died, downloads, itemVars, item,
                   outcome, gpio>>

\* closedir and fclose, one after the other.
Shut(w) ==
    /\ wpc[w] = "shut"
    /\ \E f \in opened[w] :
        /\ owner' = [owner EXCEPT ![f] = Nobody]
        /\ opened' = [opened EXCEPT ![w] = @ \ {f}]
    /\ IF opened'[w] = {} THEN Goto(w, "send") ELSE UNCHANGED wpc
    /\ UNCHANGED <<queueVars, ledVars, mainVars, died, downloads, itemVars, item,
                   outcome, gpio>>

-----------------------------------------------------------------------------
(* A worker: compress and hw_compress *)

\* What they compute is in RoundTrip and HwCompress; texts have only letters of
\* the alphabet here (SoftCoder has the others).

\* fopen of the text.  The file is never closed.  If it cannot be opened, NULL
\* is returned and handler dereferences it.
OpenInput(w) ==
    /\ wpc[w] = "input"
    /\ \/ /\ \E f \in Lowest : owner' = [owner EXCEPT ![f] = AFile]
          /\ downloads' = downloads + 1
          /\ Goto(w, "read")
          /\ UNCHANGED died
       \/ Die("null") /\ UNCHANGED <<owner, downloads, wpc>>
    /\ UNCHANGED <<queueVars, ledVars, mainVars, opened, itemVars, item, outcome, gpio>>

Hard(w) == outcome[w] = "hw_hfc"

set_bit(w, from, bit, to) ==
    /\ wpc[w] = from
    /\ gpio' = gpio \cup {bit}
    /\ Goto(w, to)
    /\ UNCHANGED <<queueVars, ledVars, mainVars, died, fdVars, itemVars, item, outcome>>

clear_bit(w, from, bit, to) ==
    /\ wpc[w] = from
    /\ gpio' = gpio \ {bit}
    /\ Goto(w, to)
    /\ UNCHANGED <<queueVars, ledVars, mainVars, died, fdVars, itemVars, item, outcome>>

\* LED 2 for the Huffman tree, LED 1 for the encoding.  Mutant: LED 2 stays on.
SoftCompress_Led2Stays(w) ==
    \/ ~Hard(w) /\ set_bit(w, "read", 2, "tree")
    \/ clear_bit(w, "tree", 1, "between")
    \/ set_bit(w, "between", 1, "encode")
    \/ clear_bit(w, "encode", 1, "send")

SoftCompress(w) ==
    \/ ~Hard(w) /\ set_bit(w, "read", 2, "tree")
    \/ clear_bit(w, "tree", 2, "between")
    \/ set_bit(w, "between", 1, "encode")
    \/ clear_bit(w, "encode", 1, "send")

\* LED 0 while the accelerator is in use.
HardCompress(w) ==
    \/ Hard(w) /\ set_bit(w, "read", 0, "accelerate")
    \/ clear_bit(w, "accelerate", 0, "send")

-----------------------------------------------------------------------------
(* A worker: the answer *)

\* Mutant: the connection is closed when the answer could not be sent, and
\* once more afterwards.
Send_ClosesToo(w) ==
    /\ wpc[w] = "send"
    /\ \E sent \in {outcome[w], "cut"} :
        /\ reply' = [c \in Items |->
                        IF Socket(w) # BadFd /\ owner[Socket(w)] = c
                        THEN Append(reply[c], sent) ELSE reply[c]]
        /\ IF sent = "cut" /\ Socket(w) # BadFd
           THEN owner' = [owner EXCEPT ![Socket(w)] = Nobody]
           ELSE UNCHANGED owner
    /\ Goto(w, "close")
    /\ UNCHANGED <<queueVars, ledVars, mainVars, died, opened, downloads, fd, kind,
                   item, outcome, gpio>>

\* send: the client gets the answer, or has closed its end.  Then send fails,
\* or the signal SIGPIPE, which nobody handles, ends the process; it does so
\* always when recv had already reported the reset.
Send(w) ==
    /\ wpc[w] = "send"
    /\ \/ /\ kind[item[w]] # "reset"
          /\ \E sent \in {outcome[w], "cut"} :
                reply' = [c \in Items |->
                            IF Socket(w) # BadFd /\ owner[Socket(w)] = c
                            THEN Append(reply[c], sent) ELSE reply[c]]
          /\ Goto(w, "close")
          /\ UNCHANGED died
       \/ /\ Socket(w) # BadFd
          /\ Die("pipe")
          /\ UNCHANGED <<reply, wpc>>
    /\ UNCHANGED <<queueVars, ledVars, mainVars, fdVars, fd, kind, item, outcome, gpio>>

\* The descriptor is given back.  Its client is told that this was all: it has
\* got what it will ever get.
CloseSocket(f) ==
    /\ owner' = [owner EXCEPT ![f] = Nobody]
    /\ kind' = [c \in Items |-> IF owner[f] = c THEN "over" ELSE kind[c]]
    /\ reply' = [c \in Items |-> IF owner[f] = c THEN <<>> ELSE reply[c]]

\* Mutant: a connection without an answer is not closed.
Close_OnlyAnswered(w) ==
    /\ wpc[w] = "close"
    /\ IF Socket(w) = BadFd \/ kind[item[w]] = "closed"
       THEN UNCHANGED <<owner, kind, reply>>
       ELSE CloseSocket(Socket(w))
    /\ Goto(w, "idle")
    /\ item' = [item EXCEPT ![w] = 0]
    /\ outcome' = [outcome EXCEPT ![w] = "none"]
    /\ UNCHANGED <<queueVars, ledVars, mainVars, died, opened, downloads, fd, gpio>>

\* close, and handler returns.
Close(w) ==
    /\ wpc[w] = "close"
    /\ IF Socket(w) = BadFd THEN UNCHANGED <<owner, kind, reply>>
       ELSE CloseSocket(Socket(w))
    /\ Goto(w, "idle")
    /\ item' = [item EXCEPT ![w] = 0]
    /\ outcome' = [outcome EXCEPT ![w] = "none"]
    /\ UNCHANGED <<queueVars, ledVars, mainVars, died, opened, downloads, fd, gpio>>

\* handler behind recv.
Respond(w) ==
    \/ ReceiveBad(w)
    \/ OpenPage(w) \/ ListDirectory(w) \/ Shut(w)
    \/ OpenInput(w) \/ SoftCompress(w) \/ HardCompress(w)
    \/ Send(w) \/ Close(w)

-----------------------------------------------------------------------------

LedStep ==
    /\ LedThread
    /\ UNCHANGED <<queueVars, mainVars, died, fdVars, itemVars, workerVars, gpio>>

Next ==
    /\ Alive
    /\ \/ Main
       \/ \E w \in Workers : Take(w) \/ Receive(w) \/ Respond(w)
       \/ LedStep

Spec == Init /\ [][Next]_vars

\* The kernel runs every thread that can go on, and the accelerator answers
\* (HwCompress).  Clients need not send, but those that did read their answer or
\* go away; no worker is promised the mutex of the queue.
FairSpec ==
    /\ Spec
    /\ \A w \in Workers : WF_vars(Alive /\ Respond(w))

-----------------------------------------------------------------------------
(* Properties *)

\* What a request may be answered with.
Answers(r) ==
    CASE r = "page"  -> {"page", "bare", "status0", "cut"}
      [] r = "style" -> {"css", "status0", "cut"}
      [] r = "icon"  -> {"status0", "cut"}
      [] r = "soft"  -> {"hfc", "cut"}
      [] r = "hard"  -> {"hw_hfc", "cut"}
      [] r = "post"  -> {"500", "cut"}
      [] OTHER       -> {}

Busy(w) == wpc[w] # "idle"

\* Descriptors are reused at once.  Still a worker reads from, sends to and
\* closes the connection that it took from the queue, and nothing else
\* (handlers.c:28, 46, 111-117, 128-133, 539-544).
OwnDescriptor ==
    \A w \in Workers :
        /\ Busy(w) => Socket(w) = BadFd \/ owner[Socket(w)] = item[w]
        /\ \A f \in opened[w] : owner[f] = AFile

\* When a client's connection is closed the client has got exactly one answer,
\* of the kind that its own request calls for; none if it sent nothing.  This is
\* about routing: which text is in a file that hw_compress made is the matter of
\* EncodesOwnJob, and it can be another's when two of them run at once.
OneRightAnswer ==
    [][\A c \in Items :
        kind[c] # "over" /\ kind'[c] = "over" =>
            \/ kind[c] = "closed" /\ reply[c] = <<>>
            \/ \E a \in Answers(kind[c]) : reply[c] = <<a>>]_vars

\* Descriptors leak in two ways only: one for each download, and the sockets of
\* connections that the queue lost (handlers.c:152, 242).
NoOtherLeak ==
    /\ Cardinality({f \in Fds : owner[f] = AFile}) =
          downloads + Cardinality(UNION {opened[w] : w \in Workers})
    /\ \A f \in Fds : owner[f] \in Items =>
          LET c == owner[f]
          IN  \/ \A k \in 1 .. Len(served) : served[k] # c
              \/ \E w \in Workers : Busy(w) /\ item[w] = c

\* The memory of the FPGA is mapped before anyone uses it, although the pool
\* is started first, and whether or not the LED thread is (main.c:51-98).
AddrsReady ==
    /\ ledpc # "off" => mapped
    /\ \A w \in Workers : Busy(w) => mapped

\* A LED that is on tells the truth: some worker does that part of the work.
\* (One that is off may lie, when two workers do it: handlers.c:178, 232, 283.)
LedMeansWork ==
    /\ 2 \in gpio => \E w \in Workers : wpc[w] = "tree"
    /\ 1 \in gpio => \E w \in Workers : wpc[w] = "encode"
    /\ 0 \in gpio => \E w \in Workers : wpc[w] = "accelerate"

\* Once a request is there, its connection is closed again, unless the process
\* ends: no path of handler leaves it open or waits for another.  It says nothing
\* against the ways in which a request ends the process.
ConnectionCloses ==
    \A c \in Items :
        kind[c] # "unread" ~> ~Alive \/ kind[c] = "over"

=============================================================================
