---------------------------- MODULE ServerProofs ----------------------------
(***************************************************************************)
(* Workers keep to their own connections and give each the answer to its   *)
(* own request, for every number of workers, descriptors and connections.  *)
(* The argument: what is handed out by the queue is handed out once, so    *)
(* two workers never hold the same item (OwnItem); a descriptor stays with *)
(* its connection from accept until the one worker that holds the item     *)
(* closes it (SocketsKept); hence what a worker sends reaches its client,  *)
(* and it sends once (AnswersInv).                                         *)
(***************************************************************************)
EXTENDS Server, FiniteSetTheorems, TLAPS

-----------------------------------------------------------------------------
(* The light *)

LightInv ==
    /\ OneLight
    /\ dir \in {0, 1}
    /\ ledpc \in {"off", "setup", "loop"}

LEMMA LeftOfOne ==
    ASSUME NEW b \in 0 .. LedWidth - 1, leds = {b}, b # LedWidth - 1
    PROVE  Left = {b + 1}
BY LedWidthAssumption DEF Left

LEMMA RightOfOne ==
    ASSUME NEW b \in 0 .. LedWidth - 1, leds = {b}, b # 0
    PROVE  Right = {b - 1}
BY LedWidthAssumption DEF Right

LEMMA LightStep ==
    ASSUME LightInv, [StartLedThread \/ LedThread]_ledVars PROVE LightInv'
<1>1. CASE StartLedThread
  BY <1>1 DEF LightInv, OneLight, StartLedThread
<1>2. CASE setup_fpga_leds
  <2>1. 0 \in 0 .. LedWidth - 1
    BY LedWidthAssumption
  <2> QED
    BY <1>2, <2>1 DEF LightInv, OneLight, setup_fpga_leds
<1>3. CASE handle_fpga_leds
  <2>1. PICK b \in 0 .. LedWidth - 1 : leds = {b}
    BY <1>3 DEF LightInv, OneLight, handle_fpga_leds
  <2>2. leds' = Left => leds = {LedWidth - 1} \/ leds' = {b + 1}
    BY <2>1, LeftOfOne
  <2>3. leds' = Right => leds = {0} \/ leds' = {b - 1}
    BY <2>1, RightOfOne
  <2>4. \E c \in 0 .. LedWidth - 1 : leds' = {c}
    <3>1. CASE leds' = leds
      BY <2>1, <3>1
    <3>2. CASE leds # {LedWidth - 1} /\ leds' = Left
      <4>1. leds' = {b + 1} /\ b # LedWidth - 1
        BY <2>1, <2>2, <3>2
      <4>2. b + 1 \in 0 .. LedWidth - 1
        BY <4>1, LedWidthAssumption
      <4> QED
        BY <4>1, <4>2
    <3>3. CASE leds # {0} /\ leds' = Right
      <4>1. leds' = {b - 1} /\ b # 0
        BY <2>1, <2>3, <3>3
      <4>2. b - 1 \in 0 .. LedWidth - 1
        BY <4>1, LedWidthAssumption
      <4> QED
        BY <4>1, <4>2
    <3> QED
      BY <1>3, <3>1, <3>2, <3>3 DEF handle_fpga_leds
  <2> QED
    BY <1>3, <2>4 DEF LightInv, OneLight, handle_fpga_leds
<1>4. CASE UNCHANGED ledVars
  BY <1>4 DEF LightInv, OneLight, ledVars
<1> QED
  BY <1>1, <1>2, <1>3, <1>4 DEF LedThread

\* However many LEDs there are, and whatever was lit before the program
\* started, exactly one is lit once the thread runs (hardware.c:64-91).
THEOREM LightNeverLost == LedSpec => []OneLight
<1>1. LedInit => LightInv
  BY DEF LedInit, LightInv, OneLight
<1>2. LightInv /\ [StartLedThread \/ LedThread]_ledVars => LightInv'
  BY LightStep
<1>3. LightInv => OneLight
  BY DEF LightInv
<1> QED
  BY <1>1, <1>2, <1>3, PTL DEF LedSpec

-----------------------------------------------------------------------------
(* The inductive invariant of the server *)

Handled(c) == \E k \in 1 .. Len(served) : served[k] = c

\* The types that the other parts need.
ServerTypes ==
    /\ accepted \in 0 .. MaxItems /\ served \in Seq(Items)
    /\ \A k \in 1 .. Len(served) : served[k] <= accepted
    /\ owner \in [Fds -> Items \cup {AFile, Nobody}]
    /\ fd \in [Items -> Fds \cup {BadFd}]
    /\ item \in [Workers -> Items \cup {0}]
    /\ opened \in [Workers -> SUBSET Fds]
    /\ DOMAIN wpc = Workers /\ DOMAIN outcome = Workers
    /\ DOMAIN kind = Items /\ DOMAIN reply = Items

\* A worker's item is one it took, and no other worker's.
OwnItem ==
    /\ \A w \in Workers : Busy(w) => item[w] \in Items /\ Handled(item[w])
    /\ \A v, w \in Workers :
          v # w /\ Busy(v) /\ Busy(w) => item[v] # item[w]

\* A descriptor goes with its connection until a worker closes it.
SocketOpen(c) == fd[c] = BadFd \/ owner[fd[c]] = c
SocketsKept ==
    /\ \A c \in Items : ~Handled(c) => SocketOpen(c)
    /\ \A w \in Workers : Busy(w) => SocketOpen(item[w])
    /\ \A f \in Fds : owner[f] \in Items =>
          fd[owner[f]] = f /\ owner[f] <= accepted

\* Files that a worker has opened are its own.
FilesKept ==
    /\ \A w \in Workers : \A f \in opened[w] : owner[f] = AFile
    /\ \A v, w \in Workers : v # w => opened[v] \cap opened[w] = {}

\* Between requests a client has got nothing.
Untouched(c) == reply[c] = <<>> /\ kind[c] \in {"unread", "over"}

\* What a worker knows of its request and its answer at each place.
Prepared(w) ==
    LET k == kind[item[w]]
        r == reply[item[w]]
    IN  /\ wpc[w] # "close" => r = <<>>
        /\ wpc[w] = "recv" => k = "unread" \/ died # "no"
        /\ wpc[w] = "page" => \/ k = "page" /\ outcome[w] = "none"
                              \/ k = "style" /\ outcome[w] = "css"
        /\ wpc[w] = "list" => k = "page"
        /\ wpc[w] \in {"shut", "input", "read", "tree", "between", "encode",
                       "accelerate"} => outcome[w] \in Answers(k)
        /\ wpc[w] = "send" /\ Socket(w) # BadFd =>
              k = "reset" \/ outcome[w] \in Answers(k)
        /\ wpc[w] = "close" /\ Socket(w) # BadFd =>
              \/ k = "closed" /\ r = <<>>
              \/ \E a \in Answers(k) : r = <<a>>
        /\ Socket(w) = BadFd => r = <<>> /\ k = "unread"

AnswersInv ==
    /\ \A c \in Items :
          Untouched(c) \/ \E w \in Workers : Busy(w) /\ item[w] = c
    /\ \A c \in Items : ~Handled(c) => kind[c] = "unread"
    /\ \A w \in Workers : Busy(w) => Prepared(w)

\* main opens for business only when the FPGA is mapped.
StartOrder ==
    /\ accepted > 0 => mpc = "accept"
    /\ ledpc # "off" => mpc = "accept"
    /\ mpc \in {"led", "accept"} => mapped

ServerInv ==
    /\ ServerTypes /\ OwnItem /\ SocketsKept /\ FilesKept /\ AnswersInv /\ StartOrder
    /\ LedMeansWork

-----------------------------------------------------------------------------
(* One lemma per action *)

LEMMA SocketsSame ==
    ASSUME ServerTypes, OwnItem, SocketsKept,
           UNCHANGED <<accepted, served, fd, item>>,
           \A v \in Workers : Busy(v)' => Busy(v),
           owner' = owner \/ \E f \in Fds : owner[f] \notin Items
                                /\ owner' = [owner EXCEPT ![f] = AFile]
    PROVE  SocketsKept'
<1>1. \A g \in Fds : owner'[g] = owner[g] \/ (owner[g] \notin Items /\ owner'[g] = AFile)
  <2>1. CASE owner' = owner
    BY <2>1
  <2>2. ASSUME NEW f \in Fds, owner[f] \notin Items, owner' = [owner EXCEPT ![f] = AFile]
        PROVE  \A g \in Fds : owner'[g] = IF g = f THEN AFile ELSE owner[g]
    BY <2>2 DEF ServerTypes
  <2> QED
    BY <2>1, <2>2
<1>2. AFile \notin Items
  BY ServerAssumption DEF AFile, Items
<1>3. ASSUME NEW c \in Items, SocketOpen(c) PROVE SocketOpen(c)'
  BY <1>1, <1>3 DEF SocketOpen, ServerTypes
<1>4. \A v \in Workers : Busy(v)' => fd[item[v]] = BadFd \/ owner'[fd[item[v]]] = item[v]
  BY <1>3 DEF SocketsKept, SocketOpen, OwnItem
<1>5. \A c \in Items : ~Handled(c)' => SocketOpen(c)'
  BY <1>3 DEF SocketsKept, Handled
<1>6. \A g \in Fds : owner'[g] \in Items => fd[owner'[g]] = g /\ owner'[g] <= accepted
  BY <1>1, <1>2 DEF SocketsKept
<1> QED
  BY <1>4, <1>5, <1>6 DEF SocketsKept, SocketOpen

\* What main does before it accepts concerns its own variables and the LEDs.
LEMMA MainStepInv ==
    ASSUME ServerInv, died = "no", StartOrder',
           UNCHANGED <<accepted, served, owner, opened, fd, kind, reply, wpc,
                       item, outcome, gpio>>
    PROVE  ServerInv'
<1>1. ServerTypes'
  BY DEF ServerInv, ServerTypes
<1>2. OwnItem' /\ SocketsKept' /\ FilesKept'
  BY DEF ServerInv, OwnItem, SocketsKept, SocketOpen, FilesKept, Busy, Handled
<1>3. AnswersInv'
  <2>1. \A d \in Items : (Untouched(d) \/ \E v \in Workers : Busy(v) /\ item[v] = d)'
    BY DEF ServerInv, AnswersInv, Untouched, Busy
  <2>2. \A d \in Items : (~Handled(d) => kind[d] = "unread")'
    BY DEF ServerInv, AnswersInv, Handled
  <2>3. ASSUME NEW v \in Workers, Busy(v)' PROVE Prepared(v)'
    <3>1. Prepared(v)
      BY <2>3 DEF ServerInv, AnswersInv, Busy
    <3> QED
      BY <3>1 DEF Prepared, Socket
  <2> QED
    BY <2>1, <2>2, <2>3 DEF AnswersInv
<1>4. LedMeansWork'
  BY DEF ServerInv, LedMeansWork
<1> QED
  BY <1>1, <1>2, <1>3, <1>4 DEF ServerInv

LEMMA AdvanceInv ==
    ASSUME ServerInv, Alive, StartPool \/ Listen \/ MapFpga PROVE ServerInv'
<1> USE DEF StartPool, Listen, MapFpga, Advance
<1>1. UNCHANGED <<accepted, served, owner, opened, fd, kind, reply, wpc, item,
                  outcome, gpio>>
  BY DEF queueVars, fdVars, itemVars, workerVars
<1>2. accepted = 0 /\ ledpc = "off"
  BY DEF ServerInv, StartOrder, ServerTypes
<1>3. mpc' \in {"led", "accept"} => mapped'
  OBVIOUS
<1>4. StartOrder'
  BY <1>2, <1>3 DEF StartOrder, queueVars, ledVars
<1> QED
  BY <1>1, <1>4, MainStepInv DEF Alive

LEMMA StartLedsInv ==
    ASSUME ServerInv, Alive, StartLeds PROVE ServerInv'
<1>1. UNCHANGED <<accepted, served, owner, opened, fd, kind, reply, wpc, item,
                  outcome, gpio>>
  BY DEF StartLeds, queueVars, fdVars, itemVars, workerVars
<1>2. StartOrder'
  BY DEF ServerInv, StartOrder, StartLeds
<1> QED
  BY <1>1, <1>2, MainStepInv DEF Alive

LEMMA AcceptInv ==
    ASSUME ServerInv, Alive, Accept PROVE ServerInv'
<1> USE ServerAssumption
       DEF ServerInv, Alive, queueVars, ledVars, mainVars, fdVars, itemVars,
           workerVars, Fds, Items, Nobody, AFile, BadFd,
           Accept, Enter, Lowest, Free
<1>a. accepted' = accepted + 1 /\ accepted' \in Items /\ accepted' <= MaxItems
      /\ served' = served /\ item' = item /\ wpc' = wpc /\ kind' = kind /\ reply' = reply
  BY DEF ServerTypes
<1>b. ~Handled(accepted')
  BY <1>a DEF Handled, ServerTypes
<1>c. \A v \in Workers : Busy(v) => item[v] \in Items /\ item[v] # accepted'
  BY <1>b DEF OwnItem
<1>d. PICK f \in Fds :
        /\ owner[f] = Nobody
        /\ \/ fd' = fd /\ owner' = owner
           \/ fd' = [fd EXCEPT ![accepted'] = f] /\ owner' = [owner EXCEPT ![f] = accepted']
  BY <1>a
<1>e. \A c \in Items : c # accepted' => fd'[c] = fd[c]
  BY <1>d DEF ServerTypes
<1>g. \A c \in Items : SocketOpen(c) => SocketOpen(c)'
  <2> SUFFICES ASSUME NEW c \in Items, SocketOpen(c) PROVE SocketOpen(c)'
    OBVIOUS
  <2>1. fd[c] = BadFd \/ fd[c] # f
    BY <1>d DEF SocketOpen
  <2>2. CASE c = accepted'
    BY <1>a, <1>d, <2>2 DEF SocketOpen, ServerTypes
  <2>3. CASE c # accepted'
    BY <1>a, <1>d, <2>1, <2>3 DEF SocketOpen, ServerTypes
  <2> QED
    BY <2>2, <2>3
<1>1. ServerTypes'
  <2>1. owner' \in [Fds -> Items \cup {AFile, Nobody}] /\ fd' \in [Items -> Fds \cup {BadFd}]
    <3> HIDE DEF Fds, Items, AFile, Nobody, BadFd
    <3>1. owner \in [Fds -> Items \cup {AFile, Nobody}] /\ fd \in [Items -> Fds \cup {BadFd}]
      BY DEF ServerTypes
    <3> QED
      BY <1>a, <1>d, <3>1
  <2>2. \A k \in 1 .. Len(served') : served'[k] <= accepted'
    BY <1>a DEF ServerTypes
  <2> QED
    BY <1>a, <2>1, <2>2 DEF ServerTypes
<1>2. OwnItem'
  BY <1>1 DEF OwnItem, Busy, Handled, ServerTypes
<1>3. SocketsKept'
  <2>1. \A c \in Items : ~Handled(c)' => SocketOpen(c)'
    BY <1>a, <1>g DEF SocketsKept, Handled
  <2>2. \A v \in Workers : Busy(v)' => SocketOpen(item[v])'
    <3> SUFFICES ASSUME NEW v \in Workers, Busy(v)' PROVE SocketOpen(item[v])'
      OBVIOUS
    <3> DEFINE c == item[v]
    <3>1. c \in Items /\ SocketOpen(c)
      BY <1>a, <1>c DEF SocketsKept, Busy
    <3>2. fd'[c] = BadFd \/ owner'[fd'[c]] = c
      BY <1>g, <3>1 DEF SocketOpen
    <3> QED
      BY <1>a, <3>2 DEF SocketOpen
  <2>3. ASSUME NEW g \in Fds, owner'[g] \in Items
        PROVE  fd'[owner'[g]] = g /\ owner'[g] <= accepted'
    <3>1. CASE owner'[g] = owner[g]
      BY <1>a, <1>d, <1>e, <2>3, <3>1 DEF SocketsKept, ServerTypes
    <3>2. CASE owner'[g] # owner[g]
      BY <1>a, <1>d, <2>3, <3>2 DEF ServerTypes
    <3> QED
      BY <3>1, <3>2
  <2> QED
    BY <1>a, <2>1, <2>2, <2>3 DEF SocketsKept
<1>4. FilesKept'
  BY <1>1 DEF FilesKept, ServerTypes
<1>5. AnswersInv'
  <2>1. ASSUME NEW d \in Items
        PROVE  (Untouched(d) \/ \E v \in Workers : Busy(v) /\ item[v] = d)'
    BY DEF AnswersInv, Untouched, Busy, OwnItem, ServerTypes
  <2>2. ASSUME NEW d \in Items PROVE (~Handled(d) => kind[d] = "unread")'
    BY DEF AnswersInv, Handled, Busy, OwnItem, ServerTypes
  <2>3. ASSUME NEW v \in Workers PROVE (Busy(v) => Prepared(v))'
    BY <1>a, <1>c, <1>e DEF AnswersInv, Prepared, Busy, Socket
  <2> QED
    BY <2>1, <2>2, <2>3 DEF AnswersInv
<1>6. StartOrder'
  BY DEF StartOrder, ServerTypes
<1>7. LedMeansWork'
  BY DEF LedMeansWork, ServerTypes
<1> QED
  BY <1>1, <1>2, <1>3, <1>4, <1>5, <1>6, <1>7

LEMMA AcceptFailsInv ==
    ASSUME ServerInv, Alive, AcceptFails PROVE ServerInv'
<1> USE ServerAssumption
       DEF ServerInv, Alive, queueVars, ledVars, mainVars, fdVars, itemVars,
           workerVars, Fds, Items, Nobody, AFile, BadFd,
           AcceptFails, Enter
<1>1. ServerTypes'
  BY DEF ServerTypes
<1>2. OwnItem'
  BY <1>1 DEF OwnItem, Busy, Handled, ServerTypes
<1>3. SocketsKept'
  BY <1>1 DEF SocketsKept, SocketOpen, OwnItem, FilesKept, Busy, Handled, ServerTypes
<1>4. FilesKept'
  BY <1>1 DEF FilesKept, ServerTypes
<1>5. AnswersInv'
  <2>1. ASSUME NEW d \in Items
        PROVE  (Untouched(d) \/ \E v \in Workers : Busy(v) /\ item[v] = d)'
    BY DEF AnswersInv, Untouched, Busy, OwnItem, ServerTypes
  <2>2. ASSUME NEW d \in Items PROVE (~Handled(d) => kind[d] = "unread")'
    BY DEF AnswersInv, Handled, Busy, OwnItem, ServerTypes
  <2>3. ASSUME NEW v \in Workers PROVE (Busy(v) => Prepared(v))'
    BY DEF AnswersInv, Prepared, Busy, Socket, OwnItem, ServerTypes
  <2> QED
    BY <2>1, <2>2, <2>3 DEF AnswersInv
<1>6. StartOrder'
  BY DEF StartOrder, ServerTypes
<1>7. LedMeansWork'
  BY DEF LedMeansWork, ServerTypes
<1> QED
  BY <1>1, <1>2, <1>3, <1>4, <1>5, <1>6, <1>7

LEMMA QueueFaultInv ==
    ASSUME ServerInv, Alive, QueueFault PROVE ServerInv'
<1> USE ServerAssumption
       DEF ServerInv, Alive, queueVars, ledVars, mainVars, fdVars, itemVars,
           workerVars, Fds, Items, Nobody, AFile, BadFd,
           QueueFault, Break
<1>1. ServerTypes'
  BY DEF ServerTypes
<1>2. OwnItem'
  BY <1>1 DEF OwnItem, Busy, Handled, ServerTypes
<1>3. SocketsKept'
  BY <1>1 DEF SocketsKept, SocketOpen, OwnItem, FilesKept, Busy, Handled, ServerTypes
<1>4. FilesKept'
  BY <1>1 DEF FilesKept, ServerTypes
<1>5. AnswersInv'
  <2>1. ASSUME NEW d \in Items
        PROVE  (Untouched(d) \/ \E v \in Workers : Busy(v) /\ item[v] = d)'
    BY DEF AnswersInv, Untouched, Busy, OwnItem, ServerTypes
  <2>2. ASSUME NEW d \in Items PROVE (~Handled(d) => kind[d] = "unread")'
    BY DEF AnswersInv, Handled, Busy, OwnItem, ServerTypes
  <2>3. ASSUME NEW v \in Workers PROVE (Busy(v) => Prepared(v))'
    BY DEF AnswersInv, Prepared, Busy, Socket, OwnItem, ServerTypes
  <2> QED
    BY <2>1, <2>2, <2>3 DEF AnswersInv
<1>6. StartOrder'
  BY DEF StartOrder, ServerTypes
<1>7. LedMeansWork'
  BY DEF LedMeansWork, ServerTypes
<1> QED
  BY <1>1, <1>2, <1>3, <1>4, <1>5, <1>6, <1>7

LEMMA LedStepInv ==
    ASSUME ServerInv, Alive, LedStep PROVE ServerInv'
<1> USE ServerAssumption
       DEF ServerInv, Alive, queueVars, ledVars, mainVars, fdVars, itemVars,
           workerVars, Fds, Items, Nobody, AFile, BadFd,
           LedStep, LedThread, setup_fpga_leds, handle_fpga_leds
<1>1. ServerTypes'
  BY DEF ServerTypes
<1>2. OwnItem'
  BY <1>1 DEF OwnItem, Busy, Handled, ServerTypes
<1>3. SocketsKept'
  BY <1>1 DEF SocketsKept, SocketOpen, OwnItem, FilesKept, Busy, Handled, ServerTypes
<1>4. FilesKept'
  BY <1>1 DEF FilesKept, ServerTypes
<1>5. AnswersInv'
  <2>1. ASSUME NEW d \in Items
        PROVE  (Untouched(d) \/ \E v \in Workers : Busy(v) /\ item[v] = d)'
    BY DEF AnswersInv, Untouched, Busy, OwnItem, ServerTypes
  <2>2. ASSUME NEW d \in Items PROVE (~Handled(d) => kind[d] = "unread")'
    BY DEF AnswersInv, Handled, Busy, OwnItem, ServerTypes
  <2>3. ASSUME NEW v \in Workers PROVE (Busy(v) => Prepared(v))'
    BY DEF AnswersInv, Prepared, Busy, Socket, OwnItem, ServerTypes
  <2> QED
    BY <2>1, <2>2, <2>3 DEF AnswersInv
<1>6. StartOrder'
  BY DEF StartOrder, ServerTypes
<1>7. LedMeansWork'
  BY DEF LedMeansWork, ServerTypes
<1> QED
  BY <1>1, <1>2, <1>3, <1>4, <1>5, <1>6, <1>7

LEMMA TakeInv ==
    ASSUME ServerInv, Alive, NEW w \in Workers, Take(w) PROVE ServerInv'
<1> USE ServerAssumption
       DEF ServerInv, Alive, queueVars, ledVars, mainVars, fdVars, itemVars,
           workerVars, Fds, Items, Nobody, AFile, BadFd,
           Take, Goto, Socket, Leave, Waiting
<1>a. PICK c \in Items :
        /\ c <= accepted /\ ~Handled(c)
        /\ served' = Append(served, c) /\ item' = [item EXCEPT ![w] = c]
  <2>1. PICK c \in 1 .. accepted : Leave(c) /\ item' = [item EXCEPT ![w] = c]
    OBVIOUS
  <2>2. \A k \in 1 .. Len(served) : served[k] < c /\ served[k] \in Int
    BY <2>1 DEF ServerTypes
  <2>3. ~Handled(c)
    BY <2>2 DEF Handled
  <2>4. c \in Items /\ c <= accepted
    BY <2>1 DEF ServerTypes
  <2> QED
    BY <2>1, <2>3, <2>4
<1>b. \A d : Handled(d)' <=> Handled(d) \/ d = c
  <2>1. Len(served') = Len(served) + 1 /\ served'[Len(served) + 1] = c
        /\ \A k \in 1 .. Len(served) : served'[k] = served[k]
    BY <1>a DEF ServerTypes
  <2>2. Len(served) \in Nat
    BY DEF ServerTypes
  <2> QED
    BY <2>1, <2>2 DEF Handled
<1>c. \A v \in Workers : v # w => item'[v] = item[v] /\ wpc'[v] = wpc[v]
  BY <1>a DEF ServerTypes
<1>d. item'[w] = c /\ wpc'[w] = "recv" /\ ~Busy(w)
  BY <1>a DEF ServerTypes, Busy
<1>e. \A v \in Workers : v # w /\ Busy(v)' => Busy(v) /\ item[v] # c
  BY <1>a, <1>c DEF Busy, OwnItem
<1>1. ServerTypes'
  <2>1. served' \in Seq(Items) /\ \A k \in 1 .. Len(served') : served'[k] <= accepted
    <3>1. served' \in Seq(Items)
      BY <1>a DEF ServerTypes
    <3>2. ASSUME NEW k \in 1 .. Len(served') PROVE served'[k] <= accepted
      BY <1>a DEF ServerTypes
    <3> QED
      BY <3>1, <3>2
  <2> QED
    BY <1>a, <2>1 DEF ServerTypes
<1>2. OwnItem'
  <2>1. ASSUME NEW v \in Workers, Busy(v)' PROVE item'[v] \in Items /\ Handled(item[v])'
    BY <1>b, <1>c, <1>d, <1>e, <2>1 DEF OwnItem
  <2>2. ASSUME NEW u \in Workers, NEW v \in Workers, u # v, Busy(u)', Busy(v)'
        PROVE  item'[u] # item'[v]
    BY <1>c, <1>d, <1>e, <2>2 DEF OwnItem
  <2> QED
    BY <2>1, <2>2 DEF OwnItem
<1>3. SocketsKept'
  <2>1. \A d : SocketOpen(d)' <=> SocketOpen(d)
    BY DEF SocketOpen
  <2>2. \A v \in Workers : Busy(v)' => SocketOpen(item'[v])
    BY <1>a, <1>c, <1>d, <1>e DEF SocketsKept
  <2> QED
    BY <1>b, <2>1, <2>2 DEF SocketsKept, SocketOpen
<1>4. FilesKept'
  BY <1>1 DEF FilesKept, ServerTypes
<1>5. AnswersInv'
  <2>1. ASSUME NEW d \in Items
        PROVE  (Untouched(d) \/ \E v \in Workers : Busy(v) /\ item[v] = d)'
    <3>1. CASE Untouched(d)
      BY <3>1 DEF Untouched
    <3> QED
      BY <1>c, <1>d, <3>1 DEF AnswersInv, Busy
  <2>2. ASSUME NEW d \in Items PROVE (~Handled(d) => kind[d] = "unread")'
    BY <1>b DEF AnswersInv
  <2>3. ASSUME NEW v \in Workers PROVE (Busy(v) => Prepared(v))'
    <3>1. CASE v = w
      <4>1. Untouched(c) /\ kind[c] = "unread"
        BY <1>a DEF AnswersInv, OwnItem
      <4> QED
        BY <1>d, <3>1, <4>1 DEF Prepared, Untouched
    <3>2. CASE v # w
      BY <1>c, <1>e, <3>2 DEF AnswersInv, Prepared, Busy
    <3> QED
      BY <3>1, <3>2
  <2> QED
    BY <2>1, <2>2, <2>3 DEF AnswersInv
<1>6. StartOrder'
  BY DEF StartOrder, ServerTypes
<1>7. LedMeansWork'
  BY DEF LedMeansWork, ServerTypes
<1> QED
  BY <1>1, <1>2, <1>3, <1>4, <1>5, <1>6, <1>7

LEMMA ReceiveInv ==
    ASSUME ServerInv, Alive, NEW w \in Workers, Receive(w) PROVE ServerInv'
<1> USE ServerAssumption
       DEF ServerInv, Alive, queueVars, ledVars, mainVars, fdVars, itemVars,
           workerVars, Fds, Items, Nobody, AFile, BadFd,
           Receive, Goto, Socket, Die
<1>a. PICK r \in Requests :
        /\ kind' = [kind EXCEPT ![item[w]] = r]
        /\ \/ r = "bad" /\ died' = "null" /\ wpc' = wpc /\ outcome' = outcome
           \/ r # "bad" /\ died' = died /\ Begin(w, r)
  OBVIOUS
<1>b. \A v \in Workers : v # w => wpc'[v] = wpc[v] /\ outcome'[v] = outcome[v]
  <2>1. (wpc' = wpc /\ outcome' = outcome)
        \/ \E p, o : wpc' = [wpc EXCEPT ![w] = p] /\ outcome' = [outcome EXCEPT ![w] = o]
    BY <1>a DEF Begin
  <2> QED
    BY <2>1 DEF ServerTypes
<1>c. Busy(w) /\ item[w] \in Items /\ \A v \in Workers : Busy(v)' => Busy(v)
  BY <1>b DEF Busy, OwnItem
<1>d. \A v \in Workers : v # w /\ Busy(v) => item[v] # item[w] /\ item[v] \in Items
  BY <1>c DEF OwnItem
<1>e. /\ kind'[item[w]] = r
      /\ \A d \in Items : d # item[w] => kind'[d] = kind[d]
  BY <1>a, <1>c DEF ServerTypes
<1>g. \/ r = "bad" /\ wpc'[w] = "recv" /\ died' = "null"
      \/ r = "closed" /\ wpc'[w] = "close"
      \/ r = "page" /\ wpc'[w] = "page" /\ outcome'[w] = "none"
      \/ r = "style" /\ wpc'[w] = "page" /\ outcome'[w] = "css"
      \/ r = "soft" /\ wpc'[w] = "input" /\ outcome'[w] = "hfc"
      \/ r = "hard" /\ wpc'[w] = "input" /\ outcome'[w] = "hw_hfc"
      \/ r = "icon" /\ wpc'[w] = "send" /\ outcome'[w] = "status0"
      \/ r = "post" /\ wpc'[w] = "send" /\ outcome'[w] = "500"
      \/ r = "reset" /\ wpc'[w] = "send"
  BY <1>a DEF ServerTypes, Requests, Begin
<1>1. ServerTypes'
  BY <1>a DEF ServerTypes, Begin
<1>2. OwnItem'
  BY <1>c DEF OwnItem, Busy, Handled
<1>3. SocketsKept'
  BY <1>c, SocketsSame
<1>4. FilesKept'
  BY <1>1 DEF FilesKept, ServerTypes
<1>5. AnswersInv'
  <2>1. ASSUME NEW d \in Items
        PROVE  (Untouched(d) \/ \E v \in Workers : Busy(v) /\ item[v] = d)'
    <3>1. CASE d = item[w]
      BY <1>c, <1>g, <3>1 DEF Busy
    <3>2. CASE d # item[w]
      <4>1. CASE Untouched(d)
        BY <1>e, <3>2, <4>1 DEF Untouched
      <4>2. CASE \E v \in Workers : Busy(v) /\ item[v] = d
        BY <1>b, <3>2, <4>2 DEF Busy
      <4> QED
        BY <4>1, <4>2 DEF AnswersInv
    <3> QED
      BY <3>1, <3>2
  <2>2. ASSUME NEW d \in Items PROVE (~Handled(d) => kind[d] = "unread")'
    BY <1>c, <1>e DEF AnswersInv, Handled, OwnItem
  <2>3. ASSUME NEW v \in Workers PROVE (Busy(v) => Prepared(v))'
    <3>1. CASE v = w
      <4>1. reply'[item'[w]] = <<>> /\ fd'[item'[w]] # BadFd /\ kind'[item'[w]] = r
        BY <1>c, <1>e DEF AnswersInv, Prepared
      <4> QED
        BY <1>g, <3>1, <4>1 DEF Prepared, Answers
    <3>2. CASE v # w
      <4> SUFFICES ASSUME Busy(v)' PROVE Prepared(v)'
        OBVIOUS
      <4>1. kind'[item'[v]] = kind[item[v]]
        BY <1>c, <1>d, <1>e, <3>2
      <4>2. Prepared(v)
        BY <1>c DEF AnswersInv
      <4> QED
        BY <1>a, <1>b, <3>2, <4>1, <4>2 DEF Prepared
    <3> QED
      BY <3>1, <3>2
  <2> QED
    BY <2>1, <2>2, <2>3 DEF AnswersInv
<1>6. StartOrder'
  BY DEF StartOrder, ServerTypes
<1>7. LedMeansWork'
  <2>1. \A v \in Workers : wpc[v] # "recv" => wpc'[v] = wpc[v]
    BY <1>b
  <2> QED
    BY <2>1 DEF LedMeansWork
<1> QED
  BY <1>1, <1>2, <1>3, <1>4, <1>5, <1>6, <1>7

LEMMA ReceiveBadInv ==
    ASSUME ServerInv, Alive, NEW w \in Workers, ReceiveBad(w) PROVE ServerInv'
<1> USE ServerAssumption
       DEF ServerInv, Alive, queueVars, ledVars, mainVars, fdVars, itemVars,
           workerVars, Fds, Items, Nobody, AFile, BadFd,
           ReceiveBad, Goto, Socket, Begin
<1>1. ServerTypes'
  BY DEF ServerTypes
<1>2. OwnItem'
  BY <1>1 DEF OwnItem, Busy, Handled, ServerTypes
<1>3. SocketsKept'
  BY <1>1 DEF SocketsKept, SocketOpen, OwnItem, FilesKept, Busy, Handled, ServerTypes
<1>4. FilesKept'
  BY <1>1 DEF FilesKept, ServerTypes
<1>5. AnswersInv'
  <2>1. ASSUME NEW d \in Items
        PROVE  (Untouched(d) \/ \E v \in Workers : Busy(v) /\ item[v] = d)'
    BY DEF AnswersInv, Untouched, Busy, OwnItem, ServerTypes
  <2>2. ASSUME NEW d \in Items PROVE (~Handled(d) => kind[d] = "unread")'
    BY DEF AnswersInv, Handled, Busy, OwnItem, ServerTypes
  <2>3. ASSUME NEW v \in Workers PROVE (Busy(v) => Prepared(v))'
    BY DEF AnswersInv, Prepared, Busy, Socket, OwnItem, ServerTypes
  <2> QED
    BY <2>1, <2>2, <2>3 DEF AnswersInv
<1>6. StartOrder'
  BY DEF StartOrder, ServerTypes
<1>7. LedMeansWork'
  BY DEF LedMeansWork, ServerTypes
<1> QED
  BY <1>1, <1>2, <1>3, <1>4, <1>5, <1>6, <1>7

LEMMA OpenPageInv ==
    ASSUME ServerInv, Alive, NEW w \in Workers, OpenPage(w) PROVE ServerInv'
<1> USE ServerAssumption
       DEF ServerInv, Alive, queueVars, ledVars, mainVars, fdVars, itemVars,
           workerVars, Fds, Items, Nobody, AFile, BadFd,
           OpenPage, Goto, Socket, Lowest, Free
<1>a. /\ \/ \E f \in Fds :
              /\ owner[f] = Nobody /\ owner' = [owner EXCEPT ![f] = AFile]
              /\ opened' = [opened EXCEPT ![w] = {f}]
         \/ owner' = owner /\ opened' = opened
      /\ \/ wpc'[w] = "shut" /\ outcome[w] = "css" /\ outcome' = outcome
         \/ wpc'[w] = "list" /\ outcome[w] # "css" /\ outcome' = outcome
         \/ wpc'[w] = "send" /\ outcome' = [outcome EXCEPT ![w] = "status0"]
      /\ \E p \in {"shut", "list", "send"} : wpc' = [wpc EXCEPT ![w] = p]
  BY DEF ServerTypes
<1>b. \A v \in Workers : v # w => wpc'[v] = wpc[v] /\ outcome'[v] = outcome[v]
  BY <1>a DEF ServerTypes
<1>c. Busy(w) /\ item[w] \in Items /\ \A v \in Workers : Busy(v)' => Busy(v)
  BY <1>b DEF Busy, OwnItem
<1>d. \A v \in Workers : v # w /\ Busy(v) => item[v] # item[w] /\ item[v] \in Items
  BY <1>c DEF OwnItem
<1>1. ServerTypes'
  <2> HIDE DEF Fds, Items, AFile, Nobody, BadFd
  <2> QED
    BY <1>a DEF ServerTypes
<1>2. OwnItem'
  BY <1>c DEF OwnItem, Busy, Handled
<1>3. SocketsKept'
  BY <1>c, <1>a, SocketsSame
<1>4. FilesKept'
  <2>1. CASE owner' = owner /\ opened' = opened
    BY <2>1 DEF FilesKept
  <2>2. ASSUME NEW f \in Fds, owner[f] = Nobody,
               owner' = [owner EXCEPT ![f] = AFile], opened' = [opened EXCEPT ![w] = {f}]
        PROVE  FilesKept'
    <3>1. \A v \in Workers : f \notin opened[v]
      BY <2>2 DEF FilesKept
    <3>2. \A v \in Workers : opened'[v] = IF v = w THEN {f} ELSE opened[v]
      BY <2>2 DEF ServerTypes
    <3>3. \A g \in Fds : owner'[g] = IF g = f THEN AFile ELSE owner[g]
      BY <2>2 DEF ServerTypes
    <3> HIDE DEF Fds, AFile
    <3>4. \A v \in Workers : opened[v] \subseteq Fds
      BY DEF ServerTypes
    <3>5. \A v \in Workers : opened'[v] \subseteq Fds
      BY <2>2, <3>2, <3>4
    <3>6. ASSUME NEW v \in Workers, NEW g \in opened'[v] PROVE owner'[g] = AFile
      <4>1. g \in Fds /\ (g = f \/ g \in opened[v])
        BY <3>2, <3>5, <3>6
      <4> QED
        BY <3>3, <4>1 DEF FilesKept
    <3>7. ASSUME NEW u \in Workers, NEW v \in Workers, u # v
          PROVE  opened'[u] \cap opened'[v] = {}
      <4>1. opened[u] \cap opened[v] = {} /\ f \notin opened[u] /\ f \notin opened[v]
        BY <3>1, <3>7 DEF FilesKept
      <4>2. CASE u = w
        BY <3>2, <3>7, <4>1, <4>2
      <4>3. CASE v = w
        BY <3>2, <3>7, <4>1, <4>3
      <4>4. CASE u # w /\ v # w
        BY <3>2, <4>1, <4>4
      <4> QED
        BY <4>2, <4>3, <4>4
    <3> QED
      BY <3>6, <3>7 DEF FilesKept
  <2> QED
    BY <1>a, <2>1, <2>2
<1>5. AnswersInv'
  <2>1. ASSUME NEW d \in Items
        PROVE  (Untouched(d) \/ \E v \in Workers : Busy(v) /\ item[v] = d)'
    <3>1. CASE Untouched(d)
      BY <3>1 DEF Untouched
    <3>2. CASE \E v \in Workers : Busy(v) /\ item[v] = d
      BY <1>a, <1>b, <3>2 DEF Busy
    <3> QED
      BY <3>1, <3>2 DEF AnswersInv
  <2>2. ASSUME NEW d \in Items PROVE (~Handled(d) => kind[d] = "unread")'
    BY DEF AnswersInv, Handled
  <2>3. ASSUME NEW v \in Workers PROVE (Busy(v) => Prepared(v))'
    <3>1. CASE v = w
      <4>1. Prepared(w) /\ reply[item[w]] = <<>>
        BY <1>c DEF AnswersInv, Prepared
      <4>2. \/ wpc'[w] = "shut" /\ outcome'[w] = "css" /\ kind[item[w]] = "style"
            \/ wpc'[w] = "list" /\ kind[item[w]] = "page"
            \/ /\ wpc'[w] = "send" /\ outcome'[w] = "status0"
               /\ kind[item[w]] \in {"page", "style"}
        BY <1>a, <4>1 DEF Prepared, ServerTypes
      <4>3. Socket(w) # BadFd
        BY <4>1, <4>2 DEF Prepared
      <4> QED
        BY <3>1, <4>1, <4>2, <4>3 DEF Prepared, Answers
    <3>2. CASE v # w
      <4>1. Busy(v)' => Prepared(v)
        BY <1>c DEF AnswersInv
      <4> QED
        BY <1>b, <3>2, <4>1 DEF Prepared
    <3> QED
      BY <3>1, <3>2
  <2> QED
    BY <2>1, <2>2, <2>3 DEF AnswersInv
<1>6. StartOrder'
  BY DEF StartOrder, ServerTypes
<1>7. LedMeansWork'
  BY <1>a, <1>b DEF LedMeansWork
<1> QED
  BY <1>1, <1>2, <1>3, <1>4, <1>5, <1>6, <1>7

LEMMA ListDirectoryInv ==
    ASSUME ServerInv, Alive, NEW w \in Workers, ListDirectory(w) PROVE ServerInv'
<1> USE ServerAssumption
       DEF ServerInv, Alive, queueVars, ledVars, mainVars, fdVars, itemVars,
           workerVars, Fds, Items, Nobody, AFile, BadFd,
           ListDirectory, Goto, Socket, Lowest, Free
<1>a. /\ \/ \E f \in Fds :
              /\ owner[f] = Nobody /\ owner' = [owner EXCEPT ![f] = AFile]
              /\ opened' = [opened EXCEPT ![w] = @ \cup {f}]
         \/ owner' = owner /\ opened' = opened
      /\ \E o \in {"page", "bare"} : outcome' = [outcome EXCEPT ![w] = o]
      /\ wpc'[w] = "shut" /\ wpc' = [wpc EXCEPT ![w] = "shut"]
  BY DEF ServerTypes
<1>b. \A v \in Workers : v # w => wpc'[v] = wpc[v] /\ outcome'[v] = outcome[v]
  BY <1>a DEF ServerTypes
<1>c. Busy(w) /\ item[w] \in Items /\ \A v \in Workers : Busy(v)' => Busy(v)
  BY <1>b DEF Busy, OwnItem
<1>d. \A v \in Workers : v # w /\ Busy(v) => item[v] # item[w] /\ item[v] \in Items
  BY <1>c DEF OwnItem
<1>1. ServerTypes'
  <2> HIDE DEF Fds, Items, AFile, Nobody, BadFd
  <2> QED
    BY <1>a DEF ServerTypes
<1>2. OwnItem'
  BY <1>c DEF OwnItem, Busy, Handled
<1>3. SocketsKept'
  BY <1>c, <1>a, SocketsSame
<1>4. FilesKept'
  <2>1. CASE owner' = owner /\ opened' = opened
    BY <2>1 DEF FilesKept
  <2>2. ASSUME NEW f \in Fds, owner[f] = Nobody,
               owner' = [owner EXCEPT ![f] = AFile], opened' = [opened EXCEPT ![w] = @ \cup {f}]
        PROVE  FilesKept'
    <3>1. \A v \in Workers : f \notin opened[v]
      BY <2>2 DEF FilesKept
    <3>2. \A v \in Workers : opened'[v] = IF v = w THEN opened[v] \cup {f} ELSE opened[v]
      BY <2>2 DEF ServerTypes
    <3>3. \A g \in Fds : owner'[g] = IF g = f THEN AFile ELSE owner[g]
      BY <2>2 DEF ServerTypes
    <3> HIDE DEF Fds, AFile
    <3>4. \A v \in Workers : opened[v] \subseteq Fds
      BY DEF ServerTypes
    <3>5. \A v \in Workers : opened'[v] \subseteq Fds
      BY <2>2, <3>2, <3>4
    <3>6. ASSUME NEW v \in Workers, NEW g \in opened'[v] PROVE owner'[g] = AFile
      <4>1. g \in Fds /\ (g = f \/ g \in opened[v])
        BY <3>2, <3>5, <3>6
      <4> QED
        BY <3>3, <4>1 DEF FilesKept
    <3>7. ASSUME NEW u \in Workers, NEW v \in Workers, u # v
          PROVE  opened'[u] \cap opened'[v] = {}
      <4>1. opened[u] \cap opened[v] = {} /\ f \notin opened[u] /\ f \notin opened[v]
        BY <3>1, <3>7 DEF FilesKept
      <4>2. CASE u = w
        BY <3>2, <3>7, <4>1, <4>2
      <4>3. CASE v = w
        BY <3>2, <3>7, <4>1, <4>3
      <4>4. CASE u # w /\ v # w
        BY <3>2, <4>1, <4>4
      <4> QED
        BY <4>2, <4>3, <4>4
    <3> QED
      BY <3>6, <3>7 DEF FilesKept
  <2> QED
    BY <1>a, <2>1, <2>2
<1>5. AnswersInv'
  <2>1. ASSUME NEW d \in Items
        PROVE  (Untouched(d) \/ \E v \in Workers : Busy(v) /\ item[v] = d)'
    <3>1. CASE Untouched(d)
      BY <3>1 DEF Untouched
    <3>2. CASE \E v \in Workers : Busy(v) /\ item[v] = d
      BY <1>a, <1>b, <3>2 DEF Busy
    <3> QED
      BY <3>1, <3>2 DEF AnswersInv
  <2>2. ASSUME NEW d \in Items PROVE (~Handled(d) => kind[d] = "unread")'
    BY DEF AnswersInv, Handled
  <2>3. ASSUME NEW v \in Workers PROVE (Busy(v) => Prepared(v))'
    <3>1. CASE v = w
      <4>1. Prepared(w) /\ reply[item[w]] = <<>>
        BY <1>c DEF AnswersInv, Prepared
      <4>2. /\ wpc'[w] = "shut" /\ outcome'[w] \in {"page", "bare"}
            /\ kind[item[w]] = "page"
        BY <1>a, <4>1 DEF Prepared, ServerTypes
      <4>3. Socket(w) # BadFd
        BY <4>1, <4>2 DEF Prepared
      <4> QED
        BY <3>1, <4>1, <4>2, <4>3 DEF Prepared, Answers
    <3>2. CASE v # w
      <4>1. Busy(v)' => Prepared(v)
        BY <1>c DEF AnswersInv
      <4> QED
        BY <1>b, <3>2, <4>1 DEF Prepared
    <3> QED
      BY <3>1, <3>2
  <2> QED
    BY <2>1, <2>2, <2>3 DEF AnswersInv
<1>6. StartOrder'
  BY DEF StartOrder, ServerTypes
<1>7. LedMeansWork'
  BY <1>a, <1>b DEF LedMeansWork
<1> QED
  BY <1>1, <1>2, <1>3, <1>4, <1>5, <1>6, <1>7

LEMMA ShutInv ==
    ASSUME ServerInv, Alive, NEW w \in Workers, Shut(w) PROVE ServerInv'
<1> USE ServerAssumption
       DEF ServerInv, Alive, queueVars, ledVars, mainVars, fdVars, itemVars,
           workerVars, Fds, Items, Nobody, AFile, BadFd,
           Shut, Goto, Socket
<1>1. ServerTypes'
  BY DEF ServerTypes
<1>2. OwnItem'
  <2>1. UNCHANGED <<item, served>> /\ \A v \in Workers : Busy(v)' => Busy(v)
    BY DEF Busy, ServerTypes
  <2> QED
    BY <2>1 DEF OwnItem, Handled
<1>3. SocketsKept'
  BY <1>1 DEF SocketsKept, SocketOpen, OwnItem, FilesKept, Busy, Handled, ServerTypes
<1>4. FilesKept'
  BY <1>1 DEF FilesKept, ServerTypes
<1>5. AnswersInv'
  <2>1. ASSUME NEW d \in Items
        PROVE  (Untouched(d) \/ \E v \in Workers : Busy(v) /\ item[v] = d)'
    BY DEF AnswersInv, Untouched, Busy, OwnItem, ServerTypes
  <2>2. ASSUME NEW d \in Items PROVE (~Handled(d) => kind[d] = "unread")'
    BY DEF AnswersInv, Handled, Busy, OwnItem, ServerTypes
  <2>3. ASSUME NEW v \in Workers PROVE (Busy(v) => Prepared(v))'
    BY DEF AnswersInv, Prepared, Busy, Socket, OwnItem, ServerTypes
  <2> QED
    BY <2>1, <2>2, <2>3 DEF AnswersInv
<1>6. StartOrder'
  BY DEF StartOrder, ServerTypes
<1>7. LedMeansWork'
  BY DEF LedMeansWork, ServerTypes
<1> QED
  BY <1>1, <1>2, <1>3, <1>4, <1>5, <1>6, <1>7

LEMMA OpenInputInv ==
    ASSUME ServerInv, Alive, NEW w \in Workers, OpenInput(w) PROVE ServerInv'
<1> USE ServerAssumption
       DEF ServerInv, Alive, queueVars, ledVars, mainVars, fdVars, itemVars,
           workerVars, Fds, Items, Nobody, AFile, BadFd,
           OpenInput, Goto, Socket, Lowest, Free, Die
<1>a. \/ /\ wpc' = [wpc EXCEPT ![w] = "read"] /\ died' = died
         /\ \E f \in Fds : owner[f] = Nobody /\ owner' = [owner EXCEPT ![f] = AFile]
      \/ wpc' = wpc /\ died' # "no" /\ owner' = owner
  OBVIOUS
<1>b. \A v \in Workers : v # w => wpc'[v] = wpc[v] /\ outcome'[v] = outcome[v]
  BY <1>a DEF ServerTypes
<1>c. Busy(w) /\ item[w] \in Items /\ \A v \in Workers : Busy(v)' => Busy(v)
  BY <1>b DEF Busy, OwnItem
<1>d. \A v \in Workers : v # w /\ Busy(v) => item[v] # item[w] /\ item[v] \in Items
  BY <1>c DEF OwnItem
<1>e. /\ wpc[w] = "input" /\ wpc'[w] \in {"input", "read"}
      /\ \A g \in Fds : owner[g] # Nobody => owner'[g] = owner[g]
  BY <1>a DEF ServerTypes
<1>1. ServerTypes'
  <2> HIDE DEF Fds, Items, AFile, Nobody, BadFd
  <2> QED
    BY <1>a DEF ServerTypes
<1>2. OwnItem'
  BY <1>c DEF OwnItem, Busy, Handled
<1>3. SocketsKept'
  BY <1>c, <1>a, SocketsSame
<1>4. FilesKept'
  BY <1>e DEF FilesKept, ServerTypes
<1>5. AnswersInv'
  <2>1. ASSUME NEW d \in Items
        PROVE  (Untouched(d) \/ \E v \in Workers : Busy(v) /\ item[v] = d)'
    <3>1. CASE Untouched(d)
      BY <3>1 DEF Untouched
    <3>2. CASE \E v \in Workers : Busy(v) /\ item[v] = d
      BY <1>b, <1>e, <3>2 DEF Busy
    <3> QED
      BY <3>1, <3>2 DEF AnswersInv
  <2>2. ASSUME NEW d \in Items PROVE (~Handled(d) => kind[d] = "unread")'
    BY DEF AnswersInv, Handled
  <2>3. ASSUME NEW v \in Workers PROVE (Busy(v) => Prepared(v))'
    <3>1. CASE v = w
      <4>1. Prepared(w)
        BY <1>c DEF AnswersInv
      <4> QED
        BY <1>e, <3>1, <4>1 DEF Prepared
    <3>2. CASE v # w
      <4>1. Busy(v)' => Prepared(v)
        BY <1>c DEF AnswersInv
      <4> QED
        BY <1>a, <1>b, <3>2, <4>1 DEF Prepared
    <3> QED
      BY <3>1, <3>2
  <2> QED
    BY <2>1, <2>2, <2>3 DEF AnswersInv
<1>6. StartOrder'
  BY DEF StartOrder, ServerTypes
<1>7. LedMeansWork'
  BY <1>b, <1>e DEF LedMeansWork
<1> QED
  BY <1>1, <1>2, <1>3, <1>4, <1>5, <1>6, <1>7

LEMMA SoftCompressInv ==
    ASSUME ServerInv, Alive, NEW w \in Workers, SoftCompress(w) PROVE ServerInv'
<1> USE ServerAssumption
       DEF ServerInv, Alive, queueVars, ledVars, mainVars, fdVars, itemVars,
           workerVars, Fds, Items, Nobody, AFile, BadFd,
           SoftCompress, Goto, Socket, set_bit, clear_bit, Hard
<1>a. /\ wpc[w] \in {"read", "tree", "between", "encode"}
      /\ \E p \in {"tree", "between", "encode", "send"} : wpc' = [wpc EXCEPT ![w] = p]
  BY DEF ServerTypes
<1>b. \A v \in Workers : v # w => wpc'[v] = wpc[v] /\ outcome'[v] = outcome[v]
  BY <1>a DEF ServerTypes
<1>c. Busy(w) /\ item[w] \in Items /\ \A v \in Workers : Busy(v)' => Busy(v)
  BY <1>b DEF Busy, OwnItem
<1>d. \A v \in Workers : v # w /\ Busy(v) => item[v] # item[w] /\ item[v] \in Items
  BY <1>c DEF OwnItem
<1>e. wpc'[w] # "idle"
  BY <1>a DEF ServerTypes
<1>1. ServerTypes'
  <2> HIDE DEF Fds, Items, AFile, Nobody, BadFd
  <2> QED
    BY <1>a DEF ServerTypes
<1>2. OwnItem'
  BY <1>c DEF OwnItem, Busy, Handled
<1>3. SocketsKept'
  BY <1>c, <1>a, SocketsSame
<1>4. FilesKept'
  BY <1>1 DEF FilesKept, ServerTypes
<1>5. AnswersInv'
  <2>1. ASSUME NEW d \in Items
        PROVE  (Untouched(d) \/ \E v \in Workers : Busy(v) /\ item[v] = d)'
    <3>1. CASE Untouched(d)
      BY <3>1 DEF Untouched
    <3>2. CASE \E v \in Workers : Busy(v) /\ item[v] = d
      BY <1>b, <1>e, <3>2 DEF Busy
    <3> QED
      BY <3>1, <3>2 DEF AnswersInv
  <2>2. ASSUME NEW d \in Items PROVE (~Handled(d) => kind[d] = "unread")'
    BY DEF AnswersInv, Handled
  <2>3. ASSUME NEW v \in Workers PROVE (Busy(v) => Prepared(v))'
    <3>1. CASE v = w
      <4>1. Prepared(w) /\ reply[item[w]] = <<>>
        BY <1>a, <1>c DEF AnswersInv, Prepared
      <4>2. outcome[w] \in Answers(kind[item[w]]) /\ Socket(w) # BadFd
        BY <1>a, <4>1 DEF Prepared, Answers
      <4>3. wpc'[w] \in {"tree", "between", "encode", "accelerate", "send"}
        BY <1>a DEF ServerTypes
      <4> QED
        BY <3>1, <4>1, <4>2, <4>3 DEF Prepared
    <3>2. CASE v # w
      <4>1. Busy(v)' => Prepared(v)
        BY <1>c DEF AnswersInv
      <4> QED
        BY <1>b, <3>2, <4>1 DEF Prepared
    <3> QED
      BY <3>1, <3>2
  <2> QED
    BY <2>1, <2>2, <2>3 DEF AnswersInv
<1>6. StartOrder'
  BY DEF StartOrder, ServerTypes
<1>7. LedMeansWork'
  <2>1. \/ wpc'[w] = "tree" /\ gpio' = gpio \cup {2} /\ wpc[w] = "read"
        \/ wpc'[w] = "between" /\ gpio' = gpio \ {2} /\ wpc[w] = "tree"
        \/ wpc'[w] = "encode" /\ gpio' = gpio \cup {1} /\ wpc[w] = "between"
        \/ wpc'[w] = "send" /\ gpio' = gpio \ {1} /\ wpc[w] = "encode"
    BY DEF ServerTypes
  <2> QED
    BY <1>b, <2>1 DEF LedMeansWork
<1> QED
  BY <1>1, <1>2, <1>3, <1>4, <1>5, <1>6, <1>7

LEMMA HardCompressInv ==
    ASSUME ServerInv, Alive, NEW w \in Workers, HardCompress(w) PROVE ServerInv'
<1> USE ServerAssumption
       DEF ServerInv, Alive, queueVars, ledVars, mainVars, fdVars, itemVars,
           workerVars, Fds, Items, Nobody, AFile, BadFd,
           HardCompress, Goto, Socket, set_bit, clear_bit, Hard
<1>a. \/ /\ wpc[w] = "read" /\ wpc' = [wpc EXCEPT ![w] = "accelerate"]
         /\ gpio' = gpio \cup {0}
      \/ /\ wpc[w] = "accelerate" /\ wpc' = [wpc EXCEPT ![w] = "send"]
         /\ gpio' = gpio \ {0}
  BY DEF ServerTypes
<1>b. \A v \in Workers : v # w => wpc'[v] = wpc[v] /\ outcome'[v] = outcome[v]
  BY <1>a DEF ServerTypes
<1>c. Busy(w) /\ item[w] \in Items /\ \A v \in Workers : Busy(v)' => Busy(v)
  BY <1>b DEF Busy, OwnItem
<1>d. \A v \in Workers : v # w /\ Busy(v) => item[v] # item[w] /\ item[v] \in Items
  BY <1>c DEF OwnItem
<1>e. wpc'[w] # "idle"
  BY <1>a DEF ServerTypes
<1>1. ServerTypes'
  <2> HIDE DEF Fds, Items, AFile, Nobody, BadFd
  <2> QED
    BY <1>a DEF ServerTypes
<1>2. OwnItem'
  BY <1>c DEF OwnItem, Busy, Handled
<1>3. SocketsKept'
  BY <1>c, <1>a, SocketsSame
<1>4. FilesKept'
  BY <1>1 DEF FilesKept, ServerTypes
<1>5. AnswersInv'
  <2>1. ASSUME NEW d \in Items
        PROVE  (Untouched(d) \/ \E v \in Workers : Busy(v) /\ item[v] = d)'
    <3>1. CASE Untouched(d)
      BY <3>1 DEF Untouched
    <3>2. CASE \E v \in Workers : Busy(v) /\ item[v] = d
      BY <1>b, <1>e, <3>2 DEF Busy
    <3> QED
      BY <3>1, <3>2 DEF AnswersInv
  <2>2. ASSUME NEW d \in Items PROVE (~Handled(d) => kind[d] = "unread")'
    BY DEF AnswersInv, Handled
  <2>3. ASSUME NEW v \in Workers PROVE (Busy(v) => Prepared(v))'
    <3>1. CASE v = w
      <4>1. Prepared(w) /\ reply[item[w]] = <<>>
        BY <1>a, <1>c DEF AnswersInv, Prepared
      <4>2. outcome[w] \in Answers(kind[item[w]]) /\ Socket(w) # BadFd
        BY <1>a, <4>1 DEF Prepared, Answers
      <4>3. wpc'[w] \in {"tree", "between", "encode", "accelerate", "send"}
        BY <1>a DEF ServerTypes
      <4> QED
        BY <3>1, <4>1, <4>2, <4>3 DEF Prepared
    <3>2. CASE v # w
      <4>1. Busy(v)' => Prepared(v)
        BY <1>c DEF AnswersInv
      <4> QED
        BY <1>b, <3>2, <4>1 DEF Prepared
    <3> QED
      BY <3>1, <3>2
  <2> QED
    BY <2>1, <2>2, <2>3 DEF AnswersInv
<1>6. StartOrder'
  BY DEF StartOrder, ServerTypes
<1>7. LedMeansWork'
  <2>1. \/ wpc'[w] = "accelerate" /\ gpio' = gpio \cup {0} /\ wpc[w] = "read"
        \/ wpc'[w] = "send" /\ gpio' = gpio \ {0} /\ wpc[w] = "accelerate"
    BY <1>a DEF ServerTypes
  <2> QED
    BY <1>b, <2>1 DEF LedMeansWork
<1> QED
  BY <1>1, <1>2, <1>3, <1>4, <1>5, <1>6, <1>7

LEMMA SendInv ==
    ASSUME ServerInv, Alive, NEW w \in Workers, Send(w) PROVE ServerInv'
<1> USE ServerAssumption
       DEF ServerInv, Alive, queueVars, ledVars, mainVars, fdVars, itemVars,
           workerVars, Fds, Items, Nobody, AFile, BadFd,
           Send, Goto, Socket, Die
<1>a. \/ /\ died' = died /\ wpc' = [wpc EXCEPT ![w] = "close"] /\ kind[item[w]] # "reset"
         /\ \E sent \in {outcome[w], "cut"} :
              reply' = [c \in Items |->
                          IF Socket(w) # BadFd /\ owner[Socket(w)] = c
                          THEN Append(reply[c], sent) ELSE reply[c]]
      \/ died' # "no" /\ wpc' = wpc /\ reply' = reply
  OBVIOUS
<1>b. \A v \in Workers : v # w => wpc'[v] = wpc[v] /\ outcome'[v] = outcome[v]
  BY <1>a DEF ServerTypes
<1>c. Busy(w) /\ item[w] \in Items /\ \A v \in Workers : Busy(v)' => Busy(v)
  BY <1>b DEF Busy, OwnItem
<1>d. \A v \in Workers : v # w /\ Busy(v) => item[v] # item[w] /\ item[v] \in Items
  BY <1>c DEF OwnItem
<1>e. Prepared(w) /\ reply[item[w]] = <<>>
  BY <1>c DEF AnswersInv, Prepared
<1>g. Socket(w) = BadFd \/ owner[Socket(w)] = item[w]
  BY <1>c DEF SocketsKept, SocketOpen
<1>h. \A d \in Items : d # item[w] => reply'[d] = reply[d]
  BY <1>a, <1>c, <1>g
<1>i. Socket(w) # BadFd /\ wpc'[w] = "close" =>
        \E a \in Answers(kind[item[w]]) : reply'[item[w]] = <<a>>
  <2> SUFFICES ASSUME Socket(w) # BadFd, wpc'[w] = "close"
               PROVE  \E a \in Answers(kind[item[w]]) : reply'[item[w]] = <<a>>
    OBVIOUS
  <2>1. kind[item[w]] # "reset"
    BY <1>a
  <2>2. outcome[w] \in Answers(kind[item[w]])
    BY <1>e, <2>1 DEF Prepared
  <2>3. "cut" \in Answers(kind[item[w]])
    BY <2>2 DEF Answers
  <2>4. PICK sent \in {outcome[w], "cut"} : reply'[item[w]] = Append(reply[item[w]], sent)
    BY <1>a, <1>c, <1>g
  <2>5. Append(<<>>, sent) = <<sent>>
    OBVIOUS
  <2> QED
    BY <1>e, <2>2, <2>3, <2>4, <2>5
<1>j. Socket(w) = BadFd => reply'[item[w]] = <<>> /\ kind[item[w]] = "unread"
  BY <1>a, <1>c, <1>e DEF Prepared
<1>1. ServerTypes'
  BY <1>a DEF ServerTypes
<1>2. OwnItem'
  BY <1>c DEF OwnItem, Busy, Handled
<1>3. SocketsKept'
  BY <1>c, SocketsSame
<1>4. FilesKept'
  BY <1>1 DEF FilesKept, ServerTypes
<1>5. AnswersInv'
  <2>1. ASSUME NEW d \in Items
        PROVE  (Untouched(d) \/ \E v \in Workers : Busy(v) /\ item[v] = d)'
    <3>1. CASE d = item[w]
      BY <1>a, <1>c, <3>1 DEF Busy, ServerTypes
    <3>2. CASE d # item[w]
      <4>1. CASE Untouched(d)
        BY <1>h, <3>2, <4>1 DEF Untouched
      <4>2. CASE \E v \in Workers : Busy(v) /\ item[v] = d
        BY <1>b, <3>2, <4>2 DEF Busy
      <4> QED
        BY <4>1, <4>2 DEF AnswersInv
    <3> QED
      BY <3>1, <3>2
  <2>2. ASSUME NEW d \in Items PROVE (~Handled(d) => kind[d] = "unread")'
    BY DEF AnswersInv, Handled, Busy, OwnItem, ServerTypes
  <2>3. ASSUME NEW v \in Workers PROVE (Busy(v) => Prepared(v))'
    <3>1. CASE v = w /\ wpc' = wpc
      <4>1. wpc'[w] = "send" /\ reply' = reply /\ kind' = kind /\ outcome' = outcome
        BY <1>a, <3>1 DEF ServerTypes
      <4> QED
        BY <1>e, <3>1, <4>1 DEF Prepared
    <3>2. CASE v = w /\ wpc'[w] = "close"
      BY <1>i, <1>j, <3>2 DEF Prepared
    <3>3. CASE v # w
      <4> SUFFICES ASSUME Busy(v)' PROVE Prepared(v)'
        OBVIOUS
      <4>1. reply'[item'[v]] = reply[item[v]]
        BY <1>c, <1>d, <1>h, <3>3
      <4>2. Prepared(v)
        BY <1>c DEF AnswersInv
      <4> QED
        BY <1>a, <1>b, <3>3, <4>1, <4>2 DEF Prepared
    <3> QED
      BY <1>a, <3>1, <3>2, <3>3 DEF ServerTypes
  <2> QED
    BY <2>1, <2>2, <2>3 DEF AnswersInv
<1>6. StartOrder'
  BY DEF StartOrder, ServerTypes
<1>7. LedMeansWork'
  BY DEF LedMeansWork, ServerTypes
<1> QED
  BY <1>1, <1>2, <1>3, <1>4, <1>5, <1>6, <1>7

LEMMA CloseInv ==
    ASSUME ServerInv, Alive, NEW w \in Workers, Close(w) PROVE ServerInv'
<1> USE ServerAssumption
       DEF ServerInv, Alive, queueVars, ledVars, mainVars, fdVars, itemVars,
           workerVars, Fds, Items, Nobody, AFile, BadFd,
           Close, Goto, Socket, CloseSocket
<1>b. \A v \in Workers : v # w => wpc'[v] = wpc[v] /\ item'[v] = item[v]
                                    /\ outcome'[v] = outcome[v]
  BY DEF ServerTypes
<1>c. Busy(w) /\ item[w] \in Items /\ ~Busy(w)'
      /\ \A v \in Workers : Busy(v)' => Busy(v) /\ v # w
  BY <1>b DEF Busy, OwnItem, ServerTypes
<1>d. \A v \in Workers : v # w /\ Busy(v) => item[v] # item[w] /\ item[v] \in Items
  BY <1>c DEF OwnItem
<1>e. Prepared(w) /\ Handled(item[w]) /\ (Socket(w) = BadFd \/ owner[Socket(w)] = item[w])
  BY <1>c DEF AnswersInv, OwnItem, SocketsKept, SocketOpen
<1>f. \/ Socket(w) = BadFd /\ owner' = owner /\ kind' = kind /\ reply' = reply
      \/ /\ Socket(w) \in Fds /\ owner[Socket(w)] = item[w]
         /\ owner' = [owner EXCEPT ![Socket(w)] = Nobody]
         /\ kind' = [d \in Items |-> IF d = item[w] THEN "over" ELSE kind[d]]
         /\ reply' = [d \in Items |-> IF d = item[w] THEN <<>> ELSE reply[d]]
  BY <1>c, <1>e DEF ServerTypes
<1>g. \A g \in Fds : owner'[g] = owner[g] \/ (owner[g] = item[w] /\ owner'[g] = Nobody)
  <2>1. CASE owner' = owner
    BY <2>1
  <2>2. CASE /\ Socket(w) \in Fds /\ owner[Socket(w)] = item[w]
             /\ owner' = [owner EXCEPT ![Socket(w)] = Nobody]
    <3> HIDE DEF Fds, Items, AFile, Nobody, Socket
    <3>1. \A g \in Fds : owner'[g] = IF g = Socket(w) THEN Nobody ELSE owner[g]
      BY <2>2 DEF ServerTypes
    <3> QED
      BY <2>2, <3>1
  <2> QED
    BY <1>f, <2>1, <2>2
<1>h. \A d \in Items : d # item[w] => kind'[d] = kind[d] /\ reply'[d] = reply[d]
  BY <1>f
<1>1. ServerTypes'
  <2> HIDE DEF Fds, Items, AFile, Nobody, BadFd
  <2> QED
    BY <1>f DEF ServerTypes
<1>2. OwnItem'
  BY <1>b, <1>c DEF OwnItem, Handled
<1>3. SocketsKept'
  <2>1. ASSUME NEW d \in Items, d # item[w], SocketOpen(d) PROVE SocketOpen(d)'
    BY <1>g, <2>1 DEF SocketOpen, ServerTypes
  <2>2. ASSUME NEW v \in Workers, Busy(v)'
        PROVE  fd[item'[v]] = BadFd \/ owner'[fd[item'[v]]] = item'[v]
    <3>1. Busy(v) /\ item'[v] = item[v] /\ item[v] # item[w] /\ item[v] \in Items
      BY <1>b, <1>c, <1>d, <2>2
    <3>2. SocketOpen(item[v])
      BY <3>1 DEF SocketsKept
    <3> QED
      BY <2>1, <3>1, <3>2 DEF SocketOpen
  <2>3. \A d \in Items : ~Handled(d)' => SocketOpen(d)'
    BY <1>e, <2>1 DEF SocketsKept, Handled
  <2>4. \A g \in Fds : owner'[g] \in Items => fd[owner'[g]] = g /\ owner'[g] <= accepted
    BY <1>g DEF SocketsKept
  <2> QED
    BY <2>2, <2>3, <2>4 DEF SocketsKept, SocketOpen
<1>4. FilesKept'
  BY <1>c, <1>g DEF FilesKept, ServerTypes
<1>5. AnswersInv'
  <2>1. ASSUME NEW d \in Items
        PROVE  (Untouched(d) \/ \E v \in Workers : Busy(v) /\ item[v] = d)'
    <3>1. CASE d = item[w]
      BY <1>e, <1>f, <3>1 DEF Untouched, Prepared
    <3>2. CASE d # item[w]
      <4>1. CASE Untouched(d)
        BY <1>h, <3>2, <4>1 DEF Untouched
      <4>2. CASE \E v \in Workers : Busy(v) /\ item[v] = d
        BY <1>b, <3>2, <4>2 DEF Busy
      <4> QED
        BY <4>1, <4>2 DEF AnswersInv
    <3> QED
      BY <3>1, <3>2
  <2>2. ASSUME NEW d \in Items PROVE (~Handled(d) => kind[d] = "unread")'
    BY <1>e, <1>h DEF AnswersInv, Handled
  <2>3. ASSUME NEW v \in Workers PROVE (Busy(v) => Prepared(v))'
    <3> SUFFICES ASSUME Busy(v)' PROVE Prepared(v)'
      OBVIOUS
    <3>1. v # w /\ Busy(v) /\ item'[v] = item[v]
      BY <1>b, <1>c
    <3>2. kind'[item'[v]] = kind[item[v]] /\ reply'[item'[v]] = reply[item[v]] /\ Prepared(v)
      BY <1>d, <1>h, <3>1 DEF AnswersInv
    <3> QED
      BY <1>b, <3>1, <3>2 DEF Prepared
  <2> QED
    BY <2>1, <2>2, <2>3 DEF AnswersInv
<1>6. StartOrder'
  BY DEF StartOrder, ServerTypes
<1>7. LedMeansWork'
  BY <1>b DEF LedMeansWork, ServerTypes
<1> QED
  BY <1>1, <1>2, <1>3, <1>4, <1>5, <1>6, <1>7

-----------------------------------------------------------------------------
(* The invariant *)

LEMMA ServerStart == Init => ServerInv
<1> SUFFICES ASSUME Init PROVE ServerInv
  OBVIOUS
<1> USE ServerAssumption
    DEF Init, QueueInit, LedInit, Items, Fds, Nobody, AFile, BadFd, Busy
<1>1. served = <<>> /\ Len(served) = 0 /\ served \in Seq(Items)
  OBVIOUS
<1>2. \A c : ~Handled(c)
  BY <1>1 DEF Handled
<1>3. ServerTypes
  BY <1>1 DEF ServerTypes
<1>4. OwnItem
  BY DEF OwnItem
<1>5. SocketsKept
  BY DEF SocketsKept, SocketOpen
<1>6. FilesKept
  BY DEF FilesKept
<1>7. AnswersInv
  BY DEF AnswersInv, Untouched
<1>8. StartOrder
  BY DEF StartOrder
<1>9. LedMeansWork
  BY DEF LedMeansWork
<1> QED
  BY <1>3, <1>4, <1>5, <1>6, <1>7, <1>8, <1>9 DEF ServerInv

LEMMA ServerStep == ServerInv /\ [Next]_vars => ServerInv'
<1> SUFFICES ASSUME ServerInv, [Next]_vars PROVE ServerInv'
  OBVIOUS
<1>1. CASE UNCHANGED vars
  BY <1>1 DEF vars, queueVars, ledVars, mainVars, fdVars, itemVars, workerVars,
              ServerInv, ServerTypes, OwnItem, SocketsKept, FilesKept, AnswersInv,
              StartOrder, LedMeansWork, Prepared, Untouched, SocketOpen, Socket,
              Busy, Handled
<1>2. CASE Alive /\ Main
  BY <1>2, AdvanceInv, StartLedsInv, AcceptInv, AcceptFailsInv, QueueFaultInv DEF Main
<1>3. CASE Alive /\ LedStep
  BY <1>3, LedStepInv
<1>4. ASSUME Alive, NEW w \in Workers, Take(w) \/ Receive(w) \/ Respond(w)
      PROVE  ServerInv'
  BY <1>4, TakeInv, ReceiveInv, ReceiveBadInv, OpenPageInv, ListDirectoryInv,
     ShutInv, OpenInputInv, SoftCompressInv, HardCompressInv, SendInv, CloseInv
     DEF Respond
<1> QED
  BY <1>1, <1>2, <1>3, <1>4 DEF Next

\* The invariant behind the others: who owns which item and which descriptor,
\* and what each worker knows of its client, at each place of handler.
THEOREM ServerInvariance == Spec => []ServerInv
  BY ServerStart, ServerStep, PTL DEF Spec

-----------------------------------------------------------------------------
(* What follows from it *)

\* However fast descriptors are reused, a worker only touches the connection it
\* took and the files it opened (handlers.c:28, 46, 111-133).
THEOREM KeepsToItsOwn == Spec => []OwnDescriptor
<1>1. ServerInv => OwnDescriptor
  BY DEF ServerInv, SocketsKept, SocketOpen, FilesKept, OwnDescriptor, Socket
<1> QED
  BY <1>1, ServerInvariance, PTL

\* The pool is started before the FPGA is mapped, yet nobody uses the mapping
\* too early (main.c:51-98).
THEOREM NeverUnmapped == Spec => []AddrsReady
<1>1. ServerInv => AddrsReady
  <2> SUFFICES ASSUME ServerInv PROVE AddrsReady
    OBVIOUS
  <2>1. ASSUME NEW w \in Workers, Busy(w) PROVE accepted > 0
    <3>1. PICK k \in 1 .. Len(served) : served[k] = item[w]
      BY <2>1 DEF ServerInv, OwnItem, Handled
    <3>2. item[w] <= accepted /\ item[w] \in Items
      BY <2>1, <3>1 DEF ServerInv, ServerTypes, OwnItem
    <3> QED
      BY <3>2, ServerAssumption DEF ServerInv, ServerTypes, Items
  <2> QED
    BY <2>1 DEF ServerInv, StartOrder, AddrsReady
<1> QED
  BY <1>1, ServerInvariance, PTL

\* A LED that shows a part of the work is on only while that work is done
\* (handlers.c:178-232, 262-283).
THEOREM LitWhileWorking == Spec => []LedMeansWork
<1>1. ServerInv => LedMeansWork
  BY DEF ServerInv
<1> QED
  BY <1>1, ServerInvariance, PTL

LEMMA ClosedWithAnswer ==
    ASSUME ServerInv, Next, NEW c \in Items, kind[c] # "over", kind'[c] = "over"
    PROVE  \/ kind[c] = "closed" /\ reply[c] = <<>>
           \/ \E a \in Answers(kind[c]) : reply[c] = <<a>>
<1>1. PICK w \in Workers : Close(w)
  <2>1. kind' # kind
    OBVIOUS
  <2>2. ASSUME NEW w \in Workers, Receive(w) PROVE FALSE
    <3>1. \A r \in Requests : r # "over"
      BY DEF Requests
    <3> QED
      BY <2>2, <3>1 DEF Receive, ServerInv, ServerTypes
  <2>3. ~Main
    BY <2>1 DEF Main, StartPool, Listen, MapFpga, Advance, StartLeds, Accept,
                AcceptFails, QueueFault, itemVars
  <2>4. ~LedStep
    BY <2>1 DEF LedStep, itemVars
  <2>5. ASSUME NEW w \in Workers, Take(w) \/ Respond(w) PROVE Close(w)
    BY <2>1, <2>5 DEF Take, Respond, ReceiveBad, OpenPage, ListDirectory, Shut,
                OpenInput, SoftCompress, HardCompress, set_bit, clear_bit, Send, itemVars
  <2> QED
    BY <2>2, <2>3, <2>4, <2>5 DEF Next
<1>2. Busy(w) /\ item[w] \in Items /\ Prepared(w) /\ wpc[w] = "close"
  BY <1>1 DEF Close, Busy, ServerInv, OwnItem, AnswersInv
<1>3. Socket(w) # BadFd /\ owner[Socket(w)] = c
  BY <1>1 DEF Close, CloseSocket
<1>4. owner[Socket(w)] = item[w]
  BY <1>2, <1>3 DEF ServerInv, SocketsKept, SocketOpen, Socket
<1> QED
  BY <1>2, <1>3, <1>4 DEF Prepared

\* Whatever the workers do at the same time, and although descriptors are
\* reused, a closed connection has got one answer, of the kind its own request
\* calls for, or none if nothing was sent (handlers.c:27-145).  The contents of a
\* file are not the subject.
THEOREM AnswersOnce == Spec => OneRightAnswer
<1> DEFINE A == \A c \in Items :
                   kind[c] # "over" /\ kind'[c] = "over" =>
                      \/ kind[c] = "closed" /\ reply[c] = <<>>
                      \/ \E a \in Answers(kind[c]) : reply[c] = <<a>>
<1>1. ServerInv /\ [Next]_vars => [A]_vars
  BY ClosedWithAnswer
<1>2. Spec => [][A]_vars
  <2> HIDE DEF A
  <2> QED
    BY <1>1, ServerInvariance, PTL DEF Spec
<1> QED
  BY <1>2 DEF OneRightAnswer

-----------------------------------------------------------------------------
(* Descriptors *)

Files == {f \in Fds : owner[f] = AFile}
OpenFiles == UNION {opened[w] : w \in Workers}

\* What the count of open files needs: only a worker between fopen and fclose
\* has files to close, and a connection has its descriptor as long as it waits
\* or is served.
LeakInv ==
    /\ downloads \in Nat
    /\ Cardinality(Files) = downloads + Cardinality(OpenFiles)
    /\ \A w \in Workers : opened[w] # {} => wpc[w] \in {"list", "shut"}
    /\ \A f \in Fds : owner[f] \in Items =>
          \/ ~Handled(owner[f])
          \/ \E w \in Workers : Busy(w) /\ item[w] = owner[f]

LEMMA FilesFinite ==
    ASSUME ServerInv
    PROVE  /\ IsFiniteSet(Files) /\ Cardinality(Files) \in Nat
           /\ IsFiniteSet(OpenFiles) /\ Cardinality(OpenFiles) \in Nat
<1>1. IsFiniteSet(Fds)
  BY FS_Interval, ServerAssumption DEF Fds
<1>2. Files \subseteq Fds
  BY DEF Files
<1>3. OpenFiles \subseteq Fds
  BY DEF OpenFiles, ServerInv, ServerTypes
<1>4. IsFiniteSet(Files) /\ IsFiniteSet(OpenFiles)
  BY <1>1, <1>2, <1>3, FS_Subset
<1> QED
  BY <1>4, FS_CardinalityType

LEMMA OwnersDiffer == AFile \notin Items /\ Nobody \notin Items /\ AFile # Nobody
  BY ServerAssumption DEF AFile, Nobody, Items

\* An open file more, which the worker will close, or which it never will.
LEMMA FileOpened ==
    ASSUME ServerInv, LeakInv, NEW f \in Fds, owner[f] = Nobody,
           owner' = [owner EXCEPT ![f] = AFile],
           \/ /\ downloads' = downloads
              /\ \E w \in Workers : opened' = [opened EXCEPT ![w] = opened[w] \cup {f}]
           \/ downloads' = downloads + 1 /\ opened' = opened
    PROVE  downloads' \in Nat /\ Cardinality(Files') = downloads' + Cardinality(OpenFiles')
<1>1. Files' = Files \cup {f} /\ f \notin Files
  BY OwnersDiffer DEF Files, ServerInv, ServerTypes
<1>2. Cardinality(Files') = Cardinality(Files) + 1
  BY <1>1, FilesFinite, FS_AddElement
<1>3. CASE downloads' = downloads + 1 /\ opened' = opened
  BY <1>2, <1>3, FilesFinite DEF LeakInv, OpenFiles
<1>4. ASSUME NEW w \in Workers, opened' = [opened EXCEPT ![w] = opened[w] \cup {f}],
             downloads' = downloads
      PROVE  downloads' \in Nat /\ Cardinality(Files') = downloads' + Cardinality(OpenFiles')
  <2>1. \A v \in Workers : opened'[v] = IF v = w THEN opened[v] \cup {f} ELSE opened[v]
    BY <1>4 DEF ServerInv, ServerTypes
  <2>2. OpenFiles' = OpenFiles \cup {f}
    BY <2>1 DEF OpenFiles
  <2>3. f \notin OpenFiles
    BY <1>1 DEF OpenFiles, Files, ServerInv, FilesKept
  <2>4. Cardinality(OpenFiles') = Cardinality(OpenFiles) + 1
    BY <2>2, <2>3, FilesFinite, FS_AddElement
  <2> QED
    BY <1>2, <1>4, <2>4, FilesFinite DEF LeakInv
<1> QED
  BY <1>3, <1>4

\* A file less.
LEMMA FileClosed ==
    ASSUME ServerInv, LeakInv, NEW w \in Workers, NEW f \in opened[w],
           owner' = [owner EXCEPT ![f] = Nobody],
           opened' = [opened EXCEPT ![w] = opened[w] \ {f}],
           downloads' = downloads
    PROVE  Cardinality(Files') = downloads' + Cardinality(OpenFiles')
<1>1. f \in Fds /\ owner[f] = AFile
  BY DEF ServerInv, ServerTypes, FilesKept
<1>2. Files' = Files \ {f} /\ f \in Files
  BY <1>1, OwnersDiffer DEF Files, ServerInv, ServerTypes
<1>3. \A v \in Workers : opened'[v] = IF v = w THEN opened[v] \ {f} ELSE opened[v]
  BY DEF ServerInv, ServerTypes
<1>4. \A v \in Workers : v # w => f \notin opened[v]
  BY DEF ServerInv, FilesKept
<1>5. OpenFiles' = OpenFiles \ {f} /\ f \in OpenFiles
  BY <1>3, <1>4 DEF OpenFiles
<1>6. /\ Cardinality(Files') = Cardinality(Files) - 1
      /\ Cardinality(OpenFiles') = Cardinality(OpenFiles) - 1
  BY <1>2, <1>5, FilesFinite, FS_RemoveElement
<1> QED
  BY <1>6, FilesFinite DEF LeakInv

\* The count stays when no file is opened or closed.
LEMMA FilesSame ==
    ASSUME LeakInv, UNCHANGED <<opened, downloads>>, Files' = Files
    PROVE  downloads' \in Nat /\ Cardinality(Files') = downloads' + Cardinality(OpenFiles')
  BY DEF LeakInv, OpenFiles

\* A step that gives no connection away and takes no worker off its item leaves
\* every connection's descriptor accounted for.
LEMMA SocketsAccounted ==
    ASSUME ServerInv, LeakInv, served' = served,
           \A f \in Fds : owner'[f] \in Items =>
               owner'[f] = owner[f] \/ owner'[f] = accepted + 1,
           \A v \in Workers : Busy(v) => Busy(v)' /\ item'[v] = item[v]
    PROVE  \A f \in Fds : owner'[f] \in Items =>
              \/ ~Handled(owner[f])'
              \/ \E w \in Workers : Busy(w)' /\ item'[w] = owner'[f]
<1> SUFFICES ASSUME NEW f \in Fds, owner'[f] \in Items, Handled(owner[f])'
             PROVE  \E w \in Workers : Busy(w)' /\ item'[w] = owner'[f]
  OBVIOUS
<1>1. Handled(owner'[f])
  BY DEF Handled
<1>2. owner'[f] # accepted + 1
  BY <1>1 DEF Handled, ServerInv, ServerTypes
<1>3. owner'[f] = owner[f]
  BY <1>2
<1>4. PICK w \in Workers : Busy(w) /\ item[w] = owner[f]
  BY <1>1, <1>3 DEF LeakInv
<1> QED
  BY <1>3, <1>4

LEMMA LeakStep == ServerInv /\ LeakInv /\ [Next]_vars => LeakInv'
<1> SUFFICES ASSUME ServerInv, LeakInv, [Next]_vars PROVE LeakInv'
  OBVIOUS
<1> USE DEF queueVars, ledVars, mainVars, fdVars, itemVars, workerVars
<1> DEFINE Counted == downloads' \in Nat
                      /\ Cardinality(Files') = downloads' + Cardinality(OpenFiles')
           Closable == \A w \in Workers : opened'[w] # {} => wpc'[w] \in {"list", "shut"}
           Accounted == \A f \in Fds : owner'[f] \in Items =>
                           \/ ~Handled(owner[f])'
                           \/ \E w \in Workers : Busy(w)' /\ item'[w] = owner'[f]
<1>q. Counted /\ Closable /\ Accounted => LeakInv'
  BY DEF LeakInv
<1>1. CASE UNCHANGED vars
  BY <1>1 DEF vars, LeakInv, Files, OpenFiles, Handled, Busy
<1>2. CASE StartPool \/ Listen \/ MapFpga \/ StartLeds \/ AcceptFails \/ QueueFault \/ LedStep
  <2>1. UNCHANGED <<owner, opened, downloads, served, wpc, item>>
    BY <1>2 DEF StartPool, Listen, MapFpga, Advance, StartLeds, AcceptFails, Enter,
                QueueFault, Break, LedStep
  <2> QED
    BY <2>1 DEF LeakInv, Files, OpenFiles, Handled, Busy
<1>3. CASE Accept
  <2>1. UNCHANGED <<opened, downloads, served, wpc, item>>
    BY <1>3 DEF Accept, Enter
  <2>2. PICK f \in Fds : /\ owner[f] = Nobody
                         /\ owner' = owner \/ owner' = [owner EXCEPT ![f] = accepted + 1]
    BY <1>3 DEF Accept, Lowest, Free
  <2>3. accepted + 1 \in Items
    BY <1>3, ServerAssumption DEF Accept, Items, ServerInv, ServerTypes
  <2>4. \A g \in Fds : owner'[g] = owner[g] \/ (g = f /\ owner'[g] = accepted + 1)
    BY <2>2 DEF ServerInv, ServerTypes
  <2>5. Files' = Files
    BY <2>2, <2>3, <2>4, OwnersDiffer DEF Files
  <2>6. Counted
    BY <2>1, <2>5, FilesSame
  <2>7. Accounted
    BY <2>1, <2>4, SocketsAccounted DEF Busy
  <2> QED
    BY <1>q, <2>1, <2>6, <2>7 DEF LeakInv
<1>4. ASSUME NEW w \in Workers, Take(w) PROVE LeakInv'
  <2>1. PICK c \in 1 .. accepted : served' = Append(served, c) /\ item' = [item EXCEPT ![w] = c]
    BY <1>4 DEF Take, Leave
  <2>2. UNCHANGED <<owner, opened, downloads>> /\ wpc' = [wpc EXCEPT ![w] = "recv"]
        /\ wpc[w] = "idle"
    BY <1>4 DEF Take, Goto
  <2>3. Counted
    BY <2>2, FilesSame DEF Files
  <2>4. Closable
    BY <2>2 DEF LeakInv, ServerInv, ServerTypes
  <2>5. Accounted
    <3> SUFFICES ASSUME NEW f \in Fds, owner'[f] \in Items, Handled(owner[f])'
                 PROVE  \E v \in Workers : Busy(v)' /\ item'[v] = owner'[f]
      OBVIOUS
    <3>1. owner'[f] = c \/ Handled(owner[f])
      BY <2>1, <2>2 DEF Handled, ServerInv, ServerTypes
    <3>2. CASE owner'[f] = c
      BY <2>1, <2>2, <3>2 DEF Busy, ServerInv, ServerTypes
    <3>3. CASE Handled(owner[f])
      <4>1. PICK v \in Workers : Busy(v) /\ item[v] = owner[f]
        BY <2>2, <3>3 DEF LeakInv
      <4>2. v # w
        BY <2>2, <4>1 DEF Busy
      <4> QED
        BY <2>1, <2>2, <4>1, <4>2 DEF Busy, ServerInv, ServerTypes
    <3> QED
      BY <3>1, <3>2, <3>3
  <2> QED
    BY <1>q, <2>3, <2>4, <2>5
\* A worker that goes on to another place, and opens or closes nothing.
<1>5. ASSUME NEW w \in Workers, NEW pc, pc # "idle",
             UNCHANGED <<owner, opened, downloads, served, item>>,
             wpc' = wpc \/ (wpc' = [wpc EXCEPT ![w] = pc] /\ wpc[w] \notin {"list", "shut"})
      PROVE  LeakInv'
  <2>1. Counted
    BY <1>5, FilesSame DEF Files
  <2>2. \A v \in Workers : wpc'[v] = wpc[v] \/ (v = w /\ wpc'[v] = pc)
    BY <1>5 DEF ServerInv, ServerTypes
  <2>3. Closable
    BY <1>5, <2>2 DEF LeakInv
  <2>4. Accounted
    BY <1>5, <2>2, SocketsAccounted DEF Busy
  <2> QED
    BY <1>q, <2>1, <2>3, <2>4
<1>6. ASSUME NEW w \in Workers, Receive(w) \/ ReceiveBad(w) PROVE LeakInv'
  BY <1>5, <1>6 DEF Receive, ReceiveBad, Begin, Goto
<1>7. ASSUME NEW w \in Workers, SoftCompress(w) \/ HardCompress(w) \/ Send(w) PROVE LeakInv'
  BY <1>5, <1>7 DEF SoftCompress, HardCompress, set_bit, clear_bit, Send, Goto
<1>8. ASSUME NEW w \in Workers, NEW f \in Fds, owner[f] = Nobody,
             owner' = [owner EXCEPT ![f] = AFile], UNCHANGED <<served, item>>,
             NEW pc, pc # "idle", wpc' = [wpc EXCEPT ![w] = pc]
      PROVE  Accounted
  <2>1. \A g \in Fds : owner'[g] = owner[g] \/ owner'[g] = AFile
    BY <1>8 DEF ServerInv, ServerTypes
  <2>2. \A v \in Workers : wpc'[v] = wpc[v] \/ wpc'[v] = pc
    BY <1>8 DEF ServerInv, ServerTypes
  <2> QED
    BY <1>8, <2>1, <2>2, SocketsAccounted, OwnersDiffer DEF Busy
<1>9. ASSUME NEW w \in Workers, OpenPage(w) PROVE LeakInv'
  <2>1. opened[w] = {} /\ UNCHANGED <<served, item, downloads>>
    BY <1>9 DEF OpenPage, LeakInv
  <2>2. CASE UNCHANGED <<owner, opened>>
    BY <1>5, <1>9, <2>1, <2>2 DEF OpenPage, Goto
  <2>3. CASE ~UNCHANGED <<owner, opened>>
    <3>1. PICK f \in Fds : /\ owner[f] = Nobody /\ owner' = [owner EXCEPT ![f] = AFile]
                           /\ opened' = [opened EXCEPT ![w] = {f}]
      BY <1>9, <2>3 DEF OpenPage, Lowest, Free
    <3>2. PICK pc \in {"shut", "list"} : wpc' = [wpc EXCEPT ![w] = pc]
      BY <1>9, <2>3 DEF OpenPage, Goto
    <3>3. opened' = [opened EXCEPT ![w] = opened[w] \cup {f}]
      BY <2>1, <3>1
    <3>4. Counted
      BY <2>1, <3>1, <3>3, FileOpened
    <3>5. Closable
      BY <3>1, <3>2 DEF LeakInv, ServerInv, ServerTypes
    <3>6. Accounted
      BY <1>8, <2>1, <3>1, <3>2
    <3> QED
      BY <1>q, <3>4, <3>5, <3>6
  <2> QED
    BY <2>2, <2>3
<1>10. ASSUME NEW w \in Workers, ListDirectory(w) PROVE LeakInv'
  <2>1. UNCHANGED <<served, item, downloads>> /\ wpc' = [wpc EXCEPT ![w] = "shut"]
    BY <1>10 DEF ListDirectory, Goto
  <2>2. CASE UNCHANGED <<owner, opened>>
    <3>1. Counted
      BY <2>1, <2>2, FilesSame DEF Files
    <3>2. Closable
      BY <2>1, <2>2 DEF LeakInv, ServerInv, ServerTypes
    <3>3. Accounted
      <4>1. \A v \in Workers : wpc'[v] = wpc[v] \/ wpc'[v] = "shut"
        BY <2>1 DEF ServerInv, ServerTypes
      <4> QED
        BY <2>1, <2>2, <4>1, SocketsAccounted DEF Busy
    <3> QED
      BY <1>q, <3>1, <3>2, <3>3
  <2>3. CASE ~UNCHANGED <<owner, opened>>
    <3>1. PICK f \in Fds : /\ owner[f] = Nobody /\ owner' = [owner EXCEPT ![f] = AFile]
                           /\ opened' = [opened EXCEPT ![w] = opened[w] \cup {f}]
      BY <1>10, <2>3 DEF ListDirectory, Lowest, Free
    <3>2. Counted
      BY <2>1, <3>1, FileOpened
    <3>3. Closable
      BY <2>1, <3>1 DEF LeakInv, ServerInv, ServerTypes
    <3>4. Accounted
      BY <1>8, <2>1, <3>1
    <3> QED
      BY <1>q, <3>2, <3>3, <3>4
  <2> QED
    BY <2>2, <2>3
<1>11. ASSUME NEW w \in Workers, Shut(w) PROVE LeakInv'
  <2>1. PICK f \in opened[w] : /\ owner' = [owner EXCEPT ![f] = Nobody]
                               /\ opened' = [opened EXCEPT ![w] = opened[w] \ {f}]
    BY <1>11 DEF Shut
  <2>2. UNCHANGED <<served, item, downloads>> /\ wpc[w] = "shut"
    BY <1>11 DEF Shut
  <2>3. IF opened'[w] = {} THEN wpc' = [wpc EXCEPT ![w] = "send"] ELSE wpc' = wpc
    BY <1>11 DEF Shut, Goto
  <2>4. f \in Fds
    BY DEF ServerInv, ServerTypes
  <2>5. Counted
    BY <2>1, <2>2, FileClosed DEF LeakInv
  <2>6. \A v \in Workers : opened'[v] = IF v = w THEN opened[v] \ {f} ELSE opened[v]
    BY <2>1 DEF ServerInv, ServerTypes
  <2>7. \A v \in Workers : wpc'[v] = IF v = w /\ opened'[w] = {} THEN "send" ELSE wpc[v]
    BY <2>3 DEF ServerInv, ServerTypes
  <2>8. Closable
    BY <2>6, <2>7 DEF LeakInv
  <2>9. \A g \in Fds : owner'[g] = owner[g] \/ owner'[g] = Nobody
    BY <2>1, <2>4 DEF ServerInv, ServerTypes
  <2>10. Accounted
    BY <2>2, <2>7, <2>9, SocketsAccounted, OwnersDiffer DEF Busy
  <2> QED
    BY <1>q, <2>5, <2>8, <2>10
<1>12. ASSUME NEW w \in Workers, OpenInput(w) PROVE LeakInv'
  <2>1. CASE UNCHANGED owner
    BY <1>5, <1>12, <2>1, OwnersDiffer DEF OpenInput, Lowest, Free, ServerInv, ServerTypes
  <2>2. CASE ~UNCHANGED owner
    <3>1. PICK f \in Fds : owner[f] = Nobody /\ owner' = [owner EXCEPT ![f] = AFile]
      BY <1>12, <2>2 DEF OpenInput, Lowest, Free
    <3>2. /\ wpc[w] = "input" /\ wpc' = [wpc EXCEPT ![w] = "read"]
          /\ downloads' = downloads + 1
          /\ UNCHANGED <<opened, served, item>>
      BY <1>12, <2>2 DEF OpenInput, Goto
    <3>3. Counted
      BY <3>1, <3>2, FileOpened
    <3>4. Closable
      BY <3>2 DEF LeakInv, ServerInv, ServerTypes
    <3>5. Accounted
      BY <1>8, <3>1, <3>2
    <3> QED
      BY <1>q, <3>3, <3>4, <3>5
  <2> QED
    BY <2>1, <2>2
<1>13. ASSUME NEW w \in Workers, Close(w) PROVE LeakInv'
  <2>1. /\ wpc[w] = "close" /\ wpc' = [wpc EXCEPT ![w] = "idle"]
        /\ UNCHANGED <<opened, downloads, served>> /\ item' = [item EXCEPT ![w] = 0]
    BY <1>13 DEF Close, Goto
  <2>2. item[w] \in Items /\ SocketOpen(item[w])
    BY <2>1 DEF ServerInv, OwnItem, SocketsKept, Busy
  <2>3. IF Socket(w) = BadFd THEN owner' = owner
        ELSE owner' = [owner EXCEPT ![Socket(w)] = Nobody]
    BY <1>13 DEF Close, CloseSocket
  <2>4. Socket(w) # BadFd => Socket(w) \in Fds /\ owner[Socket(w)] = item[w]
    BY <2>2 DEF SocketOpen, Socket, ServerInv, ServerTypes
  <2>5. \A g \in Fds : owner'[g] = IF g = Socket(w) /\ g # BadFd THEN Nobody ELSE owner[g]
    BY <2>3, <2>4 DEF ServerInv, ServerTypes
  <2>6. Files' = Files
    BY <2>2, <2>4, <2>5, OwnersDiffer DEF Files
  <2>7. Counted
    BY <2>1, <2>6, FilesSame
  <2>8. Closable
    BY <2>1 DEF LeakInv, ServerInv, ServerTypes
  <2>9. Accounted
    <3> SUFFICES ASSUME NEW f \in Fds, owner'[f] \in Items, Handled(owner[f])'
                 PROVE  \E v \in Workers : Busy(v)' /\ item'[v] = owner'[f]
      OBVIOUS
    <3>1. owner'[f] = owner[f] /\ Handled(owner[f])
      BY <2>1, <2>5, OwnersDiffer DEF Handled
    <3>2. PICK v \in Workers : Busy(v) /\ item[v] = owner[f]
      BY <3>1 DEF LeakInv
    <3>3. v # w
      <4>1. ASSUME v = w PROVE FALSE
        <5>1. fd[item[w]] = f
          BY <3>1, <3>2, <4>1 DEF ServerInv, SocketsKept
        <5>2. Socket(w) = f /\ f # BadFd
          BY <5>1, ServerAssumption DEF Socket, Fds, BadFd
        <5>3. owner'[f] = Nobody
          BY <2>5, <5>2
        <5> QED
          BY <5>3, OwnersDiffer
      <4> QED
        BY <4>1
    <3> QED
      BY <2>1, <3>1, <3>2, <3>3 DEF Busy, ServerInv, ServerTypes
  <2> QED
    BY <1>q, <2>7, <2>8, <2>9
<1> QED
  BY <1>1, <1>2, <1>3, <1>4, <1>6, <1>7, <1>9, <1>10, <1>11, <1>12, <1>13
     DEF Next, Main, Respond

\* For every number of workers, descriptors and connections: a file that stays
\* open was opened for a download, and the only sockets nobody will close are
\* those of connections the queue still has or has lost (handlers.c:152, 242).
THEOREM LeaksAreKnown == Spec => []NoOtherLeak
<1>1. Init => LeakInv
  <2> SUFFICES ASSUME Init PROVE LeakInv
    OBVIOUS
  <2>1. Files = {} /\ OpenFiles = {}
    BY OwnersDiffer DEF Init, Files, OpenFiles
  <2> QED
    BY <2>1, FS_EmptySet, OwnersDiffer DEF Init, LeakInv
<1>2. ServerInv /\ LeakInv => NoOtherLeak
  BY DEF LeakInv, NoOtherLeak, Files, OpenFiles, Handled
<1> QED
  BY <1>1, <1>2, LeakStep, ServerInvariance, PTL DEF Spec

-----------------------------------------------------------------------------
(* The parts keep their specifications in the whole *)

\* Main and the workers use the queue only as LossyQueue allows (main.c:101-115,
\* 136-148), which ConnQueue implements.
THEOREM QueueInServer == Spec => QueueSpec
<1>1. Init => QueueInit
  BY DEF Init
<1>2. [Next]_vars => [QueueNext]_queueVars
  <2> SUFFICES ASSUME [Next]_vars PROVE [QueueNext]_queueVars
    OBVIOUS
  <2>1. CASE UNCHANGED vars
    BY <2>1 DEF vars
  <2>2. CASE Main
    BY <2>2 DEF Main, StartPool, Listen, MapFpga, Advance, StartLeds, Accept,
                AcceptFails, QueueFault, QueueNext, queueVars
  <2>3. CASE LedStep
    BY <2>3 DEF LedStep
  <2>4. ASSUME NEW w \in Workers, Take(w) \/ Receive(w) \/ Respond(w)
        PROVE  [QueueNext]_queueVars
    BY <2>4 DEF Take, QueueNext, Receive, Respond, ReceiveBad, OpenPage,
                ListDirectory, Shut, OpenInput, SoftCompress, HardCompress,
                set_bit, clear_bit, Send, Close
  <2> QED
    BY <2>1, <2>2, <2>3, <2>4 DEF Next
<1> QED
  BY <1>1, <1>2, PTL DEF Spec, QueueSpec

\* Nothing but its thread touches the light, whoever else uses the FPGA: it is
\* never lost in the whole server (main.c:34-47).
THEOREM LightInServer == Spec => []OneLight
<1>1. Init => LedInit
  BY DEF Init
<1>2. [Next]_vars => [StartLedThread \/ LedThread]_ledVars
  <2> SUFFICES ASSUME [Next]_vars PROVE [StartLedThread \/ LedThread]_ledVars
    OBVIOUS
  <2>1. CASE UNCHANGED vars
    BY <2>1 DEF vars
  <2>2. CASE Main
    BY <2>2 DEF Main, StartPool, Listen, MapFpga, Advance, StartLeds, Accept,
                AcceptFails, QueueFault, ledVars
  <2>3. CASE LedStep
    BY <2>3 DEF LedStep
  <2>4. ASSUME NEW w \in Workers, Take(w) \/ Receive(w) \/ Respond(w)
        PROVE  UNCHANGED ledVars
    BY <2>4 DEF Take, Receive, Respond, ReceiveBad, OpenPage,
                ListDirectory, Shut, OpenInput, SoftCompress, HardCompress,
                set_bit, clear_bit, Send, Close
  <2> QED
    BY <2>1, <2>2, <2>3, <2>4 DEF Next
<1>3. Spec => LedSpec
  BY <1>1, <1>2, PTL DEF Spec, LedSpec
<1> QED
  BY <1>3, LightNeverLost
=============================================================================
