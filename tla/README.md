# A formal model of the Huffman compression server and its FPGA encoder

The program is a web server on the ARM cores of a DE1-SoC board. For a `.txt`
file it answers with the Huffman-compressed file (`.hfc`), made either in
software or, for `?hardware`, by an encoder in the FPGA that reads its input
from an SDRAM and writes the file back into it. A separate program,
`decompress`, reads such files.

This directory holds TLA+ modules of the parts where order matters - the
encoder's six state machines on one bus, the driver that shares them between
threads, the connection queue between the accept loop and the workers, the
server with its descriptors, the Huffman coding and the way of a text through a
coder and back - the configurations that TLC checks, and proofs that TLAPS
checks.

## The system

| part | source | state | operations | talks to |
|---|---|---|---|---|
| accept loop, thread pool | `main.c` | `thread_pool`, `queue_mutex`, `addrs` | accept and enqueue; dequeue under the mutex and call `handler` | queue, handler |
| connection queue | `conn_queue.c` | `head`, `tail`, the nodes | `enqueue`, `dequeue` | both sides of `main.c` |
| request handler | `handlers.c` | per request: buffers, request, response, sockets | parse, pages, `compress`, `hw_compress`, send, errors | sockets, files, driver |
| `hw_compress` and driver | `handlers.c`, `hardware.c` | `global_addrs` (one per process), the SDRAM | lay out codes, tree and text; write addresses, reset, start, poll; copy the file out | encoder, SDRAM |
| encoder | `encoder.vhd` | slave registers, Control, Status, State, MasterMux | slave access; run tree handler, text handler, write the total length | its two handlers, SDRAM |
| tree handler | `tree_handler.vhd` | State, Offset, Char | copy the tree description behind the header, write its length | SDRAM through the encoder's multiplexer |
| text handler | `text_handler.vhd` | State, MasterMux, TextOffset, Char | per character: read it, have its code read, have it written; pad; write the text length | code reader, code writer, SDRAM |
| code reader | `code_reader.vhd` | State, CodeAddr, CodeReg, Offset | read a pointer, then the string of '0' and '1' it points to | SDRAM through two multiplexers |
| code writer | `code_writer.vhd` | State, WIP_Reg, WIP_Idx, DstOffset | collect bits, write whole bytes | SDRAM through two multiplexers |
| letter indexer | `letter_indexer.vhd` | none | character to place in the alphabet | text handler |
| Huffman coding | `huffman.h` | a heap, a tree | frequencies, tree, codes, tree description, rebuild | compress, hw_compress, decompress |
| software coder | `handlers.c`, `compress.c`, `decompress.c` | a string of pending bits | encode, decode | files |
| LED thread | `main.c`, `hardware.c` | `dir`, the LED register | move one light up and down | GPIO |

What is hard about it:

* **Handshakes of one clock.** The entities announce completion with a `done`
  that is up until their next idle clock. Whoever waits must look in that clock
  and must not take an old `done` for a new one.
* **One bus, five masters, two multiplexers** without defaults for the inputs of
  masters that are not selected: those see what a latch kept.
* **Arbitrary wait states**, and a write request that is held one clock longer
  than the bus needs, so that a byte may be stored twice.
* **Shared state without locks.** `enqueue` runs beside `dequeue` without the
  mutex; `hw_compress` runs in ten threads on one `global_addrs`, one SDRAM area
  and one encoder.
* **Partial reset and restarts.** The FPGA outlives the server process;
  `reset_encoder` resets one state machine of six.
* **Limits.** A register of 64 bits for codes in the FPGA and 64 characters in
  the software coders, descriptors that are never closed and run out, buffers
  that are not terminated, padding that decodes to letters.
* **Reuse.** A closed descriptor is given to the next connection at once, while
  nine other workers go on with theirs.
* **Failures on the way.** Clients that vanish before or during the answer, files
  that cannot be opened, a request that cannot be parsed.

`PROJECT.json` lists each of these with its line under `hazards`.

## Modules

| module | models | used by |
|---|---|---|
| `Sdram` | bytes, little-endian words, strings in memory, the Avalon write rule | all hardware modules |
| `CodeWriter`, `CodeReader`, `TreeHandler` | the entity: its registers as one record, one action per branch of its clocked process, `Tick` for one rising edge | their benches, `TextHandler`, `Encoder` |
| `CodeWriterBench`, `CodeReaderBench`, `TreeHandlerBench` | the entity alone on a bus with arbitrary wait states, and its properties | `MC...`, the proofs about them |
| `LetterIndexer` | `letters` and `letter_indexer` | `TextHandler`, `HfcFormat` |
| `TextHandler` | its process and multiplexer; instantiates code reader and code writer | `Encoder` |
| `Encoder` | both processes and the multiplexer; instantiates tree and text handler | `HwCompress` |
| `HwCompress` | the threads in `hw_compress`, the driver, the SDRAM, the encoder, process restarts | `MCHwCompress` |
| `HfcFormat` | the file as `decompress.c` reads it, as a function of codes, tree and text | `CompressService`, `HwCompress`, `CodedFile` |
| `CompressService` | the abstract specification: a request is answered once, with the `.hfc` file of its text | `HwCompress` (refinement) |
| `ConnQueue` | `enqueue`, `dequeue` and their callers, one memory access per step | itself |
| `LossyQueue` | the abstract specification of the queue: in order, at most once, some may be skipped | `ConnQueue` (refinement), `Server` |
| `Leds` | `led_function` and the functions it calls | `Server` |
| `Server` | `main`, the workers with `handler` and all it calls, the LED thread; descriptors | itself |
| `Letters` | the letters that have a code; a byte as bits | `Huffman`, `Decompress` |
| `Huffman` | `huffman.h`: heap, tree, codes, description, `rebuild_tree`, as operators | `RoundTrip` |
| `SoftCoder` | the bit loop of `compress`, in the server and in the tool | `CodedFile` |
| `Decompress` | the program `decompress`, given the codes of the rebuilt tree | `CodedFile` |
| `CodedFile` | one of the three coders, its file and `decompress`, for any prefix code of the letters | `RoundTrip` (extends and refines it) |
| `RoundTrip` | text, frequencies, tree, codes, coder, file, `rebuild_tree`, `decompress`, text | `MCRoundTrip` |
| `BitLemmas` | lemmas about sequences of bits, words and strings in memory, and recursive functions | the proofs about the code writer, `CodedFile` and `HwCompress` |
| `CodeWriterProofs`, `CodeReaderProofs`, `TreeHandlerProofs`, `CodedFileProofs`, `ConnQueueProofs`, `ServerProofs`, `HwCompressProofs` | theorems about the three benches, `SoftCoder` and `CodedFile`, `ConnQueue`, `Server` and `Leds`, `HwCompress` | |

### How the hardware is modelled

Each entity's registers are one record variable. An action is one branch of the
entity's clocked process; it reads the registers as they are before the edge, as
VHDL signals are read, and gives their values after it. `Tick` is the
disjunction; exactly one disjunct is possible at an edge. One step of `Encoder`
(and of `HwCompress`) is one rising edge and conjoins the ticks of all entities,
each reading the others' registers from before the edge.

The four numbered states in which an entity writes or reads the four bytes of a
word are one state with an index `k`. A `std_logic_vector` with a length
(`WIP_Reg` and `WIP_Idx`, `Code` and `CodeLen`, `CodeReg` and `Offset`) is the
sequence of its meaningful bits. 32-bit counters and addresses are naturals: no
address of the model comes near 2^32, and the SDRAM has 2^26 bytes.

`waitrequest` is chosen freely at each edge. A latch of an unselected master
holds an arbitrary value (`Latches`) at each edge, which includes the one it
really holds. The memory stores a byte at each edge with `write` high and
`waitrequest` low, and a read returns the byte at the address at an edge with
`waitrequest` low; the SDRAM controller itself is external.

A driver access to the encoder's slave port happens at a clock edge. The loop of
SDRAM accesses in `write_codes_to_mem`, `write_tree_to_mem`, `write_text_to_mem`,
the read of the total length and the copy loop are one step each, between two
edges (the loop over the codes is the recursive function `WithCodes`). This
coarsening is harmless in the runs that pass: one thread runs, and the encoder is
at rest (`EncoderAtRest`) whenever the driver touches the SDRAM, so no other access
lies between. In the runs that find a violation a finer step would only add
behaviours.

`MinGap` is the number of clock edges from one slave access to the next. The
FPGA runs at 50 MHz and an uncached access from the ARM through the bridge
takes hundreds of nanoseconds (`report/results.txt`: 1268 us for a hundred
characters, mostly such accesses), so three clocks are a cautious lower bound.
The bound matters: `reset_encoder` and `start_encoder` write the same register,
and `ctrl` clears it for as long as its reset pulse lasts; with a gap of two
`start` is lost, with a gap of one the first poll reads the old `Status`.

`gpio` is bit 0 of the LED register that shows that the hardware path works.

### How the coding is modelled

`Huffman` has one operator for each function of `huffman.h`. The heap is the
sequence of the nodes in use; ties are broken as the code breaks them, since the
tree, the codes and the file depend on it. `RoundTrip` steps through the stages:
the count, the heap, one merge of `build_HF_Tree` at a time, the codes, then the
coder one letter and one byte at a time, then `decompress` one letter of one
search at a time. The accelerator enters as the file that `hwcompress` shows it
to return.

Between the Huffman coding and the rest lies a promise: every letter has a code,
no code is the beginning of another, none is longer than `MaxCode`, and the tree
that `decompress` rebuilds has the same codes. `CodedFile` is the coder, the file
and `decompress` under that promise: its step `Coding` takes any such code table
and any description of the right length, and `OpenFile` finds the table again.
`RoundTrip` replaces both steps by what `huffman.h` computes, and the run
`roundtrip` checks that it implements `CodedFile` (`CodedSpec`). So what holds of
`CodedFile` holds of the programs, and `CodedFile` has no recursive operator,
which lets TLAPS prove about it.

What the C code leaves undefined is kept: the text in memory has no terminator
and `tail` is what the count finds behind it (only until a NUL; the file encodes
`file_size` characters in software, and all of them up to the NUL in the
accelerator). A letter without a code stops the tool, leaving the total length 0
in its file, and is a fault of the server, behind which nothing is modelled.
`decompress` of a file whose total length is too small would read nearly 2^32
bytes; it is `runaway` from then on. `strcpy` within one string
(`handlers.c:217`, `decompress.c:73`) moves it to the front, as the C library of
the board does.

### How the server is modelled

`Server` takes `LossyQueue` for the queue, which `connqueue` and `ConnQueueProofs`
justify for a sequentially consistent memory, and adds what is around it. An item
is a value that `accept` returned; its descriptor is `BadFd` when `accept` failed,
because none was free or because `len`, which `main` never initialises, happened
to be negative. A descriptor belongs to a connection, to an open file, or to
nobody; the kernel hands out the lowest free one. What is sent through a
descriptor reaches its owner of that moment, so that a descriptor closed too often
or too late would show as a wrong answer.

One step of a worker is one call that another thread, the client or the kernel
can tell apart: `recv` with parsing, each `fopen` and `opendir`, each close, each
write to the LEDs, `send`, `close`. What the request says is one of nine kinds;
which answer a worker prepares is a value that names it. The process ends with
`exit` before the loop, by a NULL (a file that cannot be opened, a request that
cannot be parsed) or by SIGPIPE.

Creating a thread may fail, and `main` goes on all the same: without the LED thread
(`StartLeds`), or with fewer workers, which are workers that never take an item.
`mapped` says that `addrs` points to the mapped FPGA.

`handler` frees `client_socket` on its error path only and leaks it otherwise;
memory is not counted. Texts are assumed to have letters of the alphabet, and
the accelerator to answer (see Fairness).

`Leds` keeps the register as the set of lit LEDs.

### How the queue is modelled

One step is one access to `head`, `tail` or a field of a node, in the order of
the unoptimised code that the `Makefile` builds, interleaved arbitrarily.
Memory is sequentially consistent, which is an assumption: nodes are published
without a barrier (`conn_queue.c:10-18`), and the board's two ARM cores may see the
link to a node before its fields. For the violated run this does not matter, since a
weaker order only adds behaviours. What the run `connqueue` and `ConnQueueProofs` show
to hold, and what is shown of `Server` on top of it, holds under the assumption; that
it can fail is among the hazards. A freed node
is not allocated again; a write to it or through NULL ends the behaviour
(`fault`), since what the program does then is undefined. `n` counts the
connections that were accepted, a node is the number of its connection.

What is left of a queue is `LossyQueue`. The refinement maps `n` to `accepted`,
`served` to itself and a fault to `broken`: an accepted connection enters, a
worker that has unlocked the mutex takes one that comes behind all taken before,
and from the second connection on the queue may break.

## Runs

| run | bounds | what it shows |
|---|---|---|
| `codewriter` | codes of 0, 7 and 57 bits, up to 66 bits fed after a load, one destination | `PendingKept` and `StreamWritten`: no bit is lost, repeated or displaced; `WipFits`: the register is filled to bit 0 (seven left-over bits and a 57-bit code) and not beyond; `DoneIsFlushed`, `RequestHeld`; every code is finished (`CodeFinishes`) |
| `treehandler` | strings of length 0 to 3 at two places, two destinations, reloads | `TreeCopied`, `DoneIsComplete`, `CopyFinishes` |
| `codereader` | two entries, strings "01", "1" and the empty string, entries read in every order | `CodeIsString` (nothing survives from the code before), `ReadsItsOwn`, `ReadFinishes` |
| `hwcompress` | one thread, two requests of three jobs (codes of 1 to 3 bits, empty text, a text that fills a byte), alphabet of two letters, `MinGap` 3, arbitrary latches | `Implements`: the composition of driver and six state machines refines `CompressService`, with its liveness; and the hand-shake invariants `BusOwned`, `PulsesAnswered`, `WritesInFile`, `StatusFresh`, `EncoderAtRest`; `WaitReturns` |
| `hwcompress_orphan` | one request, the process dies at any moment | the encoder goes on alone and comes to rest (`ComesToRest`) |
| `hwcompress_threads` | two threads, two different jobs | **violated** `EncodesOwnJob`: a thread returns the other's file |
| `hwcompress_crash` | one thread, restart during a request, a second request | **violated** `EncodesOwnJob`: the leftovers of the aborted run spoil the next file |
| `hwcompress_tail` | a character may follow the text on the heap | **violated** `EncodesOwnJob`: it is encoded too |
| `connqueue` | three workers, four connections, sequentially consistent memory | `Implements`: the queue refines `LossyQueue` although `enqueue` takes no lock; `NoUseAfterFree`, `HeadIsServed` |
| `connqueue_lost` | one worker, two connections | **violated** `NoneLost`: a connection is lost, or NULL is dereferenced |
| `roundtrip` | four letters; every text of up to three characters over them and a foreign one, every text of four over three letters, four skewed ones; three tails | the tree is optimal among all prefix codes (`Optimal`, `GoodCodes`), which it would not be if the heap lost a subtree or its order; it keeps the promise that the way back relies on, its description included (`CodedSpec`); the two buffers and the bytes (`BuffersFit`, `BytesPacked`); what `decompress` prints is the text (`TextReturns`), it reads no further than its file (`ReadsOnlyFile`) and writes at most seven letters, or eight for the accelerator's padding, behind the text (`OverrunBounded`); all loops end (`LoopsEnd`) |
| `server` | two workers, three descriptors, three items, two LEDs | `OwnDescriptor`, `OneRightAnswer`: a closed connection has got one answer, of the kind its own request calls for, through its own descriptor (which text is in a file of the accelerator is not its subject, see `hwcompress_threads`); `NoOtherLeak`: only downloads and lost connections leak descriptors; `AddrsReady`: nobody has an item, and the LED thread does not run, before `addrs` is mapped, whether or not the LED thread could be created; `LedMeansWork`; `OneLight` (the light is never shifted out, not that it moves); `ConnectionCloses` |

Why the bounds are enough. The entities have no state that depends on the length
of their input but their offsets: a code is independent of the code before last
but for the left-over bits, of which 0 to 7 occur; two table entries give every
pair of consecutive reads; two requests give a first and a later one, and
`EncoderAtRest` shows that the second finds all control registers as the third
would. An alphabet of two letters keeps the first and the last entry of the code
table, which are the two cases of the driver's loops. Four connections let a node
be first, middle and last with one accepted behind it, and three workers wait,
hold the mutex and serve at the same time.

Four letters give every shape of a tree that the code can build from up to four
subtrees, including the deepest, and ties of all kinds. `MaxCode` 3 and
`WorkingSize` 11 stand for 55 and 64: the buffer has exactly the room that seven
pending bits, the longest code and a terminator need. Texts of eight letters fill
more than one byte, and end on a byte's edge or not. Three descriptors are what
one page needs (socket, file, directory): they run out while another worker is in
the middle of its own request, and are reused at once.

`MCConnQueue.cfg` and `MCConnQueueLost.cfg` do not check deadlock: `fault` stops
the model, and in `connqueue_lost` the bound on connections may leave only
stuttering. `MCRoundTrip.cfg` does not because a round trip ends, and
`MCServer.cfg` because the process may end. Everywhere else the clock always has
a next edge.

### Fairness

* The clock runs and the memory answers infinitely often (`WF` of an edge with
  `waitrequest` low): an Avalon slave may not hold a request forever. No
  fairness is assumed between an answer and a stall at a given edge.
* The kernel runs every thread (`WF` of `ThreadStep`, of `Enqueue`, and of the
  pool as a whole). No worker of the pool is promised the mutex:
  `HeadIsServed` needs only that some worker goes on.
* `RoundTrip`: the loops of the coder and of the decoder run on (`WF` of `Code`
  and `Decompressing`); nothing but themselves can stop them.
* `Server`: each worker inside `handler` goes on (`WF` of `Respond`), but not in
  `recv`, which waits for the client without a timeout, and not in the queue. A
  `send` that fills the socket's buffer waits as well; it is assumed that a client
  that sent a request reads the answer or goes away. That `hw_compress` comes back
  is `WaitReturns`, which is checked for one thread at a time; for several at
  once it is an assumption here. `ConnectionCloses` says nothing once the process has
  ended: it is about the paths of `handler`, not about the requests that end the server.

### What the violated runs show

* `hwcompress_threads`. `hw_compress` takes no lock (`handlers.c:266-285`). Two
  requests for `?hardware` at the same time mix their inputs, or the second
  resets and restarts the encoder while the first polls `Status`.
* `hwcompress_crash`. `encoder.vhd:239-240` resets `State` only. When the server
  is restarted while the encoder works, the text handler of the old run goes on
  under the new one.
* `hwcompress_tail`. `text` is allocated with `file_size` bytes and never
  terminated (`handlers.c:254-255`), but used as a string.
* `connqueue_lost`. `enqueue` tests `tail`, loads it again, links and stores it
  without the mutex (`conn_queue.c:13-18`); a `dequeue` of the last node in
  between removes the node to which the new one is linked.

Some observations have no run of their own because no statement of the
repository speaks of them, or because they need the contents of buffers; they
are among the hazards in `PROJECT.json`. The most important are: a request with
an unsupported method ends the process (`handlers.c:54`, against the comment at
`handlers.c:436`), as does a download that cannot be opened (`handlers.c:77`);
every download leaks a descriptor (`handlers.c:152`, `242`); clients that send
nothing keep their workers for ever (`handlers.c:41`); the 65536 bytes of a file
and of a response are never checked (`handlers.c:186`, `109`).

## Proofs

No invariant of interest is inductive alone; each module of proofs states the
strengthening it needs, one lemma per action that it is kept, and then what
follows from it. Every invariant was first checked by TLC.

**`CodeWriterProofs`** proves about `CodeWriterBench`, for every set of codes of at
most 57 bits, every set of destinations, every memory and every bound on the
stream that fits into it (`CodesAssumption`, `RoomAssumption`):
`Invariance`, `TypeCorrect`, `RegisterNeverOverflows` (`WipFits`), `NoBitLost`
(`PendingKept`), `BytesInMemory` (`StreamWritten`) and the action properties
`DoneCountsBytes` (`DoneIsFlushed`) and `MasterKeepsProtocol` (`RequestHeld`).
`StreamWritten` needs to know that the byte on the bus is the first pending byte
and goes to the first free place (`Request`), and that the pending bits are fed
bits (`PendingKept`); that needs the code which waits to be added to be the end of
what was fed (`Waiting`); `WipFits` needs less than a byte to be left over when a
code is accepted (`Waiting` again); and the write stays inside the memory because
the stream is bounded (`Room`). `Inv` is their conjunction. The assumption of 57
bits is what the register allows behind seven left-over bits. The program's codes
are shorter: a Huffman tree of 56 leaves has depth 55 at most.

**`TreeHandlerProofs`** proves about `TreeHandlerBench`, for every string, every layout
that fits (`MemAssumption`) and every behaviour of `waitrequest`: `CopyIsFaithful`
(`TreeCopied`), `KeepsInBounds` (`InBounds`, which is proved only) and
`DoneAfterCopy` (`DoneIsComplete`). The invariant says that the file lies behind the
string (`Layout`), what is on the bus (`Request`), that the character in hand is the
source's and not its end (`Current`) - from which follows that the copy stops before
it leaves its place - and which bytes of the length are written (`LengthWritten`).

**`CodeReaderProofs`** proves about `CodeReaderBench`, for every table whose entries
point to strings of fewer than 64 digits (`TableAssumption`): `HandsOutString`
(`CodeIsString`) and `ReadsNothingElse` (`ReadsItsOwn`). The invariant says which bytes
of the pointer are read (`Pointer`) and that the bits are the digits of the string so
far (`Prefix`); the bound of 64 is what the six bits of the length need.

**`CodedFileProofs`** has two parts. The first is about the software coder alone
(`CoderSpec`), for all texts and all tables of codes of at most `MaxCode` bits with
`MaxCode + 8 <= WorkingSize` (`WorkingAssumption`: 55 and 64 in the source), prefix
codes or not: `WorkingNeverOverflows` (`WorkingFits`), `NoCodeBitLost` (`BitsKept`),
`BytesOfStream` (`BytesPacked`), `EndsComplete` (`AllWritten`). Its invariant adds that
less than a byte is pending when a code is added, and that the bytes written and the
pending bits make up what was fed.

The second part is about `CodedSpec`: any of the three coders, its file, and
`decompress`, for every number of letters (2 to 56), every text, every tail and every prefix
code. `TextComesBack` (`TextReturns`) says that the text is what `decompress` prints;
`BuffersHold` (`BuffersFit`), `FileIsRead` (`ReadsOnlyFile`), `OverrunIsBounded`
(`OverrunBounded`) and `BytesOfFile` (`BytesPacked`) are the other invariants of the
run. The invariant `CodedInv` has three parts.

* `InputOK`: what the constants promise, and that the codes are a prefix code.
* `FedCodes`: what was fed to the software coder is the codes of the characters so far,
  one behind the other. `Message` is the sequence of letters that a complete file
  holds (for the accelerator with the tail and with 'A' for a character without a
  code), and `At(k)` the number of bits that its first `k` letters take.
* `DecoderPart`: the file is whole (`FileWhole`: its three lengths and the bits of its
  body, whichever coder made it) or that of a tool that gave up (`FileCut`). For a
  whole one, the bits read are those consumed and those pending in `dwork`
  (`Follows`); the letters stored are the message, as far as it goes, and the bits
  consumed are then exactly `At(Len(stored))`; behind the message there is only
  padding, of which each letter stored takes a bit at least.

The heart of it is that a letter found is the letter that was encoded. Both codes
begin the same bits, so one is the beginning of the other, and a prefix code has no
such pair; this is why the order in which the loop tries the letters, and its going on
behind a letter just found (`decompress.c:66-75`), do no harm. A search that found
nothing has seen that no code begins the pending bits (`NoneMatches`). Inside the
message the next code begins there, but for its end, so fewer bits than that code
has are pending; behind the message, nothing is pending while there is a byte to
read. So another byte fits (`BuffersFit`), and when the last one has been searched
every letter has been found. The length in the file counts its bytes exactly, so
`decompress` reads no further.

The assumptions are that the texts are sequences of characters 1 to 255
(`CharactersAssumption`: a text file without a NUL, whose tail ends before the
NUL), whose place in the alphabet is among the letters that have a code, as with
56 letters it always is, and that the lengths fit into the `int` in which
`decompress` counts (`FileAssumption`).

**`ConnQueueProofs`** proves for any number of workers and connections that the
queue, at the granularity of memory accesses in a sequentially consistent memory,
never makes a worker touch a freed node (`DequeueTouchesLiveNodes`) and implements
`LossyQueue` (`QueueIsLossy`). The invariant says that links lead to later nodes
only (so that the order survives whatever `enqueue` does to `tail`), that all
nodes before `head` are those already passed, and what the one worker inside
`dequeue` has read.

**`ServerProofs`** proves, for any number of workers, descriptors and connections,
`KeepsToItsOwn` (`OwnDescriptor`), `AnswersOnce` (`OneRightAnswer`),
`NeverUnmapped` (`AddrsReady`) and `LitWhileWorking` (`LedMeansWork`). An item is
held by at most one worker because the queue hands it out once (`OwnItem`); a
descriptor stays with its connection until that worker closes it (`SocketsKept`);
so what a worker knows of its client at each place of `handler` (`Prepared`) stays
true whatever the others do. `AnswersOnce` is about routing: a client is answered
once, with the kind of answer it asked for. That the file of a `?hardware` request
is made from its own text is `EncodesOwnJob`, which fails when two of them run at
once. `NeverUnmapped` needs that nothing is accepted, and no LED thread runs,
before `main` is in its loop, and that `main` gets there only with `addrs` mapped
(`StartOrder`). `QueueInServer` and `LightInServer` show that the parts keep their
own specifications in the whole, which is what lets the theorems about the queue
and the LEDs be used here; the LED thread is proved beside it (`LightNeverLost`,
for any number of LEDs). `LeaksAreKnown` (`NoOtherLeak`) needs one thing more: a
lock-step account of which file each worker has open, so that whatever is open
belongs to a worker, to a client that waits, or to a finished download.

**`HwCompressProofs`** proves about the whole composition - the driver, the six state
machines and the memory between them - for every alphabet, set of jobs, tail, memory size
and number of requests, and for every behaviour of `waitrequest` and of the latches.

*Control.* `BusIsOwned` (`BusOwned`) and `RestsBetweenRequests` (`EncoderAtRest`) are
theorems under `Undisturbed`: one thread, no restart of the server process, and three
clocks from one slave access to the next. Without the first two they are false, which is
what the runs `threads`, `orphan` and `crash` show; the third is what an access over the
bridge between processor and FPGA takes many times over, and two clocks would not let the
pulse on `reset` through before `start` is written. The invariant `Control` has one part
per entity that says which requests its state holds up (`TreeShape`, `CRShape`, `CWShape`,
`TextShape`, `EncShape`), and one part per pair of entities that says how far the handshake
between them is: the one that is started rests, works or has just reported, while the one
that started it waits with the multiplexer switched to it, and rests in every other state
(`ReaderPart`, `WriterPart`, `EncPart`). `DriverPart` ties `ctl` to the place of the thread:
the pulses on `reset` and `start` are through before the next access. An edge is proved in
the order of the signals: one lemma per entity about its own tick under what the entities
around it may send, and then the two kinds of edges.

*Data.* `PulsesAreAnswered` (`PulsesAnswered`), `WritesStayInFile` (`WritesInFile`),
`StatusIsFresh` (`StatusFresh`) and `HwTypes` (`TypeOK`) need to know in addition what is in
the registers and in the memory. The invariant is `Control /\ Data`, and `Data` is

* `Typed` and `Kept`: what the registers, the memory and the driver's variables range over;
* `Driven`: what each step of the driver has behind it - the code table, the tree and the
  text at their places (`Inputs`), the addresses in `addrs` and in the slave registers, and
  in the end the file (`FileOut`);
* `Work`, while the driver waits: what each state of the encoder's sequencer has behind it.
  In `TextWork`, `Letter` follows one character from the memory through the letter
  indexer and the code reader to the code writer, and `Stream` says that the code writer
  has been given the codes of the characters before it, once each and in order.

The invariants of the tree handler, the code reader and the code writer are not stated
again: `Data` contains those of their benches, instantiated (`TB`, `RB`, `WB`) with the
memory, and for the writer with the bits that the text handler has handed over (`FedNow`)
in place of what the bench feeds. One lemma each (`TreeAsOnBench`, `ReaderAsOnBench`,
`WriterAsOnBench`) shows that a clock of the entity inside the encoder is a step of its
bench, so that `CodeWriterProofs`, `CodeReaderProofs` and `TreeHandlerProofs` carry over.

`Data` is proved under `WellFormed` as well: every letter of a text has a code of at most
57 bits, no string holds a NUL before its end, and the layout and the file fit into the
memory, whose size a word can hold. The program's codes come from a Huffman tree of 56
letters and have at most 55 bits; its strings are C strings; and the SDRAM has 2^26
bytes, whereas the driver itself checks no size. The jobs of `MCHwCompress` satisfy
`WellFormed`, and TLC found `Data` to hold of them before it was proved.

*Refinement.* `ImplementsService` adds `NoTails`: nothing follows the text in its buffer.
Then every step of `Spec` is a step of `CompressService` or leaves all that a caller sees
unchanged: `Request` asks, `CopyOut` answers with the file of the thread's own text, and
everything between is internal. `OneThreadEncodesOwnJob` is `EncodesOwnJob`, the
property that the runs `threads`, `crash` and `tail` refute: under `Undisturbed`,
`WellFormed` and `NoTails` it holds for every instance. Beyond jobs that fit and accesses
that are not too close, it depends on nothing but what these runs take away. The
fairness of the service (that a request is answered at all) is checked by the run
`hwcompress` only.

Only model-checked are

* liveness: `CodeFinishes`, `CopyFinishes`, `ReadFinishes`, `WaitReturns`, `ComesToRest`, the
  fairness part of the refinement of `CompressService`, `HeadIsServed`, `LoopsEnd`,
  `ConnectionCloses`; fairness and `ENABLED` are out of the prover's reach;
* the Huffman coding itself: that its codes are a prefix code (`GoodCodes`), that they
  are optimal (`Optimal`), and that `rebuild_tree` restores them, which is what the
  refinement of `CodedFile` by `RoundTrip` (`CodedSpec`) adds. These operators are
  recursive over the tree; what they compute is an induction over data.

## Not modelled

* Of the request handler: a `malloc` that fails, and the text of requests, headers
  and pages. What a request says decides only which answer it gets.
* Memory that is allocated and never freed. Only descriptors are counted.
* The memory order of the ARM. The queue's properties assume sequential consistency.
* The sleeps of the LED thread, `print_str_from_mem`, and the unmapping behind the
  accept loop: they change nothing or never run.
* `pqueue.h` (included nowhere) and the headers with register macros.
* The board's top level (wiring), scripts, images, web pages.
* The generated FPGA project: Quartus databases, vendor IP, and the SDRAM
  calibration firmware (`sequencer.c`, twice, with its headers). It is most of the
  repository's C code, runs before the program does, on another processor, and
  is used as it came from the vendor; the SDRAM appears as the memory it provides.

## Plan

1. Done: the encoder bottom-up, the driver on top of it, the refinement of
   `CompressService`, the queue, the proofs about the code writer.
2. Done: the Huffman coding and the round trip through all three coders, with the
   proofs about the software coder.
3. Done: the server with its descriptors, and the LED thread; the abstraction of
   the queue and the proof that the queue implements it; the proofs about the
   server.
4. Done: the proofs about the tree handler and the code reader.
5. Done: the proof about the composition in `HwCompress`, its control and its data, and
   that it implements the safety part of `CompressService`.
6. Done: `CodedFile`, between the Huffman coding and the way of a text through coder,
   file and `decompress`, and the proof that the text comes back for every prefix code.
7. Left: `WaitReturns` for several threads at once, for which the state space of the
   whole accelerator is too large; a proof about `huffman.h`, which needs an induction
   over trees.
