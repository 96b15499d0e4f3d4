# A TLA+ model of LMPC

LMPC is the *Little Movie Processing Centre*: tools for the demo files ("recordings") of games
from Doom to Quake III. `lmpc` converts recordings between their binary form and text and
repairs them, `demcut` cuts them interactively, and `dbs` is a server that plays a Quake demo over
the network to ordinary game clients. This directory holds TLA+ modules translated from the C
sources, TLC configurations that check them on small instances, and proofs checked by TLAPS.

Paths such as `dbs.c:342` mean `src/src/dbs.c`, line 342. `PROJECT.json` lists the components, runs,
theorems and hazards and maps every definition to the lines it stands for.

## 1. Inventory

| component | state | operations | hard behaviour |
|---|---|---|---|
| DBS control server (`ControlServer`, `find_free`) | the table of player slots in System V shared memory: `used`, address, packet counter | CONNECT: look for a known address, find a free slot, fork; answers to queries | a process per player sharing the table without locks; processes that die; fork that fails |
| DBS reliable transmission (`SendInitDEMPacket`) | packet counter, block in hand, offset, retry counter | send a fragment, wait for its acknowledgement, retry, give up | lost, repeated, late and reordered datagrams; a retry counter that other packets reset or use up |
| DBS session (`PlayServer`) | place in the sign-on, order counter of the client, place in the demo | precache, orders "prespawn", "spawn", "begin", runtime packets | repeated orders, orders that arrive during a transmission, failures in the middle of a packet |
| DEMcut (`demcut.c`) | files and their sizes, current file and frame, running range, loop, open output | one-letter commands from stdin; the running range is served between them | a range interleaved with commands that change what it depends on |
| LZW (`lzw.c`, `unlzw.c`) | code table, code width, bit buffer kept in static variables | compress, decompress | the two sides must widen codes in step; codes defined by the step that reads them; static state after an error |
| DMO (`udmo.c`) | macroblocks of compressed tics | read | chunk limits |
| LMP (`ulmp.c`, `ActionConvert`) | header, tics, current and next pause | detect the game by the size of the file and what its tics look like, change header fields, remove pauses and saves, add tics | ambiguous files, pauses of several players, players with a hole in their numbers |
| repair in place (`ActionInplaceDEM`, `ActionInplaceDM2`) | position in the file, the block in the buffer, place of the search, an empty block seen | search by bytes, strike, merge, write back | the file is rewritten under its own reader; the search does not know where messages begin |
| DEM, QWD, DM2, DM3 (`udem.c`, `uqwd.c`, `udm2.c`, `udm3.c`) | the block in hand as a tree; from block to block the version of the server and the kind of recording; while writing the client a message is for | read, edit and write a block | masks over masks, values that choose the layout of others, three kinds of frames told apart by trying, a switch without break |
| Node trees (`node.c`) | sibling, parent and child pointers | add, unlink, reorder, delete | lists dissolved and relinked |
| binary blocks, tools | buffers | numbers and strings of fixed width | widths, ends of buffers |
| Huffman and `msg` (Quake III, vendored) | adaptive tree | bits in and out | outside this project's code |
| text parsers, Java port, scripts, docs, C library replacements | | | not state machines of this program |

**How they interact.** `lmpc` is a sequential program: `main` picks an action by file type, the action
reads the file through a format module, which uses binary blocks and node trees; LZW is called by
DMO only. `demcut` and `dbs` use the DEM module to read blocks. In `dbs` the control process forks one
child per player; control process and children share the slot table, a child and its client exchange
UDP datagrams: the client's orders, acknowledgements in both directions and blocks of the demo.
`dbs` is the only part where processes run concurrently and messages are lost, hence it comes first.

**What makes the parts correct.**

* Slots: a taken slot has an owner; no two sessions share one; one child per client; the slot comes
  back; every CONNECT comes to something.
* Transmission: in-order delivery without gaps or repetitions; success means received; a call ends.
* Session: an acknowledged order was acted upon, exactly once; the client sees the demo block by
  block; the session ends.
* DEMcut: what a range writes is exactly its frames; the frame stays in the file; a range ends.
* LZW: decompression inverts compression, also across width changes, and the decompressor stays
  inside its table.
* Conversion: what is written reads as what was read, but for the messages the editor is to change; each message
  stays with the client it is for; a copy of a copy is the copy; a block does not grow.
* ActionConvert: the header is the one asked for, the tics are those outside pauses.
* Repair in place: the file stays a recording, holds what a conversion with the same option would make, and no other
  byte is touched.
* Node lists: always a doubly linked list holding every node exactly once.

## 2. Modules

### DbsControl: the control server and the slots

`used`, `caddr`, `sequence` are the fields of the shared table. `ctl`, `from`, `ignore`, `pi` are the control
process: where it is in the handler of a CONNECT and its local variables. `child`, `cslot`, `peer`, `sent`
describe each forked process. Steps are as fine as the accesses to shared memory, for that is where
processes interleave: one turn of a scan over the slots is one action (`LookForConnected`, `FindFree`), the
write of the address (`Claim`), `Fork` and `ForkFails` are one each. In the child, `Mark` sets `used` (only the child
does, dbs.c:342), `Accept` reads the address back, `ResetSequence` clears the counter, `Send` counts a packet,
`Hear` is a keep-alive or a fresh order that arrives while the child waits (dbs.c:560-567, 765) and `StartOver` the loop that begins to count its
tries again (527-528); `Release` gives the slot back, `Crash` is `syserror`, which exits inside `PlayServer` without giving
anything back. `pending` holds the clients that still wait for an answer to a CONNECT.

*Abstractions.* `caddr` stands for the copies of the address kept in the slot. `PlayServer` is
a chain of packets sent and heard here, its protocol is in `DbsSession`. Process identifiers of dead
children that crashed are not used again. Shared memory starts with `used` FALSE, as `main` writes it;
the fields `main` does not write start as zeroed System V pages.
The queries (SERVER_INFO, PLAYER_INFO, RULE_INFO), which only read, are left out.

`raced` is a history variable: a CONNECT was taken off the socket while a forked child had not marked
its slot. In that window the slot still looks free and the server gives it out again. Three of
the properties hold exactly as long as it has not happened, and say so. `AtMostMaxPlayers` is the claim
that does not survive it.

`SlotReclaimed` says of each slot that it is given back whenever it is taken, with two exceptions it names: a child that crashed, and a
client that holds the slot for ever because it never falls silent (`HeldForEver`). `ConnectAnswered` excuses the client of a crashed
child and no other; that a further CONNECT of that client is dropped without an answer, since its address is still in a taken slot
(dbs.c:306), counts as what the code does with a connected client.

### DbsDelivery, DbsLink: the reliable transmission

`DbsDelivery` is the abstract specification: the client gets the fragments of the demo's blocks in file
order, and the server counts (`confirmed`) only fragments the client has.

`DbsLink` is `SendInitDEMPacket`. One turn of its retry loop is two actions: `Transmit` (sendto), and the outcome of
select(): nothing (`NothingHeard`), an acknowledgement (`RecvAck`), a keep-alive (`RecvKeepAlive`), another
order (`RecvOrder`). All end in `EndOfTurn`: the increment of the `for` statement, its condition and the test
behind the loop, which looks at the counter and not at the flag. The network is four sets of
datagrams that are never taken out: a datagram may be received late, repeatedly, in any order or never.
`seq` is the packet counter in the slot.

The *client* is not part of the repository; it is modelled as dbs.c expects it to behave: it acknowledges
every fragment, keeps the one with the expected number, sends its orders one at a time and repeats one
until it is acknowledged. A keep-alive travels alone in its packet.

*Abstractions.* Fragments are records of block, offset, length and the LAST_REL bit, not bytes. Blocks have
at least one byte. A number does not wrap (32 bits, one per packet). Datagrams from other
addresses or of other types are the `NothingHeard` case: they do end a turn.

### DbsSession: a session

`DbsSession` EXTENDS `DbsLink` and adds `PlayServer`: it composes the two as caller and callee, over the
same network and with the same packet counter. `phase` says where `PlayServer` is; in the phases
"precache" and "order" it is inside `SendInitDEMPacket`. `RecvFresh` acknowledges a new packet of orders *before* it is
carried out, as the code does; the orders are then read one by one, and "prespawn" and "spawn " call
the transmission. A repeated packet is acknowledged again and ignored. `SendRuntime` and `RuntimeEnds` are
the runtime phase. `Script` is what the client may send when it has received `n` whole
blocks; `taken` and `precached` are history variables.

*Abstractions.* The pacing of runtime packets by the time stamps of the demo, and the view angles put in front
of a block, do not matter to order and numbering. "name" and "color" change nothing.

### DemCut: the interpreter of demcut

The variables keep the names of `demcut_t`; `input` is `demfiles[demfile]`, `opened` is `output_dem` being set, `out` what
the open output file holds, `camera` the frame whose angles are in `a1`, `a2`, `a3`. One action per command (`SelectInput`
is d, `FrameCommand` f, `RangeCommand` r, `SelectOutput` o, `CdTrack` c, `Multi` m, `SetLoop` l, `SetInter` i, `Quit` q), each with
`stop_running_range`, `open_output` and `close_output` where the code calls them. Between commands the main loop
writes the next frame of a running range (`WriteNextRangeFrame`) or, in interactive mode, repeats a frame
(`RepeatFrame`). Out of that mode r loops inside its command: `AtPrompt` is then FALSE until the range has ended.
`Die` is `syserror`; `FileFails` is any failure to open, read or write a file.

*Abstractions.* A frame is what `write_frame` looks for in it: whether anything but the camera is in it (`empty`), a signonnum or
disconnect message (`final`), a player's name or colors (`multi`). One call of `write_frame` appends one block with
the number of copies the loop makes. Time stamps, speed and what is printed are left out; the clock may pass any test at any
time, twice in one turn of the main loop as well, since the code reads it twice. The angles 0.0 that `open_output` sets and the
uninitialised ones before it are one value, `NoRef`. A frame number outside the file is an index outside
`frames[]`: what is read there is no position in the file, and the program exits, or it is one, and something is written
(`RepeatWild`).

`last`, `shown`, `copied` and `slipped` are history variables. `slipped` says that the repeating branch was taken while a range
ran (see the facts without a run below); the properties about the output are stated for ranges to which this did not happen.

### Lzw: compressor and decompressor

`enc` and `dec` hold the local variables of a call of `compress` and of `decompress`; `n_bits`, `bits` and `buf` are the static variables of
`putcode`, which outlive the call. `Known` and `Unknown` are one turn of the loop of `compress`, with `PutCode` as part of
the turn; `LastCode` and `Flush` are the last two calls of `putcode`; `Decode` is one turn of the loop of `decompress`, that is one code.
What was compressed is handed to `decompress` the way DMO_readblock_13 does it: with the size of the data and the
last code from the header of the chunk. `DecompressDamaged` reads any other stream with any header, since
`decompress` is given what a file holds.

*Abstractions.* The numbers are scaled down: symbols of `SymBits` bits, bytes of the packed stream of `ByteBits`, a table of
2^`MaxBits` places, a bit buffer of `BufBits`; in the code they are 8, 8, 15 and 32. The hash table of `compress` is the map it
implements (hash values stay below its size for any code of 15 bits). Left out: the branches for a last code of 0, which copy;
malloc that fails; SUM_TICS, which is never defined. In this program only `decompress` is called; `compress` is the
definition of the format that goes with it.

`stale` and `enc.pure` are history variables: after a call that failed the static variables are left as they were, and what
the next call writes does not have the format. The properties about the result hold of the other calls.

### Convert, and the four formats

`Convert` is the loop of `ActionDEMbin2DEMbin` and its three siblings. `ReadHead` reads what is in front of the messages of a
block, `ReadMessage` one message, `Edit` calls the editor when `fix` (`--fix-multi`) is on, `WriteMessage` and `WriteBlock` write the
tree. Reader and writer run in the order of the code, with the variables that live longer than a block: `ver` (`SERVERVERSION`),
`demotype` and, in the writer of DM2, `unicast`. The last is a local variable nobody initialises (udm2.c:1607, first used in 1643): `Edit` chooses its
value from `Strays`, and `stray` remembers that a block began with one that names a client. `SecondRun` gives the output to a second run of
the program. `phase = "aborted"` is `syserror`, or a look below a node that is not there (`Aborted`): the writer of an unknown message expects its data
(binblock.c:606), and for a server up to version 26 the writer of playerinfo looks for fire, jump and flag behind the speed without asking whether
anything follows (uqwd.c:2728). `phase = "outside"` is a reader that has left its block: no reader of strings or numbers looks where the block ends, and what
is behind it in the buffer is left over from other blocks. What the rest of such a block would become is not modelled.

`Binblock` has the numbers, floats and strings of `binblock.c` with their widths, and the writers that choose one by the hint of a
node. `Layout` is the notation for the readers and writers of messages: a table with one row per number or string in the order of the bytes, with
the mask bits that say it is there. A reader and a writer have a table each, since in the code they are two functions which may disagree.
`DemFile`, `QwdFile`, `Dm2File` and `Dm3File` are the messages, block heads and editors of the four games. `Q3Msg` is what the
vendored `msg.c` does for Quake III: bits, strings and delta fields, the last as the game writes them.

*Abstractions.* One byte other than 0 stands for a text or a part of one; a few of them are the commands the editors look for. `StringMax`, `StringChars` and
`BigChars` stand for the sizes of the string buffers. A coordinate, an angle or a volume is its integer, because the fractions are exact in a
float; time offsets and blends are not, and are computed. Bits of Quake III do not go through the Huffman code. Comments attached to nodes,
marks, text, and the message temp_entity of Quake II, whose code is generated from tables the repository does not
hold, are left out. `long` has 32 bits.

### LmpFile, LmpConvert: ActionConvert

`LmpFile` is `ulmp.c`: the headers of seven kinds of files, the detection of the game and the bytes of a tic. `LmpConvert` follows `ActionConvert`:
`ReadHeader` (detection, then `-g`), `Refuse` (a version or a view the game does not have), `WriteHeader` (into a temporary file, or over the header of the
input), then either `CopyTic`, once per tic of a player, and `EndOfTics`, or `CopyTics`; `WriteEnd` writes the waiting tics and the last byte.
`currentpause` and `newpause` are the code's variables: a pause that starts or ends takes effect with the next tic of the first
player. *Abstractions.* The date of the file is one bit (`recent`); `MINBUF`, `MAXBUF` (the most bytes the guess looks at) and `TicRate` are parameters; the name of the
temporary file and its renaming do not appear.

### Inplace, Lmpc: the repair in place, and main

`Inplace` is `ActionInplaceDEM` and `ActionInplaceDM2`. `ReadBlock` fills the buffer; `SearchDEM` and `SearchDM2` are one turn of the loop over `bufferbase`
with all its searches, `SearchEnds` its condition; `Fields` looks at the first message, `Merge` joins an empty block with the next one, `WriteBack` seeks back and writes.
Here lengths matter, since the search goes on by the length of what it found: a symbol is followed by as many `Rest` as the text has more
characters. `Lmpc` chooses one of the actions, `acConvert` or `acInplace`, by the file and the options, and states the properties about both.
It uses the readers of `DemFile` and `Dm2File` to say what the messages of a repaired file are.

`MergeEnd` is an empty block right in front of the end block: three bytes of the latter become a block, and its last byte is read
as the size of another; what is in the buffer behind that byte is not defined (phase "lost").

### MC modules and proof modules

`MCDbsLink`, `MCDbsSession`, `MCDemCut`, `MCLzw`, `MCConvert` and `MCLmpc` give values to the sequences, functions and sets among the constants. `DbsLinkProofs`,
`DbsControlProofs`, `DbsSessionProofs`, `DemCutProofs`, `LzwProofs`, `LmpcProofs` and `InplaceProofs` hold the theorems. `Powers` holds lemmas about powers of
two, division by them and the least number of a set, which stand in for induction.

## 3. Runs

| run | configuration | shows | bounds, and why they are enough |
|---|---|---|---|
| `dbs_control` | `DbsControl.cfg` | slots have owners and come back, sessions are private without the race, every CONNECT comes to something | 2 clients, 2 slots, 2 processes, 1 packet numbered by a child and in a slot, any number heard: a client repeats its CONNECT, the table fills, a slot is given back and used again, two children share a slot, fork fails with another client's address in the slot |
| `dbs_control_limit` | `DbsControlLimit.cfg` | a violation: more children than `-m` allows | 1 slot, 2 clients |
| `dbs_link` | `MCDbsLink.cfg` | `SendInitDEMPacket` implements `DbsDelivery`; success means received; a call ends | three tries; a block below the fragment size, one that is a multiple of it or longer; stale acknowledgements of both |
| `dbs_session` | `MCDbsSession.cfg` | an acknowledged order is acted upon once, the demo arrives in order, the session ends | a sign-on of three packets and a keep-alive, three tries |
| `dbs_session_precache` | `MCDbsSessionPrecache.cfg` | a violation: success is reported for a block the client dropped | two tries, two orders |
| `demcut` | `MCDemCut.cfg` | a range prints and copies what it should, stays in its file and ends; what is repeated is the last frame | a file with a sign-on and a names frame, one with a single empty frame, two outputs, loop counts 1 and 2, commands while fewer than three blocks are written: ranges of both directions cut short by every command, switches of input and output, a first block of each kind |
| `demcut_repeat` | `MCDemCutRepeat.cfg` | a violation: the frame repeated is not the last one, its number -1 | one file of three frames |
| `lzw` | `MCLzw.cfg` | the decompressor follows the compressor code by code and gives back what was compressed; it stays in its buffers whatever it reads | all inputs of up to twelve symbols and the beginnings of one that uses up the table; widths of two, three and four bits; buffers of one byte up to more than enough, so that calls fail at any place; all streams of up to five bytes and one with more codes than the table has places |
| `formats` | `MCConvert.cfg` | a recording that is read, written and read again is the same but for the edits; nothing else changes, and a block does not grow | every message of the four games with no, one, two and all bits of its masks, filled in three ways: small values, zeros, negative values; versions of the server on both sides of each limit; every kind of block head; up to three messages in a block, two to four blocks, with every combination the editor reacts to; kinds of Quake II recordings one after the other; unknown messages with and without data, playerinfo that ends behind its speed, lists of strings without a string |
| `dm2_fix` | `MCConvertFix.cfg` | a violation: a message for all is written for one client | one block of two messages |
| `qwd_delta` | `MCConvertDelta.cfg` | a violation: a delta packet ends the program | a delta packet without and one with an entity |
| `files` | `MCLmpc.cfg` | LMP files get the header and the tics asked for; a repaired recording is one, with the messages a conversion makes, and its other bytes are where they were | LMP: every game, with players 1, 2, 3, 4, 8 and a hole in the numbers, every version asked for of every game; five to seven tics, for pauses all combinations of four values of the button byte over five tics of one or two players. Recordings: up to four messages in a block, each command twice and three times, in front of and behind a long text; two empty blocks in a row and at either end |

`StringMax = 4` in `formats` makes texts as long as a buffer short enough to occur; `DM2_MAX_ITEMS = 3` does the same for the counts that tell frames apart. In
`files` a text has its true length, with `StringMax = 80`, and `MINBUF = 40` makes files both shorter and longer than the limit
from which on their tics are looked at, `MAXBUF = 44` files longer than what is looked at.

Bounds in the models: `MaxChildren`, `MaxSent`, `MaxOrders`, the finite demo, `MaxOut` (blocks in the output when a command or a
repetition adds one; a range that has begun always goes on) and `MaxLoop`. The recordings of `formats` and `files` are finite
sets, and a conversion ends. `CHECK_DEADLOCK FALSE` is set where the system may stop: the demo ends,
a transmission has failed, demcut has ended, a bit buffer has been filled beyond its width by calls that failed. `AgainInputs` bounds what is compressed
after a failed call.

**Fairness.** `DbsControl` has weak fairness of the control process and of each child: the kernel schedules them.
There is none on `RecvConnect` (a client need not call), on `Crash`, or on any particular outcome of fork.
`DbsLink` and `DbsSession` have weak fairness of the server's steps only: select() has a timeout, so the loop
always goes on. Network and client get none: nothing forces a datagram to arrive. Hence `CallEnds` and
`SessionEnds` state that the server ends without any help, with two exceptions the code allows and the properties name.
Inside a transmission each keep-alive sets the retry counter to 0 (dbs.c:765). Outside one, each fresh packet, a keep-alive or an order, ends the
waiting loop (560-567) and the loop around it begins again with no try used (527-528). A client that never falls silent therefore holds
its session and its slot for ever; only the width of its packet numbers bounds that. In `DbsSession` the bound `MaxOrders` ends it
before, so there the second exception is stated and does not occur; in `DbsControl` `Hear` has no bound, `HeldForEver` does occur, and `SlotReclaimed`
says that nothing else keeps a slot.
`DemCut` has weak fairness of `WriteNextRangeFrame`: the main loop looks for it in each turn in which stdin has no
command and the frame before is over, so it is assumed that the user pauses that long at some time. No command
is fair. `RangeEnds` therefore excludes a user who starts new ranges for ever.

## 4. Proofs

`DbsLinkProofs` proves for every demo, every fragment size, number of retries and number of orders:

* `LinkTypeCorrect`: the type invariant.
* `SentBlockIsReceived`: when `SendInitDEMPacket` returns 1, the client has the block to its last byte.
* `LinkImplementsDelivery`: `DbsLink` implements `DbsDelivery`, with `confirmed` mapped to `seq`.
* `CallAdvances`: without keep-alives every turn of a call takes it to the next fragment or uses up a try. It is the part of `CallEnds` that needs no fairness.

The type invariant says nothing about the network, where datagrams of the past stay for ever. `LinkInv` adds it:
the client is at most one fragment ahead of the counter (`CounterInv`); acknowledgements exist only of what the
client has (`AcksInv`); every datagram below the client's count is old, one *at* the count is the
fragment in hand (`FragsInv`); if the client is ahead, its last fragment is the one in hand (`AheadInv`);
and the fragment in hand follows the last one received (`InHandInv`, `IdleInv`). A stale acknowledgement has a
number below `seq`, so it cannot end a turn; the step that accepts a fragment is `Deliver`, the step that
advances `seq` is `Confirm`, all others stutter. The proof holds for `LinkSpec`, whose caller stops after a
failed call, as `PlayServer` does on orders. It would not hold of a caller that goes on, as
`PlayServer` does after the precache block: that is finding 2 below.

`DbsControlProofs` proves for every set of clients, number of slots, of children and of packets:

* `TypeCorrect`, `TakenSlotHasOwner`: the type invariant, and that each taken slot has a child inside
  `PlayServer` or a crashed one.
* `SlotsArePrivate`, `ClientsHaveOneChild`, `SessionsAreUndisturbed`: without the race, no two children share a slot,
  no client has two children, and slot and child agree on the client's address and on the number of packets.

The invariant `ControlInv` follows the control process through its scan. Without a race there is at most one child
that has not marked its slot (`RaceFreeInv`), and none while a request is in hand; what the scan has seen is therefore
still true when it ends, because nobody but the control process writes addresses and slots only become free.
`ClaimedInv` and `UnsentInv` say that the slot being claimed is not taken by anybody and that a child that is not
yet serving has sent nothing.

`DbsSessionProofs` proves for every demo, script of orders and retry limit:

* `SessionTypeCorrect`: the type invariant.
* `AckedOrdersAreTaken`: `PlayServer` acknowledges no order it has not acted upon, keep-alives apart.
* `EachOrderOneBlock`: each "prespawn" and "spawn " moves the demo on by one block, however often its packet arrives.
* `DemoIsInOrder`: a client that got the precache block sees the demo in file order, in the sign-on and in the runtime phase.
* `SendedIfPrecached`: if the precache block arrived, a call of `SendInitDEMPacket` that returned 1 has delivered its block. Finding 2 is
  therefore the only way for `SendedIsReceived` to fail.

`SessionInv` keeps `LinkInv` only as long as the link is in order (`SignOnInv`), that is, until the first runtime block: those go out under
numbers the reliable part would use, so from there on `RuntimeInv` says instead that no fragment on its way has a number the client still expects, and that the
number of a runtime block is its place in the demo. `OrdersInv` and `TakenInv` relate the client's numbers to `cseq`: the
orders acted upon are those up to `cseq`, which is why comparing with the latest one is enough. `OneBlockPerOrder` counts packets (`Cardinality` of the
places where a packet asked for a block), and `AskedInv` adds that these sets are finite.

`DemCutProofs` proves for all files, outputs and loop counts:

* `CutTypeCorrect`: the type invariant.
* `RangeSaysWhatWasWritten`, `RangeStaysInFile`: the range that is printed is exactly the frames written, in order, also when a
  command has cut it short; and no command exchanges the file under a running range.
* `RangeIsUnbroken`: the frames of a running range follow each other in the output, unless the clock slipped.
* `CameraFollows`: the camera put in front of names and colors is that of the last frame handled.
* `LastIsRepeated`: what interactive mode repeats is the last frame written, with the exceptions `RepeatedIsLast` names.

Most commands differ only in what they do besides `stop_running_range`; `StoppedCommand` proves the invariant once for all of them.
`RangeInOutput` needs `ClosedIsEmpty`, since `open_output` begins with an empty file, and
`RepeatedIsLast` needs to know that a stopped range steps back to its last frame (`LastOfRange`) and that
the flag says something about the last frame and not about the number in hand (`RepeatableLast`, `RepeatedNumber`).

`LzwProofs` proves for every width of symbols, bytes and codes, every input and every stream of bytes:

* `LzwTypeCorrect`: the type invariant.
* `StaticsAreClean`: a call of `compress` that did not fail leaves the static bit buffer as it found it.
* `DecompressStaysInBuffers`: whatever it reads, `decompress` stays inside its table and its output, and reads at most one code's bytes beyond the input.
* `InStepAlways`: at every code the decompressor's output is the beginning of what was compressed, and the entries of its table, but for the last, stand
  for the same symbols as the compressor's.
* `RoundTripAlways`: what was compressed comes back.

`LzwInv` bounds every number of both sides by the width in use. The provers know 2^n for a number n only, so `Powers` takes 2^n to be the number of subsets of
1 .. n and derives what is needed (`PowerOfSum`, `DivModTwice`, `DivModOfSum`); where a textbook would use induction, the proofs take
the least number for which a statement fails. The round trip has two more invariants. `BitsInv`: there is one number V, whose binary
digits are the codes one after the other; the compressor's bytes and bit buffer are the bytes of V, and the decompressor takes its codes from them.
`PhraseInv`: the codes stand for the pieces of the input in their order, and the table of the decompressor is the compressor's, one entry behind. The code
that is read before its entry exists (the phrase that begins and ends with the same symbol) is the case `ParsedUnknown`. TLC checks `InStep` and
`RoundTrip`, which the invariant implies; `RoundTripInv` itself says "there is a number V" without a bound, which TLC cannot enumerate.

`LmpcProofs` proves for LMP files of every length and every choice of options:

* `ConvertTypeCorrect`: the type invariant of `LmpConvert`.
* `TicsAlwaysAsAsked`: behind the header of the output are the tics asked for and nothing else: the tics from a pause's start to its end are cut out, of the saved
  games only the bits are cleared, the seconds of `-w` are at the end. As the property itself, it is about games in which no two players press pause in one tic.
* `HeaderAlwaysAsAsked`: the output reads as an LMP of the game, version and view asked for, with the players, classes and other fields of the input.

`ConvertInv` has a part for each thing that has to survive until the end. `HeadInv`: what is written up to `wpos` is a header that reads as the one asked
for, and whole tics. `TicsInv`: behind the header are the first `stic` - 1 of the tics asked for. `PauseInv`: `currentpause` is the parity of the pauses pressed
before the multi tic in hand, `newpause` that of all pressed so far; it needs that the place `p` in the multi tic is `stic` - 1 modulo the number of players.
`TicsAsAsked` counts the pauses by multi tics and the code one by one: `PressedBefore` and `PressedNext` say that
the numbers agree. That a header reads as what was written is a statement about each of the seven layouts (`LayoutOfGames`, `FieldOfIs`, `PlacesAre`).
`FlattenSeq` is a recursive function: `FlatIs` shows that it is the only function with its equation, `FlatOfMore` what one more piece adds to it.

`InplaceProofs` proves for every recording of Quake and Quake II that satisfies `RepairableAssumption` below, with any number of blocks and commands:

* `LmpcTypeCorrect`: the type invariant of `Lmpc`, in which the place of a search is at most one byte beyond the end of the block (the pointer comparison of
  the `for` statement then ends it), and the place in the file inside the file.
* `StaysARecording`: the repaired file is as long as it was, and read from its first block on it is blocks up to its end; in a Quake II file none in front of
  another is empty. A phase "lost" is not "done": `MergeEnd` is the case that damages the file.
* `RepairAdvances`: each step reads on in the file, goes on to the next thing done with the block or takes the search on behind where it was; the places are
  bounded by the type invariant, so a repair ends. That a block read is never of no length is the invariant again (`ReadBlockAdvances`).

The file is rewritten under its reader, which finds a block only by the size of the one before, so `InplaceInv` has to say of a file in the middle of a repair
that it can be read. It does so with a set of places (`Divides`): from each place the size found there leads to the next one, the last is the end of the file,
and there are at most as many places as there were blocks (and their end), which is why a reader that looks for that many gets to the end. What the steps do to the set is the proof:
a repair inside a block leaves it (`ChangedSizes`, `ChangedDivides`, since no repair touches the four bytes of a size); `Merge` takes one place out and
writes a size that leads over it (`JoinedIsSound`); `WriteBack` puts a block back where it was read, or four bytes in front of it. `NoneEmpty` says what
`lastwasbetweenblock` remembers: the block right in front of the place is empty, and it is the only empty one so far. `InHandInv` follows the block in the buffer, whose
size is the file's (`SameSize`) until it is merged. That the search stays in the buffer needs that a text
ends in it (`TextsEnd`, see the assumptions), and that this stays so while other commands become nops: `NopsKeepTexts` and `AloneKeepsTexts` show that no repair
removes the end of a text still to be found or makes a new command out of the bytes on either side of it; for that the symbols of the texts must differ from
each other and from every byte that has a meaning. The initial state is `RecordingIsSound`: a file that is put together from blocks is divided by the places where they were put.

*Only model-checked:* all liveness properties (`SlotReclaimed`, `ConnectAnswered`, `CallEnds`, `SessionEnds`, `RangeEnds`): the provers at hand do not
reason about fairness and ENABLED.
The properties of `formats` (`ConvertTypeOK`, `ReadsWhatItWrote`, `CopyOfTheCopy`, `EditsPublicOnes`, `ReadsItsOwn`), and of `files` the two about the messages in a recording
(`RepairedAsConverted`, `TouchesNothingElse`, which ask the readers of the converters which messages are edited): these readers are folds over tables of fields and over the bytes of
a block, and what they make of any recording is an induction over both. Facts by
induction over data, and RECURSIVE operators, are out of the provers' reach; the modules with theorems use neither.

*Assumptions:* those named in the modules: `NoClient` is not a client, 1 to 255 slots, blocks and
fragments of at least one byte, at least one try; every DEM file has a frame, as `prepare_demfile` demands of a good one; `MINBUF` is above 21; LMP files are longer than the longest
header, since the rest of `header[]` would be undefined, and the options are what `main` takes (`Options`). LZW: a byte is not
wider than the first codes, and the bit buffer is wider than a code and a byte together (9 to 12 bits, 8 and 32 in the program); inputs are not empty.
`SymbolsAssumption`: the symbols that stand for texts are different bytes, none with a meaning as a message or a number looked for. `RepairableAssumption`: a file to be repaired consists of a track, blocks of bytes and, for
Quake II, an end block or none, which is what `isDEMbin` and `isDM2bin` look at before (`IsRepairable`), and is no longer than `ftell` can tell; and in a block of a Quake II file each text that is looked for ends in that
block, and no other command begins inside it. The last is no test of the program: it calls `strlen` on the place it found (lmpc.c:2944), and without an end in the block it would go on behind the block in
its buffer. A command a game writes is a string with its NUL in the same block; `TextsEnd` says it of all places where the bytes of a command are, also those inside other messages.

## 5. Findings

1. `AtMostMaxPlayers` (run `dbs_control_limit`): `used` is set by the child after fork (dbs.c:342); the control process may take
   the next CONNECT before. It finds the same slot free. Two children then serve two clients from one slot, with one
   counter and one address; the manual's "max. number of players" does not hold.
2. `SendedIsReceived` (run `dbs_session_precache`): the result of sending the precache block is ignored (dbs.c:522). If it failed,
   the next block is sent under the same number; an acknowledgement of the first then counts for the second.
3. `RepeatsLastFrame` (run `demcut_repeat`): `stop_running_range` (demcut.c:1145) steps back from the next frame. If the range has
   not written any, that is not the last frame, and for a range from 0 it is -1: interactive mode reads `frames[-1]`.
4. `EditsEachByItself` (run `dm2_fix`): `DM2_block_edit` (udm2.c:2318) unlinks a message and leaves the node in front of it that names its
   client. The next message of the block goes to that client alone. `EditsPublicOnes` is what holds without such a message.
5. `LastIsFirst` (run `qwd_delta`): the writer of delta packets (uqwd.c:3062) expects a token the reader (uqwd.c:1968) does not make. A recording with a
   changed entity cannot be converted; the test script doc/COMPILE describes compares the first with the last file.

**Facts without a run that isolates them.** The properties except these cases by name, or the abstraction leaves them out.

dbs and demcut:

* An acknowledgement received on the last turn is reported as "client does not respond": the test behind the retry loop (dbs.c:791) looks at
  the counter only. The model does the same, and no property is stated against it.
* A client whose child crashed is taken for connected (dbs.c:306): each further CONNECT of it is dropped.
* A client that never falls silent keeps its session and its slot (dbs.c:527, 765).
* The main loop of demcut reads the clock twice (demcut.c:264 and 278): if the frame before is over in between, the repeating branch writes the next
  frame of the range and the range writes it again (`slipped`).

LZW:

* `compress` succeeds on data whose codes use up the table to the last place; `decompress` writes it all and returns -2 (unlzw.c:154).
* `compress` returns -5 for a buffer of exactly the size needed when no bits are left over: `putcode(-1)` asks for room first (lzw.c:174).

Conversion (`Lossy` and its parts are the exceptions of `ReadsWhatItWrote`):

* QWD: the case of fire runs on into jump (uqwd.c:2633): a player who fires jumps as well. challenge runs on into connect (uqwd.c:502) and loses its text.
* DM2: a time offset is multiplied and truncated (binblock.c:242) and gets smaller with each copy; an unknown message loses its client (udm2.c:1656);
  negative entities, frames and effects are written as a byte; negative short skins as a long, two bytes more (`NeverLonger`).
* DM3: a configstring that is too long is written empty. A string of exactly the largest length leaves its NUL unread.
* DEM: a block with nothing but a camera is not written.
* All formats but DM3: an unknown message that is the last byte of its block ends the program (binblock.c:606), as does, up to version 26 of the server, a
  playerinfo with nothing behind its speed (uqwd.c:2728).
* DEM, QWD: the NUL behind a list of strings is written with its last string (binblock.c:728). A list without one loses it, the messages behind it are read as
  strings, and the reader may leave the block (`EmptyList`, the exception of three properties).
* `areDEMblocks` (udem.c:441) does not end when 12 plus the size of a block is -4 or less.

LMP files:

* `strtoversionbyte` compares three characters: 1.10 is read as 1.1.
* Two players who press pause in one tic are one toggle (`OneToggle`).
* Hexen 1.1 to 1.0 counts the players and does not look at their numbers (lmpc.c:1846): player 5 of two is lost (`HasPlaces`).

Repair in place (`IsFound`, `IsReached`, `IsStruck`):

* The place of the search goes on by the length of what was found, counted from where the search began and not from what it found (lmpc.c:2938): of several
  commands in a block one can be passed over.
* A command for one client, another download than the one looked for, and a reconnect that is neither first nor behind its announcement are not found.
* The bytes of a command in a text or a coordinate are struck as well.
* An empty block in front of the end block damages the end of the file (`MergeEnd`).
* Where `size_t` has 64 bits the end block is not recognised (lmpc.c:2918). The model has 32. `fread` after `fwrite` without a seek in between is taken to work.

## 6. Plan

What is modelled now covers the server, demcut, LZW, the binary form of all formats and the two actions that change files. What would come next:

1. `DbsQuery`: the three queries, the stale packet buffer (dbs.c:276), a player number equal to `max_players` (dbs.c:396), the rule that is unknown (dbs.c:446). Pacing of runtime
   packets (dbs.c:664).
2. `NodeList`: unlink, add, reorder over pointers, as a refinement of sequences. `Dmo`: chunks above `Lzw`.

## 7. Not modelled

* Text: the readers and writers of the text form, and the grammars. They are as long as the binary ones and have the same layout in another notation; the
  automata are generated.
* DMO: the program only reads these files, macroblock after macroblock; `decompress`, which they rest on, is in `Lzw`.
* Node trees as pointers: `Convert` has trees as what they hold. `node_command_init` matters for trees parsed from text.
* The Huffman code of Quake III, vendored, and the parts of `msg.c` that only a game calls.
* temp_entity of Quake II: its code is generated at build time from tables that are not in the repository.
* Options parsing, messages, clocks, the C library replacements except `memmem`, the unfinished Java port, scripts, build files and documentation.
