# TLA+ models and proofs for data_commoms

The repository is a small set of single-header C libraries for data
acquisition programs, with three example programs. These modules model the
parts of it that keep state: what each operation does to that state, and what
happens when threads, an interrupt, a hardware DMA or remote programs act
between its steps. TLC checks the models on small instances; the theorems in
the `*Proof` modules are checked by TLAPS for every value of the constants.

Paths below are relative to `src/`, so `include/c_buffer.h` is
`src/include/c_buffer.h`.

## 1. The system

| Component | Source | State it keeps | Operations |
|---|---|---|---|
| circular buffer | `include/c_buffer.h` | memory, `write`, `read` (free-running, masked when used), `read_last`, `dma_cnt`, `full_cnt` | `CbInit`, `CbWrite`, `CbRead`, `CbReadUntil`, `CbWriteInc`, `CbReadInc`, `CbDmaWrInc`, `CbDmaSynStart`, and counts derived from the indices |
| DMA program | `src/main.c` | the same buffer, shared; a countdown register NDTR | thread `dma_th` stores and publishes, `main` reads |
| software timers | `include/timers.h`, `src/main.c` | `on`, `end`, `count`, `len` of each timer | `MyTimerStart`, `Stop`, `Reset`; `MyTimerCycle` once per tick |
| TCP server | `include/eth_comms.h` | table of client sockets and addresses, `client_count`, `running`, `err_type`, one mutex | `CommsTCPServerInit`, `CommsSend`, `CommsDisconnect`, `CommsClose`; listener and accepter threads |
| TCP client, UDP endpoint | `include/eth_comms.h`, `src/comms_main.c` | one socket, the remote address, how many remotes there are, `running`, `err_type` | `CommsConnect`, `CommsSend`, `CommsClose`, `CommsPrintError`; a listener thread whose callback may call back |
| set-up | `include/eth_comms.h` | the same | `CommsUDPInit`, `CommsTCPClientInit`, `CommsTCPServerInit`, each of which may fail half way |
| command-line flags | `include/parser.h` | one global table of flags, three error fields, the rest of argv | `FlagBool` .. `FlagList`, `FlagParse`, `context_reset`, printing |
| parameter files (.txt) | `include/file_parser.h`, `src/file_main.c` | a table of parameters, pointers to the program's variables, the file on disk | registration, `ParamParse`, `ParamSave` |
| tables (.csv) | `include/file_parser.h`, `src/file_main.c` | a table of numbers under column names, the file on disk | `InitCSV`, `AddRowCSV`, `GetCSVData`, `ParamParse`, `ParamSave` |
| logger | `include/logger.h` | none | formats a line |
| build files, tests, sample data | `CMakeLists.txt`, `tests/`, `params/`, `cmake/`, `build/` | none | none |

**How they interact.** The libraries do not call each other, except that the
communications library logs. The interactions are inside the programs:

- `src/main.c` runs three threads. `dma_th` (standing in for a DMA engine and
  its interrupt) writes into a `cb_t` and advances its `write` index; `main`
  reads from the same `cb_t` and advances `read`. They share the structure
  without a lock, and the producer also stores to `read` when it finds the
  buffer overfull. `timer_th` runs `MyTimerCycle` on timers that `main` arms
  and resets, again without a lock.
- A TCP server runs a listener thread (polls every client, calls the user's
  callback, removes a client whose stream ended) and an accepter thread. The
  client table is guarded by a mutex in the accepter, the listener and
  `CommsDisconnect`, and is read without it by `CommsSend` and swept without
  it by `CommsClose`.
- A UDP endpoint or a TCP client has a listener thread too. It shares the
  socket, the remote's address and `running` with the thread that connects,
  sends and closes, and no lock is taken. Its callback may send or close.
- The flag parser has one global context, so one parse finds what the parse
  before it left. The file parser has one too, and its `.txt` and `.csv` halves
  share `param_error`.
- A file outlives the process. A save that was interrupted is met by the next
  process that parses it.

**What is hard, and what makes each part correct**

| Component | Hard to test | Correct if |
|---|---|---|
| circular buffer | wrap of the indices, the slot kept free, overwriting by several bytes, the contiguous counts at the end of the memory | it is a queue of `size - 1` bytes that drops the oldest and counts it |
| DMA program | every interleaving of two unlocked threads, laps, a reader lapped in the middle of a copy, NDTR at its reload | a reader that keeps up gets every byte once, in order; the index follows the hardware; the reader recovers after an overrun |
| timers | a tick between two stores of a call, timeouts at the end of the range | no timer ends early, an armed timer ends |
| TCP server | a table that shifts under loops that take no lock, descriptors closed and reused while a copy is held, close against accept, a full table | the table is a roster of the connected clients, a message is told of the right client, only clients that left are dropped, close returns and closes all |
| client, UDP | a callback that answers while `CommsConnect` is still storing, a connect that fails and is tried again, a remote that listens late or leaves, a callback that closes | nothing is sent to half an address; the callback is told the remote; connecting succeeds in the end; close returns and no callback runs after it |
| set-up | one of several threads that cannot be created, a bind that fails | no thread is left behind |
| flags | failure half way, one argument taken for the value of another, fields left from an earlier parse | the table says what the arguments say up to where the parse ended, and no argument is lost |
| parameter files | a parse that fails half way, lists and numbers at their limits, a crash in the middle of a save | each variable holds what the last good line of its own says; what was saved comes back, and a file that was cut off gives no wrong value to anything but a string |
| tables | empty cells, short and long rows, a row too many, a crash in the middle of a save | a full row is the row of its number; what was saved comes back |

## 2. Modules

| Module | Models |
|---|---|
| `CbOps` | index arithmetic of the buffer: masked slots, wrapping counters, the counts |
| `OverwriteFifo` | abstract: a bounded queue whose writes push the oldest bytes out |
| `CBuffer` | the buffer used by one thread, one action per call; implements `OverwriteFifo` |
| `CbDma` | the buffer shared by the DMA thread and the reader, one step per access |
| `Timer` | a timer, its three calls store by store, the tick as interrupt or thread |
| `ClientRoster` | abstract: the list of connected clients, joins and leaves atomic |
| `CommsServer` | server threads, user thread, descriptors, peers; implements `ClientRoster` |
| `CommsEndpoint` | set-up of all three kinds with its failures; a UDP endpoint or TCP client, its user, its listener and the remote |
| `FlagParser` | registration and parsing of flags, argument by argument |
| `ParamFile` | registration, saving and parsing of a `.txt` file, line by line, with crashes |
| `CsvTable` | the table of numbers and its `.csv` file, row by row, with crashes |
| `MC*` | the instances TLC checks, with their `.cfg` files |
| `CbOpsProof` | lemmas on `%` that the solvers do not find themselves, lemmas and a theorem on `CbOps` |
| `CBufferProof`, `CbDmaProof`, `TimerProof`, `CommsServerProof`, `CommsEndpointProof`, `FlagParserProof` | the theorems on `CBuffer`, `CbDma`, `Timer`, `CommsServer`, `CommsEndpoint` and `FlagParser` |
| `FilesProof` | the theorems on `ParamFile`, on `CsvTable`, and on the scenes of `MCFiles` that compose them |

Definitions carry the names of the C functions they model, with a suffix when
a function is split into steps (`CbWriteOne`, `DisconnectShift`). A definition
named `X_Something` under the comment *Faulty variant* is `X` with a plausible
mistake in it. No specification uses these; replacing `X` by one of them shows
that a property can fail.

### CbOps, CBuffer, OverwriteFifo

`Size` is the power of two given to `CbInit` and `Modulus` is `2^w` for the
`w` bits of a `size_t`. `write`, `read` and `full_cnt` run over
`0 .. Modulus - 1` and wrap; slots are taken modulo `Size`, which is what
`& mask` does. The assumptions on `Size` and `Modulus` are those `CbInit`
enforces (`c_buffer.h:64-79`). An action of `CBuffer` is a whole call. Return
value and output bytes are part of the state, so the refinement covers what
the caller sees: `q` of `OverwriteFifo` is the sequence of unread bytes, and
`overruns` is `full_cnt`. The initial memory is arbitrary because `CbInit`
does not clear it.

### CbDma

The grain is one byte moved or one store to a shared field. Where C lets the
compiler keep `cb->read` in a register or load it again for `cb->read += n`,
both are steps of the model (`ReadAdvance`). The i-th byte of the stream is
the number i, so any loss, repetition or reordering is visible in `out`.
`head`, `pub`, `taken` and `overrun` are history variables and no guard but
the bound `MaxStream` reads them.

Assumed: aligned words are stored whole, and the stores of one thread are seen
in program order. The C code uses neither atomics nor barriers, so a weaker
memory could show more behaviours than the model has.

`ChunkAssumption` (a chunk is smaller than the memory) is a fact of
`main.c:43`, where chunks are below 50 bytes and the memory has 4096. With a
chunk of exactly `Size` bytes `CbDmaWrInc` would see no progress at all.

### Timer

`interrupt` is chosen once. If it is TRUE, `MyTimerCycle` is one step between
any two stores of the main thread; if it is FALSE, its loads and its store are
steps of their own, as in `timer_th`. `Width` is `2^32` in the code. The
model starts from `MyTimerInit` on static storage, so `len` is 0.

### CommsServer, ClientRoster

The module starts from a successful `CommsTCPServerInit` with a receive
callback that makes no calls. Threads have a program counter. A block that
holds the mutex and only loads is one step; `CommsDisconnect` takes a step per
group of stores, since `CommsSend` and `CommsClose` look at the table without
the mutex. Descriptors are modelled: a new one is the lowest free number, so a
copy of a closed descriptor may come to name another client. Descriptor 0 is
the terminal and 1 the listening socket. `accept` may also fail because the
process has no descriptor left. A peer may close, or reset and lose what it
had sent. The address of a peer stands for the peer.

The refinement maps the table to the list of its clients. In the middle of a
shift one slot is a *hole*, whose client has gone or has just been copied to
the slot before. Leaving out the hole makes each single store of the shift a
stuttering step of the roster, and the closing of the socket the step by
which the client leaves.

`MCServer` and `MCServerLive` are `CommsServer` in two *scenes* each: a
variable that never changes says which calls the user makes and which peers
take part, or how large the table is. Each step is a step of `CommsServer`.

### CommsEndpoint

One step is one system call, or one store of `CommsConnect`, because the
callback of the listener reads the same fields. `prog` is the program: its
kind, what its callback does (`none`: no callback, and then no threads; `quiet`;
`send`; `close`) and whether it is `main` of `comms_main.c` or makes any calls
in any order. `main` is followed call by call, with what it does and does not
look at: it ignores the result of the set-up and calls `CommsConnect` until
that returns true.

Every early return of the three set-up functions is an action or a disjunct,
with the code it stores and the `CommsClose` that some of them call.
`pthread_join` of a thread that was never created is undefined behaviour: it
fails, or the process ends (`CloseJoin`). The socket is modelled by what the
operating system answers (`net`, `told`): a non-blocking `connect` may be in
progress, a later call then finds that it succeeded, was refused, or goes on;
a send to a connection that was reset ends the process (SIGPIPE). The remote
may listen late, send, close or reset.

### FlagParser

One step per argument, and one per flag it is compared with. An argument is a
record that says what it is where a flag is expected (positional word, `--`,
help, a flag with or without `=` and the ignore prefix), and what its text is
where a value is expected. Any argument can come in either place. Conversions
are modelled by what the C library makes of the text: `Bits` is the width an
integer needs, `-1` is a large number to `strtoull`, an overflowing real is
infinity. `mark`, `args` and `base` are history variables. Printing is left
out. The `'\0'` that the parser writes over `=` in argv is left out too, since
each call is given an argv of its own.

### ParamFile, CsvTable, MCFiles

A file is a sequence of lines. A line of a `.txt` file is the name, the text
after `=` and which of the characters that may end a value follow it; a line of
a `.csv` file is the sequence of its cells. A text is a word, a quoted word or
a list of words, and a word stands for a class of texts the conversions tell
apart: `big` is 3000000000, `-big` the same 32 bits as an `int`, `tiny` a float
below the six decimals that are written, `cut` any part of a value. `Convert`
says for each type what `atoi`, `strtoul`, `strtof` and the loops of
`param_parse_txt` make of a text, `SavedText` what `param_save_txt` writes.
Where the code reads memory that nobody wrote, the outcome is a choice.

A crash may come at any moment. In the middle of a save it leaves any number
of whole lines and any part of the next, because `fopen(.., "w")` has emptied
the file and the stream is written out when the library likes. The next
process registers the same parameters, as `file_main.c` does.

Assumed of `.txt` files: no name is the tail of another or occurs in a value
(the parser looks for `NAME=` anywhere in a line, `file_parser.h:428`); lines
have at most 255 characters, which is what is copied (`file_parser.h:431`); the
four bytes behind a `uint` belong to nobody, since its value is stored as an
`unsigned long` (`file_parser.h:500`).

`MCFiles` runs both modules as the two halves of one `param_ctx`, in four
scenes: `hand` parses `.txt` files written by hand, `save` sets, saves, crashes
and parses, `table` and `rows` are the same for `.csv`.

## 3. Runs

All runs are exhaustive on their instance.

| Run | Instance | Checks |
|---|---|---|
| `cbuffer_fifo` | 4-byte memory, counters modulo 8, 2 byte values, requests up to 4 | `TypeOK`, `ContiguousOK`, `ImplementsFifo` |
| `cbdma_keepup` | 4-byte memory, counters modulo 8, chunks up to 3, 8 bytes of stream, reads of 1 and 2 | `TypeOK`, `ExactDelivery`, `TracksHardware`, `Drained` |
| `cbdma_loss` | the same with 6 bytes, reads of 2 | `LossIsCounted` (violated) |
| `timer` | counters modulo 8, timeouts 0, 2 and 7 | `TypeOK`, `NeverEarly`, `Ends` |
| `server_safety` | two scenes: 2 peers, room for both, 1 message each, all user calls; 3 peers, room for all, user disconnects | `TypeOK`, `SendReachesCid`, `CloseReleases`, `RosterOK`, `CallbackExact`, `BroadcastComplete`, `ImplementsRoster`, `DropsOnlyGone` |
| `server_live` | two scenes: 2 peers, 1 message each, no user calls; 2 peers, room for one, disconnect and close | `DataHeard`, `GoneRemoved`, `ConnectAccepted`, `AccepterEnds`, `CloseReturns` |
| `server_sent_to_all` | 2 peers, send to all | `SentToAll` (violated) |
| `server_closed` | 2 peers, close | `ClosedMeansClosed` (violated) |
| `endpoint` | `main` as each of the three kinds; programs of any 3 calls with each kind of callback; 1 message of the remote | `TypeOK`, `CloseEnds`, `SendsToWholeAddress`, `KilledOnlyWithoutRemote`, `CallbackNamesRemote`, `CallsReturn`, `DataHeard`, `FailedInitStops` |
| `flags` | 2 names, tables of up to 2 flags, types bool, uint8, size and list, up to 3 arguments, values `1` and `-1` | `TypeOK`, `TableIsArguments`, `RestIsComplete` |
| `flags_error` | tables of 1 bool, up to 2 arguments, two parses | `ErrorIsOfOneFlag` (violated) |
| `files` | `.txt`: 2 parameters of types bool, uint, string and list of int, lists of 2 of which 1 is read, files of 2 lines; `.csv`: 2 columns, 2 rows and a third that is too many; 1 save, 1 crash | `FilesTypeOK`, `HandFilesAreRead`, `ReadsWhatWasSaved`, `Restores`, `SavedFileIsSafe`, `TableComesBack` |

**Why the bounds are enough.** In the buffer a memory of four slots has a
middle, an end and the slot kept free, a request can be shorter than, equal to
and longer than the room, and `Modulus = 2 * Size` makes the counters wrap
both together with a lap and apart from it. Eight bytes of stream are two laps
of the memory and one of the counters. Timeouts include 0 and the largest,
which never ends. Three clients are the fewest for which a removal leaves one
client in place, moves one and clears a slot. Two clients and four
descriptors give every reuse of a descriptor whose copy is held. Two flags
and three arguments give a flag that takes another flag for its value, a use
after it, an argument left over, a failure behind a success, and two uses of
one list. Three calls of an endpoint are a connect, a send and a close, or two
of one of them around another; a second message of the remote would meet the
listener in the same places. Two parameters give a bad line of one between
good lines of the other, and two lines a value that is given twice. A list one
item longer than what is read, and a row more than the table has, are the
smallest that reach the limits. One crash is enough because a second save
empties the file anyway.

`MaxFd`, `MaxMsg`, `MaxStream`, `MaxLen`, `MaxFlags`, `MaxArgs` and
`MaxParses` bound what the environment does, and so do `MaxCalls`, `MaxMsg`,
`MaxParams`, `MaxLines`, `MaxRows`, `MaxSaves` and `MaxCrashes`. `ListCap`,
`ArrayCap` and `MAX_BIN` are limits of the code made small, and `MaxOpen` the
limit of the process on open files. `since` of `Timer` stops counting
at `Width + 1`. Byte values, flag names, parameter names and the peers of `server_safety` are
interchangeable (two of its three peers, the third has a scene to itself), so
these instances use symmetry; none of them checks liveness.

**Deadlock** is checked in every run but those of the flags, the files and the
endpoint. There the program really stops: it has made its parses, calls or
saves, or its process has ended. That no call of an endpoint hangs is
`CallsReturn`. The server has a step `Finished` for the end of the process
after `CommsClose`.

**Fairness.** `CbDma`, `CommsServer` and `CommsEndpoint` assume weak fairness
of each thread's steps. They are operating-system threads that sleep for a
bounded time, and no step of one is re-enabled and disabled for ever by
another, except for the mutex. The weak fairness is on the whole thread; a
thread that waits for the mutex is disabled only while its owner, fair as well,
is about to release it. `CommsEndpoint` also assumes that a connection attempt
is answered in the end, as TCP gives up after a while. Nothing is assumed of
what the hardware, the peers or the user do: the remote may never listen, and
the key that `main` waits for may never be pressed. In `Timer` the ticks go on
and a call once made is carried through. The safety runs do not need any of it.

### What the runs show

- **Buffer.** `CBuffer` is an overwriting queue: every sequence of calls
  returns what `OverwriteFifo` does. `CbContiguousDataCount` and
  `CbContiguousEmptyCount` are exact.
- **DMA program.** Without a lock, and with the producer storing into the
  reader's index, delivery is still exact as long as no byte is stored while
  `Size - 1` are outstanding. When the reader is lapped, both threads may
  store to `read` and one of the stores is lost; the reader still empties the
  buffer when the stream stops. But the loss need not be counted:
  `cbdma_loss` shows bytes delivered out of order with `full_cnt` at 0,
  because the hardware overwrites memory before `CbWriteInc` looks at the room.
- **Timers.** A tick that interrupts a call never ends the timer early. As a
  thread the tick can put back a count it loaded before a reset, so
  `NeverEarly` is claimed of the interrupt only. A timer armed with less than
  the largest timeout ends either way.
- **Server.** Until it is closed, the table is a roster of the open
  connections at every single store. A callback, a disconnection by the
  listener and a send to one client reach the right client unless another
  thread closed a socket in between; each property states that condition with
  a history variable, and it cannot be dropped. A send to all may skip a
  client although nobody named it (`server_sent_to_all`), and a client accepted
  while `CommsClose` sweeps the table stays connected (`server_closed`). At
  capacity the accepter thread ends for good.
- **Endpoint.** The count that makes the address valid is stored last, so no
  datagram goes to half an address although the callback answers while
  `CommsConnect` runs, and options given to `CommsSend` keep the rest of the
  address. A callback is told the remote from the moment `CommsConnect` has
  returned; before, it may be told no address. The loop of `main` connects once
  the remote listens, although the listener has made the socket non-blocking
  and has met errors on it before. `CommsClose` returns also when the callback
  calls it at the same time, and no callback runs after it returned true.
  SIGPIPE can end a program only if it sends without a connection or the
  remote has left. A server whose accepter cannot be created stops its listener.
- **Flags.** However a parse ends, the table holds what the arguments before
  that point say, and nothing of the flag it failed on. A parse that succeeds
  loses no argument. A bool with a bad value is reported with a stale or null
  value (`flags_error`).

- **Parameter files.** Whatever the file, and wherever the parse ends, each
  variable holds what the last good line of its own says. A saved file gives
  back what was saved, except for what the format cannot hold (`Survives`:
  floats below six decimals, empty or too long lists, unsigned list items of
  2^31 and more, binaries). A save that was cut off gives no wrong value to
  anything but a string, and the mandatory parameters of a parse that returns
  true are all right. But the old file is lost, and reading the cut one, or an
  empty list, may end the process (`SavedFileIsSafe` says only then).
- **Tables.** A line with every cell is the row of its number whatever lines
  are around it. A saved table is read back into an empty one; of a table that
  was cut off only the last row may be wrong, and the parse does not notice.

Seen in the code while modelling, and not the subject of a run of their own:

- `CbIsFull` (`c_buffer.h:90`) has the two indices swapped. The theorem
  `CbIsFullMeansOneByte` says what it computes. Nothing calls it.
- `MyTimerStart` enables the timer before it stores the length
  (`timers.h:62-63`): ticks between the two count against the old length.
- `CommsPrintError` aborts on the codes `CREATE_ACCEPTER` and `DISCONNECT`
  (`eth_comms.h:378`). The listener of a TCP client stores the second from its
  start, since it receives before there is a connection and
  `CommsDisconnect` refuses clients (`eth_comms.h:566`). `main` calls
  `CommsExit`, which prints, when a send fails.
- A failed bind of a TCP socket calls `CommsClose`, which joins a thread that
  was never created, and leaves the socket open (`eth_comms.h:805`).
- `CommsConnect` returns true, and logs success, for a TCP client whose set-up
  failed, because `tcp` is still false (`eth_comms.h:336-354`).
- `CommsClose` does not close the socket of an endpoint without a remote, and
  logs that it did (`eth_comms.h:276`, `305`).
- `err_type` is one field that every thread stores without a lock
  (`eth_comms.h:928`): what is printed may be the error of another thread.
- Nothing masks SIGPIPE, so a send to a client that has reset ends the process.
- Lists of flags hold `FLAG_LIST_INIT_CAP` items and the append does not look
  (`parser.h:154`). Two flags of one name each take a value, since the loop goes
  on after a match (`parser.h:400`).
- A parameter without a value reads as 0 and satisfies a mandatory one; the
  test for it can never be true (`file_parser.h:451`).
- `has_changed` is never reset: a second parse accepts a file in which a
  mandatory parameter is missing (`file_parser.h:539-558`).
- `ParamParse` returns false without storing an error when the file is not
  there or has another ending (`file_parser.h:405-415`), so that
  `ParamPrintError` says there was none (`file_parser.h:857`). Files that were
  parsed are never closed (`file_parser.h:412`), and a save that cannot open
  its file calls `fclose(NULL)` (`file_parser.h:738`).
- A string needs its quotes, while `params/params.txt:13` says it may be
  written without.
- The two digits of a binary are converted in a buffer that is not terminated
  (`file_parser.h:534`).
- `AddRowCSV` stores beyond the last row (`file_parser.h:588`), `ParamSave`
  writes commas whatever separator was chosen (`file_parser.h:816`), and the
  header of an empty file is read from memory nobody wrote
  (`file_parser.h:667`).
- The help text offers `-h` and `-help` (`parser.h:805`); the parser strips
  one dash and compares with `-h` and `-help` (`parser.h:392`), so what works
  is `--h` and `--help`.
- Mandatory flags are not looked at when a parse ends at a positional
  argument, at `--` or at help (`parser.h:371-376`, `392-398`).

## 4. Theorems

| Theorem | States |
|---|---|
| `TimerProof!TypeCorrect` | `Spec => []TypeOK` for every width and set of timeouts |
| `TimerProof!NeverEarlyHolds` | `Spec => NeverEarly` |
| `CbOpsProof!CbIsFullMeansOneByte` | `CbIsFull` holds exactly of one byte, for every size above 1 and every width |
| `CBufferProof!TypeCorrect` | `Spec => []TypeOK` for every memory, width, alphabet and request |
| `CBufferProof!ContiguousOKHolds` | `Spec => []ContiguousOK` |
| `CBufferProof!ImplementsFifoHolds` | `Spec => ImplementsFifo`, the refinement of `OverwriteFifo` |
| `CbDmaProof!TypeCorrect` | `Spec => []TypeOK` for every memory, width, chunk, stream and request |
| `CbDmaProof!TracksHardwareHolds` | `Spec => []TracksHardware` |
| `CbDmaProof!ExactDeliveryHolds` | `Spec => []ExactDelivery` |
| `CommsServerProof!TypeCorrect` | `Spec => []TypeOK` for every set of peers, capacity, number of descriptors and choice of calls |
| `CommsServerProof!RosterOKHolds` | `Spec => []RosterOK` |
| `CommsServerProof!SendReachesCidHolds`, `CloseReleasesHolds` | `Spec => []SendReachesCid`, `Spec => []CloseReleases` |
| `CommsServerProof!CallbackExactHolds`, `DropsOnlyGoneHolds`, `BroadcastCompleteHolds` | `Spec => CallbackExact`, `Spec => DropsOnlyGone`, `Spec => BroadcastComplete` |
| `CommsServerProof!ImplementsRosterHolds` | `Spec => ImplementsRoster`, the refinement of `ClientRoster` |
| `CommsServerProof!AccepterEndsAtCapacityHolds` | `Spec => AccepterEndsAtCapacity` |
| `CommsEndpointProof!TypeCorrect` | `Spec => []TypeOK` for every set of programs and number of calls and messages |
| `CommsEndpointProof!SendsToWholeAddressHolds`, `KilledOnlyWithoutRemoteHolds`, `CloseEndsHolds` | the three invariants of `endpoint` |
| `CommsEndpointProof!CallbackNamesRemoteHolds` | `Spec => CallbackNamesRemote` |
| `FlagParserProof!TypeCorrect` | `Spec => []TypeOK` for every table of flags, argument list and number of parses |
| `FlagParserProof!RestIsCompleteHolds` | `Spec => []RestIsComplete` |
| `FlagParserProof!TableIsArgumentsHolds` | `Spec => []TableIsArguments` |
| `FilesProof!TxtTypeInvariant`, `ValuesAreOfFileHolds` | `Spec => []TypeOK` and `Spec => []ValuesAreOfFile` of `ParamFile`, for every set of names, every table of parameters, file and bound |
| `FilesProof!ReadsWhatWasSavedHolds`, `RestoresHolds`, `SavedFileIsSafeHolds` | the three action properties of a saved file, with crashes at any place of a save |
| `FilesProof!CsvTypeInvariant`, `FullRowsAreReadHolds`, `ComesBackTheorem` | `Csv!Spec => []Csv!TypeOK`, `[]Csv!FullRowsAreRead` and `Csv!ComesBack`, for every set of numbers and names, size of the table and bound |
| `FilesProof!FilesTypeOKHolds`, `HandFilesAreReadHolds`, `TableComesBackHolds` | the same of `MCSpec`, in the form the run `files` checks |

The assumptions used are those of the models: `Size` divides `Modulus` and
both are positive (the consequence of both being powers of two that the proofs
need), a chunk is smaller than the memory, timeouts fit in a counter, the
bound `MaxLen` on a request is a natural number, and a peer is none of the
words that say what else a descriptor may refer to. For the files: types,
numbers and texts are among those the model names, no parameter is called like
the lines that are none, a list variable has room for all the items that are
read (`ParamAssumption`), the bounds are natural numbers, a table has room for a row, numbers and names of
columns are none of the marks for other cells (`CsvAssumption`), and the
numbers and names the scenes of `MCFiles` use are among those given
(`MCAssumption`).

**Timer.** `NeverEarly` needs to know that the count never runs ahead of the
ticks. The inductive invariant (`Invariant`) adds to `TypeOK` that under an
interrupt `count <= since`, up to the point where `since` stops. Then a
count above `len` means at least `len + 1` ticks before the one that sets
`end`.

**Buffer.** `TypeOK` is inductive and is all the refinement needs: two counters
and the memory determine the queue (`Held`). A write of `n` bytes to a buffer
that holds `c` keeps `m = min(c + n, Size - 1)` of them and pushes out
`t = c + n - m`. The single-byte path tests whether the indices meet, the other
path compares with `CbEmptyCount` and moves `read` to one past `write`.
`StepOne` and `StepMany` show that both are the same `WriteStep`: they move
`read` to the slot of `read + t`. `WriteByte` then follows each slot through
the store, and `WriteHeld` concludes that what is held afterwards is the newest
`m` elements of the old queue followed by the new bytes. `ReadHeld` does the
same for the reads. `ContiguousOK` holds of any two counters; `SlotKinds`
reduces it to an inequality between slots.

**DMA, the producer's side.** `TracksHardware` speaks of the moment between
two chunks only. `HInv` says at every program counter of the DMA thread how
far each of the four positions is: NDTR points at the first byte of the
current chunk until `DmaWrInc` and at the end after it (`Placed`), `dma_cnt`
follows with it (`Counted`), `delta` is what is still to be published
(`Pending`, `Published`), `write` is the published count modulo `Modulus`
(`WriteIs`), and the newest `Size` bytes lie where the stream position says
(`Newest`). No conjunct mentions the reader, whose steps change none of the
fields involved.

**DMA, the reader's side.** While no overrun has happened, `read` is `taken`
modulo `Modulus` and `taken <= pub <= head <= taken + Size - 1`. From that,
`CbDataCount` is the true number of published bytes: the lemmas
`CountOfWords` and `CountOfSlots` say that a masked difference of two wrapped
counters is their real difference as long as that is below `Size`. It follows
that `CbWriteInc` finds `delta <= gap` and never touches `read`, that every
byte being copied is in the part of the memory the hardware cannot have
reached, and that each `out[i]` is byte `taken + i`.

The first part of `CbOpsProof` holds the facts on division and remainder that
this rests on, each proved from the definition of `\div` and `%`.

**Server, the table.** `TypeOK` alone is not inductive: that an index stays in
the table depends on who holds the lock. `Places` says where the owner of
the mutex is and that the client it removes, and the slot its shift is at, are
in the table, which cannot change meanwhile. `Owners` says that a connection
is open exactly as long as one descriptor refers to it, and `Entries` is
`RosterOK` slot by slot: every slot but the hole holds a peer and its
descriptor. A shift moves the hole by one and leaves `Entries` true, because
the slot it copies is the next hole. `Sends` relates what a send has loaded
to the table as long as no client was removed, and `Closes` says how far the
sweep of `CommsClose` has come. A second invariant (`Copied`) relates the copy
the listener made of a slot to the table, and a third (`Progress`) says whom a
send to all has reached so far.

**Server, the refinement.** `Clients` is the list of a table without its hole.
`OccupiedCount` shows that this is what `Roster` says. Clearing the hole, moving
it, and shortening the table when it is at the end leave `Clients` as it is
(`ZeroKeepsClients`, `ShiftKeepsClients`, `CountKeepsClients`); storing behind
the last slot appends (`InsertAppends`); opening a hole takes one element out
(`HoleLeaves`). Every other step leaves the table and the hole alone, so that
each step of the server is a stutter, a join, a leave or the shutdown.

**Endpoint.** The invariant has a part for each phase. `Fresh`: before the
set-up ends nothing has started. `Connecting`: a TCP client inside
`CommsConnect` that goes on storing has a connection, and a count above 0 once
it has returned true. `WholeAddress`: a positive count means
that a UDP endpoint knows address and port, which is why the count has to come
last. `Linked`: a TCP client that was told it is connected has a socket that
was. `Ending` and `Named` follow `CommsClose` of the user and of the callback
through the joins.

**Flags.** `RestIsComplete` compares what is handed back with the arguments of
the call. The invariant (`IsRest`) says that what has not been taken yet is the
end of the argument list at every step, also between the name and the value of
a flag. `ConvertGivesResult` says that a conversion stores a value or an error
and never both.

`TableIsArguments` needs a second invariant (`Reading`), because it speaks of
the end of a parse only. `Told(j, n)` says that flag `j` is what its first `n`
arguments say; it holds of every flag between two arguments (`AtArgs`). While
one argument is compared with the table, the flags behind the place of the
comparison have counted it and the others have not (`AtMatch`), and `found`
tells whether its flag, which is the only one of that name, has been met. What
`n` arguments say is a sequence over the set of those that count
(`GivenOf`, `InOrder`). One more argument puts one more number at the end of
that set: the lemmas on `Nth` say that the others keep their place, so that a
list grows by one item and any other flag is replaced.

**Parameter files.** The properties compare a parse with a save that may be
several crashes, restarts and parses before it. The inductive invariant
(`TxtInv`) links them through the file. `SavedFile` says what the file is from
`SaveOpen` on: line by line what was saved; after a crash a shorter file in
which a line that has its terminator is `Intact`. Only a cut line can lack it,
and a crash leaves at most one (`Remains`). `IsRead` says that a parse has
given the variables of the lines behind it what was saved, and `IsChanged` that after a
torn save only a line with its terminator has marked a variable. `has_changed`
is never reset, so a mark may stem from an earlier parse; but only a new
process, which has no marks, can meet a torn file. `Restores` follows, since a mandatory parameter without
its mark fails the parse. What `Convert` gives for the text `SavedText` writes is
proved type by type (`Survives` is where that is the value again), for lists
from the longest good prefix that `ReadList` takes. `ValuesAreOfFile` is
inductive together with these: a line either gives its parameter a value, and is
the last one to do so, or leaves it alone.

**Tables.** `CsvInv` has the same shape. `CsvSaved` says that a saved file is
the header and the rows that were saved, of which a crash may have cut the last
line, and while it is written that the table is the one that is saved.
`CsvReading` says what a parse has done so far: a row is counted for every
line behind it, and `Tokens` of the header are the names. `strtok_r` drops
empty cells; the lemmas on `Nth` show that a line without one keeps all its
cells and their order, and that no token is empty. `ComesBack` also needs
`GetCSVData` to find the column of each name, and that a row with as many
cells as the header is stored whole.

**Both files.** `MCInv` is the invariant of `ParamFile` in its scenes and that
of `CsvTable` in the others. Every step of `MCNext` is a step of one module
that leaves the other's variables alone, so that the theorems hold of `MCSpec`
as well.

**Model-checked only.** All liveness (`Drained`, `Ends`, `DataHeard`,
`GoneRemoved`, `ConnectAccepted`, `CloseReturns`, `CallsReturn`,
`FailedInitStops`), because fairness and ENABLED are out of the prover's reach.
The run `server_live` checks `AccepterEnds` of its small table, which is
`AccepterEndsAtCapacity` there. Every other property of a passing run is a
theorem.

## 5. Not modelled

- **Logger, printing, help texts, `CommsPrintClients`**: no state.
  `FlagPrintError` and `ParamPrintError` matter only for the fields they print,
  which are modelled.
- **Build files, tests, sample data**: no behaviour of their own.
- **A server whose receive callback calls back into the library.** The
  callback of a client or a UDP endpoint may send or close.
- **Lists of more than `FLAG_LIST_INIT_CAP` items** in the flag parser.
- **Lists of bool, float and string in parameter files**: their items are
  converted like those types, their limits are those of the lists of int.
- **Names that occur in other names or in values, and lines of more than 255
  characters** in parameter files.
- **`context_reset` of the parameter files**, which nothing calls.
- **Byte-wise stores and weak memory** of everything that is shared without a
  lock.

## 6. State of the project

Every component that keeps state is modelled, and every property of a passing
run that is not a liveness property is proved. Further work could let the
callback of a server call back, let lists of flags grow beyond
`FLAG_LIST_INIT_CAP`, and model the stores to shared fields under weak memory.
