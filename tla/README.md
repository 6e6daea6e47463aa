# TSSX in TLA+

A verification project for TSSX, the library that replaces the traffic of domain
sockets with a ring buffer in shared memory. Two processes load it with
`LD_PRELOAD`, a client library and a server library, and go on calling `read`,
`write`, `poll`, `close`, `fork`. This directory holds models of the parts that
carry the library's own logic, the TLC configurations that check them, and
proofs, checked by TLAPS, about all of them: the ring, the connection and its
count, its two ends, the set-up of a connection, `poll`, `epoll`, `select`, and
the containers these are built on. Every invariant and every refinement that a passing run
checks is a theorem; liveness is TLC's alone.

## The system

| part | source | state | operations | hard because |
|---|---|---|---|---|
| ring buffer | `buffer.c` | `size` (atomic), `read`, `write`, bytes | write, read, peek, skip | two processes, no lock, wrap-around, partial calls |
| connection | `connection.c`, `shared-memory.c` | a System V segment, `open_count` in it | create, attach, add user, disconnect, destroy | reference count shared by processes that die |
| handshake | `server-overrides.c`, `client-overrides.c` | the domain socket underneath | `accept`, `connect` | each side waits for the other, either may die |
| bridge | `bridge.c`, `session.c`, `session-table.c` | per process: descriptor to connection, exit and signal handlers | insert, erase, lookup, add user | handlers run in the middle of operations |
| calls | `common-overrides.c`, `socket-overrides.c` | none of their own | `read`, `write`, `send`, `recv`, `close`, `fork`, `fcntl` | a hangup at any moment |
| poll | `poll-overrides.c`, `common-poll-overrides.c` | per call: a count shared by two threads, a handshake flag | `poll` | two threads, a signal, a timeout |
| epoll | `epoll-overrides.c` | instances with entries, edge and one-shot flags | create, ctl, wait, close | as poll, plus state between calls |
| select | `select-overrides.c` | per call: copies of the fd sets | `select`, `pselect` | five paths, connections changing under the loop |
| selection | `selective.c`, `string-set.c`, `connection-options.c`, `timeouts.c` | the environment, a set of paths | which sockets use TSSX, sizes | parsing |
| containers | `vector.h`, `hashtable.c`, `free-list.c`, `reverse-map.c` | memory | push, remove, iterate | growth and shrinking; the library uses the vector and the string set, nothing uses the others |

How they interact: an override asks the bridge for the descriptor's session. If
it has a connection, `connection_read` and `connection_write` look at
`open_count` (1 means that the peer has gone) and then call the buffer of their
direction. `poll` makes the same two loads in a loop, and runs the real `poll`
for other descriptors in a second thread. `close`, the exit handler and signals
go through `session_invalidate` to `disconnect`; `fork` adds a user to every
connection in the bridge. The processes share the segment and, during the
handshake, the socket; nothing else.

What makes each correct: the ring is a bounded FIFO byte stream with any
interleaving of the two calls; the count is the number of processes that have
the connection, so the segment goes with the last and a hangup is neither
invented nor missed; `poll`, `select` and `epoll_wait` tell the truth, return the
number of descriptors they report, and return; an epoll instance is the set of
the registrations made; both sides of a connection decide alike whether to use
shared memory, and the handshake leaves the application's bytes alone; a
container is the sequence, map or set it stands for.

## Modules

| module | what it is |
|---|---|
| `ByteStream` | what one direction of a connection promises: accept and deliver bytes in order, at most `Capacity` in flight |
| `ByteCount` | the same buffer as a number of bytes: the room a write has seen, and the bytes a read has seen, stay its own |
| `Channel` | the constants `Buffer` and `Socket` share |
| `Buffer` | `buffer_write` and `buffer_read`, one action per access to shared memory; refinement mappings to `ByteStream` and `ByteCount` |
| `BufferInv` | the inductive invariant of `Buffer` |
| `Connection` | one connection's life: handshake, count, fork, close, exit, signals, crashes |
| `ConnectionInv`, `ConnectionProofs` | its inductive invariant, and the theorems |
| `Socket` | an established connection as the two applications see it: read, write, poll, close; refinement mappings of its two buffers to `ByteCount` |
| `SocketInv` | the inductive invariant of `Socket` |
| `ChannelProofs` | the theorems about `Buffer` and `Socket` |
| `PollAnswer` | what a poll promises: finds that are true, made once and before it returns, and counted; zero when the time is up |
| `Poll` | `_concurrent_poll`: the two threads, the shared count, the handshake, the signal; refinement mapping to `PollAnswer` |
| `PollInv`, `PollProofs` | its inductive invariant, and the theorems |
| `InterestList` | what an epoll instance promises: a set of registrations, one-shot ones used up by delivery |
| `Epoll` | an epoll instance (first entry, vector, counts) and the four ways `epoll_wait` goes; refinement mapping to `InterestList` |
| `EpollInv`, `EpollProofs` | its inductive invariant, and the theorems, the refinement among them |
| `Select` | `select` on its five paths, connections changing while it looks |
| `SelectInv`, `SelectProofs` | its inductive invariant, and the theorems |
| `Setup` | which sockets use TSSX, the handshake's use of the socket, routing of the send and receive calls, `fcntl` |
| `SetupInv`, `SetupProofs` | its inductive invariant, and the theorems |
| `Vector` | the functions of `vector.h`, as operators on a value |
| `VectorProofs` | the theorems about `Vector` |
| `HashTable`, `StringSet` | the chained hash tables, as operators on a value |
| `Containers` | these under every sequence of legal calls, and the free list, each next to what it stands for |
| `ContainersInv`, `ContainersProofs` | its inductive invariant, and the theorems, those about the tables' functions among them |
| `MC*` | bounds for TLC |

How they fit together: `Buffer` implements `ByteStream`, and `ByteCount` too.
`Socket` takes a buffer as a number of bytes; each of its two buffers implements the
same `ByteCount`, which is what lets it do so. `Epoll` and `Containers` extend
`Vector`, and `EpollProofs` and `ContainersProofs` cite the theorems of
`VectorProofs`. `StringSet` extends `HashTable`, whose code it repeats with other keys. `Select` takes from `Poll` what the poll it forwards to answers. The
handshake is in two modules: `Connection` has its processes, which may die, and
`Setup` its bytes on the socket.

Operators named in a comment `mutant:` are wrong versions of the definition
below them, as a plausible bug would make it. `PROJECT.json` says which property
each of them breaks; a property that no mutant breaks would say nothing about
the code.

### Buffer

The writer's program counter `wpc` walks through `buffer_write`: `wait` or `try`
(the descriptor's `non_blocking` flag), `branch` (the comparison with the
peer's index), `copyRight`, `wrap`, `addRight` (the part before the end of the
ring, `_wrap_write`), `copy`, `advance`, `publish`. The reader's `rpc` is its
mirror image. `wbytes`, `wright` are the locals `bytes_to_write` and
`right_space`. A byte is its position in the writer's stream, so `delivered` is
correct exactly if it is 1, 2, 3, ... `memcpy` is one action: `NoOverlap` shows
that the two regions being copied never meet. The code reads the peer's index
without atomics, a data race in C; in the build it is one aligned 8-byte load,
which returns the old or the new value. The memory model is that of the x86
build (the code uses `_mm_pause` and `rdtsc`): stores are seen in the order they
are made, which is how the actions are ordered.

`accepted` and `taken` are what the return values tell the two applications.
`buffer_read` returns -1 if nothing was read. The refinement counts a byte as
sent once `size` counts it.

### Connection

The processes are `Client`, `Server` and `Children`. `pc` walks through the
handshake (`start`, `sendId`, `awaitSync` for the server; `start`, `attach`,
`increment`, `sendSync` for the client), `open`, `fork`, and `disconnect`
(`sub`, `load`, then `detach`, `reset` and `free`, or `detachLast`, `resetLast`,
`destroy` and `free`). `session` is the entry of the descriptor in the bridge; `stale`
is a connection that `_detach_connection` has emptied and `session_invalidate` not yet
cleared. Between shmdt (`connection.c:130`, `Detach`) and the reset of the pointers
(`connection.c:133-136`, `Reset`) a session is still valid and points to memory that is
no longer mapped: an exit handler that runs there, or later in the same disconnect, ends
in `SubFaults`, the segmentation fault. The
segment is `created`, `attached` and `removed` as the kernel sees it: with
IPC_RMID done, it lives until the last process detaches. The variable `world` is
chosen at the start and says which children may be forked and which faults may
happen: crashes, signals without a user handler, failing forks, a failing read
of the segment id.

### Socket

A buffer is here the number of bytes in it. Bytes are published and room is freed in
parts, as a wrap does. That the ring does the same is stated with a specification
between the two: `ByteCount` has the number of bytes, and what a write has room for
and has not moved yet, and the same of a read; `Count` maps the ring to it,
`ServerBuffer` and `ClientBuffer` the two buffers of a connection. The part that is
moved is any part in `Socket`, and in the ring the one before its end and the one
after. `told` is the `revents` of the last `poll` until the application acts on
them. The names that `Buffer` has too begin with `Socket` or `socket` here, since
one module proves about both.

### Poll

Descriptors are counted, not named: `tReady` TSSX descriptors and `nReady`
others are ready, and stay so until the application deals with them between
calls. `mpc` is the calling thread (`_wait_for_normal_thread`,
`_concurrent_tssx_poll`, the join), `npc` the normal thread
(`_signal_tssx_thread`, `_normal_poll`). `MKill` interrupts the normal thread
only while it is inside the system call. `pthread_cond_wait` may wake
spuriously. One flag `expired` stands for the two threads' clocks, each of which
may look at it late.

### Epoll

`first`, `entries`, `tssx_count`, `normal_count` are the instance's fields, `List`
the entries in the order of a scan. `entries` is a value of `Vector`: its capacity
and cells are there, so pushing, removing and setting up again do what the code
does. `kernel` is what the kernel has registered, which differs from
`normal_count` when it refused something already counted: an addition, or a removal of a
descriptor that is not there (`miscounted`). What is ready is not
state: a scan finds some `Readiness` of each connection, so everything can change
between two scans. `_is_edge_for` is FALSE: in the code's
`!(flags & (operation == READ) ? READ_EDGE : WRITE_EDGE)` the mask belongs to the
condition and both values of the conditional are nonzero, so an edge-triggered
entry reports hangups only; the run's registrations are level-triggered. `written`
remembers one-shot events that were put into the caller's array, `overrun` those that
were copied behind its end: `_concurrent_epoll_wait` appends its scan's events to the
kernel's without a look at the maximum (`epoll-overrides.c:467-469`). What such a write
does to the caller's memory is undefined behaviour and is not followed further; the
events are lost to the caller.

### Select

`args` and `was` are the sets given and what was true then; `sets` are the caller's
sets as the code changes them. On the fast path the peer, the write side and the
read side are three steps, and conditions can become true in between; in the loop
each descriptor is a step. The poll of a mix is one step, with its `revents`: it ends
with events or when time is up (`PollReturns`), or the real poll fails (`PollFails`), which
gives ERROR and leaves the sets, or ERROR plus the TSSX events. `aborted` is an assertion, a missing connection, or
`FD_SET` on a set that was not given.

### Setup

`wire` is the socket, `buffer` the shared memory, each a sequence of messages per
side; the segment's id and the synchronisation byte travel on `wire` among the
application's messages. `sock` is the socket's O_NONBLOCK, `flag` the
`non_blocking` of each buffer and operation; `setter` holds a process between the
two assignments of `set_non_blocking`. `asked` is the set of modes a side can
expect: one after an undisturbed F_SETFL, both when it was set by two processes at
once, by F_SETFD, or when the handshake lost the mode set before it. `overlapped` is the
first of these alone. `aborted` is the side whose assertion in `is_non_blocking` failed;
its two reads of the flags are one step, so a process that changes a flag between them
counts as one that is under way.

### Containers

A container is a record of the C struct's fields; memory that was never written is
`Junk`, and `live` says whether there is memory. Every allocation may fail
(`Alloc`). A bucket of a table is the set of the nodes in its chain: a chain is
searched by key to its end and no key is in it twice, so the order in which it is
linked, which a resize reverses, tells nothing. A node holds its key and, in a hash
table, a value in the place of the connection. The operators of a table take the
hash as a function of the keys: that of a descriptor is computed as the code does; a
string is a model value and its hash, `Hash`, any function to the numbers, in the
run `MCHash`. `MinCapacity` and `LoadFactor` are 8 and 5 in the code; the run has 1
in the place of 8, so that six keys suffice to resize a table, on an insertion and on a
removal. The latter asks for twice the size when a quarter of the threshold is left,
which with a factor of 5 is more than the capacity there is: no table ever shrinks. `seq`,
`dict`, `names`, `keys` are what the container stands for.

## Runs

| run | bounds | states | shows |
|---|---|---|---|
| `buffer` | ring of 4, requests of 1, 3, 5 bytes, 10 bytes | 21 256 | inductive invariant (type, order, `size` between calls, return values), disjoint copies, refinement of `ByteStream` and of `ByteCount`; writes return, visible bytes are read |
| `connection` | client and server; two children and no fault, or one child and crashes, with signals, or with failing forks and reads | 903 979 | inductive invariant; without faults the count is exact and the segment goes with the last user; with them the count is never too low, so nobody loses a segment in use and no hangup is invented, and the count is touched only where it is mapped, a signal inside disconnect excepted; the handshake ends |
| `socket` | rings of 2, requests of 1 to 3 | 248 896 | inductive invariant; a poll's answer holds until it is used; end of file means closed; a poll without timeout ends at a hangup |
| `poll` | 2 + 2 descriptors, three timeouts, foreign signals, failures of the real poll | 32 877 | inductive invariant; result = reported descriptors, and 0 only after the timeout, unless the real poll fails; the start handshake; refinement of `PollAnswer`; a poll with a timeout returns |
| `epoll` | 3 descriptors of which 3, 2 or 1 have a session, two interests, three states of a connection, room for 1 or 2 events, one refused registration, any number of refused removals | 781 696 | inductive invariant (the instance's fields agree, what is disabled was reported); refinement of `InterestList`; one-shot events are put out before they are used up, and are in the array unless the two threads found more than it holds; results add up; a wait with a timeout returns |
| `select` | descriptors 3 to 5, all, two, one or none with a session; 31 calls; 2 conditions true at a time, failures underneath | 344 666 | inductive invariant; bits are true, and asked for where that is promised; unless something underneath fails the result counts them and 0 means nothing; well-formed calls do not abort; calls end on time, those about TSSX descriptors alone on readiness too |
| `setup` | every USE_TSSX over two addresses, two processes and two messages a side, seven kinds of call | 476 712 | inductive invariant; with equal variables both sides do the same and both calls return; the handshake takes only its own bytes; plain streams stay in order; modes stay in step, and fcntl stops a process only when two of its side meet |
| `containers` | vectors up to 5 elements (2 when there are two), capacities up to 5 asked for, 6 keys, 6 strings, failing allocations | 293 212 | inductive invariant (room of the vectors, load of the tables); vector = sequence, table = map, string set = set, free list = stack |

The bounds. A ring of 4 with a request of 3 wraps at every offset, 5 exceeds
the capacity, and 10 bytes go round the ring more than twice. Two children let
both sides fork, one side fork twice and a child fork; the faults are combined, in two
worlds, with one child, which is enough for two holders on one side and for a process that dies
at each step while the other two go on. With a ring of 2 a call can be published in
two parts and no more, which is all a wrap does. Two poll descriptors of each kind
let both threads find several events or one each. Three epoll descriptors fill the
field and the vector past its first capacity (`INITIAL_INSTANCE_CAPACITY` is 1,
`vector_setup` makes it 2) and shrink it again; room for one event makes some entry
fall past the maximum. In `select` a gap (3 and 5) and an `nfds` one past or at the last
descriptor reach every assertion, one call has a descriptor past `nfds`, and two conditions meet on one connection or
on two. In `containers` the capacity of a vector doubles twice and goes back, tables are
resized on insertions and on removals, and strings and keys collide.

The named bounds: `MaxBytes` on what the writer offers, `CanFork` on forks under way and
on the count after repeated failing forks, `MCModulus` (16 for 2^64) for the count's
width, `MaxRefused` on registrations counted and refused, `MaxArrivals` on
conditions true at a time, `Payload` on what each side sends in `setup`, `Modes` so
that a behaviour there either sends or calls `fcntl`, which share no state after
the handshake, `MaxSize`, `MaxPair` and `MaxCapacity` on vectors.

Where a property has an exception, the exception is what the code does:

- `FaultsErrHigh` excepts behaviours in which a signal interrupted a disconnect
  (`exiting` is "twice"): `exit` in the handler (`bridge.c:197`) disconnects a second
  time, and the count falls by two. `TouchesMapped` excepts the same behaviours: after
  shmdt the second disconnect finds the count unmapped.
- `NoSegmentLeft` does not say that a segment is destroyed once: two processes can
  both subtract before either tests the count (`connection.c:74`), and the second
  destruction fails and ends its process (`DestroyThrows`).
- No property says that a hangup is always seen: after a fork the count of a side
  that has closed is 2 (`connection.c:66`), and a read already waiting when the peer
  closes does not look again (`buffer.c:291`).
- `ResultCountsEvents` and `ZeroMeansTimeout` of `Poll` are about calls whose real poll
  does not fail. When it fails its error can become the error plus the number of TSSX
  events (`poll-overrides.c:253`, run `poll_error`); `PollAnswer` allows that result.
- `OneshotDelivered` of `Epoll`: when the two threads together find more than the caller's
  array holds, the events that do not fit are written past its end
  (`epoll-overrides.c:467-469`); `ResultIsTrue` bounds such a result by twice the maximum.
- `BitsAskedAndTrue`: the read bit of a hangup and an error bit can come unasked.
- `ResultCountsDescriptors` and `ZeroMeansNothing` are about calls underneath which nothing
  fails; the first leaves out the loop over several TSSX descriptors (see
  `select_sets`) and an ordinary descriptor of which poll says nothing but POLLHUP, which has no bit.
- `AbortsOnlyTorn` allows the assertion of `is_non_blocking` to stop a process when
  another one of its own side is changing the two flags, or two have changed them at
  once. `FlagsInSync` in addition excepts a mode set by F_SETFD and one that the handshake
  lost.
- `VectorFits` excepts the copy of an empty vector, whose capacity of 0 never
  grows (`vector.h:169`); the next push writes past it.
- `SetKeepsStrings`: `ss_remove` compares pointers (`string-set.c:91`), so a
  removal removes nothing. `PopsLastFreed`: the key is read through a pointer into
  memory that the pop may have given back (`free-list.c:31`), which it does when it
  empties a list that had grown.
- `KernelCounted` is an inequality, because a refused registration stays counted; a refused
  removal is discounted and breaks it (`miscounted`).

### Where code and documentation disagree

Each of these runs checks one property that the repository states, or that its
examples rely on, and TLC finds a behaviour of the code that violates it.

| run | what happens |
|---|---|
| `socket_eof` | bytes written before a close are never delivered |
| `poll_error` | the real poll fails, and the error plus one TSSX event is 0, which stands for a timeout |
| `poll_lost_signal` | the signal comes between the look at the count and the system call: poll blocks |
| `select_sets` | over several TSSX descriptors the result is positive and the caller's sets are empty |

Three more are in the models, without a run of their own:

- `_tssx_epoll_wait_for_single_entry` returns SUCCESS, which is 0, whether it has found an
  event or run out of time (`epoll-overrides.c:590`, `SingleWait`); `try-epoll.c:28` takes
  0 for the timeout. `ZeroAmongSeveral` excepts this wait.
- A removal of an ordinary descriptor is discounted before the kernel answers
  (`epoll-overrides.c:219-224`, `_epoll_normal_delete`). When it refuses, because the
  descriptor is not registered, the count can be 0 while the kernel has another one, whose
  removal then fails the assertion at line 220; `KernelCounted` excepts this (`miscounted`).
- The comment at `selective.c:31`, "Empty means all sockets should
  use TSSX", stands above a test for membership in the set, which an empty set always
  fails; without `USE_TSSX` no socket uses TSSX, as the message at `selective.c:43` says
  (`check_tssx_usage` in `Setup`).

### Fairness

`Buffer`: a process inside a call goes on when it can (the operating system
schedules both; the wait is a polling loop that ends with `usleep`), and the
reading application keeps calling `read`. Without the last, a blocking write on
a full ring rightly waits. Nothing obliges the writer to write.
`Connection`: calls in progress go on and every process exits in the end.
`Socket`: calls in progress go on. `Poll`: both threads are scheduled, the mutex
does not starve the normal thread (strong fairness of `NLock`, needed because
spurious wakeups take the mutex again and again), and finite timeouts expire.
`Epoll`: both threads run, time passes, and a real wait ends when its time is up;
nothing is assumed of the kernel's descriptors. `Select`: the caller runs, the real select returns when it can, and time
passes; of the poll of a mix only what `Poll`'s `PollReturns` shows is assumed, that it
ends when its time is up. Without a timeout it may block although a TSSX descriptor is ready
(`poll_lost_signal`), so `ReadyEndsSelect` is about calls that do not go through it. `Setup`: a client that has called `connect` and the server that accepts go on;
a server that never accepts would keep a TSSX client waiting. Nothing is fair in
`Containers`, where no caller is obliged to do anything.

## Proofs

Every proof has the same shape. A property that a run checks is seldom inductive;
the module `XInv` adds what each step relies on, in named parts, as `IInv`; the run
checks `IInv` on the small instance; `XProofs` has one lemma per action, that it keeps
`IInv`, and the theorems follow (`Buffer` and `Socket` have one such module, `ChannelProofs`). The assumptions are those on the constants, stated
by name next to them: what the C types and the callers' obligations give, and no
bound on the numbers of descriptors, processes, bytes or calls.

### Buffer

`ChannelProofs` proves for every capacity, every set of requests and every bound:

| theorem | statement |
|---|---|
| `RingInvariant` | `Spec => []IInv` |
| `TypeCorrect` | `Spec => []TypeOK` |
| `StreamInOrder` | `Spec => []InOrder` |
| `CopiesDisjoint` | `Spec => []NoOverlap` |
| `SizeCountsBytes` | `Spec => []SizeIsBytesUsed` |
| `CallerCountsRight` | `Spec => []ReturnsWhatItCopied` |
| `RingIsStream` | `Spec => Stream!Spec`, that is, `Spec` implements `ByteStream` |
| `RingCountsBytes` | `Spec => Count!Spec`: it implements `ByteCount` |
| `RingImplementsStream` | `Spec => ImplementsStream`, which is both |

The assumptions are those on the constants: a positive capacity, positive
requests, a bound that is a number.

The argument. `InOrder` is not inductive: it says nothing of the bytes still in
the ring, and the indices that would say where they are run ahead of the
counter. `PubWrite` and `PubRead` are the indices without what `size` does not
know yet; `Ring` says that they are `size` bytes apart. `Contents` says that
those bytes continue the stream after the delivered ones, and that the bytes
copied in and not yet published (`Pending`) continue it after them. `WriterInv`
and `ReaderInv` say that each side keeps to the space it saw when it loaded
`size`: the other side can only make that larger, which is why a stale value is
safe. `Counts` ties the return values to the counter. The proof that a step
keeps the invariant has one lemma per action. The refinement then follows from
the invariant: `publish` and `addRight` are `Send`, the two copies of the
reader are `Receive`, everything else changes nothing of the stream. In the other
refinement a call reserves when it loads `size`, and `publish`, `addRight` and their
mirror images move a part; that the part is not more than was reserved is
`WriterInv` and `ReaderInv` again.

### Socket

`ChannelProofs` proves for every capacity and every set of requests:

| theorem | statement |
|---|---|
| `SocketInvariant` | `SocketSpec => []SocketIInv` |
| `SocketTypes` | `SocketSpec => []SocketTypeOK` |
| `PollKeepsItsWord` | `SocketSpec => []PollIsTrue` |
| `EofIsClose` | `SocketSpec => []EofOnlyAfterClose` |
| `SocketCountsBytes` | `SocketSpec => ServerBuffer!Spec /\ ClientBuffer!Spec`: both buffers implement `ByteCount` |

The argument. Room that a writer was told of can only grow and bytes that a
reader was told of can only become more while it does not act, because each
buffer has one writer and one reader; acting on an answer uses it up. That is
an induction only with `MoveInv`, which says that a transfer under way has been
cut down to what there is and that its answer is used up, and with `ArgInv`,
which says that the lengths of calls not yet cut are the callers'. `OpenInv`,
the count is the number of open sides, makes a hangup mean a close; a side that
has closed never comes back, so it stays true. `SocketCountsBytes` has one lemma per
kind of step: a look at the buffer reserves or claims, a part moved puts or takes, and
every other step leaves what both sides have still to move alone. No run checks
this refinement; it is the counterpart of `RingCountsBytes`, which one does.

### Vector

`VectorProofs` proves, for every element type, size and capacity and for every
outcome of the code's own decisions to grow or shrink, what the functions of
`vector.h` do when their allocations succeed, and then what is left when one fails:

| theorem | statement |
|---|---|
| `ReallocateKeeps` | a reallocation to at least the size keeps the sequence and gives the room asked for, or leaves it |
| `PushBackAppends` | `Contents` of the result is `Append(Contents(v), e)` |
| `PopBackDropsLast` | it is the sequence without its last element |
| `EraseDropsOne` | it is the sequence without the element at the index |
| `InsertInserts` | it is the sequence with the element at the index |
| `AssignReplaces` | it is the sequence with another element at the index |
| `RoomAloneChanges` | reserving and shrinking to fit keep the sequence |
| `ResizeKeepsPrefix` | a resize gives the size and keeps the elements below it |
| `CopyHasElements` | a copy has the same elements, and room unless there are none |
| `FailureShows` | an operation whose allocation fails does what it does when it succeeds, or leaves no memory |

All but the last also say that the result is a well-formed vector again (`IsVector`: the size
fits, and there is one cell per unit of capacity). The argument: all of them
are a change of the cells and the size between a possible growth and a possible
shrinking, and both of these are `Moved`, which keeps the first `size` cells
(`MovedKeeps`). `ContentsAre` then reduces a sequence to its elements, and what
remains is where `memmove` puts each. They are the facts the interest list of
`Epoll` and the containers rest on.

### Containers

For any elements, any keys that are descriptors, any strings and hash of them, any
bounds, any outcomes of the allocations and any positive `MinCapacity` and
`LoadFactor`, `ContainersProofs` proves first what the functions of a table do:

| theorem | statement |
|---|---|
| `InsertPuts` | on a table that stores a map, `ht_insert` gives one that stores the map with the pair |
| `RemoveDeletes` | `ht_remove` gives one that stores the map without the key |
| `StoredIsMap` | such a table answers `ht_contains` and `ht_get` as the map does, with one node for each key |
| `InsertAddsString`, `StoredIsSet` | the same of `ss_insert` and of the set of strings |

and then, about every sequence of calls:

| theorem | statement |
|---|---|
| `ContainersInvariant` | `Spec => []IInv` |
| `ContainersKeepShape` | `Spec => [](TypeOK /\ VectorFits /\ LoadIsBounded)` |
| `VectorsAreSequences` | `Spec => []VectorIsSequence` |
| `TablesAreMaps` | `Spec => []TableIsMap` |
| `SetsKeepStrings` | `Spec => []SetKeepsStrings` |
| `ListPopsLastFreed` | `Spec => []PopsLastFreed` |

The argument. `IsTable` says that a table is what its capacity and its nodes make it:
every node in the bucket of its key under the present capacity (`Spread`), and the
threshold of that capacity not passed. A resize makes such a table of the same nodes,
whatever the direction (with buckets as sets this is no induction over chains), and
an insertion or a removal changes one bucket, that of the key. The size is compared
with the threshold for equality, which suffices because it moves by one and a resize
always leaves a threshold of at least twice the size; a resize that would go below the
minimum capacity is not made, and leaves the old threshold, which is not passed
either. For a vector `Stands` has three cases: it is the sequence (`IsVector` and
`Agrees`, in which an element that was never written may be anything), it is the
copy of an empty vector, or it has lost its memory and nothing is said of it. The
first two are kept apart since only the first may grow; each operation's lemma
applies the theorem of `VectorProofs` when its allocation succeeds, and
`FailureShows` when it does not.

### Connection

For any finite set of children, of which each world lets some be forked, and every mix of
faults, with a count wide enough for two references a process (`CountAssumption`; the code's is
an `atomic_uint_fast16_t`, which has 64 bits in the x86-64 build, and no system has that many
processes):

| theorem | statement |
|---|---|
| `ConnectionInvariant` | `Spec => []IInv` |
| `ConnectionTyped` | `Spec => []TypeOK` |
| `ConnectionCountsUsers` | `Spec => []CountIsReferences` |
| `ConnectionFaultsErrHigh` | `Spec => []FaultsErrHigh` |
| `ConnectionLeavesNoSegment` | `Spec => []NoSegmentLeft` |
| `ConnectionTouchesMapped` | `Spec => []TouchesMapped` |

The argument. Every step changes the count and the number of references by the same
amount, or, at a fault, takes references away and leaves the count; so the count errs
high (`CountInv`) as long as no exit handler disconnects twice. Whoever sees it at zero
is then right that nobody is left, and stays right, because only a holder can fork
and only the handshake makes a holder of somebody new; `HandshakeInv` says that no one
disconnects before the client has answered. Both count with `Cardinality`, so each
action has a lemma that says what it does to the set of holders. Who has the segment
mapped follows the place of each process, an exit handler inside disconnect excepted (`MappedInv`). `FaultlessInv` adds, where
there are no faults, that the count is exact and that at zero somebody is on the way
to remove the segment.

### Poll

For any numbers of the two kinds of descriptors, any timeouts, foreign signals and failures
of the real poll:

| theorem | statement |
|---|---|
| `PollInvariant` | `Spec => []IInv` |
| `PollCountsEvents` | `Spec => []ResultCountsEvents` |
| `PollZeroIsTimeout` | `Spec => []ZeroMeansTimeout` |
| `PollStartsInStep` | `Spec => []ScansAfterHandshake` |
| `PollIsAnswer` | `Spec => ImplementsPollAnswer`, that is, `Spec` implements `PollAnswer` |
| `PollWakesUp` | `Spec => []NoLostWakeup` |

The argument. `CountInv`: the shared count is the sum of what each thread has already
added, or the real poll's error and perhaps the caller's find. `HandshakeInv`: the flag is
set by the thread of this call and no other, so it is clear until that thread has
the mutex, and a caller asleep has its signal still to come (`NoLostWakeup`, which no run
needs to check beside it). `LeftInv` gives each way out of the caller's loop its
reason, which the result of zero depends on. The refinement needs little more: the scan
that finds something is `FindTssx`, the end of the real poll `FindOthers`, the join
`Return`, where the count has become the sum; every other step of the two threads is `Between`,
inside a call and without effect on the answer. Outside a call the normal thread is
through, which is what the join is for.

### Epoll

For any finite set of descriptors, any interests, sizes and timeouts and any first capacity:

| theorem | statement |
|---|---|
| `EpollInvariant` | `Spec => []IInv` |
| `EpollInstanceInOrder` | `Spec => []InstanceInv` |
| `EpollOneshotDelivered` | `Spec => []OneshotDelivered` |
| `EpollResultIsTrue` | `Spec => []ResultIsTrue` |
| `EpollIsInterestList` | `Spec => ImplementsInterestList`, that is, `Spec` implements `InterestList` |

The argument. `List` is the field followed by the vector's contents; what an operation
of the vector does to it is `VectorProofs`. One lemma per way an operation can go says
which entry of the list is added, changed or dropped, and with no descriptor twice
(`InstanceInv`) that is one change of the function from descriptors to registrations,
which is the refinement. `OneshotInv` follows a disabled entry from the scan
that reported it, through the array, to the caller; `PathInv` and `CountInv` do for the
two threads of a wait what they do in `Poll`.

### Setup

For any payload that is told apart from the handshake's own messages (`PayloadAssumption`), every
USE_TSSX, address, mode and number of processes a side:

| theorem | statement |
|---|---|
| `SetupInvariant` | `Spec => []IInv` |
| `SetupSidesAgree` | `Spec => [](SidesAgree /\ FlagsInSync)` |
| `SetupHandshakeIsPrivate` | `Spec => []HandshakeIsPrivate` |
| `SetupStreamInOrder` | `Spec => []StreamInOrder` |
| `SetupAbortsOnlyTorn` | `Spec => []AbortsOnlyTorn` |

The argument. With equal variables the two handshakes can only be at certain pairs of
points (`PlaceInv`), and at each of them a side's socket holds its token, or none,
followed by data alone (`Token`, `SocketOf`); a token is read by the step that expects
it because it is at the front. Order then is that of one queue: plain calls of
a session leave nothing on the socket, calls without one nothing in the buffer. `ModeOf` says
that a side's mode is either unknown (two processes at once, F_SETFD) or the same in all
three places, except for the buffers that the one process inside `fcntl` has not written yet.

### Select

For any finite set of descriptors, any division of it between TSSX and the kernel, any
calls, timeouts and conditions:

| theorem | statement |
|---|---|
| `SelectInvariant` | `Spec => []IInv` |
| `SelectBitsAskedAndTrue` | `Spec => []BitsAskedAndTrue` |
| `SelectCountsDescriptors` | `Spec => []ResultCountsDescriptors` |
| `SelectZeroMeansNothing` | `Spec => []ZeroMeansNothing` |
| `SelectTameNeverAborts` | `Spec => []TameNeverAborts` |

The argument. What is true of a descriptor stays true during a call (`CallInv`), so
what was looked for in vain was not there at the call, and what was found still is.
`RouteInv` ties each way to the descriptors it is taken for. `FastInv` follows the one
descriptor through the three looks, `ManyInv` the loop: at most one find for each descriptor
below the cursor, and without a find nothing to report below it. `EntriesInv` is what
poll promises of its entries. The last condition of `Tame` is about the descriptors below `nfds`
and not about the sets: with one of them, in the error set alone, the fast path aborts
whatever the read and the write set hold past `nfds`.

### What is only model-checked

- Liveness: every property under "Fairness" above. It is out of reach of the prover.
- The four violations, which are facts about small instances by nature.

No module has a recursive operator; all are written with named constants and
assumptions, one action per step.

## Not modelled

- The bridge with several descriptors, user signal handlers and SIGABRT.
- `buffer_peek` and `buffer_skip`, which no override calls.
- `epoll_pwait` and `pselect`, which set a signal mask around the wait; the checks of `epoll_wait`'s arguments;
  edge-triggered registrations in the run.
- An application that closes a descriptor while it is registered, or registers it
  before it connects. In the first case the entry stays in the instance, with a
  pointer to a connection that has been freed (`socket-overrides.c:161`); in the
  second the kernel keeps it and a later removal looks among the TSSX entries.
- Failures of pthread and sigaction calls, and of malloc outside the vector.
- The segment's layout, the escalation of the wait (pause, yield, sleep), the
  timeouts that are compiled out, the sizes read from the environment, the
  arithmetic of milliseconds and struct timeval.
- Several threads of one process on one descriptor, except in poll and epoll; two
  threads in poll at once.
- The iterators of the tables and the reverse map, which the library does not use, as it
  does not use the hash table and the free list, which are modelled. The vector's
  iterators, with which `epoll` walks its entries (`epoll-overrides.c:328`, 343, 346, 408,
  553), are the quantifiers and `Scan` of `Epoll`.
- The bytes of strings, and with them two allocations that are a byte short: the copy of
  the variable (`selective.c:56`) and the string of a node (`_ss_create_node`).
- Utilities, experiments and examples, which are not part of it.

## What would come next

1. `Bridge`: several descriptors and processes, `connection_count`, the fork
   loop, user handlers and the five cases of the signal handler.
2. Two threads of one process in poll at once, over the shared handshake flag.
3. An application that closes a descriptor which is still in an epoll instance.
4. Proofs: that the poll `Select` forwards to is `PollAnswer`, with descriptors named
   instead of counted.
