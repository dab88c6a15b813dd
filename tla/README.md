# A TLA+ development of FakeSock

FakeSock intercepts the socket calls of two programs (`hook.so`, preloaded) and
carries their traffic through shared memory that a third process, the engine,
manages.  This directory holds specifications of its protocol, the TLC
configurations that check them and proofs that TLAPS checks.  References such
as `engine.c:980` are to the files under `src/`.

## 1. The system

    program A ── hook.so ── mailbox A ── handler thread A ┐
        │                                                 ├ engine: objects, pools, queues
        │                                                 │
    program B ── hook.so ── mailbox B ── handler thread B ┘
        └────────── scanfs, the one public segment ────── rendezvous thread

A program finds the engine through the public segment `scanfs`: it raises a
flag there, and the engine's rendezvous thread makes a *mailbox* for it, a
`control_symbol` of 128 bytes in shared memory (engine.h:168), and a handler
thread that serves it.  The program writes a request (`call_id`, arguments) into
its mailbox and spins; the handler answers.  The same structure carries the byte
of flags (`bIs_close`, `self_close`, `bHas_connect`, `bHas_message`,
`bHas_new_resource`, ...) that program and engine poll.  All handler threads work
on the engine's memory.  The locks are flags in that memory.

There are three programs' texts: `socket.c` (the hook), and the stand-alone
`client.c` and `server.c`, which repeat most of it and have a `main`.

| component | state | operations | hard behaviour | right when | module |
|---|---|---|---|---|---|
| data channel | per object: pools, queues, `read_msg_number`, flags | send, recv, close of an established connection | two handler threads on shared queues and counters; flags of one byte; values kept across an unlock; pools at their limit | each committed message is delivered once and in order; no block in use is reused; flags agree with queues; blocked calls return | `Channel` |
| global table | `cdc->addr[1024]`, next index, `cur_user_connect`, addresses, targets | Create, ApllyPort, ConnectPort, make_bridge, close_self | unlocked check-then-act; a counter that only grows; holes | a slot belongs to one object; a port to one server; targets are mutual | `Sockets` |
| connection set-up | pools, `mes_info`, `cs`, `bHas_connect` | InitializeObject, UpLoadPool, accept, connect | orders of the two programs' calls | an accepted connection can carry messages; accept returns | `Sockets`, `PingPong` |
| object reclaim | pools' rings, queues, user lists, slot | close_self, sticking_list | objects freed while the peer works | no freed object is in the table | `Sockets`, in part |
| locks and rings of a pool | Flink, Blink, counters, two lock words | aplly_memory, release_memory, add_list, detach_list | a way out without unlock; pointer order; test and set are two steps | the rings stay two whole rings of all blocks | `Rings` |
| mailbox | `call_id`, `type`, `handle`, `args`, `exception` | call_id, handler | order of the stores | one answer per call, to the right call | `Session` |
| rendezvous | `scanfs`: has_connector, handling, busy, done, shmid | try_to_connect, wait_to_connect_target | two kinds of clean-up, an engine still at work on the last program | every program gets a mailbox of its own | `Session` |
| split of a long send | sizes, package symbols | block_send, figure_package_symbol | alignment, remainders | the packages make up the buffer and are framed | `Split` |
| plugins | function table, control, list | hook_init, Register, Enable, Close, Fixed, Action | set-up threads race with the loading, each other and the program | a fixed function is never replaced; nothing empty is called | `Plugins` |
| interception layer | table entry, control | the tests in socket, bind, ..., send, recv | the tests race with the set-ups | the default runs when it was asked for | `Plugins` |
| client.c, server.c | a counter of rounds | the two `main` functions | they look at no result | no round is lost | `PingPong` |
| shared memory wrappers, utilities, printing | - | - | - | - | not modelled, section 8 |

## 2. Plan

All the modules planned are there.  What would be worth adding next, in order:

1. what `close_self` does to rings, queues and user lists;
2. several threads of one program on its one mailbox, which section 7 supposes away.

Every safety property and refinement of the passing runs has a theorem; what is left
to model checking is liveness.

## 3. Modules

| module | what | theorems in |
|---|---|---|
| `Channel` | the data channel: one action per step of two programs and two handlers | `ChannelProofs` |
| `Stream` | what a connection promises: two streams of numbered messages | |
| `Sockets` | several programs from socket() to close(): table, ports, links, set-up | `SocketsProofs` |
| `Session` | rendezvous of a program with the engine, then its remote calls | `SessionProofs` |
| `Split` | the arithmetic of a long send | `SplitProofs` |
| `Rings` | the fragment manager of one pool, pointer by pointer, with its locks | `RingsProofs` |
| `Fifos` | what a fragment manager promises: two queues of blocks | |
| `Plugins` | loading, set-up threads and interception functions | `PluginsProofs` |
| `PingPong` | server.c and client.c together, through the engine | `PingPongProofs` |
| `LeastNumber` | a lemma on least elements, for scans of tables | itself |
| `MC*` | model values, budgets and ports for TLC; `MC<module>_<run>.cfg` per run | |

`Channel` and `PingPong` implement `Stream`; `Rings` implements `Fifos`, and so do the
pools of `Channel`.
`Rings` is what stands behind the sequences `idle_list` and `busy_list` of
`Channel`; `Session` is what stands behind "a request" of `Channel` and `Sockets`;
`Sockets` ends in the state in which `Channel` starts; `Split` makes several of
`Channel`'s sends of one call.

### Channel

Two ends, `Server` and `Client`.  End `e` writes pool `e` and queue `e`; its
peer reads them (set_user_struct_type, engine.c:183-192, crosses them over).
A program makes one call at a time and waits for its handler, so an end is one
sequential process.  Its step is `pc[e]`: `s_*` and `r_*` steps run in the
program (socket.c), the others in the handler (engine.c).

| variable | code |
|---|---|
| `idle_list`, `busy_list`, `idle_block` | fragment manager of a pool, rings in list order |
| `cur_byte_write` | the smi's account, in blocks, with the width of `u32` |
| `wedged` | a pool's lock left set by the early return of release_memory (engine.c:1938) |
| `torn` | two handlers were inside the rings of a pool at once: nothing is known of it any more |
| `mem` | the number of the send whose bytes a block holds |
| `queue` | the `sdbl` list of a direction; `Zeroed` is a node linked and not yet filled |
| `locked`, `last` | the lock of a queue; whether the `next_block` a reader loaded under it was NULL |
| `read_msg_number`, `nreg` | the counter in memory, and as a handler loaded it |
| `con`, `todo`, `reg` | flags in memory, flag stores a handler still makes, the byte it loaded |
| `st`, `block`, `got` | the fms of Allocate; the handler's `sdbl`, kept between calls (engine.c:2389); what recv copied |
| `reclaimed`, `crashed` | objects close_self freed; the engine dereferenced NULL |
| `sent`, `pushed`, `delivered`, `dropped`, `result` | calls made, and history |

Granularity.  No lock of the engine excludes: each is tested in one step and set in
another, and `locked_write_queue` answers success for a lock already taken
(engine.c:974, 1705, 1985).  So a step is one load or store of shared memory that
another thread can write: the counter, the flag byte, the test of the queue lock
(`add_queue_lock`, `delete_head_queue_lock`) and its store, the head that add_queue
links and then fills (`add_queue_link`, `add_queue_fill`), the `next_block` that
delete_head_queue loads and then makes the head (`delete_head_queue_next`, `_pop`),
the head read again after the unlock (`add_queue_resource`).  A message linked behind
a node the reader is popping is lost; a node popped before it is filled is, too.

The rings of a pool are sequences, and what aplly_memory or release_memory does to
them is one step, as long as only one of the two handlers of the pool is there.
When both are past the lock's test (`AtRings`) they may tear the pool:
`aplly_memory_torn`, `release_memory_torn`.  From then on `torn` is set, a call may
return any block or none or follow a NULL pointer, and no property says anything of
that pool.  `Rings` has the pointers, and the store of the lock as a step of its own.
The byte account, which the same locks guard, is loaded and stored once per user; of
two handlers at it (`AtAccounts`) each may undo any number of the other's stores.

The IO guard at the start of a request (four flags) is
one step.  The early returns are disjuncts: refused Allocate, closed stream,
refused add_queue, "no message" answered with 1, error answers with offset -1.

With `Serialized = TRUE` a request starts only when the other handler is not
inside one.  The code does not guarantee that; it is what a comment supposes
(engine.h:649, "we do not consider concurrency here").  Properties that hold
only then are checked only then.

`Stream` has no pools, flags or handlers: an end posts increasing numbers, the
other receives the first not yet received, an end may shut.  `Channel`
implements it with `posted <- pushed`, `received <- delivered`.

`Channel` begins when connect and accept have returned.  accept clears `bHas_connect`
with a store of the whole flag byte; what that can lose of the other flags is in
`Sockets`, as far as closes go, and not in `Channel`.

### Sockets

Each program of `Programs` is one use of the calls: `socket`, then `bind` and
`accept`, or `connect`, then `close`, at any stage where it is not blocked;
`Local` and `Remote` say which ports it names.  It has a mailbox and a handler
thread of its own.  An object is named like the program it was made for, but
program and handler reach it by the index `fd` only, so two objects stored in
one slot are really confused.

| variable | code |
|---|---|
| `addr`, `cur_user_connect`, `next_index_of_globel_table` | the CDC |
| `global_table_index`, `target_global_table_index`, `port`, `cs` | fields of a fakesocket |
| `pools` | how far an object is initialised: no pools, pools, pools and `mes_info` |
| `flags` | `bHas_connect`, `bIs_close`, `self_close` of a mailbox |
| `freed`, `crashed` | objects given to free; the engine dereferenced NULL |
| `fs`, `reg` | the pointer and the counter a handler holds across a step |
| `byte`, `lost` | the flag byte a program's accept has loaded; history: programs whose `bIs_close` its store took down |

A request is cut at its stores to the table and between a test and what is done
on its strength: the stores of Create, the load and store of the counter, the
test of a port and the copy of the address, kill_self's look at the target, the
same test in close_self, and the freeing.  NULL dereferences are explicit: an
empty slot met by `make_bridge_v6`, a target without mailbox in `upload_pool`,
pools or queues not there in `set_user_struct_type` and in `close_self`.  accept is a program's own step and no request: it loads the
flag byte (`accept_load`) and stores it without `bHas_connect` (`accept_store`), and
a close may be announced in between whether or not requests are serialized.  Either
store can be the later one: the close's flag is lost, or `bHas_connect` stays up.  With
`V6` a program uses the IPv6 variants, which differ in the scan only.  A handler
whose mailbox has `self_close` up has ended and starts no request.

A handler that writes through a pointer to an object freed meanwhile (possible
only when two programs share a slot) is taken to change nothing else: reuse of
that memory by malloc is not modelled.

### Session

| variable | code |
|---|---|
| `sf`, `shmid` | the flags of `scanfs` that are up, and the mailbox it names |
| `epc`, `boxes`, `served` | step of `wait_to_connect_target`; mailboxes made; those with a handler thread |
| `pc`, `ncpc`, `g_shmid` | step of a program; its mailbox as mapped, and the id it will upload |
| `call`, `ret`, `code` | number of its call, the answer copied, what call_id returned |
| `box` | `call_id`, `type`, `args`, `exception`, `handle` of each mailbox |
| `hpc`, `hargs` | step of a handler, the arguments it called the function with |

Every load and store of a flag is a step; a block copy is one.  `Hooks` are the
programs that load socket.c: they wait for `handling` to be down and clear the
whole segment at the end (socket.c:430-450).  The stand-alone ones wait for
`has_connector` and `busy` and clear three flags one by one.  With `Serialized`
one program at a time is in `try_to_connect`; any number are in their calls.

What a call does is in `Sockets` and `Channel`; here the engine refuses the calls
with a number in `Refused` and accepts the others.

### Split

The numbers are those of the code: the alignment with the precedence C gives it
(socket.c:632), the division by 4096, the cases of `figure_package_symbol` and,
where it falls off its end without a return (socket.c:522), any of the values
the register can hold.  `from` in the log of packages is the offset of the
buffer a package was copied from: always 0.  Each call of the engine may fail.

### Rings

`Flink` and `Blink` are the pointers of the node of each block, `idle_list` and
`busy_list` the heads, `locked` and `frag_locked` the two locks, whose test and
store are two steps.  `pc` and `op` say where a handler is in aplly_memory or
release_memory, `held` which blocks have been handed out.  A block is released
only once and only when it was handed out, which `NeverWedged` of `Channel`
shows, and in any order.

### Plugins

| variable | code |
|---|---|
| `lpc`, `file`, `left`, `count`, `plugin_exit`, `exits` | the loop of hook_init over the directory, with the variables it forgets to reset |
| `plugin`, `ID`, `spc` | the list of plugins, IDs given out, step of each set-up thread |
| `bEnablePlugin`, `socket_driver_table`, `socket_driver_control` | the task structure |
| `pc`, `called`, `ran`, `late` | the program's call: step, function, what it ran, whether it began after all set-ups |

Set-up threads start before their plugin is listed (socket.c:156).  `Kind` says
how far the loading of a file gets, `Wanted` which function its plugin is after:
the loading order and every such choice are explored.  A plugin sets itself up
as the one in `src/test.c` does.

### PingPong

`main` of server.c and of client.c with all the calls they make, each request to
the engine one step.  `queue` and `read_msg_number` are those of `Channel`,
`flags` those of a mailbox, `got` what recv returned.  Its set-up keeps the order
of `Sockets`: a client that is initialised before its server makes the engine
die on a NULL pointer (`Crash`), a server may accept and send before the client
has queues.  accept is one step here: from the client's upload to the server's first
send nobody else stores into the server's flags, as the client waits for that send.

## 4. Runs

No run uses symmetry: ends, programs and plugins have roles of their own.

| run | bounds | what it shows |
|---|---|---|
| `requests` | Channel, serialized, 2 blocks, server sends 3, client 2, both may close | between requests the message flag and the queue agree (`FlagTellsQueue`), the account is exact (`AccountExact`), busy blocks are accounted for (`BusyAccounted`); a recv that has something to return returns (`RecvReturns`), a sender waiting for space is woken (`SenderWakes`); every message once and in order (`ImplementsStream`) |
| `overlap` | Channel, every interleaving, 2 blocks, server sends 2, client 1, server may close | in every interleaving `TypeOK`, `NumberNeverWraps`, `NeverReclaimed`; of pools that are not torn, whatever the queues have lost, `PoolPartition`, `InUseInRingOrder`, `QueuedIntact`, `NeverWedged` |
| `pairs` | Sockets, serialized, two servers and their clients (one IPv6, which first asks for the other server's port), three slots | `OwnSlot`, `TargetsLive`, `Mutual`, `PortExclusive`; `PeerTold`: a closed program's peer has been told, unless its own accept stored over the flag; and `AcceptReturns`: accept returns once a client has bridged |
| `anyorder` | Sockets, every interleaving, three programs, two slots | `TypeOK` and `FreedNotInTable`, although slots are shared, counts get lost and the engine may die |
| `limit` | Sockets, serialized, three programs, two slots | VIOLATION of `RefusedOnlyWhenFull`: socket is refused with a slot free |
| `session` | Session, one hooked and one stand-alone program, three calls each, the second refused, one connector at a time | `OwnMailbox`, `LaterCallsRight`, `ConnectorServed`, `LaterCallsReturn` |
| `split` | Split, two sends of 14 lengths around the boundaries up to five blocks | `RemainderLost`: exactly the odd bytes below half a block are left out; `NoEmptyPackage`; `Framed`: head, bodies and tail are told apart, whatever the register held |
| `whole` | Split, one send of 6000 bytes | VIOLATION of `SplitIsWhole`: the packages are not the buffer |
| `rings` | Rings, serialized, 4 blocks, 2 handlers | `RingsWhole`, `CallsEnd` (no lock is left set), `ImplementsFifos` |
| `pingpong` | PingPong, 6 rounds, any order of starting | `InStep`, `MissesOnlyTheLast`, `Finishes`, `InOrder` (an implementation of `Stream`) |
| `plugins` | Plugins, two good files and three bad ones, both want send, both listen, or one each; one call of the program | `OwnerRegistered`, `DiesOnlyLoading`, `NeverCallsNull`, `RunningRunsDefault`, `SealedStays` |
| `twice` | Plugins, one plugin that wants `return_running` on send | VIOLATION of `SendRunsDefault`: the plugin runs twice, the default never |

For the three violations PROJECT.json quotes the line of the header or of the
documents that says otherwise.

Bounds and why they are enough.  *Channel*: two blocks are the smallest pool
with an order among busy blocks, a full state and a state in between; three
sends wrap around the pool and reach every branch of add_queue and
delete_head_queue, a refused message and a sender that waits.  Both directions
carry traffic because the admission test of one looks at the account of the
other.  *Sockets*: three slots for four programs make a full table, a refused
socket and a slot given back; two pairs give a second object with a port for the
scan to pass over; two slots for three programs are enough for two objects in
one slot and for a slot used again.  *Session*: one program of each kind, in
either order, so that each clean-up precedes each wait; three calls, so that an
accepted call follows a refused one.  *Split*: the symbols depend only on the
number of packages up to four, the arithmetic on the remainder by 4096 and by
8192.  *Rings*: with four blocks a node can be detached from the head, the
middle and the end of a ring.  *PingPong*: from the second round on all rounds
are alike.  *Plugins*: two plugins are the fewest that can compete; each bad file
is one way out of the loading.  What the bounds leave open most of the theorems
of section 6 close.

Every action and disjunct of the specifications is taken in the passing runs.
Deadlock is not checked in any: programs that have used their budget stop, one
that waits in recv for a silent peer waits for good, the engine can die.

What we know of the code beyond the three violations.  The models reach these
states; no property says they do not occur, and no run is spent on them:

- `committ` answers 0 for a message `add_queue` refused, and its block stays busy
  (engine.c:2108): reached with the code's eight blocks;
- with overlapping requests `add_queue` can dereference the NULL head of a queue
  just emptied (engine.c:980, `crashed` of Channel), an unfilled head can be
  popped and its message lost, a message appended behind a head that is being
  popped is lost, a close flag that is up can go down again, a queue can hold a
  message with `bHas_message` down, and two handlers can be in one pool (`torn`);
- with one request at a time, a client that closes while the server's accept clears
  `bHas_connect` can be forgotten: accept stores back the flag byte it loaded before
  `bIs_close` went up (socket.c:1035, `lost` of Sockets), and the server's recv then
  polls for good.  It is the one exception `PeerTold` makes;
- an object whose two ends have closed is never reclaimed (`NeverReclaimed`): the
  path is behind a test of a flag that is still up;
- a slot given back makes a hole at which `make_bridge` stops its scan: a client
  does not find the server behind it;
- a client that connects between bind and accept makes the engine dereference a
  NULL pool;
- two programs that call socket at once can be given the same slot, two that bind
  at once the same port;
- two programs in try_to_connect at once can map the same mailbox or wait for good
  (`Session` with `Serialized = FALSE`);
- the first call of a mailbox can be answered before its arguments are there and
  then waits for good: `handle` is still 0 when `type` goes up;
- the locks of a pool do not exclude two handlers (`Rings` with
  `Serialized = FALSE`).

## 5. Fairness

Each program and each handler is a thread that the kernel schedules, and the
polling loops run without pause (engine.c:2403, socket.c:478).  No program is
obliged to make a call: no fairness is put on `Call`.

- `Channel`: `WF_vars(~crashed /\ Step(e))` for each end.  A step waits only for a
  lock, for space, for a message or a close, and in `Serialized` runs for the
  other handler's request to end; once enabled it stays so until taken, or is
  re-enabled by a polling loop that is itself a step.
- `Sockets`: `SF_vars(~crashed /\ Step(p))`.  Without `Serialized` this is weak
  fairness, as a step waits for nothing but its own program and mailbox.  With
  it a request waits while another is served, and strong fairness says that
  requests are served in turn.
- `Session`: weak fairness of the rendezvous thread, of each program and of each
  handler thread.
- `Rings`: weak fairness of each handler inside a call.
- `PingPong`: weak fairness of each `main`.
- `Split` and `Plugins` have safety properties only and no fairness.

## 6. Proofs

The assumptions are those on the constants (`ChannelAssumption`,
`SocketsAssumption`, ...): pool sizes, budgets, programs, ports, slots, numbers
of calls and rounds, plugin directories are arbitrary.  Theorems that need one
request, or one connector, at a time say `ASSUME Serialized`.

**ChannelProofs.**  `NumberSafe`: `[]NumberNeverWraps`.  Inductive invariant
`NumberInv`: a handler about to load the counter for `--` has found it at least
1 and nobody else lowers it; a handler about to store has loaded at least 1; the
peer's handler stores one more than a natural number.

`PoolSafe` and its corollaries `PartitionSafe`, `RingOrderSafe`, `QueuedSafe`,
`WedgedSafe`.  They are about a pool as long as it is `Whole`: until two handlers have
met in its rings.  Everything else may overlap, the steps inside the queue locks
included, so that messages get lost and unfilled ones are popped: the theorems say
that the pool survives that.  The four properties are not inductive:
release_memory frees the HEAD of the busy ring whatever it was asked for, so one
has to know where blocks stand.  `PoolInv` says, of each pool that is not torn: idle and busy
ring are disjoint, free of repetition and together all blocks; the counter is
the length of the idle ring; the blocks of the messages the reader has not begun
to give back (`Live`), and after them the block in the sender's hand (`Held`),
stand in the busy ring in queue order; each such block holds what its message
says.  And of each queue, however its handlers got past the lock: what the writer is
about to fill is all of the queue or gone; a reader between release_memory and the pop
has a non-empty queue.  Allocation appends
at the end of the busy ring, Committ appends at the end of the queue the block
that stands last, a release removes the first of both; blocks of refused
messages may stand in between and never precede a live one they follow.  The
ring lemmas (`OrderAfterAllocation`, `OrderAfterCommit`, `OrderAfterRelease`,
`OrderAfterSkip`) state this for sequences; steps that touch no pool are dealt
with once (`CalmKeeps`).  `TypeCorrect` (`[]TypeOK`) uses the same invariant: the
head of a ring is a block only if the ring is not empty, which needs the counter.

`ReclaimSafe`, for every interleaving: `[]NeverReclaimed`.  `FlagInv` follows single
flag writes: what a handler may still have to write, by its step (`OwedOK`); a
handler raises its own message flag only where it is up already (`RaiseOK`); and a
byte loaded earlier and stored with another flag changed neither raises the
handler's own message flag nor lowers its peer's (`LoadedOK`).  So a recv that saw its
flag up still finds it up where close_self would begin.

The other theorems suppose `Serialized`; overlapping requests break each of
the properties (section 4).  `PoolIsFifos`: no pool is ever torn, and each is used as
the two queues of
`Fifos`, a block taken from the front of one and put at the back of the other.
`RingsImplement` below says under the same hypothesis that the linked rings are such
queues, so that the sequences of `Channel` suppose no more of a pool than `Rings`
provides.

`FlagSafe`: `[]FlagTellsQueue`; `AccountSafe`:
`[]AccountExact`; `BusySafe`: `[]BusyAccounted`; `StreamSafe`: the refinement
`ImplementsStream`.  None is inductive, because each holds between requests only
and a request changes counter, flags, rings and queue one after the other.
`SerialInv` says for each step of the request being served how far they are apart:

- `ApartInv`: no pool is torn, the writer's handler still finds the node it linked or
  saw, and a `next_block` that was loaded is still the head's;
- `CountInv`: one request is under way at most, and the counter of messages is the
  length of the queue, plus or minus the message just queued or popped;
- `PendInv`: which flag writes are still to come, and that a loaded byte is the one
  in memory;
- `TellInv`: the message flag of an open end is up exactly if its queue is not empty,
  but for a writer about to raise it and a reader about to decide;
- `ReadInv`: the message a recv was told of is the head of the queue until it is
  popped, filled in, and the one copied out;
- `AccountInv`: the account is the busy blocks times their users, but for the one
  just taken or given back;
- `BusyInv`: while both ends are open a busy block is queued, in the sender's hand
  or that of a refused message;
- `StreamInv`: what was queued is what the peer was given, then what it has popped,
  then what is queued.

The parts lean on each other, and on `PoolInv`, `NumberInv` and `FlagInv`.  The account needs `PoolFits`: all blocks of a pool, each counted for both
users, stay below 2^32 bytes; the code has eight blocks of 4096.

**SocketsProofs.**  `SocketsTyped`: `[]TypeOK`.  The scan for a free slot and for
a port ends inside the table (`LeastExists` of `LeastNumber`), and a handler about
to free holds a pointer.

`TableSafe`: `[]FreedNotInTable`, for every interleaving.  `TableInv` adds that an
object is in one slot at most (`Once`), that what is in the table, freed, or
about to be freed has been stored before, so that Create does not bring it back
(`Stored`), and that an object about to be freed is in no slot but the one about
to be emptied (`Doomed`).  `Doomed` survives another program's Create in that
very slot, which is the case a test would not reach.

`SlotSafe`, serialized: `[](NextUsable /\ OwnSlot)`.  `SlotInv` adds: one request is
under way at most (`Alone`); who has a descriptor, and that an object is freed by
its own close only (`Owners`); the object is told the slot it was stored in
(`Indexed`); the slots taken are at most as many as sockets were counted, one
more while Create has stored and not yet counted (`Counted`); and the next index
is free whenever the counter, or the counter about to be stored, will admit a
Create (`NextFits`).  That the counter is never decremented is what keeps
`NextFits` when a slot is given back.

`TargetsSafe`, serialized: `[]TargetsLive`.  `LinkInv` adds to the two invariants what each
step of a handler was reached with (`Fetched`), that a program without a descriptor
has no port (`Fresh`), and the point: the target of a linked object is in the table
and linked itself (`LinkedLive`), not only in it.  Only then does the close that
frees an object find it unlinked from both sides.

`PortSafe`, serialized: `[]PortExclusive`.  `PortInv` adds that from the look-up of a port to
its copy nobody gets the same (`Unused`).  Hypothesis `OtherPort`: no program
connects to the port it binds.  ConnectPort copies the port into the client's
object too, and such a client could not be told from one that has bound it.

`MutualSafe`, serialized: `[]Mutual`; hypothesis `OneClientPerPort`, what engine.h:650
supposes.  That links are mutual is not inductive: one has to know which of the two
is the client.  `Pair(c, s)` says that s is bound to the port c has connected to and
that each is the other's target; `PairInv` says that whoever is linked belongs to a
pair.  make_bridge makes a pair of two that were in none, a close takes one apart.

`ToldSafe`, with the same hypotheses: `[]PeerTold`.  `ToldInv` adds how far the set-up of
one program is (`Boxed`) and, for each pair, how far both are (`PairTold`): a server
is told of the connection only when the client's mailbox is known; a client that has
closed has raised the server's flag; a server that has closed has raised the client's,
or it never had queues, and then the client is not connected.  "Raised" is `Notified`: the
flag is up, or the server's own accept took it down (`lost`), which is the only step
that does.

**SessionProofs.**  `SessionTyped`: `[]TypeOK`, any number of connectors at once.  A
program raises `has_connector` once, and each flag seen makes one mailbox, so
there are never more than programs (`boxes + Seen + Taken <= Cardinality(Raised)`).

`MailboxSafe`, one connector at a time: `[]OwnMailbox`.  `PhaseInv`: the rendezvous
is in one of four phases, told apart by two flags and the engine's step:
nobody asks; asked (`has_connector` up); being served (both flags down, a program
in its wait for `done`, the new mailbox nobody's); told (`done` up, `shmid` the newest
mailbox, which has its handler).  Either kind of clean-up leads from the last to
the first, also while the engine still lowers `busy` and `handling`.

`CallsSafe`, one connector at a time but any number of programs in their calls:
`[]LaterCallsRight`.  With the mailboxes apart, a call is followed store by store:
`Follows` says, for each step of the program, what is in the mailbox and where the
handler is.  `handle` still 1 from the call before keeps the handler out until all
of the request is there; a first call has no call before it, which is why `First`
says so much less than `Later`.

**SplitProofs.**  `LoopSafe` with `LoopInv` (what is left is the size less a block for
each package made) gives `RemainderSafe` and `NoEmptySafe` for every length below
2^30, `SplitTyped` the types.  `FramedSafe`: `[]Framed`.  `FrameInv` says that the first
package of every call, completed or not, carries the first symbol of its total, and
that the packages of the call under way stand at the end of the log with the
symbols of their places.  A package of another call that the receiver's rule took
along would be preceded by a first one (`LeastExists` of `LeastNumber`), which is a
head.  That uncompleted calls keep their first package is what makes the invariant
stronger than the property.

**RingsProofs**, serialized.  `RingsSafe`: `[]RingsWhole`.  `RingsInv` says that the
blocks are in two sets, that the links of each run from its head through all its
members and back, and that the counters count them; the lemmas `Detached` and
`Added` say what the list operations do to such a ring.  `FoundInv` says that a
thread still finds what it came for when it moves it.  `RingsTyped`: no link is NULL.
`RingsImplement` is the refinement `ImplementsFifos`.  `OrderInv`: some sequence lists each
ring in the order of its links, once each, and the last one's link is the head.
`OrderMoves` says that a move takes the head of the one sequence and appends it to the
other, whatever the lengths; `WalkIs` that the walk the refinement mapping chooses is
that sequence, as two walks of one length would have to differ somewhere first.

**PluginsProofs.**  `PluginsTyped`, `OwnerSafe`, `CallSafe`, `LoadingSafe`, `SealedSafe`.
`ListInv`: an ID in the list is below the counter, is the one its plugin was told,
and belongs to nobody else, although IDs are given again after a failed file; a
set-up runs only for a plugin that is listed or about to be.  `CallInv`: a call
past the test of the table finds the entry there, as entries are replaced and
never removed.
`SealedSafe` is an action property: `Sealed` includes that no Register which found
the function free is still under way, as test and store are two steps.
`RunningSafe`: `[]RunningRunsDefault`.  A call that began after all set-ups sees a table
nobody writes any more: no set-up thread is left, and hook_init has returned, so
that none is started.  `RunInv` then tells what it has run by the step it is at.

**PingPongProofs.**  `RallyTyped`, `InStepSafe`, `MissesSafe`, `OrderSafe` for any number of
rounds.  `Turn`: whose turn it is, told by both programs' rounds, queues and steps;
`Told`: what a program was told of is not less than what it is about to take;
`ClosedByClient`: only a client that is through its rounds brings a close flag up
first.  `OrderSafe` is the refinement of `Stream`: initial states
map to initial states, and each step to a step or a stutter.

Only model-checked: liveness (`RecvReturns`, `SenderWakes`, `AcceptReturns`,
`ConnectorServed`, `LaterCallsReturn`, `CallsEnd`, `Finishes`), which is out of the
prover's reach.  The three properties that are violated have a counterexample in
place of a proof.

## 7. Supposed, and not established by the code

`Serialized` stands for what the comment at engine.h:649 supposes.  `Mutual` and
`PeerTold` need, besides, a client per port: the server's link goes to the last
client that connects, as engine.h:650 supposes will not happen.  `PortExclusive`
needs that no program connects to the port it binds.  A program's threads are
supposed not to share its mailbox.

## 8. Not modelled

- What close_self does to rings, queues and user lists; `Sockets` has its effect
  on links, flags, slots and objects, and in `Channel` no behaviour reaches it
  while the ends are linked (`NeverReclaimed`).  `delete_list` is used there only.
- What becomes of a pool two handlers have met in: `Channel` lets anything happen.
- The flags of a message sent before the server's accept has cleared `bHas_connect`:
  that store can lose `bHas_message` as it loses `bIs_close`.
- Sizes of 2^30 and more, where `align_size`, an int, overflows.
- Several threads of one program on one mailbox; overlapping requests in
  `PingPong`.
- In `handler`, the order of an inspection call no program makes (case 5, engine.c:2490): it hands
  the mailbox back before it wipes it and hands it back once more, so that a
  next call that is quick enough is wiped.  The calls of `Session` have the order
  of all the others.
- `unstall_plugin_all`, which nobody calls, SnapShotNow, a flag nobody reads, and
  failures of pthread_create and of the shared memory calls, which end the
  program.
- `find_target_by_port`, which the hook never calls.
- The shared memory wrappers (system calls), printing and inspection functions,
  signal handlers for debugging, utilities: input/output without protocol state.
- Descriptors of other sockets, which the interception functions hand to the C
  library.
