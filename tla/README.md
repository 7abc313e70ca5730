# FlySentinel in TLA+

FlySentinel is a C++ rewrite of a Redis Sentinel. One process, single-threaded
apart from background jobs, runs an event loop (`Coordinator::init`, then
`eventMain`); the loop calls handlers on sockets and timers, and the handlers
belong to one big object, `FlySentinel`. This directory holds TLA+ models of
its components, TLC configurations that check them on small instances, and
TLAPS proofs for every value of the constants.

Paths below are relative to the repository's `src/` directory of sources
(`event/EventLoop.cpp` is `src/src/event/EventLoop.cpp`). `PROJECT.json` maps
every definition to its lines, lists the runs with their properties, the mutants
that show that a property depends on the code, the hazards and the findings.

## 1. Inventory

| Component | State | Operations | Hard behaviour | What makes it correct | Status |
|---|---|---|---|---|---|
| Client output (`flyclient/FlyClient.cpp`, output part of `flysentinel/FlySentinel.cpp`) | `buf`/`bufpos`, list of chunks `replies`, `replyBytes`, one cursor `sendLen`, `flags`, `clientsPendingWrite`, the `ES_WRITABLE` event, `clientsToClose` | `addReply*`, `writeToClient`, `handleClientsWithPendingWrites`, `sendReplyToClient`, `freeClientAsync`, `freeClient` | partial writes, errors in the middle of a reply, two buffers with one cursor, two writers (list and event), closing before, during and after a write | the peer gets the accepted bytes in order; waiting output has exactly one writer; only errors close early; a closed client is freed | `ReplyBuffer`, `ReplyStream` |
| Client table (`FlySentinel.cpp` 860-1060) | the map `clients` from fd to client, the two lists, `statRejectedConn`, the registered fds | `acceptTcpHandler`, `createClient`, `getFlyClient`, `unlinkClient`, `freeClient*`, `serverCron` | fds are closed first and unlinked later; the kernel gives numbers out again; events of an fd freed in the same turn | a number always leads to its own client; nobody closes another's connection; each closed client is unlinked once | `ClientTable` |
| Script jobs (`FlySentinel.cpp` 195-345, `scriptjob/`) | `scriptsQueue`, `runningScripts`, the child processes | `scheduleScriptExecution`, `runPendingScripts`, `collectTerminatedScripts`, `killTimedoutScripts` | children end at any time; pids come again; `fork` fails; the clock is set; evictions | bounded queue, right slot count, no child abandoned, order of events | `ScriptQueue` |
| Background jobs (`bio/`) | per type: list, `pending`, mutex, two condition variables, thread | `createBackgroundJob`, `waitStep`, `killThreads`, `processBackgroundJobs` | lost wakeups, spurious wakeups, cancellation at any instruction | nothing repeated or reordered, nothing lost but what a cancelled worker had in its hands; sleepers are woken; the counter is right | `BioWorker` |
| Event loop (`event/`) | file events and select's sets with `maxfd`, the list of time events, the clock | `createFileEvent`, `deleteFileEvent`, `createTimeEvent`, `deleteTimeEvent`, `processEvents`, `processTimeEvents` | handlers that delete events; a clock that moves; timers that create and delete timers under the iterator | what has a handler is watched; every due timer fires in its pass; the nearest timer is in front | `EventLoop`; a turn with clients is part of `ClientTable` |
| Publish and subscribe (`pubsub/`), command table (`commandtable/`) | channels to clients, patterns, both directions of the relation; arities | (un)subscribe, p(un)subscribe, publish | iterating a container while erasing from it; a channel that everybody leaves | the two directions agree; a pattern matches what it means | `PubSub`, `GlobMatch` |
| Monitored masters and hello (`flysentinel/FlySentinel.cpp`, `flyinstance/`) | masters, sentinels of each with address and link, epochs, config | `processHelloMessage`, `setLink`, `resetMasterByPattern` | stale and reordered messages, sentinels that move or restart, shared links | a newer configuration is taken; one entry for an address; no link of two sentinels | `SentinelView` |
| Instance links (`instancelink/`, `asyncevent/`) | the two connections, `pendingCommands`, shared ownership by several instances, hiredis' queue of callbacks | closing, connection errors, `sendPing` and the other periodic commands, their callbacks, the hooks of hiredis | callbacks after release; answers later than the time-out | a closed connection is silent; nobody is called back about a link that he gave up | `InstanceLink` |
| Tilt mode | `tilt`, `tiltStartTime`, `previousTime` | `checkTiltCondition`, the judgement in `handleFlyInstance` | clock jumps, unsigned elapsed times | nothing is judged while tilted; tilt lasts its period | `Tilt` |
| Dict (`datastructure/dict/`) | two tables, rehash index, cursor of a scan | add, find, delete, replace, `rehashSteps`, `dictScan` | any operation between two rehash steps; sizes that are no powers of two | the same map as without rehashing; a scan visits each slot once | `Dict`, `KeyMap`, `DictScan` |
| Request parser (`flyclient/FlyClient.cpp` 203-232, 306-486) | `queryBuf`, `multiBulkLen`, `argv` | the read handler, `processInputBuffer` and its two parsers, `dealWithCommand` | requests cut anywhere; errors in the middle of one | the pieces do not matter | `RequestParser` |
| Skip list (`datastructure/skiplist/`) | levels, spans | insert, delete, look-up by rank and by range | spans at every level | ranks are positions | `SkipList`; the template is used by nothing |
| Failover and INFO (`FlySentinel.cpp` 535-876, `flyinstance/`) | `failoverState`, flags of master and slaves, `promotedSlave`, quorum | `refreshInstanceInfo`, `startFailoverIfNeeded`, `abortFailover`, `sentinelIsQuorumReachable` | an INFO reply, an abort or tilt mode at any stage | flags and state agree; no two quorums | `InstanceInfo`; the state machine and the down checks have empty bodies |
| Sockets and start-up (`net/`, `Coordinator`, `initGeneralServer`) | open sockets, what listens | connect, create servers, `listenToPort` | any system call fails, for any of several addresses | no socket is lost or used twice | `Sockets` |
| Timed I/O (`net/NetHandler.cpp` 580-684) | the buffer and the count of a call | `syncRead`, `syncReadLine`, `syncWrite` | a part moved before time, the stream or the socket ends | a call tells what it moved | `SyncIO`; nothing calls them yet |
| Other network wrappers, file and memory I/O | - | wrappers of system calls | - | - | not modelled |
| hiredis adapter (`asyncevent/`) | reading and writing flags | add, delete, cleanup | - | - | in `InstanceLink` |
| Configuration, logging, value objects | - | read once, print once, create once | - | - | not modelled |

How they interact: the loop calls `beforeSleep` (pending writes), then polls,
then runs handlers and timers. `serverCron` frees clients; `timer()` drives the
tilt check, the masters and the three passes over the scripts. Replies come from
commands, from publications and from hello messages, and all end in the client
output. No part but the background jobs has a thread of its own, so inside
the server the interleavings are those of handlers, of system calls with the
world outside (peers, children, kernel, clock), and of loops with the lists
their bodies change.

The program is unfinished. `main` creates no master, script or background job,
nobody fills `queryBuf`, and nothing connects a link. The models therefore take the public
operations of a component as its interface and let the environment call them in
any legal order. Where the code does reach an undefined outcome, the model offers
what a build can do: a non-`void` function without `return` (`freeClient`,
`setProtocolError`) goes on or crashes; `freeClientsInAsyncFreeList` erases the
node its loop stands on and goes on or crashes; `back()` of an empty list reads
the size field of the list's header, which is 0; `ReadData` follows a null `argv`
and crashes.

## 2. Plan

In this order, most important first; all of it exists.

1. `ReplyStream`, `ReplyBuffer`, `ReplyBufferProofs` - what a client is sent.
2. `ScriptQueue`, `ScriptQueueProofs` - scripts and their processes.
3. `ClientTable`, `ClientTableProofs` - many clients, their numbers and the turns of the loop. It
   abstracts `writeToClient` to the three ways it ends; `ReplyBuffer` has them in
   full for one client.
4. `BioWorker`, `BioWorkerProofs` - the threads.
5. `KeyMap`, `Dict`, `DictProofs` - the hash table, which implements an abstract map.
6. `SentinelView`, `InstanceInfo`, `SentinelProofs` - hello messages: epochs, addresses, links; failovers.
7. `EventLoop`, `Tilt` - events, timers, the clock.
8. `PubSub`, `InstanceLink`, `RequestParser` - subscriptions, links, requests.
9. `DictScan`, `SkipList`, `Sockets`, `SyncIO`, `GlobMatch` - the scan, the ordered list, the start, timed I/O,
   patterns. `NetProofs` has the theorems about `EventLoop`, `Tilt`, `InstanceLink`, `Sockets` and `SyncIO`, `TextProofs` those
   about `RequestParser` and `GlobMatch`; those about `PubSub` are in `ClientTableProofs`,
   those about `DictScan` and `SkipList` in `DictProofs`.
10. `MCComponents` - one run for the modules of 5 to 9.

Runs: one combined run for each module of 1 to 4 with everything it claims, one
more for each disagreement with a comment, and one for 5 to 9. Bounds: two or three of each
actor, counters up to the first value that wraps or overflows a limit. Every safety property that a
passing run checks has its theorem, and both refinements have theirs; of the type invariants, only the conjunction
that `MCComponents` checks has none of its own. No module with a theorem reaches a `RECURSIVE` operator.

## 3. The modules and the code

**`ReplyBuffer`** is one client and the server code around its output. A byte
is the number under which it was accepted, so that loss, repetition and order show.
`buf`, `replies`, `replyBytes`, `sendLen`, `flags` are the fields of `FlyClient`;
`listed`, `toClose` count the client in the server's two lists; `handler` is the
`ES_WRITABLE` event. The process has one thread, so `writeToClient` is atomic
towards the rest of the server (`pc = "writing"`), but each `write(2)` in it is a step
of its own (`WriteSome`, `WriteFails`), because the kernel decides each time. Its end
(`Finish`) is one step with everything the callers do afterwards. `AddReply` is
`addReplyRaw` with `prepareClientToWrite`; `ProtocolError` is
`addReplyError` and `setProtocolError`; `BeforeSleep`, `SendReplyToClient`, `ServerCron`
and `PeerCloses` are the handlers of the loop. `ReplyStream` is what the
component promises: a byte stream that is accepted, delivered in order, and may end;
`ImplementsStream` is the refinement, `open` being `sock = "open"`.

**`ScriptQueue`**: `scripts` is `scriptsQueue`, as a function from the
number under which a job was scheduled; jobs are only pushed at the back, so the
order of numbers is the order of the list. The three passes of `timer()`
are the places of `pc`, and each turn of their loops is a step, with
children ending (`ChildEnds`), other processes taking freed pids (`OthersRun`) and
the clock moving either way in between. `waited` is the precedence of
`pid = wait3(...) > 0`. Times are unsigned: `Elapsed` is modulo `TimeMod`.

**`ClientTable`**: `clients` is the map from fd to client; `fd[c]`, `flags[c]` are the
client's own fields; `owner` is the kernel's table and `rfds`, `wfds` are select's
sets. `phase` is the place in the turn of the loop. `Poll` fails on a registered number
that is not open, like `select` with `EBADF`, which the code treats as no events.
`unlinkClient` has the order of the code: `setFd(-1)` before
`clients.erase(getFd())`, so nothing is erased, and the lists are searched for the
fd -1 (`Deleted`), `clientsToClose` too, which the comment on `unlinkClient` excepts. Each turn of `freeClientsInAsyncFreeList` is a step (`FreeNext`).

**`BioWorker`** is one type of job; types share nothing. The critical sections of the
callers are single steps; those of the worker are split, because `killThreads`
cancels it asynchronously. `Type` is a constant because it is passed as the pointer
argument of the thread, and 0 is a null pointer. `KillThreads` loses the job that the worker has taken
from the list and not yet executed: nobody puts it back.

**`Dict`** has `ht[0]`, `ht[1]` and `rehashIndex` in one variable, `dict`, because a call changes
them several times: `Stepped`, `Inserted`, `Deleted` and so on take such a triple to the next one, in
the order of the code, and an action is one call. A chain is a set of entries, for no
answer depends on their order (`getRandomEntry` may return any), and `used` is the number of
entries. `findEntry` makes one step of the rehash, `fetchValue` two, `replace` two or three. The actions
`find` and `fetchValue` are what the code calls `findEntry` and `fetchValue`; `findEntry` is the method of a
single table. `KeyMap` is what a caller expects, a map with an answer to each call; the
refinement reads a key's value as `findEntry` does (`ValueIn`). `ReinsertsOld` says whether callers
insert keys that the old table of a rehash still holds. The two tables that the
program keeps (`commandtable/CommandTable.cpp:69`, `config/base/BaseConfigReader.cpp:40`) are
filled once, with distinct keys. Undefined outcomes: the loop of `rehashSteps` reads `next` from an entry
that it has deleted, which still finds the rest of the chain (the comment in the module says
why); `getRandomEntry` may read slot `size` of the old table, and uses `ht[1]` after its own step
has set it to null; `clear` uses a null `ht[1]` outside a rehash and leaves pointers to
deleted entries inside one; the shrinking calls run off their end without a `return`.

**`EventLoop`**: `fileEvents` is the vector of masks, `watched` the two sets of
`PollState`, `timeEvents` the list in its order, without the callbacks. `loop` is the place in a turn:
`Poll`, one `HandleFile` for each ready handler in the order of the fds, `BeginTimers`, and one step for
each turn of the walk (`FireTimer`, `SkipTimer`), whose iterator is the id it stands on.
A handler is any code: it registers or deletes any file event, creates or deletes a timer. The iterator of a
timer that deletes itself goes on from the freed node, to what was next or nowhere. `WaitFor` keeps
`EventLoop.cpp:183`, where the milliseconds of the rest are passed as microseconds.

**`SentinelView`**: `sentinels[m]` is the map `sentinels` of master `m`, by runid; `valid` is a port that is
not 0. `HelloKnown`, `HelloMoved` and `HelloNew` are the three ways through `processHelloMessage`
with the helpers each calls; a hello that changes the address of a master reaches `resetMasterAndChangeAddress`,
which deletes the entries of the other sentinels, sets the address, and throws when it adds the first slave.

**`PubSub`**: `subs` holds both sides of the relation (`chans`, `pats` of the client objects; `channels`,
`patterns` of the handler), because the loops change all four several times in a call. `argv` begins with
the command's name, as in the code, whose loops begin there too (`Handled` is the loop of a command, with
`Applied` as its body). Freed iterators go on or crash. What `publishMessage` does is `Messages`, the number of
times a client gets a message of a channel.

**`InstanceLink`** is one link and the instances that share it, hiredis' queue of callbacks with
their privdata, and the flags of the adapter. hiredis is outside: when a connection goes it calls every
callback with a null reply, in the same step.

**`Tilt`** has the clock as a variable: it runs and is set at any time. `calm`, `setSince` and `judged` are history.

**`InstanceInfo`** keeps the flags of the master and its slaves and the failover's state. What would set
them is empty in the code, so `Outside` does it in the one order the rest of the code expects.

**`RequestParser`**: `sent` is everything that a client has sent and `got` how much of it has come, cut anywhere; a number with its sign is one symbol.
A round of `processInputBuffer`'s loop is a step, and so is each bulk of a multi-bulk request.

**`SkipList`**, **`DictScan`**: an operator for each call over the whole list, or the whole cursor. The
tower's height is chosen by the environment as by `random`. The cursor of a scan is the set of its bits (`Width`
is how many a number has, 32 in the code), `revBits` and the mask are set operations, and a slot is `OutOfTable` when it
is a larger number than the mask.

**`Sockets`**: `tcpGenericConnect` and `tcpGenericServer` with a step for each address and its system calls;
`listenToPort`, the unix socket and the registration are the stages of the start.

**`SyncIO`**: a step is one `read` or `write` that moves something, the end of the call, or an error;
`EAGAIN` and `wait` leave everything as it is. A peer sends between the steps. What a call promises is stated by what it
took from the stream, or which places of the string it gave.

**`GlobMatch`**: `stringmatchlen` as a recursive function over two positions (`MatchFrom` is its body), with the loop over a class
as one of its own (`ClassFrom`). Patterns are composed of elements that know their text and their meaning, so that the code, which reads the text, is compared
with a definition that never sees it: the ways to divide a name among the elements. `nocase` has no caller.

An operator called a mutant in its comment stands beside the one it mutates. No
specification uses it; `PROJECT.json` says which property it must break.

## 4. The runs

| Run | Bounds | What it shows |
|---|---|---|
| `reply` (`MCReplyBuffer.cfg`) | buffer 2, chunk 3, replies of 0 to 2 bytes, a budget of 2 bytes per event, 7 bytes in all | cursor, list and chunks sound (`BuffersSound`); waiting output has one writer (`WriterScheduled`); only an error closes early; everything accepted is delivered to a peer that reads; a protocol error ends the connection; refinement of `ReplyStream` |
| `reply_errno` (finding) | same, 4 bytes | a client with nothing left to write is closed on a leftover `errno` |
| `scripts` (`MCScriptQueue.cfg`) | queue 3, slots 2, 1 retry, 4 jobs, the pids and times of `MCScriptQueue`, times modulo 4 | types, slot counter and bound of the queue (`QueueCounted`), every child held by a job, order of events, every script is tried or pushed out while slots are free |
| `scripts_collect` (finding) | same | ended scripts are never removed |
| `scripts_kill` (finding) | same | a clock set back makes a new script look old, and it is killed |
| `bio` (`MCBioWorker.cfg`) | type 1, two threads, 3 jobs | jobs in order, only the one in hand lost when the worker is cancelled, and the counter right (`JobsAccounted`), no lost wakeup and waiters have a step to wait for (`SleepersWoken`), jobs run, calls return |
| `bio_close` (finding) | type 0 | jobs of `BIO_CLOSE_FILE` never run |
| `clients` (`MCClientTable.cfg`) | three numbers, three connections, limit 3, one rejection | a number leads to its own client, no foreign close, both lists as flagged (`ListsAgree`), every closed client is unlinked |
| `clients_full` (finding) | limit 2 | rejected although fewer than the limit are connected |
| `dict_reinsert` (finding) | tables of 3 and 6 slots, with `ReinsertsOld` | a key that is in the old table is added again, and the call reports success |
| `components` (`MCComponents.cfg`) | below, for each component | select watches what has a handler; due timers fire and the nearest is in front; sentinels stay apart; both sides of a subscription agree; a closed link is silent; tilt mode lasts; flags of a failover agree with its state, and no two quorums; a request in pieces runs as a whole; ranks are positions; a scan visits each slot once; entries of the dict lie where they are looked for, nothing is left behind `rehashIndex` (`NoEntryHidden`), and it refines `KeyMap`; no socket is lost; timed I/O tells what it moved (`AnswersAreTrue`); a pattern matches what it means (`MatchesMeaning`) |
| `view_switch` (finding) | as `SentinelView` below | the first newer configuration with another address ends the process |

Why the bounds are enough. `reply`: 7 bytes fill `buf` (2), one whole chunk (3) and begin
another one; so a list of several chunks, a full buffer with a list behind it, and
a cursor in either, each written in part, all occur, and the write
budget is exceeded with data left. The theorems below are for all sizes.
`scripts`: four jobs overflow a queue of three with and without running jobs, two
slots fill up, `fork` fails, pids come again; `TimeMod = 4` is
larger than any time, so that a clock set back is told from one set forward.
`bio`: three jobs are one done, one in hand and one waiting; a second thread in
`waitStep` beside `Main`. `clients`: three numbers and three connections
let one number be closed while another client waits to be unlinked
and a third is accepted. All configurations say `CHECK_DEADLOCK FALSE`: the process may
crash, and the bounds end the exploration; that the system does not stop in between is
what the liveness properties say.

`components` is one run of thirteen modules that share no variable. Its first state chooses
the component that moves; the others keep a first state, so that the
run is the thirteen explorations one after another and not their product, and what
holds in it holds of each component. The bounds, by component:

| Component | Bounds | Why they are enough |
|---|---|---|
| `EventLoop` | 3 fds, 2 timers, times to 2, begun at 1 | the highest fd is deleted above a gap; the clock is set forward, back, and back before the start; a timer fires, re-arms, deletes itself or the other one, and creates one while the list is walked |
| `SentinelView` | 2 masters, 2 other sentinels, 2 addresses, epochs to 2, 1 link | old, equal and newer epochs; one sentinel at two masters shares the link; one takes the other's address |
| `PubSub` | 2 clients, 2 names and the 4 command names, 3 patterns, commands of 1 or 2 arguments | one leaves while the other stays; the last one leaves; a list is erased under its loop |
| `InstanceLink` | 2 instances, 1 queued command, counts to 7 | sharing, releasing by one while a callback of the other is queued, every end of a connection with and without a command |
| `Tilt` | trigger 2, period 4, times to 7 | jumps forward, backward and to the limit before, in and after tilt mode |
| `InstanceInfo` | 2 slaves, 3 peers, quorum 1 or 2 | even and odd splits; one promoted slave and one other |
| `RequestParser` | 2 requests of 1 or 2 arguments, arguments with CR and LF inside, each limit at 3 (inline 8), each kind of garbage | every cut of every request, the second one with any part of the first |
| `SkipList` | 2 levels, 3 nodes, 2 scores, 2 objects | insertions before, between, behind and at equal scores, in towers of either height |
| `Dict` | tables of 3 and 6 slots, four keys, two values | 3 slots have a mask with a gap, as 20 slots have, so that two keys share a chain in the small table and part in the large one; four keys overfill the small one, deletions make the large one shrink, with every call at every stage of the rehash |
| `DictScan` | tables of 20, 40 and 80 slots, and 40 with 20 | the masks the program has, with their gaps |
| `Sockets` | 4 sockets, 2 addresses found, 3 to bind | each call fails at the first, the second and both |
| `SyncIO` | 3 bytes from the peer, sizes to 3 | a line with both, one and no end of line, shorter than the buffer and filling it, in every division into pieces |
| `GlobMatch` | 3 elements of 7 kinds and 4 that end a pattern, names to 3 characters of 3 | stars before, between, behind and beside each other element, and each class with a character inside and outside |

### Fairness

`components` checks safety only, under no fairness. For the others:

- `ReplyBuffer`: one turn of `eventMain` serves the pending list, polls and runs due timers, so
  none can be passed over for ever although the client's own activity
  may disable it for a while: strong fairness of `BeforeSleep`,
  `SendReplyToClient`, `ServerCron`. A `write` on a non-blocking socket returns: weak fairness of the
  loop's steps. `SF(WriteSome)` is not of the code: it says that the peer keeps
  reading, and `EverythingDelivered` is a statement about such peers.
- `ScriptQueue`: `timer()` is called again and again and nothing in it blocks (`wait3`
  has `WNOHANG`): weak fairness of its steps. Nothing is assumed of the children, or the clock.
- `BioWorker`: threads are scheduled, and a mutex that is free again and
  again is got: strong fairness of taking it. Nothing is assumed of spurious
  wakeups, of new jobs or of `killThreads`.
- `ClientTable`: the loop goes on (weak), and `serverCron` is due again and again (strong).

### Findings

1. `flyclient/FlyClient.cpp:281`: closes on an old `errno` when no `write` was made.
2. `flysentinel/FlySentinel.cpp:298`: `pid = wait3(...) > 0` is 0 or 1, never a pid; ended jobs stay
   marked running and their slots are never free again.
3. `flysentinel/FlySentinel.cpp:333`: unsigned difference with a clock that went back.
4. `bio/BIOHandler.cpp:86`: type 0 as thread argument is taken for a missing one.
5. `flysentinel/FlySentinel.cpp:1000`: the fd is overwritten before it is used as the key to erase.
6. `datastructure/dict/Dict.cpp:60`: during a rehash `addEntry` looks into the new table only, so that a
   key of the old one is added twice; `replace` takes that for a new key.
7. `flysentinel/FlySentinel.cpp:497`: `resetMasterAndChangeAddress` passes a null pointer as the name of a slave, which
   throws, so that no newer configuration with another address is ever taken to its end.

Because of 2, the branches of `collectTerminatedScripts` behind a found job are
in the model, but no behaviour reaches them; `EveryScriptTried` says "while a slot is free"
for the same reason.

What else the models contain or leave to chance, because the code does it and no doc says otherwise:

- Hellos. The new sentinel of `processHelloMessage` is declared in an inner scope (`FlySentinel.cpp:1321`), so
  the first hello of a sentinel does not count as configuration. `haveMaster` parses as `(0 != flags) & FSI_MASTER`, so each
  event with `%@` about a master follows a null pointer. `removeMatchingSentinel` advances
  the end iterator of an empty map. `tryConnectionSharing` and `updateSentinelAddrInAllMasters` find only entries whose port is 0, so
  that valid entries of a moved sentinel at other masters keep their address and link, against the comment at
  `FlySentinel.cpp:1315`.
  `AbstractFlyInstance` has no virtual destructor, so links of deleted entries stay referenced. `configEpoch` and `lastPubTime` start uninitialised.
- Failover. `masterLookSane` and the guard for INFO (`0 == flags & ...`) are never true; the tests
  of `parseRunid` and its siblings never match a line; `startFailover` ends with an event that follows a null pointer.
- Links. Pings are sent uncounted but counted down; the callbacks of PUBLISH and INFO count up; an error of the
  connection leaves the count. The adapter registers its read handler with a null privdata, so replies are never
  read. Nothing reads `actPingTime`.
- Requests. Of several requests in one piece only the last is run, since the loop keeps one `argv`;
  `*0` and `*-1` reuse an old or empty `argv`; a line without words blocks the parser;
  a payload that ends in CR LF is a protocol error; `setProtocolError` may throw in `substr`. The read
  handler drops what it read instead of calling `addToQueryBuf`.
- Subscriptions. The loops begin at `argv[0]`, so SUBSCRIBE subscribes to "subscribe" as well; the list of patterns keeps entries of clients that
  left (which `DirectionsAgree` therefore excepts), and freed clients stay subscribed.
- Events. `lastTime` is set by the constructor only; `deleteWriteFileEvent` runs off its end; tilt mode is left early when the clock is set back between the check and the judgement
  (which `JudgedInCalm` excepts).
- Dict. `-1` of a scan's callback becomes unsigned and the scan goes on; a scan during a rehash computes slots outside of the larger table (`Dict.cpp:285`), which is why `EachSlotOnce` speaks of the smaller one.
- Skip list. A deletion compares `score < s || obj < o`, so that in a list of different scores, or without the node,
  it may take out another one (`past = "misled"`; `RanksRight` speaks of the other histories).
- Sockets. `tcpGenericServer` closes the socket a second time when `listen` fails; `listenToPort`'s failure is ignored; the unix socket gets no event.

Seen while reading, without a run: the comment at `flysentinel/FlySentinel.cpp:988-991` says that `unlinkClient` takes the client out
of every list except that of the clients to be closed, or it might be impossible to delete; the code (`1010`) takes it out of that one too, while
`freeClientsInAsyncFreeList` (`1047`) walks it, so the loop advances an iterator that was erased. In the model the loop then
goes on or the process crashes, and `ListsAgree` says of this list only that it has every client to be closed that was not unlinked, and nobody twice.
`killThreads` loses the job that a worker has taken and not yet executed (`bio/BIOHandler.cpp:126-131`, `205`), and may leave the mutex locked.
`waitStep` may return while the last job it
counts is still executed (`bio/BIOHandler.cpp:68`, `74`); a timed-out pid may belong to
another process by the time of `SIGKILL` (part of the `scripts_kill` model); the worker's
`killThread` sends `SIGUSR1`, for which no handler is installed.

## 5. What is proved

All with TLAPS, for every value of the constants that satisfies the named assumption.

**`ReplyBufferProofs`** (`SizesAssumption`: the sizes are naturals and no reply is longer than a
chunk). `TypeCorrect`, `CursorIsSound`, `ListIsSound`, `ChunksAreSound`, `DeliversInOrder`, `OutputIsScheduled`,
`HandlerHasWork`, `ListedIsFlagged`, `ClosingLosesNothing` and `Implementation`
(`Spec => Stream!SSpec`, by a step lemma for accepting and one for
delivering). None of the safety properties is inductive alone. In-order delivery needs to know where
the bytes still waiting are: `Sound` joins the types with `InOrder`,
`CursorSound`, `ListSound`, `ChunksSound`: the bytes delivered, those in `buf` from
`sendLen` on, and the chunks, are one run of consecutive numbers up to
`accepted`. It is proved for the four ways to accept a byte (into the buffer, the
last chunk, a new chunk, or nowhere) and the three ways a write ends (short,
buffer done, chunk done). `ControlType` adds the other types. The scheduling
properties need `OneWriter` (what holds in the middle of `writeToClient`, where
`PENDING_WRITE` is already cleared) and `ToCloseLinked`.

**`ScriptQueueProofs`** (`ScriptAssumption`: no child has pid 1). `ScriptTypes`, `SlotsAreCounted`,
`QueueIsBounded` (both together `QueueIsCounted`), `ChildrenAreTracked`, `TriedInOrder`. `ScriptInv` is `TypeOK /\ Counts /\ Order`.
`QueueBounded` needs the slot count (there is always an idle job to evict, for
fewer than `MAX_QUEUE` run); `InOrderOfEvents` needs, inside the loop, that all
jobs the loop has passed are tried (`PastIsTried`) and that new jobs are due (`NewIsDue`), or a later
job could overtake. `NobodyHasPid1` and `CollectOnlyReaps` say why the collecting pass changes
no job: `waited` gives 1, which no job holds.

**`ClientTableProofs`** (`TableAssumption`: the fds are positive). `TableTypes`,
`LookupIsRight`, `ClosingIsListed`, `PendingIsFlagged`, `ClosesItsOwn`. The invariant `TableInv` explains
why it is safe that `writeToClient` closes an fd while the table still has its client: the
number stays registered with `select` until `unlinkClient` (`Polled`), `select`
fails on it, and so nothing is accepted while a closed number is free to come
again. `OneWriter` says that a client with an `ES_WRITABLE` event is not in
`clientsPendingWrite`, so that overwriting its flags does not lose
`CLIENT_PENDING_WRITE`; `Listed` restates the two list properties with
membership and `Once`, `TimesOnce` brings them back to counting; `DeletedProperties` shows that
searching a list by the fd -1 takes out the right client, because nobody else
in a list has it.

The same module proves `SubscriptionsTyped` and `SidesAgree` (`DirectionsAgree`) of `PubSub` (`PubSubAssumption`). `Agreed`
says of each channel that its list names the clients who believe to be subscribed, each once, and that no list is
empty; also that a client has finitely many names, without which nothing could be counted. There is a lemma for each of the four calls
(`SubscribeKeeps` and so on): one name of one client. A command has several names, so what it does is a recursion. That
the recursion has a solution is `LoopExists`, and that it keeps `Agreed` is `HandledKeeps`; both argue with the first place of the
loop where it would fail (`LeastExists`), which stands for an induction.

**`BioWorkerProofs`** (`BioAssumption`). `BioTypes`, `JobsAreInOrder`, `CounterIsRight`, `WakeupIsNotLost`,
`WaitersAreWoken`; `JobsAreAccounted` and `SleepersAreWoken` join them. `BioInv` adds to the properties who holds the mutex
(`MutexHeld`), when the worker has a job in its hands (`HandsFull`), and what the
counter is while the worker holds the mutex (`Counter`). The three ways the
sequence `done`, job in hand, list changes are lemmas (`PushKeepsOrder`,
`TakeKeepsOrder`, `ExecuteKeepsOrder`).

**`DictProofs`** (`DictAssumption`: an index is smaller than the size, and the sizes are closed under the
halving of `deleteEntry`). `DictTypes`, `EntriesAreFound`, `NothingIsLeftBehind` (both together `NoEntryIsHidden`), and `DictImplementsMap` under
`~ReinsertsOld`. `Good` (shape, `SlotsSound`, `Swept`) is inductive whatever callers insert. The refinement needs
`Apart` as well: no key is in both tables, or a deletion would bring an older value
back. The proof goes by what keys have (`Has`): a lemma for each operator says
that a step of a rehash and a resize keep it, an insertion or assignment adds one
value, a deletion takes it away; `ValueIff` turns that into the value `findEntry` returns, and
`StepIsMapStep` puts the calls together. `SteppedNotOld` carries the caller's promise over the steps that
`addEntry` makes before it inserts.

Of `DictScan` (`DictScanAssumption`: at least one bit, and `ht[0]` has slots) it proves `ScanIsComplete` (`EachSlotOnce`). The slots of a mask are
ordered by their reversed bits (`Precedes`: the lowest bit in which they differ decides), and `ScanInv` says that the slots which
have been visited, once each, are those before the cursor. A step increments the reversed cursor with the bits outside of the mask
set, so that the carry runs through the gaps: the slot that it gets to is the very next one in this order, and when there is none the
cursor is 0. With one table the slot is part of the mask, and so never outside.

Of `SkipList` (`SkipListAssumption`: at least one level, and scores and objects are numbers) it proves `ListTyped` and `RanksAreRight`
(`RanksRight`). `RanksRight` describes one list, while a call works on levels, each with the ranks the one above has left. The invariant,
`SkipListIInv`, says that there is a set of nodes for each level (`Towered`): the sets are nested, the links of a level
lead through its set in order (`Follows`), and a span is the distance of two places (`Place`) in the bottom set (`Spans`).

- Every link leads to a later node (`Upward`), so the loops end: the recursive functions exist (`AlongExists`), and what they compute is
  argued by the last node for which it would fail (`LastNode`).
- `SearchIsRight`: the search ends, at each level, at the last node that is not behind the sought place, and its ranks are places.
- `insertNode` (`InsertKeeps`, from the lemmas `Adds...`): the new node joins the sets up to its height; links over it get longer by one.
- `deleteNode` (`DeleteKeeps`, from `Loses...`): a level loses the first node that the search did not pass, which at a higher level may be another one
  than at the bottom. With one score and the object in the list, the sets stay nested all the same; `TopEmptied` is about the list's level.
- Ranks are exact until the first deletion, because a span with nothing behind it is not above 0 until then (`EndsLow`); after it, such a span may
  be taken for a distance that leads nowhere. `RanksLead` shows both, level by level (`WayLeads`).
- `FirstIsFound`: of the levels at which the node before a range is linked to one in it over a distance of 1, all lead to the first.

**`SentinelProofs`** (`SentinelViewAssumption`). `SentinelsStayApart`: `Apart` adds that every link in use is below `nextLink`, so that a new
one differs from all, and it is stated of any views, not of the variable, because a hello about a new sentinel goes through an intermediate
one. `InvalidatedApart` is the first half of that step (the old owner of the address loses it, and what was connected to it is closed),
`AddedApart` the second (the new entry, with a link that only entries of the same runid have). `ViewTypes` comes with it.

Of `InstanceInfo` (`InstanceInfoAssumption`: finitely many peers, and `"null"` is no slave's name) it proves `FailoverTyped` and
`FailoversAreSound` (`FailoverSound`). `OneQuorumOnly` is the arithmetic: the two sides together have one sentinel more than there
are peers, and two majorities would be more than that, for odd and even numbers. That flags and state agree is inductive when the count of a slave's stages is replaced by
`OneState` (any two stages of a slave are the same one), which `OneStateIsOne` turns back into the count.

**`NetProofs`**. Of `EventLoop` (`EventLoopAssumption`): `EverythingIsWatched` (`SelectWatches`). `WatchInv` is the property with the types. The one case that is not
immediate is `NextLower`, which looks for the highest fd that is left: `GreatestExists` gets it from the well-foundedness of
`<` on the naturals, turned around.

`DueTimersFire` (`TimersServed`): within a pass, `TimersInv` says that every timer that is due and has not fired is at or behind the iterator
(`Ahead`), that the list is in order unless it waits to be sorted, from the iterator on even then, and that no id is there twice. The sort needs most of the work: `Place`
is a permutation of the positions, and stable, so that the order of the others survives (`Before`). A timer that fired comes
back with a later time, so it cannot get in front of one that is still due.

Of `Tilt` (`TiltAssumption`) the module proves `TiltTypes`, and `TiltLasts` for `JudgedInCalm`: while tilted, `calm` is
`previousTime - tiltStartTime` until it reaches its bound, so the unsigned comparison at the judgement is about regular time.

Of `Sockets` (`SocketsAssumption`): `SocketsTyped` and `NoSocketIsLost` (`SocketsAccounted`). The invariant says besides
at which stages a call has a socket in hand and which calls a stage makes (`CallFits`); `NewSocket` that the number of a new
socket, the least free one, is not open.

Of `SyncIO` (`SyncAssumption`): `SyncTyped` and `ToldIsTrue` (`AnswersAreTrue`). While a call runs, what it has is compared with the part of the
stream that it took (`SoFar`), and after it the answer with both (`Told`); what a write has moved are the places 1, 2 and so on of the
string (`InPlaces`). Each step appends to both sides; the cases of a line are by what its next byte is.

Of `InstanceLink` (`InstanceLinkAssumption`): `LinkTyped` and `ClosedLinkIsSilent` (`ClosedIsSilent`). The property needs that a link which is not
marked disconnected has its command connection. When an instance gives the link back, its callbacks in the queue
become ones that discard their answer, so `released` and the queue stay apart (`Owned`); whatever is queued afterwards comes from those who
share the link. The names of the instances differ from the server's own privdata, which is an assumption on the constants
that stands for the difference of two pointers.

**`TextProofs`** is about the two components that read text. An induction theorem cannot be used, so what is claimed of each place of a
sequence is proved by the first place where it would fail (`NoneFails`). The recursive functions of the code, of `FlattenSeq` and of the
reference definition are taken as what their equations say of each argument, after it is shown that such a function exists.

Of `RequestParser` (`RequestParserAssumption`: an inline request is words, and its first one does not begin with `*`): `RequestsTyped` and
`CutsDoNotMatter` (`PiecesDoNotMatter`). `Laid` says that a client without garbage has sent its requests, one behind the other, and
`Reading` where the parser is in them: `queryBuf` is what has come without what was taken, which ends with a request or with one
of its arguments, `argv` has the arguments before that, and the commands run so far are in order. What is at which place of a request
(`Layout` for RESP, `InLineFacts` for a line) follows from the lengths of the pieces; with it the first line end that
the code finds is the one meant, or has not come. A line is read word by word and gives the words that it was made of.

Of `GlobMatch` (`GlobAssumption`): `GlobTyped` and `PatternsMeanThis` (`MatchesMeaning`), for patterns and names of any length and any classes. The loop over a
class, begun at an item, finds the characters of the items from there on and ends on the bracket or the last character
(`ClassItems`); so an element other than a star takes one character, if it stands for it (`ElementStep`). A run of stars counts as its last one,
and dividing a name among one star or several is the same. With these, what the code finds from an element and a
character on is that the rest of the name can be divided among the rest of the elements (`MeansFrom`), element by element from the back.

Checked by TLC only:

- every liveness property: liveness under fairness is beyond the prover used here;
- `ComponentsTypeOK`, the conjunction of the type invariants of the thirteen modules under the one specification that
  composes them. Eleven of the thirteen have a theorem under their own specification; of `EventLoop` and
  `DictScan` the invariants have as much of the types as the proofs need.

What `SyncIO` and `GlobMatch` keep of the code and no comment contradicts: `syncWrite` compares the last `write`, not the
sum, with the length, so a write in pieces goes on after its last byte and answers -1 (or, when its time ends there, the
length); `syncReadLine` answers 0 when its time ends within a line, and the bytes read are gone; `*` does not match the empty name.

## 6. Not modelled, and why

- `checkSubjectivelyDown`, `checkObjectivelyDown`, `failoverStateMachine`, `askMasterStateToOtherSentinels`: empty
  bodies. What they would change comes from the environment of `InstanceInfo`.
- `resizeSetSize`, `stop` and `EVENT_DONT_WAIT` of the event loop: no caller.
- `wait`, names of peers, options of sockets, file and memory I/O, logging: they keep no state, and the answer of `wait`,
  which sets bits in a mask it has never initialised, is not looked at.
- Configuration and value objects: read or created once, before the loop.
- `killThread` (one worker, `SIGUSR1`), because it ends the process.
- The range deletes and the destructor of the skip list, which follow nodes they have freed; moves of entries during a
  scan, which `Dict` has without the scan.
- In `ClientTable`, numbers above `FD_SETSIZE`. In `Dict`, insertions that would outgrow the largest of
  `Sizes` (`HasRoom`), and anything about a table after `clear`. In `InstanceLink`, the publication connection's queue, which nothing fills.
- The times at which INFO replies came (`InstanceInfo`), because what would ask for them is never reached.
