# A TLA+ verification of luanode-tuyaopen

luanode-tuyaopen runs Lua 5.3 scripts on devices with the TuyaOpen SDK: an
interpreter on one thread, Lua processes on worker threads (luaproc), an MQTT
client, and bindings to the device's peripherals, events and timers. This
directory models the parts of it where threads meet, checks the models with TLC
on small instances, and proves theorems about them with TLAPS.

Paths below are relative to the repository; `lpsched.c`, `luaproc.c` are in
`components/modules/lua-proc/`.

## 1. The system's parts

| Part | State it keeps | Operations | What is hard |
|---|---|---|---|
| luaproc scheduler (`lpsched.c`) | ready list, number of workers, workers to destroy, wakeup semaphore, workers table, count of active processes | worker main loop, queue a process, set the number of workers, wait, join at exit | workers and Lua code interleave at every unlock; one binary semaphore wakes everybody; workers are created and destroyed at any time |
| luaproc library (`luaproc.c`) | structures of lua processes, channels table, a send and a receive list per channel, recycle list with its limit and mutex, the main state as a process | newproc, send, receive, newchannel, delchannel, setnumworkers, recycle, wait | a process blocks in one thread and is queued by another; mutex handles are replaced while they are held; the main state blocks in its own way |
| lua-mqttc (`components/modules/lua-mqttc`) | state of the client, connected, messages that await an acknowledgement, callbacks | configure, connect, subscribe, publish (sync, async), disconnect, gc; a thread per client | script and client thread share the state and the lists without a lock; timeouts, lost connections, release of a client in use |
| message bus and callbacks (`lua_msgbus.c`, `lua_system.c`, `lua_uart.c`, `lua_gpio.c`, `lua_timer.c` in `components/modules/lua-tuyaopen/src`) | a queue of 256 messages, slots of references, the registry's free list | register, close, interrupt, receive; start, stop, delete a timer | messages arrive after their slot was closed; references are released and reused; the queue fills up; timers call Lua from another thread |
| cloud device (`lua_tuyaos.c`, `lua_conn.c`) | device description, callbacks | set_meta, start, stop, report | the description is freed while the vendor's thread uses it |
| interpreter loop (`lua_main.c`, `main/src`) | the Lua state, an unfinished statement | read and execute lines, exit | one line may be half a statement; its exit runs luaproc's finalizer |
| buffers (`lua_zbuff.c`, `lua_ringbuff.c`) | a piece of memory, its length, and one number that is a cursor and an amount | write, read, seek, pack, unpack; copy, del, query, set, resize | one number with two meanings; offsets and lengths at the end of the memory; growth |
| other bindings (`lua_kvdb.c`, `lua_crypto.c`, `lua_modbus.c`, `crc.c`) | none | store, encrypt, checksums | |
| nodemcu-uploader (`tools/nodemcu-uploader`) | a serial line, what was sent and not answered | connect, upload lines, wait for the prompt | late answers, timeouts and new attempts, refused lines, restarts of the device |
| vendored code (elua core, alien, cffi-lua, libffi, cjson, socket, mbedtls), samples | | | not modelled |

How they interact: scripts call the C libraries on the thread that executes
them: the main thread, or a worker that has resumed a lua process. Drivers call
back from other threads and pass messages through the bus; timers and the MQTT
client call Lua on threads of their own. The uploader talks to the interpreter
loop over a serial line. luaproc's scheduler and library call each other: the library schedules
processes, a worker resumes them and, when they return, recycles them or queues
them on the channel they named.

What makes each part correct:

- scheduler: every process structure is in one place, is executed by one worker
  at a time and in FIFO order; no wakeup is lost; the counters are exact; the
  exit waits for every worker and returns;
- channels: a sender and a receiver of one channel meet; nobody waits on a
  channel that no call can reach; partners are served in order; a destroyed
  channel frees all who wait on it;
- lua-mqttc: a message is reported at most once, and truly; it is freed once and
  reached by nobody afterwards; while the client is connected it is reported in
  time; a client whose network comes back reconnects;
- bus and callbacks: a slot in use owns its reference, no reference is given
  out twice, an interrupt of a UART and a timer run what was registered for
  them, and nothing runs for a closed UART (pins fall short of this, section 4);
- zbuff: each call leaves and returns the bytes that its arguments and the bytes
  before it determine, whatever the memory does; the data lies inside the memory;
  and what was packed can be unpacked;
- uploader: host and device get in step again after any failed attempt, a file
  never holds lines of two attempts, and an upload in which nothing failed on the
  device has put every line there, in order and once.

`PROJECT.json` lists the hazards with their lines and the property that watches
over each, or why none does.

## 2. The modules

| Module | Models |
|---|---|
| `ProcPool` | abstract: a FIFO pool of processes, what the scheduler promises |
| `LpSched` | `lpsched.c`, and newproc, recycle, setnumworkers, wait and the finalizer of `luaproc.c` |
| `MCLpSched` | symmetry for its runs |
| `LpSched_proofs` | theorems about `LpSched`: types, the number of workers, wakeups |
| `LpSchedPlaces_proofs` | theorems about `LpSched`: the places of processes, `lpcount`, the join, the refinement of `ProcPool` |
| `Rendezvous` | abstract: channels on which a send and a receive meet |
| `LuaProc` | `LpSched` with channels: newchannel, delchannel, send, receive |
| `LuaProc_proofs` | theorems about `LuaProc`: types, places, that it implements `LpSched` |
| `Rendezvous_proofs` | theorems about `LuaProc` with one worker: nobody is missed or stranded, it implements `Rendezvous` |
| `MCLuaProc` | symmetry for its runs |
| `MainChannel` | `LuaProc` with sends and receives of the main state |
| `Delivery` | abstract: messages that are reported once and truly, what lua-mqttc promises |
| `MqttClient` | `lua-mqttc-client.c` and `lua-mqttc-app.c`: the client object, its list of messages and its two threads |
| `MCMqttClient` | the calls and the symmetry of its runs |
| `MqttClient_proofs` | theorems about `MqttClient`: types, acknowledgements, the memory of the list, that it implements `Delivery` |
| `Callbacks` | callbacks of UARTs, pins and timers, the message bus, `luaL_ref` and `luaL_unref` |
| `Callbacks_proofs` | theorems about `Callbacks` |
| `ByteString` | abstract: a string of bytes with an operation for each call of a zbuff, with the call's arguments: what bytes it leaves and returns |
| `Zbuff` | `lua_zbuff.c` |
| `MCZbuff` | the strings, formats and offsets of its runs |
| `Zbuff_proofs` | theorems about `Zbuff`: types, the data in the memory, packing, that it implements `ByteString` |
| `Upload` | the uploader and the device's read-execute loop |
| `Upload_proofs` | theorems about `Upload` |

`LuaProc` extends `LpSched` and reuses its actions: `Block` and `Unpark`, which
leave open why a process blocks and is freed, are replaced by what the channel
functions do, and `ImplementsSched` checks that with the channels hidden
nothing but steps of `LpSched` is left. `MainChannel` extends `LuaProc` in the
same way.

### LpSched: state and code

`pc[t]` says where thread `t` stands. For a worker: `loop` (has or is about to
take `mutex_sched`), `wait` (in `tal_semaphore_wait_forever`), `lua` (in
`lua_resume`), `yielded` (back from it), `recycle` and `dec` (handing in a
process that ended), `exit`, `delete`, `gone` (the three steps of dying). A
thread in Lua code, main or worker, may call the library: `np_*` are the steps
of newproc, `wake` the scheduling of a process taken off a channel, `rc_lock`
recycle, `swait` wait. `join_*` is the exit of the main state.
`cur[w]` is the process a worker executes, `obj[t]` the one a thread creates or
wakes, `parked` those in some channel's list.

Decisions about atomicity and about the SDK, which is not in this repository:

- All accesses to the ready list, the worker counters and the workers table lie
  in one section of `mutex_sched`, created once: a section is an action. So is a
  section of `mutex_lp_count`.
- `mutex_recycle_list` is replaced by each new lua process (`luaproc_loadlib`),
  so the model keeps the handle (`rlock`), who owns each handle (`owner`) and
  the handle a thread is about to lock (`handle`). The body between lock and
  unlock is one action: only the thread that got the current handle can replace
  it, and it does so in its own section. The replacement and the unlock after it
  are one action, because that unlock is of a mutex its caller does not own.
- A tal mutex refuses an unlock by a thread that does not own it, and lock,
  wait and post on a NULL handle return an error at once.
- Semaphores are binary where they are created so (`cond_wakeup_worker`,
  `cond_mainls_sendrecv`, `exit_sem`: initial 0, maximum 1).
- `cond_no_active_lp` is posted and never waited for; it is left out.
- A process that fails raises a string; the worker prints it with
  `luaL_checkstring` (`lpsched.c:252`), which other values would not pass.
- The order in which the join visits the workers table is that of a hash
  table: any.
- Thread creation can fail: `Grow` may start fewer workers than asked for.

### LuaProc: state and code

`chans` is the table of channels, `wait["send"][c]` and `wait["recv"][c]` the
lists of a channel, `chan[p]` is `lp->chan`, `using[t]` the channel a thread has
looked up, `result[p]` what the values on the stack of a process say of its last
send or receive. `channel_locked_get` releases the channel's mutex before it
returns, so nothing is held between the lookup, the search for a partner and,
for a process that blocks, the moment its worker queues it: these are separate
steps. A table lookup and a list operation are one step each. Copying values
between two states succeeds or fails.

### MqttClient: state and code

`pc["client"]` is the client thread: `start` and `inited` before its loop,
`loop` the switch over `state`, `made`, `dialing` and `dialed` between a call
and the store of the state that follows it, `scan` the walk of
`__mqtt_custom_loop`, `yield` the call of `mqtt_client_yield`, `acking` between
the script's callback for an acknowledgement and the search of the list, `lua`
in a callback. `pc["script"]` is the thread of the script, which is always in
Lua code or in a call, until the client is collected (`gone`). Both threads may
call the methods of the client. `sent` and `linking` are the two halves of
`tuya_list_add_tail`, `waiting` the semaphore of a synchronous publish.

- The list is modelled link by link (`next`, `prev`, `Anchor` the head), because
  insertions and removals race: the tail is read in one step and the entry is
  linked to it in another. A removal is one step; two removals never race, since
  only the client thread removes. An entry is freed when it is reported.
- `tuya_list` and the MQTT library belong to the SDK. The library numbers the
  packets of a handle from 1, forgets what is in flight when the connection
  breaks, calls back from `connect` and `yield` only, and reports the loss of the
  connection in the next `yield`; it does not call back when the client exits.
- The test of the connection and the send in publish are one step, and whether a
  "suback" callback is registered is looked at after the callbacks of an
  acknowledgement, not before.
- A call of the library that fails changes nothing. A synchronous publish with
  qos 0 waits for an acknowledgement nobody sends; it behaves as one whose
  acknowledgement is lost.
- The deadline is what C computes: `now + timeout == 0 ? default : timeout`
  (`lua-mqttc-app.c:109`) is `timeout` itself, a moment long past. The clock is
  small here, so that messages before and past their deadline both occur.
- `__network_check` is negated (`lua-mqttc-client.c:447`): the client tries to
  connect after a check that found the link down (`MayDial`), and succeeds when
  the link came up after it.
- `__mqtt_custom_init` makes a new handle each time it runs, also after a
  failure, so packet numbers start again (`handler` counts the handles).
- The finalizer asks for STOP and Lua frees the client's memory, which the
  client thread goes on to use: the model takes it to stay as it was.

### Callbacks: state and code

`slot[s]` is the reference kept for a source: `cb_ref` of a UART's direction,
`lua_ref` of a pin, `func_ref` and `arg_ref` of a timer. `registry` is the
reference table with luaL_ref's free list: a function is named by the source it
was registered for, which is what the properties need to tell whose it is.
`armed` are the sources whose driver calls the interrupt routine, `queue` the
message bus, `ran` what the last step called and for which source: `Receive` takes
it from the `cause` of the message, the interrupt itself, whatever slot the message
names (`target`), so that a message for the wrong slot shows. Slots other than the first start
as 0, as the initializers of the arrays leave them. `Live` are the sources in
use: armed, or of a timer not deleted.

A timer's callback is two steps, because the timer may be deleted, and its
references given to others, between the two; the callback that comes late may
then call the function of another source, which `RunsOwn` excepts. A script keeps
the timers it starts: one that is collected while it runs is not modelled. A failed start of a timer leaves
its references taken, as the code does; a registration over another one leaks
the old reference. Pin numbers in messages come from `pin_id`, which is never
set (`PinId`): every pin's interrupt is sent to pin 0, or to none. `RunsOwn` and
its theorem say that a UART and a timer run their own function; of a pin they say
only that it runs none of a UART or timer, because that it runs its own, which the
sample `gpio_intr.lua` expects, is false. Calls of luaL_ref and luaL_unref are one step each: two threads
in one Lua state are a data race whose outcome is not modelled. `rtos.receive`
is commented out of its table and `lua_msgbus_init` is called by a function
nobody calls: the model is of the bus as its callers use it.

### Upload: state and code

`pc` names the line of the host that is to be answered, `rx` the lines the
device has not read, `tx` the characters the host has not read, of which only
those that a wait looks for are kept. A wait (`Await`) consumes up to the first
match, as `__expect` does, which reads byte by byte; a timeout may come at any
moment of it. `Clear` drops what has arrived: any prefix of `tx`. On the device,
`more` says that the loop has shown `>> ` and reads the rest of a statement. A
line of the file becomes `fd:writeline('...')`, and its kind is what Lua makes of
that: `plain`, a statement that writes the line as it is; `altered`, one that
writes another text, because the line has an escape (`print("a\n")`) or quotes
that part it into several strings; `refused`, no statement, because of a quote or
of an escape that is none; `unfinished`, because of a backslash or a quote at the
end, for which the loop asks for more (`Continue`), and refuses it together with
the next line. `disk` holds for each line of the remote file the attempt, the
number, and whether its text is that of the local line. `Intact` says how far a
copy can be relied on: altered lines arrive, as another text, and nobody is told,
although the tool's README promises files of any type. Not modelled: lines whose quotes make them another statement, and the
newline the device adds to a last line without one. A refusal quotes the line, and the quotation may hold a `>`,
which the host takes for a prompt: `surplus` remembers the attempts that met one,
`failed` those of which a line failed, which the host does not notice.

### Zbuff: state and code

`len`, `mem` and `used` are the fields of `LUA_ZBUFF_T`; `used` and `cursor`
are one field there, a union, and one variable here. A call is one step, since
nothing else runs on a Lua state. Bytes of memory nobody has written are
`Undef`, what a call writes past the end is counted in `spill`, and what it
reads there is `Undef`. `reply` is what the last call returned, `packed` what
the last pack wrote and where, until a call writes or replaces the memory.
Memory that runs out is the disjunct `Refuse` of the calls that ask for it.

`String` holds the functions the source calls an extension,
"数据的增减操作尽量不要和上面的read,write一起使用" (better not used together with
read and write, `lua_zbuff.c:1441`); the model mixes both kinds, as scripts may.
The mapping to `ByteString` keeps all bytes of the memory, `bytes <- Whole`, and
the position, `end <- used`. `ByteString` has an operation for each function, with
the arguments of the call, and says which bytes are there afterwards and which
count and bytes are returned; `ImplementsByteString` says call by call that the
function does this with the same arguments, so that a query, an index, a read or
an unpack that returned other bytes, or a deletion that left others, would break
it. The operations are stated by the bytes at each offset: there is no memory to
move or to replace, no loop and no byte order by swapping. A copy from another
buffer has that buffer's bytes as
its data; `CopySelf` is the one from the buffer itself, which may grow between
the reading of the length and of the bytes. Formats of pack are lists of
integers of one or two bytes with their order; wider ones, strings, which are
their bytes, and floating numbers go through the same `add_bytes`. The device
is little endian.

Three calls write past the end of a full memory: a copy of integers, which
compares its offset by `>` (`lua_zbuff.c:1079`), an assignment, which does the
same (`lua_zbuff.c:995`), and a deletion with bytes before and after the gap,
which moves `used - n` bytes where `used - start - n` follow
(`lua_zbuff.c:1189-1190`). The model has all three. What is in
the memory after the other two is what `ByteString` says: only the bytes behind it
are wrong. The first leaves the data itself outside, so `UsedFits` and
`ImplementsByteString` except it, and such a zbuff is not followed further, since
every function would compute the room that is left as a number that has wrapped
around. A resize after a seek to the start keeps nothing of what was written,
unlike the realloc its comment names (`lua_zbuff.c:1016`, `1030`): `ByteString`
keeps what is in use, as the code does. A resize to length 0 is possible, as in the code, which
does not look at the length.

## 3. The runs

| Run | Specification and bounds | Shows |
|---|---|---|
| `sched` | `Spec`; 3 workers of which 1 exists at start, 2 processes; main calls newproc, setnumworkers 1 and 3, wait, exit; processes call newproc | types, `OnePlace`, exact counters, `NoLostWakeup`, `JoinSafe`, implements `ProcPool` |
| `sched_live` | `FairSpec`; 2 workers, 2 processes; main calls newproc, setnumworkers, recycle with limits 0 and 1, exit | `ReadyIsServed`, `JoinReturns`, and `OnePlace` with recycling |
| `sched_recycle` | `FairSpec`; 1 worker, 2 processes | violation of `FinishedIsRetired` |
| `luaproc` | `LSpec`; 1 worker, 3 processes, 1 name, 2 channel structures | `NoMissedRendezvous`, `NoneStranded`, implements `Rendezvous` and `LpSched` |
| `luaproc_two` | 2 workers, 2 processes, 1 channel | violation of `NoMissedRendezvous` |
| `main_channel` | `MSpec`; 1 worker, 1 process and the main state | violation of `MainIsUnblocked` |
| `mqtt` | `Spec`; 2 messages, 2 handles, 2 packets, clock 0 to 1; the script calls publish_sync, subscribe, on, connect, callbacks publish | `NoFreedEntryReached`, `NoStaleWaiter`, `OkMeansAcked`, implements `Delivery` |
| `mqtt_live` | `FairSpec`; 2 messages, 1 handle; the script calls publish, unsubscribe, connect, callbacks publish and wait | `ExpiredIsReported`, `Reconnects`, and the two memory properties for callbacks that wait |
| `mqtt_list` | `Spec`; 2 messages, 1 handle | violation of `WaiterIsListed` |
| `callbacks` | `Spec`; 1 UART, 2 pins, 1 timer, 3 references, a queue of 2 | `RegisteredHeld`, `NoReferenceTwice`, `RunsOwn`, `NoneAfterClose` |
| `zbuff` | `Spec`; all functions; bytes 0 and 1, memory of 0 to 4 bytes, strings of 0 and 2, a format of 3, offsets and lengths from -1 to 2 or none | `UsedFits`, `PackedReadsBack`, each call does what its namesake in `ByteString` does |
| `upload` | `FairSpec`; files of up to 2 lines of 4 kinds, 2 attempts, 1 restart | `InStep`, `OneAttempt`, `Intact`, `AttemptEnds` |

Why the bounds are enough. Three workers are one to create, one to destroy and
one to go on; two processes meet in every pair of places, and with newproc
called by a process a third role, the creator, is played by the same two. The
semaphore's maximum is 1, so two posters suffice to merge posts. `MaxDestroy`
bounds the counter `destroyworkers` that repeated calls of setnumworkers raise
without limit. `StructureLeft` lets newproc start only while a structure is
left in the model; a device allocates one. On channels, three processes give
two that wait and one that comes, and a second structure lets a name be
destroyed and created again while the first is being emptied; `FreshChan` keeps
a structure from being reused while anybody refers to it, as the allocation of
the code does.

Two messages are enough for the list of `MqttClient`: one removed while the
other is linked behind it, from the front and from the back. Two handles let a
packet number be given twice. `mqtt` has the client in every state, `mqtt_live`
adds that callbacks wait, at the price of one handle, because its temporal
checks cost most. In `callbacks` three references are fewer than the sources
(six), so references are reused while messages and timers of their former
owners are on the way, and luaL_ref can be at its limit. The proofs remove the
bounds for the properties of this run. In `upload` a second attempt meets what
the first one left; files of two lines have a line before and after the refused
one. (Three attempts at files of one line, and three without a restart, were
checked as well.) In `zbuff` a string fits, just fits or makes the memory grow,
or there is none; offsets are inside the data, at its end, behind it and before
its start, and deletions leave bytes on both sides of the gap. A
pack ends between its two fields, inside the second, or behind it. `MCView` leaves
`reply` out of what tells states apart: no function reads it, so states that
differ in it only have the same steps, and every step is checked, also one to a
state that was seen before.

`luaproc` has one worker, `LUAPROC_SCHED_DEFAULT_WORKER_THREADS`, with the main
state only creating processes: that is the setting in which its properties hold.
`luaproc_two` shows the first of them fail with two. In `sched` setnumworkers is
called by the main state only; a process that calls it during the exit creates
a worker the join does not know of and breaks `JoinSafe`, as TLC shows when `ProcCalls` has setnumworkers; for which
reason `JoinIsSafe` assumes that none does.

`CHECK_DEADLOCK FALSE` is in every configuration but that of `callbacks`: the
system may stop, after the exit of the main state, when workers hang on a
recycle mutex, when all processes are parked, when the client was collected, when a
zbuff has been overrun, or when the bounds of a model are used up.

Fairness of `MqttClient`: weak for the client thread and for calls it has begun
in a callback, strong for the return of a callback, whose calls interrupt it.
Nothing is assumed of the script, the broker or the clock; `ConnectAt` is the
step of a library that connects when the link stays up, so `Reconnects` speaks
of links that are up for good. `ExpiredIsReported` and `Reconnects` except a
client thread that waits for its own publish: only itself could wake it, so it
waits for ever. Fairness of `Upload`: weak for the host, whose waits end by
themselves; nothing is assumed of the device.

Fairness (`Fairness` of `LpSched`): weak for a worker's own steps, for a thread
inside a library function and for the join, since the operating system keeps
scheduling runnable threads; a lock that is free when a thread asks is got, as
each handle is either free for good or held for ever. Strong for `Return`: a
resumed process ends its turn although each of its calls interrupts it. Both
liveness properties have the exception that every worker in question hangs on a
recycle mutex (`Hung`): `sched_recycle` shows that this happens.

## 4. What the violation runs show

1. `sched_recycle`: newproc leaves a recycle mutex locked for ever
   (`luaproc.c:590-604`, `1014`); a worker that hands in a process and has read
   that handle hangs.
2. `luaproc_two`: with two workers a sender and a receiver miss each other
   (`luaproc.c:268-271`).
3. `main_channel`: a blocking send of the main state and its receiver deadlock
   (`luaproc.c:679-681`, `730`).
4. `mqtt_list`: two publishers at once lose an entry of the list
   (`lua-mqttc-client.c:320-345`, `lua-mqttc-app.c:62`, `130`), and one of them
   waits for ever.

What the models show without a run of its own, most of it because it restates a
line or two of code: `setnumworkers(n)` with fewer than now adds `n` to the workers
to destroy (`lpsched.c:383`, `Shrink`); `luaproc.wait` does not wait
(`lpsched.c:480`, `SchedWait`), though `elua.md:148` says that it does; two workers
may create a channel of one name, and the second replaces the first
(`CreateChannel`); the join waits for a semaphore that a worker posts before it
deletes its thread (`lpsched.c:199-200`, `460`; `JoinSafe` allows for a worker
between the two); the deadline of a message is always past (`Publish`); the client
dials when the network is down (`MayDial`); a full message bus drops an interrupt
(`Put`), and interrupts of every pin go to the callback of pin 0 (`PinId`); a line
with an escape becomes another one on the device (`Literal`); a zbuff is overrun by
one byte, or by a deletion (`spill`), and a resize loses what is behind the
position.

## 5. What is proved

`LpSched_proofs`, for every finite set of workers, any processes, any subset of
library functions called, any targets and limits, from `SchedAssumption` alone:

- `TypeCorrect`: `Spec => []TypeOK`. `TypeOK` is not inductive, because steps
  move `cur[w]` or `obj[t]` into a list or a set without looking. `TypeInv` adds
  that a worker that is not idle has a process (`CurHeld`) and that a thread
  inside newproc or a wakeup has one (`ObjHeld`).
- `WorkersCounted`: `Spec => []WorkersExact`, by the cardinality of `Alive`:
  `Destroy` takes one worker out, `Grow` adds a set disjoint from it, other
  steps move threads between places that are both alive or both not.
- `WakeupNeverLost`: `Spec => []NoLostWakeup`. A worker goes to wait only when
  there is nothing to do; whoever makes work while workers wait either is a
  live worker that is not waiting, or posts (`LiveMove`); `Destroy` posts for
  the next one; a worker that is created starts by looking (`Grow`).

`WorkerInv`, the conjunction of the three, is the inductive invariant.

`LpSchedPlaces_proofs`, from the same assumption:

- `ProcsInOnePlace`: `Spec => []OnePlace`. `TypeInv`, with `CurOut` and `ObjOut`
  (a worker outside Lua code and its returns has no process, a thread outside a
  library function holds none) and the places themselves (`InPlaces`), is the
  inductive invariant `PlaceInv`: every step takes a process from one place and
  puts it into one other.
- `LpcountCounts`: `Spec => []LpcountExact`. Each step says what it adds to the
  processes that are active or whose decrement is to come, and to `lpcount`
  (`CountStep`).
- `SchedImplementsPool`: `Spec => ImplementsPool`. Each step is a step of
  `ProcPool` under the mapping, or none (`PoolStep`): `Ready`, `Running` and the
  rest change as the pool's do because a process is nowhere else.
- `JoinIsSafe`: `Spec => []JoinSafe` when no process calls setnumworkers. The
  workers table names every worker that was created, `exitsem` those that have
  posted their exit semaphore, and the join has only passed workers that have
  posted; after its start nobody creates another one (`JoinInv`).

`MqttClient_proofs`, from `MqttAssumption`:

- `TypeCorrect`: `Spec => []MTypeOK`. The links of the list stay in the list
  whatever races, and the client thread always has a case for its state.
- `DeliveredWasAcked`: `Spec => []OkMeansAcked`. The strengthening `AckInv` says
  that the number of a packet of the current handle is below `nextId`
  (`Numbered`), that messages of the current handle with the number of an
  acknowledgement on its way are acknowledged (`Answered`), and that the client
  thread is in a callback for an acknowledgement while it has one to process
  (`Acking`).
- `NoneFreedReached`, `WaitersStay`: `Spec => []NoFreedEntryReached` and
  `Spec => []NoStaleWaiter`, for any number of messages. A race of two insertions
  loses messages and leaves stale links back, so the list is not well formed and
  `ListInv` does not say that it is. It says, of lost and freed nodes too, that
  where a link `next` leads is not freed and leads back (`BackLinked`): then a
  removal takes away the one link to what it frees. A removal writes at `prev[m]`,
  which may be freed or have another successor by now; that keeps `BackLinked`
  as long as no message follows itself, which is the reason for `Acyclic`: the
  links back lead to messages linked earlier, by a ranking that each insertion
  extends. What `prev` or a tail that was read names was linked once
  (`LinkedOnly`), so it is not the message an insertion is about to link;
  the walk stands at a message that is not freed (`WalkInv`); and a synchronous
  message not reported has its publisher (`PublishInv`). `Chain` is a recursive
  function; `ListedIsLinkedTo` takes it apart with `SetInduction` (see
  `Zbuff_proofs` below).
- `DeliveryImplemented`: `Spec => ImplementsDelivery`, from the same invariant and
  `AckInv`: a publish sends, a new handle or an acknowledgement settles, a message
  that leaves the list is reported, once, and every other step stutters.

`Callbacks_proofs`, from `CallbackAssumption`: types (`TypeCorrect`), and
`ReferencesHeld`, `ReferencesOnce`, `CallbacksRunOwn`, `ClosedStaysQuiet`, which
state the four invariants of the run. The inductive invariant `CallbackInv` adds
that the slot of a source that is not armed is no reference (`Unregistered`), so
that what a close releases is owned by its slot or by nobody; that a timer that
can be deleted has the reference of a function (`StartedTimers`); and that a
timer whose callback has begun was started (`FiringStarted`). That the
interrupt of a UART and a timer run their own function, and none for a closed UART,
follows at the step that
runs it (`CallbacksSound`). The lemmas on `Ref` and `Unref` say what one call
does to who owns what; an action is one or two such calls.

`LuaProc_proofs`, from the same assumption, for any number of workers, names and
channel structures:

- `SchedImplementedWithChannels`: `LSpec => ImplementsSched`. The places of the
  channel functions are seen by the scheduler as Lua code or as a wakeup
  (`Stand`). `P` is the module `LpSchedPlaces_proofs` with `Stand` for `pc`, so its
  lemmas hold of what the scheduler sees and need no second proof.
- `ProcsInOnePlaceWithChannels`: `LSpec => []OnePlace`, and `ChannelTypesCorrect`:
  `LSpec => []LTypeOK`. The inductive invariant `LInv` is the scheduler's
  `PlaceInv` seen through `Stand`, the types of the channel variables
  (`ChanTypes`), and the lists (`Lists`): each process is in one list at most, once,
  and it is parked. The step that queues a process needs the first part to
  know that it is in no list yet; the step that wakes one needs the last to know
  that the scheduler may have it.

`Rendezvous_proofs`, under the hypothesis `OneAtATime`: there is one worker, the
default of luaproc, and the main state calls no channel function. Without it the
statements are false, as `luaproc_two` shows for two workers. The number of
processes, names and channels and the scripts are arbitrary. (`LuaProc` has no
setnumworkers: its worker is there from the start and stays.)

- `NobodyMissed`: `LSpec => []NoMissedRendezvous`, and `NobodyStranded`:
  `LSpec => []NoneStranded`. luaproc holds no mutex from the look for a partner to
  the moment the worker has queued the process. The invariant `MeetInv` says
  why that is enough here: what the worker saw is still so when it queues the
  process (`Coming`), a channel being emptied has left the table and its other
  list is empty (`Emptying`), and every list with somebody in it belongs to a
  channel in the table or being emptied (`ListReached`).
- `RendezvousImplemented`: `LSpec => ImplementsRendezvous`. The abstract send or
  receive takes place when the worker looks for a partner: it meets one, or its
  process waits from then on, though the worker has yet to queue it (`Arriving`).
  The abstract deletion takes place when the name is cleared, and from then on a
  process in a list of the channel counts as freed with an error (`OutcomeSeen`),
  so that the removals that follow are no steps.

`Zbuff_proofs`, from `ZbuffAssumption` and `PackAssumption`, for every set of
functions, every length, string, integer and offset, and every format of bytes
and shorts:

- `ZTypesCorrect`: `Spec => []ZTypeOK`, and `DataFits`: `Spec => []UsedFits`. The
  inductive invariant is their conjunction, `ZInv`.
- `ByteStringImplemented`: `Spec => ImplementsByteString`. For each function there
  is a lemma from a state whose data is inside the memory (`Ready`), for arbitrary
  arguments: the step keeps `ZInv` and is a step of the operation of the same name
  in `ByteString` with these arguments, byte by byte of what is there and of what
  is returned. Excepted is a copy of integers that writes past the memory.
  The copy of integers, a loop that writes one byte at a time and may make the
  memory larger, is followed integer by integer (`Putting`): unless a byte was
  written past the memory, what the loop has written and what was in use before
  are where they belong, because the memory can grow for the first integer only.
- `PackReadBack`: `Spec => []PackedReadsBack`. `PackedInv` says that the memory holds
  what was packed, byte for byte, as far as it fitted. `PackingIs` shows that the
  bytes of a field are at its place, `FittingGrows` that a field written in full
  is read in full, and `DecodeEncode` that unpack's swap and sum undo pack's.

These proofs take induction over data: the places of fields are a sum over a
format, the bytes of a number and the copy of integers are loops. The library's
induction theorems have an operator as a parameter; `SetInduction` states
induction for a set of naturals instead, and follows from the pigeonhole
principle: below a natural missing from the set, `n |-> n + 1` would map a finite
set into itself without 0. The functions are recursive functions, so that each
has an equation the prover can use once it is known to exist (`PlaceExists`,
`LeftExists`, `PuttingExists`).

`Upload_proofs`, from `UploadAssumption`: `TypeCorrect`, and `NothingMixed`:
`Spec => []OneAttempt`. The lines on the way to the device are a piece of what
the host sends in order: each one follows the one it was sent after (`Follows`),
and the device is ready for the first (`Met`): its file is the one the line is
meant for, and no statement is unfinished when a file is opened. `HostInv` says
the same of the line the host sends next, so that a line sent to an idle device
and a line sent behind others are one case. Two more:

- `HostInStep`: `Spec => []InStep`. `SyncInv` adds that what was sent and answered
  is of this attempt or an earlier one (`OfThePast`), that nothing of this attempt
  is on the line before its print is sent (`NotYetAsked`), that the answer to the
  print is the last thing on the line (`AnsweredLast`), so that the host that has
  read it has read everything, and, after that, that either the line is unread and
  no prompt is on its way, or it is read and one prompt is (`OneUnderWay`).
- `CopyIntact`: `Spec => []Intact`. `CopyInv` counts the lines in the remote file by
  what the host has sent and the device has read, and says of each that its text is
  what its kind makes of it.

Every type invariant, safety invariant, action property and refinement that a
passing run checks is stated by a theorem, under the hypotheses named above. Only
model-checked are the liveness properties (`ReadyIsServed`, `JoinReturns`,
`ExpiredIsReported`, `Reconnects`, `AttemptEnds`), which are out of the prover's
reach, as is everything under fairness.

## 6. Not modelled

In luaproc: the linked nodes of the lists (a process that is linked twice),
values and stacks of Lua states, the replacement of `mutex_channel_list` while
it is held, failure to allocate memory other than a thread, `sched_init`
failing. In lua-mqttc: what a collected client's memory holds, options and
certificates, and failures to allocate. In the callbacks: two threads in one Lua
state at once, and `lua_event.c`, which is not in the list of libraries. In the
uploader: verification, downloads and block transfer, several files on one
connection, and lines longer than the device's buffer. In zbuff: frame buffers,
which the header switches off, `isEqual`, the numbers query makes of 1, 2, 4 or
8 bytes, a copy of integers that runs out of memory half way, and negative
lengths or offsets past the end where a function has no check. `lua_ringbuff.c`
is commented out of the list of libraries (`linit.c:67`, `114`).

The cloud bindings copy arguments to the vendor's client, whose threads are not
in this repository. The other bindings pass their arguments on or compute a
checksum. Most of the repository is third-party code (the Lua core, libffi,
cffi-lua, alien, cjson, socket, mbedtls) and its tests: it is used as its
interfaces promise, and the share of the lines that the models translate stays
small for that reason. The samples are scripts that use the libraries.

What a next version would add: the places where two Lua states or two threads
meet in one Lua state, which are now one step.
