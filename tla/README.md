# TLA+ models of OS_Lab

This directory holds TLA+ models of the concurrent parts of this repository,
together with the TLC configurations that check them. The repository's sources
are under `../src`:

- the Lunix sensor-network driver (`src/lunix`);
- the virtio-cryptodev guest driver (`src/cryptodev/virtio-cryptodev`);
- the chat programs built on it (`src/cryptodev/chat`);
- the riddle helpers (`src/riddle`).

## 1. The system and its parts

| Part | Source | Concurrency | Status |
|---|---|---|---|
| Lunix chrdev session and read protocol | `lunix-chrdev.c` open/release/read/state_update | reader threads, the sensor producer, signals | modelled (`LunixChrdev`) |
| Lunix record formatting | `lunix-chrdev.c` 95-112 | none (a pure function) | modelled (`LunixFormat`) |
| Sensor producer | `lunix-sensors.c` (not in `src/`) | interrupt context, spinlock | modelled from spec.md §3, §5 |
| Lunix mmap | `lunix-chrdev.c` 245-275 | mapping readers vs producer, unsynchronised by design | not modelled (§5) |
| Lunix user logger | `lunix-user.c` | forked children, SIGSTOP/SIGCONT, alarm | modelled, except argument parsing (`LunixLogger`, refining `StartBarrier`) |
| virtio-cryptodev guest | `crypto-chrdev.c` | callers on one semaphore, the host | modelled, except init/probe (`CryptoChrdev`, refining `CryptoCalls`) |
| Chatroom server | `chatroom/task-1/server-side.c`, `task-2/server-side.c` | a thread per client, a list semaphore, cryptodev ioctls | modelled (`ChatServer`; `Encrypting` selects task-2) |
| Peer-to-peer chat | `peer_to_peer/tasks-1-2/` | two processes, one TCP connection, each in a poll loop | modelled, except argument parsing and message bytes (`PeerChat`) |
| Chatroom clients, riddle | other `.c` files | sequential I/O glue | not modelled (§5) |

**How the parts interact.**
- The producer writes a sample, a raw value and a strictly increasing
  `last_update`, into each slot `msr_data[kind]` of a sensor. It then wakes
  the sensor's wait queue.
- A process opens `/dev/lunix<S>-<kind>` and gets a private session. The
  session holds its own semaphore, a cached text record `buf_data[0..buf_lim)`
  and the timestamp `buf_timestamp` the record was built from.
- `read()` works as follows:
  1. It takes the session semaphore.
  2. At position 0 it rebuilds the record when the slot is newer. Otherwise it
     releases the semaphore, sleeps until the slot is newer, and retakes the
     semaphore.
  3. It copies up to `cnt` bytes from the current position.
  4. It moves the position, or resets it to 0 at the end of the record.
- The VFS copies `filp->f_pos` into a local before calling the driver. It
  stores the local back only when the driver returns ≥ 0, and takes no
  `f_pos` lock for a character device.

## 2. Modules

### `LunixFormat` (lines 95-112 of `lunix_chrdev_state_update`)

The operators follow the code line by line:
- `CDiv` and `CMod` are C's truncating `/` and `%`.
- `Subdecimal`, `Hundreds`, `Tens` and `Units` are lines 104-107.
- `RecordText` is the text `"%ld.%d%d%d"` produces, and its length is
  `just_written`.
- `SNPrintf` is the second `snprintf` (line 110), and `FormatBuf`/`FormatLim`
  are the values stored in `buf_data`/`buf_lim`.
- `SpecText` is the reference definition, the text spec.md §4.2 prescribes.

### `LunixChrdev` (`lunix-chrdev.c`)

**State.**
- Per sensor slot: `last_update` and `values`.
- Per file: `isOpen`, `sensor`, `type`, `buf_data`, `buf_lim`,
  `buf_timestamp`, `lock` (the holder, or `NoThread`) and `f_pos`.
- Per thread:
  - `pc`, the step the thread is at;
  - `pos`, the VFS's local copy of `f_pos`;
  - `cnt`, `bufOk` (whether `copy_to_user` will succeed) and `ret`.
- History variables, read only by properties:
  - `tstart`: the session state when the call began.

**Actions.** Each action is one step between two points where another actor
may run:

| Action | Code |
|---|---|
| `SensorUpdate` | the producer (spec-modelled) |
| `Open` | `lunix_chrdev_open` |
| `Release` | `lunix_chrdev_release`, with no thread inside a call on the file |
| `ReadCall` | VFS entry: copy `f_pos`, pick a size and a good or bad buffer |
| `Down` | `down_interruptible` succeeds; go to the update loop at position 0, else to the copy |
| `UpdateRefresh` | `state_update` with a newer sample: spinlock snapshot, lookup, both snprintfs, `buf_timestamp` |
| `UpdateStale` | `state_update` returns `-EAGAIN`: `up()` |
| `WaitWake` | `wait_event_interruptible` returns 0 once `WaitCondition` holds |
| `Relock` | the second `down_interruptible` |
| `Interrupt` | a signal while blocked in either down or the wait: `-ERESTARTSYS` |
| `Copy` | lines 213-243: count, newline, memcpy, `copy_to_user`, position update, `up()` |
| `Return` | the VFS stores `pos` into `f_pos` when `ret ≥ 0` |

Every action is guarded by the code's conditions and changes exactly what the
code changes. `ReaderStep(t)` groups a thread's own steps.

**Abstractions.**
- A record is the `LunixFormat` text of `Lookup[kind][raw]`, taken from two
  table entries per kind. Those values are chosen to give records of equal and
  of different lengths (`3.12`/`3.99`, `10.00`/`9.99`).
- Timestamps are bounded by `MaxTs`.

### `ChatServer` (`chatroom/task-1/server-side.c`)

**State.**
- `main()`: `mpc`, its local `newSocketDescriptor`, whose address every thread
  receives, and the counter `id`.
- The descriptor table `fdConn`. `accept()` returns the lowest free number, and
  `close()` frees it for reuse.
- Each TCP peer's state `peer[c]`: `new`, `up`, `fin`, `reset` or `gone`.
- The list `headClient` as a sequence of `[name, sd]` nodes, the semaphore
  `clientsLock`, and the thread `holder` that holds it.
- Per thread: `pc`, `sd`, `name`, and the `sendToClients` list index `cursor`.

**Actions.**
- `main()` has `Accept` and `CreateThread`. The client side has `ClientLeaves`,
  plus the data a client sends (`UsernameData`, `LoopData`).
- Each step of `clientSession` has its own action: `Start` reads
  `*newSocketDescriptor`, then `Prompt`, `UsernameEnds`, `AddClient`,
  `IsUser`, `RemoveClient` and `Close`.
- `sendToClients` has `SendEnter` (take the lock) and `SendNext`, one list node
  per step. `SendNext` includes the `select` failure return and the `continue`
  after a failed write.
- A message's text is abstracted to whether its first token names a listed user.
- With the constant `Encrypting` the module is task-2's server. Task-2 adds
  three cryptodev ioctls to task-1's control: `NewSession` (CIOCGSESSION, at
  the start of a session), `Decrypt` (after every read) and `Encrypt` (at the
  top of `sendToClients`, before the lock is taken). Each touches only the
  thread's own buffers, so it is part of the step before it, through
  `CryptoThen`. It succeeds, or it fails and `exit(1)`s the whole process
  (`exitedAt`). A decrypt fails whenever `read()` returned a partial AES
  block, which TCP allows at any read. Task-2's list code in
  `crypto-chat-common.h` is task-1's line for line.

### `PeerChat` (`peer_to_peer/tasks-1-2/`)

**State.** Per side (`server`, `client`):
- `pc`, where the side is in `pollooper` (`poll`, `sock`, `stdin`), its
  return value (`ret0`, `ret1`), or `accept`/`dead` after it;
- `rev`, the revents of the last `poll()`;
- `stdin` (empty, a line waiting, or end of input) and the count `typed`;
- the kernel's side of the connection: `rcv`, the unread lines in the side's
  receive queue, `arrived`, what came after them from the other end
  (nothing, FIN or RST), and `closed`.

**Actions.** One `pollooper` iteration is three steps, because the other
process runs between them:
- `Poll` takes the revents snapshot;
- `ReadOther` is the socket branch, which runs only when revents is exactly
  `POLLIN`;
- `ReadStdin` is the stdin branch, including `InsistWrite`.

`ServerAfterLoop` and `ClientAfterLoop` are what each `main()` does with the
return value. `ServerSigint` and `ClientSigint` are the SIGINT handlers.
`TypeLine` and `EndInput` are the users. `CloseSocket` carries the kernel's
rule: a close with unread data sends RST, and otherwise FIN. A write into a
closed peer draws an RST. Message bytes are abstracted to whole lines.

The constant `CryptEnable` selects the build. With it, a read of the socket
decrypts the whole chunk and prints it with `printf("%s")`, which stops at the
first NUL. Each encrypted line carries its terminating NUL
(`chat-app-commons.h:150-155`, `PrintedLines`). `delivered` counts the lines
`InsistWrite` put in a side's receive queue. `printed` counts the lines the
side put on its terminal. One `read()` may take any number `k` of the queued
lines, since TCP keeps no message boundaries.

### `CryptoChrdev` (`virtio-cryptodev/guest/crypto-chrdev.c`)

**State.**
- `sem` (the holder of `crdev->sem`).
- The virtqueue, as the request sequence `avail` and the answer sequence `used`.
- The host's open descriptors `hostOpen`.
- Per caller: `isOpen`, `crofFd`, `pc`, `op` and `ret`.

**Actions.**
- `Open`, `Release` and `Ioctl` are each call up to the point where it needs
  the device, including the early `-EFAULT` returns of the ioctl.
- `Down` is `down_interruptible` succeeding, followed by
  `virtqueue_add_sgs` and the kick. `Interrupt` is it failing with
  `-ERESTARTSYS`.
- `HostServe` is the QEMU backend, which is not in `src/`. It is modelled from
  the spec: it takes the oldest request and answers it.
- `Complete` is `virtqueue_get_buf` returning, the call's outcome (`Outcome`)
  and `up()`.

### `CryptoCalls`, and the refinement

`CryptoCalls` is what `/dev/cryptodev0` promises its callers, with no
semaphore and no virtqueue. Each call is asked, and then the host serves that
very call in one step: it opens a fresh descriptor, closes the file's one, or
runs the command. The call then returns the host's answer to it. A call
interrupted before the host saw it is abandoned; an abandoned release still
drops the file, because the VFS frees it regardless. `CryptoChrdev` maps a
caller's state to `asked` once it has entered a call, to `answered` once an
answer addressed to it is in `used`, and its `fileFd` to `crofFd` while the
file is open. The run `cryptodev_pass` checks `Calls!Spec` as the property
`CallsRefined`.

### `LunixLogger` (`lunix/lunix-user.c`)

**State.**
- The parent: `ppc`, the fork index `i`, the `-o` setting `output` and the
  progress-bar countdown.
- Per child: `cpc`, whether its opens succeeded, whether it has reported, and
  the countdowns of its log time, its `alarm` and its `sleep(2)`.
- The fault budget.
- The history variables `arrived`/`passed` for the refinement.

**Actions.** Each action models a block of lines of `create_log_files` or of a
wait loop:
- `Fork`: success, or a fork failure, which makes the parent `exit(1)`.
- The children's steps: `ChildOpen` (its opens, then `raise(SIGSTOP)`),
  `ChildResume`, `ChildCheck`, `ReadReturns` and `SleepDone`.
- The parent's loops: `WaitReady` (the `WUNTRACED` loop, which exits on a
  death), `Cont` (`SIGCONT` to each child), `ProgressDone` and `WaitTerm`.
- `Alarm`, the handler.
- The environment: `Kill`, an outside `SIGKILL` and the second fault kind, and
  `Tick`, one second passing.

`Exit` and `ParentExit` carry the kernel's rules. A child that exits is a zombie
until it is reaped, or simply gone if its parent has already exited. When the
parent exits while a member of its process group is stopped, the group is
orphaned: the kernel sends `SIGHUP` and `SIGCONT`, which kill every child, since
the children do not handle `SIGHUP`.

### `StartBarrier`, and the refinement

`StartBarrier` is the abstract promise of the start handshake. Each process
arrives, and a process goes through only once every process has arrived.
`LunixLogger` maps a child to:
- `arrived` once it has stopped itself and the parent has counted its stop
  report;
- `passed` once the parent has sent its `SIGCONT`.

The run `logger_pass` checks `Barrier!Spec` as a property, so no child starts
logging before every child has its device and log file open.

## 3. Runs

| Run | Config | Expect | Properties |
|---|---|---|---|
| `chrdev_single` | `MCLunixChrdev.cfg` | pass | `TypeOK`, `NeverEOF`, `CancelLeavesSession`, `LockDiscipline`, `FormatDropsOnlyLastChar`, `FreshDataCompletesRead` |
| `chrdev_shared_eof` | `MCLunixChrdev_eof.cfg` | violation | `NeverEOF` |
| `chrdev_fault` | `MCLunixChrdev_fault.cfg` | violation | `FaultLeavesSession` |
| `chat_pass` | `MCChatServer.cfg` | pass | `TypeOK`, `ListMatchesSessions` |
| `chat_lockleak` | `MCChatServer_lockleak.cfg` | violation | `LockHeldInSend` |
| `chat_spin` | `MCChatServer_spin.cfg` | violation | `SendCompletes` |
| `cryptodev_pass` | `MCCryptoChrdev.cfg` | pass | `TypeOK`, `CallsRefined`, `CallsReturn` |
| `cryptodev_hostfd` | `MCCryptoChrdev_hostfd.cfg` | violation | `HostFdsHeld` |
| `logger_pass` | `MCLunixLogger.cfg` | pass | `TypeOK`, `BarrierSpec`, `ParentEnds` |
| `logger_stuck` | `MCLunixLogger_stuck.cfg` | violation | `AllEnd` |
| `peer_spin` | `MCPeerChat_spin.cfg` | violation | `LeavesWhenOtherLeaves` |
| `peer_lineloss` | `MCPeerChat_lineloss.cfg` | violation | `NoLineLost` |

**`chrdev_single`** (pass). One thread reads its own file, which can be closed
and reopened on either kind. This is how every logger child uses the device.
The model includes partial and full reads, interrupts and bad buffers. The run
checks:
- `TypeOK`, which includes that a read never returns more than the 20-byte
  `mini_buff` holds;
- `NeverEOF`: a read never returns 0;
- `CancelLeavesSession`: `-ERESTARTSYS` leaves `buf_timestamp` and `buf_lim`
  as they were;
- `LockDiscipline`: the session semaphore is held exactly by a thread in the
  update loop or the copy, so every exit from the read (the `-EAGAIN` path
  included) releases it;
- `FormatDropsOnlyLastChar`: every table value 0..12000 formats to the text
  spec.md §4.2 prescribes with its last character overwritten by NUL, with
  `buf_lim` the full length, and every record a session holds has that shape.
  This is the exact shape of the `snprintf` size bug, so the bytes delivered
  are not the prescribed text: `3123` comes out as `3.12\0`. The check over
  0..12000 is a constant formula that TLC evaluates once (`FormatsMatchSpec`
  in `MCLunixChrdev`);
- `FreshDataCompletesRead`, a liveness property: a pending read whose slot
  holds newer data eventually returns.

**`chrdev_shared_eof`** (violation). With two threads on one file, the first
thread:
1. reads 5 bytes of `10.00`;
2. stores back position 5.

Meanwhile, the second thread rebuilds the record as `9.99`. The next read then
finds `pos = buf_lim` and returns 0, an end-of-file, which spec.md §4.3 says
the stream never signals. A shrink of 2 or more characters would instead make
`readable_amount` negative. The `size_t` comparison at line 223 then copies
the full request into `mini_buff[20]`.

**`chrdev_fault`** (violation). `copy_to_user` fails after the refresh. The
sample is consumed, which contradicts spec.md §7 ("session state
unaffected").

**`chat_pass`** (pass). This is the encrypting task-2 server. Three
connections join, talk, leave or reset, in every order, and any cryptodev call
may fail and end the process. `ListMatchesSessions` holds: the list always has
exactly one node per session that has joined and not yet removed itself, with
that session's descriptor. The run also shows that `removeClient` unlinks the
right node, including the head and the tail.

**`chat_lockleak`** (violation, task-1). `LockHeldInSend`: `clientsLock` is
held only by a thread inside `sendToClients`. The trace is:
1. A second `accept()` overwrites `newSocketDescriptor` before the first thread
   reads it, so two threads serve one socket.
2. One of those threads closes the socket.
3. A broadcaster's `select` then fails on it.
4. The broadcaster returns at task-1:125 without `up()`, so every other thread
   blocks for ever.

Task-2 has the same `&newSocketDescriptor` and the same `return` (task-2:52).

**`chat_spin`** (violation, task-1). `SendCompletes`: every `sendToClients`
ends. After a client resets, each write to it fails with `EPIPE`. The
`continue` at line 132 does not advance `tmp`, so the broadcaster spins for
ever while holding the lock. Task-2 has the same `continue` (task-2:59).

**`cryptodev_pass`** (pass). Two callers with three host descriptors open,
release and issue every ioctl command, with interrupts and bad user pointers.
The run checks:
- `CallsRefined`: the driver implements `CryptoCalls`. Every answer the host
  gives is to a request of the caller that receives it, and no caller gets an
  answer to another's call, which is what the semaphore around the shared
  virtqueue must guarantee;
- `CallsReturn`: every call that got the semaphore returns, and the semaphore
  is free again.

**`cryptodev_hostfd`** (violation). `HostFdsHeld`: every descriptor the host
holds open belongs to an open guest file. A `release` interrupted in
`down_interruptible` returns without telling the host, and the VFS frees the
file anyway.

**`logger_pass`** (pass). Three children are used, with either `-o` setting,
`timeOfLog` = 1 and one fault: a fork failure or a kill. The run checks:
- `BarrierSpec`, the refinement of `StartBarrier`;
- `ParentEnds`: the parent always ends, either done or exited.

**`logger_stuck`** (violation). `AllEnd`: the program eventually ends, with no
child left behind. The trace is:
1. The parent forks two children.
2. One child is killed before it stops.
3. The parent reaps it and exits at line 44.
4. No group member was stopped, so the kernel sends nothing.
5. The sibling later reaches `raise(SIGSTOP)` and stays stopped for ever,
   holding its device and its log file open.

A fork failure at line 179 leads to the same end: the parent exits before
any child has stopped. TLC may report either path, depending on the order
in which its workers explore the states.

**`peer_spin`** (violation). `LeavesWhenOtherLeaves`: once the other side has
closed its socket, a side still in `pollooper` eventually leaves it, as the
comment at `chat-app-commons.h` 137-140 says. The trace is:
1. The server's user types a line, and the server writes it to the client.
2. The client's user presses Ctrl-C before the client has read it. The
   client closes its socket with data unread, so its kernel sends RST.
3. From then on the server's socket polls as `POLLIN|POLLERR|POLLHUP`. That is
   not exactly `POLLIN`, so neither branch of the loop runs, and `poll()`
   returns at once again.

A line written into a connection the other side has just closed (its FIN
arriving after this side's `poll()`) draws the same RST.
The server spins at full CPU. Only a further line typed by its user ends the
loop, through a failed write, and users are not assumed to act.
This run uses the plain build (`CryptEnable = FALSE`).

**`peer_lineloss`** (violation, encrypting build). `NoLineLost`: every line
`InsistWrite` delivered to a side is either still unread in its receive queue
or printed on its terminal. The trace is:
1. The client's user types two lines.
2. The client writes both before the server polls. Each encrypted line is
   the ciphertext of the text and its NUL.
3. One `read()` on the server returns both lines, and the server decrypts
   them as one buffer.
4. `printf("%s")` stops at the first NUL, so the second line is never shown.

The comment on `pollooper` (lines 137-138) promises that what the other side
sends is printed. The plain build prints with `write(1, buf, n)`, and with
`CryptEnable = FALSE` the same invariant holds.

Each property of a passing run has a mutant in `PROJECT.json`: a plausible bug
in the mapped code that TLC catches under the run's cfg.
- `CopyCount_NoClamp`: the size clamp is dropped.
- `NextPos_StrictReset`: the end-of-record reset uses `>` instead of `>=`.
- `UpdateStale_ResetLim`: the failed update clobbers `buf_lim`.
- `UpdateStale_KeepLock`: the failed update forgets `up()`.
- `WaitCondition_OffByOne`: the wait predicate is off by one.
- `Tens_NoHundreds`: the tens digit is computed without removing the hundreds.
- `RemoveClient_NoWait`: `removeClient` lacks its `sem_wait` (line 55) but
  still posts on every exit, so the semaphore rises above 1.
- `removeClient_HeadOnly`: only the head node is ever unlinked.
- `OpenOutcome_RetFd`: `open` returns the host descriptor.
- `Down_NoSem`: the call skips the semaphore. Two requests then share the
  virtqueue, and a caller receives the other's answer, which breaks
  `CallsRefined`.
- `Complete_NoUp`: the call forgets `up()`.
- `Cont_LoopLE`: the `SIGCONT` loop runs while `i <= N`, one index past
  `pid_table`.
- `WaitReady_OneShort`: the ready loop counts one report short.
- `WaitReady_IgnoreDeath`: the ready loop treats a death as a stop report.

## 4. Bounds and fairness

**Bounds.**
- Lunix: one sensor with two kinds and two raw codes per kind.
  - `chrdev_single` has one reader, `MaxTs` = 3, and read sizes 2 and 64.
    Size 2 splits records into several partial reads. Size 64 exceeds both the
    record and `mini_buff`, which is what exercises the clamp. Three updates
    are enough for a reader to consume a sample, block, and be woken by a
    newer one.
  - Readers of different files share only the producer's slots, which they
    never write, so one reader covers them.
  - The violation runs share one file between two threads, with `MaxTs` = 2.
    One rebuild between two reads is enough.
  - `FormatDropsOnlyLastChar` enumerates every value of 0..12000 directly,
    once, since that part of it is a constant formula.
- Chat: three connections, three descriptors and one username, with
  symmetry over connections in `chat_pass`. Three connections are enough for
  a broadcaster, a departing client and a reused descriptor.
- Peer-to-peer chat: at most two lines typed per user (`TwoLines`). One line
  can be left unread when its reader leaves, so the close sends RST, and one
  more can be written into a dead connection. Two lines are also the fewest
  that one `read()` can take together in `peer_lineloss`.
- Cryptodev: two callers and three host descriptors. Two callers are enough for
  every contention on the semaphore. Three descriptors let a leaked descriptor
  coexist with two open files.
- Logger: three children in the passing run, `timeOfLog` = 1 and one fault.
  Three children let a fault hit the first, a middle or the last child. The
  violation needs only two. The timers count whole seconds: the alarm is
  `timeOfLog + 5` and the sleep is 2.

**Fairness.**
- Lunix readers are weakly fair (`WF_vars(ReaderStep(t))`): a thread that holds
  the CPU or is woken continues, because the kernel schedules runnable tasks.
  The producer, the callers of `open`/`read`/`close`, and signals are not fair:
  sensors may fall silent, and processes may stop calling.
  `FreshDataCompletesRead` therefore speaks only of a read whose data is
  already there.
- Chat server: `CreateThread` and every thread's steps are weakly fair.
  Clients are not fair, since they may never send.
- Peer-to-peer chat: each program's steps (`PeerStep`) are weakly fair.
  `poll()` with no timeout returns whenever a descriptor is ready, and the
  scheduler runs the process. The users (typing, end of input, Ctrl-C) are not
  fair.
- Cryptodev:
  - `HostServe` is weakly fair, because the host keeps answering.
  - `Down(t)` is strongly fair: the semaphore is offered again and again, and
    the waiter list is FIFO.
  - `Complete(t)` is weakly fair.
  - `Interrupt` is not fair.
- Logger: the parent, every child and `Tick` are weakly fair, because time
  passes and processes run. `ReadReturns` (a sensor's data) and `Kill` are not
  fair.

## 5. Not modelled

- `lunix_chrdev_init`/`destroy` and `crypto_chrdev_init` are registration,
  done once. Each `Init` is the device as the sensor layer or the virtio probe
  leaves it (neither is in `src/`), with no file open.
- A second reader of one Lunix file rebuilding the record under the first
  reader's position (spec.md §5's shared-file case) is checked only as the
  `chrdev_shared_eof` violation. With one reader, the rebuild guard at line 203
  cannot be defeated, so no passing run states it separately.
- `lunix_chrdev_mmap` maps the sensor's `msr_data` page with no lock.
  spec.md §4.4 says a reader of the mapping may see a torn sample, and that
  this is by design, so no property of the mapping could fail. Its size and
  permission checks are single calls that a test reaches.
- `Open` of a reserved minor (kinds 3..7, line 154) is one sequential call,
  whose read then uses undefined memory. A direct test reaches it.
- A record read in pieces gets no newline (line 217). spec.md §4.3 says so,
  and the code does that.
- The producer's protocol parsing and the QEMU backend are not in `src/`.
  Their contracts are modelled from the spec (`SensorUpdate`, `HostServe`).
- The chatroom clients: what the server sees of them is already
  `ChatServer`'s environment. A client connects, sends its username after the
  prompt, sends lines, and may leave or reset at any time. Their own control
  is a sequential loop, plus a listener thread whose every error exits the
  process.
- The riddle helpers are sequential.
- Argument parsing (`lunix-user.c`, the chat programs) and message and log
  bytes are not modelled. The padding arithmetic of the peer-to-peer decrypt
  (`chat-app-commons.h` 151-153) is one read's arithmetic, with no
  interleaving; it is recorded as a hazard.
- TCP may also split one line across two reads. The model moves whole
  lines (`k` of them per read), which is enough for the coalescing that
  loses lines. A split line would further break the peer decrypt's block
  arithmetic, which is the padding hazard above.
- The peer-to-peer server accepts a single connection. The cryptodev ioctls of
  the peer chat (`CIOCGSESSION`, `CIOCCRYPT`) are taken to succeed. Their
  failure only ends the process, and the chat server's model already covers
  that for the same device.
- Error paths that only print (`printk`, `perror`) are represented by their
  return values alone.
- Cryptodev memory leaks on the interrupt and `-EFAULT` paths are not
  tracked. Nor are host crypto sessions: `CIOCGSESSION` can fault after the
  host created one (line 284).
- When the host's `open` fails, `crypto_chrdev_open` returns `-1`, while its
  comment (line 127) says `-ENODEV`. `OpenOutcome` models the `-1`, and no run
  checks the comment.
- The run budget is spent, so the following defects stay as hazards without a
  violation run of their own:
  - task-2's `exit(1)` on a partial-block decrypt, which `chat_pass` does
    reach;
  - the `tid[MAX_USERS]` overflow after ten connections.

`PROJECT.json` lists every component, run, mutant, source mapping, finding and
hazard.
