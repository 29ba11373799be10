----------------------------- MODULE LunixChrdev -----------------------------
(***************************************************************************)
(* The Lunix character-device layer, src/lunix/lunix-chrdev.c.            *)
(*                                                                         *)
(* A file opened on /dev/lunix<S>-<kind> owns a private state (the         *)
(* session): the sensor and measurement type it reads, a cached text       *)
(* record buf_data[0..buf_lim), the sensor timestamp buf_timestamp it was  *)
(* built from, and a semaphore `lock`.  The open file also has a position  *)
(* f_pos.  Reader threads call read() on a file; the sensor producer       *)
(* updates (value, last_update) slots and wakes the sensor's wait queue.   *)
(*                                                                         *)
(* A read is split into the steps between which another thread or the     *)
(* producer can run: entry (the VFS copies f_pos into a local `pos`        *)
(* before calling lunix_chrdev_read), down_interruptible, the state update *)
(* loop, the interruptible wait, the copy to user space and up(), and the  *)
(* return in which the VFS stores `pos` back to f_pos when ret >= 0.       *)
(* The spinlock-protected snapshot and the formatting run under the        *)
(* session semaphore without suspending, so they are one step.             *)
(***************************************************************************)
EXTENDS Integers, Sequences, FiniteSets, LunixFormat

CONSTANTS
    Sensors,      \* lunix_sensors[] entries reachable through a minor number
    Kinds,        \* measurement types with a slot in msr_data[]
    Files,        \* open-file objects (struct file) that may exist
    Threads,      \* threads calling read()
    ThreadFile,   \* the file descriptor each thread reads from
    RawCodes,     \* raw values the producer stores in values[0]
    Lookup,       \* Lookup[k][c]: the lookup table of kind k (lookup_voltage ...)
    ReadSizes,    \* byte counts passed to read()
    MaxTs,        \* bound on the producer's timestamps
    NoThread      \* model value: the semaphore is free

ASSUME
    /\ ThreadFile \in [Threads -> Files]
    /\ Lookup \in [Kinds -> [RawCodes -> Int]]
    /\ ReadSizes \subseteq Nat \ {0}
    /\ MaxTs \in Nat \ {0}
    /\ NoThread \notin Threads

\* errno values returned by lunix_chrdev_read
EFAULT == -14
ERESTARTSYS == -512

\* char mini_buff[20] of lunix_chrdev_read, the staging buffer of a read.
MiniBuffSize == 20

VARIABLES
    \* sensor raw state, written by the producer (lunix-sensors.c)
    last_update,  \* last_update[s][k]: msr_data[k]->last_update
    values,       \* values[s][k]: msr_data[k]->values[0]
    \* open files and their lunix_chrdev_state_struct
    isOpen,       \* isOpen[f]: f is open and filp->private_data is set
    sensor,       \* state->sensor
    type,         \* state->type
    buf_data,     \* state->buf_data[0 .. buf_lim-1]
    buf_lim,      \* state->buf_lim
    buf_timestamp,\* state->buf_timestamp
    lock,         \* state->lock: holder, or NoThread when up
    f_pos,        \* filp->f_pos
    \* reader threads
    pc,           \* where the thread is in a read() call
    pos,          \* the thread's copy of f_pos (the f_pos argument of lunix_chrdev_read)
    cnt,          \* the byte count it asked for
    bufOk,        \* whether its user buffer is writable (copy_to_user succeeds)
    ret,          \* the value lunix_chrdev_read returned
    \* history variables, read only by properties
    tstart        \* <<buf_timestamp, buf_lim>> of its file when the call began

producerVars == <<last_update, values>>
stateVars == <<isOpen, sensor, type, buf_data, buf_lim, buf_timestamp, lock, f_pos>>
threadVars == <<pc, pos, cnt, bufOk, ret>>
ghostVars == <<tstart>>
vars == <<producerVars, stateVars, threadVars, ghostVars>>

Pcs == {"idle", "down", "update", "wait", "relock", "copy", "ret"}
CriticalPcs == {"update", "copy"}   \* steps taken with state->lock held

FileOf(t) == ThreadFile[t]

\* Values held by the fields of a closed file and of an idle thread; they
\* are overwritten before they are read again.
DeadSensor == CHOOSE s \in Sensors : TRUE
DeadKind == CHOOSE k \in Kinds : TRUE
IdleCnt == CHOOSE n \in ReadSizes : TRUE

\* The slot the file's session reads: sensor->msr_data[state->type].
SlotTs(f) == last_update[sensor[f]][type[f]]

(***************************************************************************)
(* lunix_chrdev_state_needs_refresh: the sensor has a newer sample than    *)
(* the cached one.                                                          *)
(***************************************************************************)
NeedsRefresh(f) == SlotTs(f) > buf_timestamp[f]

-----------------------------------------------------------------------------
(* The producer (lunix_sensor_update, lunix-sensors.c, not in src/): under  *)
(* the sensor spinlock it stores a new raw value and a strictly newer       *)
(* timestamp, then wakes up the sensor's wait queue.                        *)
SensorUpdate(s, k, c) ==
    /\ last_update[s][k] < MaxTs
    /\ last_update' = [last_update EXCEPT ![s][k] = @ + 1]
    /\ values' = [values EXCEPT ![s][k] = c]
    /\ UNCHANGED <<stateVars, threadVars, ghostVars>>

(* lunix_chrdev_open: the minor number selects sensor and type; kmalloc'd   *)
(* state with buf_timestamp = 0, buf_lim = 0 and the semaphore up.  A       *)
(* kmalloc failure returns -ENOMEM and changes nothing.                     *)
Open(f, s, k) ==
    /\ ~isOpen[f]
    /\ isOpen' = [isOpen EXCEPT ![f] = TRUE]
    /\ sensor' = [sensor EXCEPT ![f] = s]
    /\ type' = [type EXCEPT ![f] = k]
    /\ buf_timestamp' = [buf_timestamp EXCEPT ![f] = 0]
    /\ buf_lim' = [buf_lim EXCEPT ![f] = 0]
    /\ buf_data' = [buf_data EXCEPT ![f] = <<>>]
    /\ lock' = [lock EXCEPT ![f] = NoThread]
    /\ f_pos' = [f_pos EXCEPT ![f] = 0]
    /\ UNCHANGED <<producerVars, threadVars, tstart>>

(* lunix_chrdev_release: kfree of the state; the VFS calls it once no read  *)
(* holds a reference to the file.  The freed state and the struct file are *)
(* dead until the next open overwrites them, so they are reset here.        *)
Release(f) ==
    /\ isOpen[f]
    /\ \A t \in Threads : FileOf(t) = f => pc[t] = "idle"
    /\ isOpen' = [isOpen EXCEPT ![f] = FALSE]
    /\ sensor' = [sensor EXCEPT ![f] = DeadSensor]
    /\ type' = [type EXCEPT ![f] = DeadKind]
    /\ buf_timestamp' = [buf_timestamp EXCEPT ![f] = 0]
    /\ buf_lim' = [buf_lim EXCEPT ![f] = 0]
    /\ buf_data' = [buf_data EXCEPT ![f] = <<>>]
    /\ f_pos' = [f_pos EXCEPT ![f] = 0]
    /\ UNCHANGED <<producerVars, lock, threadVars, tstart>>

-----------------------------------------------------------------------------
(* read() entry: the VFS copies f_pos to the local position it passes as    *)
(* f_pos, before the driver takes any lock.                                 *)
ReadCall(t, n, ok) ==
    LET f == FileOf(t) IN
    /\ pc[t] = "idle"
    /\ isOpen[f]
    /\ pc' = [pc EXCEPT ![t] = "down"]
    /\ pos' = [pos EXCEPT ![t] = f_pos[f]]
    /\ cnt' = [cnt EXCEPT ![t] = n]
    /\ bufOk' = [bufOk EXCEPT ![t] = ok]
    /\ tstart' = [tstart EXCEPT ![t] = <<buf_timestamp[f], buf_lim[f]>>]
    /\ UNCHANGED <<producerVars, stateVars, ret>>

(* down_interruptible(&state->lock); at *f_pos == 0 the update loop runs,   *)
(* otherwise the cached record is continued.                                *)
Down(t) ==
    LET f == FileOf(t) IN
    /\ pc[t] = "down"
    /\ lock[f] = NoThread
    /\ lock' = [lock EXCEPT ![f] = t]
    /\ pc' = [pc EXCEPT ![t] = IF pos[t] = 0 THEN "update" ELSE "copy"]
    /\ UNCHANGED <<producerVars, isOpen, sensor, type, buf_data, buf_lim,
                   buf_timestamp, f_pos, pos, cnt, bufOk, ret, ghostVars>>

(* lunix_chrdev_state_update with new data: snapshot (value, last_update)  *)
(* under the sensor spinlock, translate through the kind's lookup table,   *)
(* format into buf_data and record the snapshot's timestamp.               *)
UpdateRefresh(t) ==
    LET f == FileOf(t)
        v == Lookup[type[f]][values[sensor[f]][type[f]]]
    IN
    /\ pc[t] = "update"
    /\ NeedsRefresh(f)
    /\ buf_data' = [buf_data EXCEPT ![f] = FormatBuf(v)]
    /\ buf_lim' = [buf_lim EXCEPT ![f] = FormatLim(v)]
    /\ buf_timestamp' = [buf_timestamp EXCEPT ![f] = SlotTs(f)]
    /\ pc' = [pc EXCEPT ![t] = "copy"]
    /\ UNCHANGED <<producerVars, isOpen, sensor, type, lock, f_pos,
                   pos, cnt, bufOk, ret, ghostVars>>

\* Mutant: `state->buf_lim = 0` (line 102) moved before the freshness check.
UpdateStale_ResetLim(t) ==
    LET f == FileOf(t) IN
    /\ pc[t] = "update"
    /\ ~NeedsRefresh(f)
    /\ lock' = [lock EXCEPT ![f] = NoThread]
    /\ buf_lim' = [buf_lim EXCEPT ![f] = 0]
    /\ pc' = [pc EXCEPT ![t] = "wait"]
    /\ UNCHANGED <<producerVars, isOpen, sensor, type, buf_data,
                   buf_timestamp, f_pos, pos, cnt, bufOk, ret, ghostVars>>

\* Mutant: the up() before the wait (line 205) forgotten.
UpdateStale_KeepLock(t) ==
    /\ pc[t] = "update"
    /\ ~NeedsRefresh(FileOf(t))
    /\ pc' = [pc EXCEPT ![t] = "wait"]
    /\ UNCHANGED <<producerVars, stateVars, pos, cnt, bufOk, ret, ghostVars>>

(* lunix_chrdev_state_update found nothing new (-EAGAIN): up() and go to  *)
(* sleep on the sensor's wait queue.                                       *)
UpdateStale(t) ==
    LET f == FileOf(t) IN
    /\ pc[t] = "update"
    /\ ~NeedsRefresh(f)
    /\ lock' = [lock EXCEPT ![f] = NoThread]
    /\ pc' = [pc EXCEPT ![t] = "wait"]
    /\ UNCHANGED <<producerVars, isOpen, sensor, type, buf_data, buf_lim,
                   buf_timestamp, f_pos, pos, cnt, bufOk, ret, ghostVars>>

(* wait_event_interruptible(sensor->wq, buf_timestamp < last_update)       *)
(* returns once the condition holds; a wake-up that finds it false sleeps  *)
(* again.                                                                   *)
\* Mutant: the wait condition off by one.
WaitCondition_OffByOne(t) == buf_timestamp[FileOf(t)] + 1 < SlotTs(FileOf(t))

WaitCondition(t) == buf_timestamp[FileOf(t)] < SlotTs(FileOf(t))

WaitWake(t) ==
    /\ pc[t] = "wait"
    /\ WaitCondition(t)
    /\ pc' = [pc EXCEPT ![t] = "relock"]
    /\ UNCHANGED <<producerVars, stateVars, pos, cnt, bufOk, ret, ghostVars>>

(* down_interruptible again, then the loop retries the update.             *)
Relock(t) ==
    LET f == FileOf(t) IN
    /\ pc[t] = "relock"
    /\ lock[f] = NoThread
    /\ lock' = [lock EXCEPT ![f] = t]
    /\ pc' = [pc EXCEPT ![t] = "update"]
    /\ UNCHANGED <<producerVars, isOpen, sensor, type, buf_data, buf_lim,
                   buf_timestamp, f_pos, pos, cnt, bufOk, ret, ghostVars>>

(* A thread sleeping in down_interruptible or wait_event_interruptible     *)
(* receives a signal: the call returns -ERESTARTSYS with the semaphore not *)
(* held (it was released before the wait, or never acquired).               *)
Blocked(t) ==
    \/ pc[t] \in {"down", "relock"} /\ lock[FileOf(t)] # NoThread
    \/ pc[t] = "wait" /\ ~WaitCondition(t)

Interrupt(t) ==
    /\ Blocked(t)
    /\ pc' = [pc EXCEPT ![t] = "ret"]
    /\ ret' = [ret EXCEPT ![t] = ERESTARTSYS]
    /\ UNCHANGED <<producerVars, stateVars, pos, cnt, bufOk, ghostVars>>

(* Lines 216-243: readable_amount = buf_lim - *f_pos.  At *f_pos == 0 with *)
(* cnt > readable_amount the whole record and a '\n' are delivered and     *)
(* *f_pos = buf_lim; otherwise cnt is cut to readable_amount (compared as  *)
(* size_t, so a negative readable_amount leaves cnt as it is) and *f_pos   *)
(* advances by cnt.  copy_to_user failing gives -EFAULT and skips the      *)
(* reset of *f_pos to 0 once it reaches buf_lim.  up() in every case.      *)
Readable(t) == buf_lim[FileOf(t)] - pos[t]
FullRecord(t) == pos[t] = 0 /\ cnt[t] > Readable(t)
\* Mutant: cnt not cut to readable_amount (line 223 dropped).
CopyCount_NoClamp(t) ==
    IF FullRecord(t) THEN Readable(t) + 1 ELSE cnt[t]

CopyCount(t) ==
    IF FullRecord(t) THEN Readable(t) + 1
    ELSE IF Readable(t) < 0 \/ cnt[t] <= Readable(t) THEN cnt[t]
    ELSE Readable(t)
CopyEndPos(t) ==
    IF FullRecord(t) THEN buf_lim[FileOf(t)] ELSE pos[t] + CopyCount(t)
\* Mutant: the reset of line 237 tests `>` instead of `>=`.
NextPos_StrictReset(t) ==
    IF CopyEndPos(t) > buf_lim[FileOf(t)] THEN 0 ELSE CopyEndPos(t)

NextPos(t) ==
    IF CopyEndPos(t) >= buf_lim[FileOf(t)] THEN 0 ELSE CopyEndPos(t)

Copy(t) ==
    LET f == FileOf(t) IN
    /\ pc[t] = "copy"
    /\ pos' = [pos EXCEPT ![t] = IF bufOk[t] THEN NextPos(t) ELSE CopyEndPos(t)]
    /\ ret' = [ret EXCEPT ![t] = IF bufOk[t] THEN CopyCount(t) ELSE EFAULT]
    /\ lock' = [lock EXCEPT ![f] = NoThread]
    /\ pc' = [pc EXCEPT ![t] = "ret"]
    /\ UNCHANGED <<producerVars, isOpen, sensor, type, buf_data, buf_lim,
                   buf_timestamp, f_pos, cnt, bufOk, tstart>>

(* Return to the VFS: a non-negative result stores the position back into *)
(* filp->f_pos; an error leaves f_pos as it was.  The thread's locals die. *)
Return(t) ==
    LET f == FileOf(t) IN
    /\ pc[t] = "ret"
    /\ f_pos' = IF ret[t] >= 0 THEN [f_pos EXCEPT ![f] = pos[t]] ELSE f_pos
    /\ pc' = [pc EXCEPT ![t] = "idle"]
    /\ pos' = [pos EXCEPT ![t] = 0]
    /\ cnt' = [cnt EXCEPT ![t] = IdleCnt]
    /\ bufOk' = [bufOk EXCEPT ![t] = TRUE]
    /\ ret' = [ret EXCEPT ![t] = 0]
    /\ tstart' = [tstart EXCEPT ![t] = <<0, 0>>]
    /\ UNCHANGED <<producerVars, isOpen, sensor, type, buf_data, buf_lim,
                   buf_timestamp, lock>>

-----------------------------------------------------------------------------
\* The sensor slots before their first update (lunix-sensors.c, not in
\* src/) and no file open.
Init ==
    /\ last_update = [s \in Sensors |-> [k \in Kinds |-> 0]]
    /\ values = [s \in Sensors |-> [k \in Kinds |-> CHOOSE c \in RawCodes : TRUE]]
    /\ isOpen = [f \in Files |-> FALSE]
    /\ sensor = [f \in Files |-> DeadSensor]
    /\ type = [f \in Files |-> DeadKind]
    /\ buf_data = [f \in Files |-> <<>>]
    /\ buf_lim = [f \in Files |-> 0]
    /\ buf_timestamp = [f \in Files |-> 0]
    /\ lock = [f \in Files |-> NoThread]
    /\ f_pos = [f \in Files |-> 0]
    /\ pc = [t \in Threads |-> "idle"]
    /\ pos = [t \in Threads |-> 0]
    /\ cnt = [t \in Threads |-> IdleCnt]
    /\ bufOk = [t \in Threads |-> TRUE]
    /\ ret = [t \in Threads |-> 0]
    /\ tstart = [t \in Threads |-> <<0, 0>>]

\* The steps a reader thread takes once read() has been called.
ReaderStep(t) ==
    Down(t) \/ UpdateRefresh(t) \/ UpdateStale(t) \/ WaitWake(t)
        \/ Relock(t) \/ Copy(t) \/ Return(t)

Next ==
    \/ \E s \in Sensors, k \in Kinds, c \in RawCodes : SensorUpdate(s, k, c)
    \/ \E f \in Files, s \in Sensors, k \in Kinds : Open(f, s, k)
    \/ \E f \in Files : Release(f)
    \/ \E t \in Threads, n \in ReadSizes, ok \in BOOLEAN : ReadCall(t, n, ok)
    \/ \E t \in Threads : ReaderStep(t)
    \/ \E t \in Threads : Interrupt(t)

(* The scheduler runs every runnable kernel thread, and a semaphore whose  *)
(* holder releases it is taken by a waiter (waiters are FIFO), so each     *)
(* reader's steps are weakly fair.  The producer, the callers of read(),   *)
(* open() and close(), and signals are not.                                *)
Spec == Init /\ [][Next]_vars /\ \A t \in Threads : WF_vars(ReaderStep(t))

-----------------------------------------------------------------------------
TypeOK ==
    /\ last_update \in [Sensors -> [Kinds -> 0..MaxTs]]
    /\ values \in [Sensors -> [Kinds -> RawCodes]]
    /\ isOpen \in [Files -> BOOLEAN]
    /\ sensor \in [Files -> Sensors]
    /\ type \in [Files -> Kinds]
    /\ buf_lim \in [Files -> Nat]
    /\ buf_timestamp \in [Files -> 0..MaxTs]
    /\ lock \in [Files -> Threads \cup {NoThread}]
    /\ f_pos \in [Files -> Nat]
    /\ pc \in [Threads -> Pcs]
    /\ pos \in [Threads -> Nat]
    /\ cnt \in [Threads -> ReadSizes]
    /\ bufOk \in [Threads -> BOOLEAN]
    /\ ret \in [Threads -> {EFAULT, ERESTARTSYS} \cup 0..MiniBuffSize]

Fresh(t) == buf_timestamp[FileOf(t)] < SlotTs(FileOf(t))

(***************************************************************************)
(* Semaphore discipline of lunix_chrdev_read: a file's semaphore is held   *)
(* exactly by the one reader of that file that is in the update loop or    *)
(* the copy, never by a thread asleep on the sensor's wait queue, in       *)
(* down_interruptible, or returned (including the -ERESTARTSYS and         *)
(* -EFAULT exits).                                                          *)
(***************************************************************************)
LockDiscipline ==
    /\ \A f \in Files :
          lock[f] # NoThread =>
             FileOf(lock[f]) = f /\ pc[lock[f]] \in CriticalPcs
    /\ \A t \in Threads : pc[t] \in CriticalPcs => lock[FileOf(t)] = t

(***************************************************************************)
(* The stream never signals end-of-file (spec.md 4.3, 6): every read that  *)
(* returns successfully returns at least one byte.                          *)
(***************************************************************************)
NeverEOF ==
    \A t \in Threads : pc[t] = "ret" => ret[t] # 0

(***************************************************************************)
(* Cancellation safety (spec.md 5, 8): a read interrupted while waiting    *)
(* for the semaphore or for fresh data returns -ERESTARTSYS with the       *)
(* cached record (buf_timestamp, buf_lim) exactly as before the call.      *)
(***************************************************************************)
CancelLeavesSession ==
    \A t \in Threads :
        pc[t] = "ret" /\ ret[t] = ERESTARTSYS =>
            <<buf_timestamp[FileOf(t)], buf_lim[FileOf(t)]>> = tstart[t]

(***************************************************************************)
(* spec.md 7: a read that fails with Fault (copy_to_user failing) leaves   *)
(* the session state as it was before the call.                             *)
(***************************************************************************)
FaultLeavesSession ==
    \A t \in Threads :
        pc[t] = "ret" /\ ret[t] = EFAULT =>
            <<buf_timestamp[FileOf(t)], buf_lim[FileOf(t)]>> = tstart[t]

(***************************************************************************)
(* No missed wake-up (spec.md 8): a read in progress at a moment when its  *)
(* sensor slot holds a sample newer than the cached one returns.            *)
(***************************************************************************)
FreshDataCompletesRead ==
    \A t \in Threads : (pc[t] # "idle" /\ Fresh(t)) ~> pc[t] = "idle"
=============================================================================
