----------------------------- MODULE CryptoChrdev -----------------------------
(***************************************************************************)
(* The virtio-cryptodev guest character device,                           *)
(* src/cryptodev/virtio-cryptodev/guest/crypto-chrdev.c.                   *)
(*                                                                         *)
(* Every open, release and ioctl of /dev/cryptodev0 is forwarded to the   *)
(* host: the caller builds scatter-gather buffers, takes crdev->sem with  *)
(* down_interruptible, adds the buffers to the device's one virtqueue,    *)
(* kicks the host and busy-waits in virtqueue_get_buf until a used buffer *)
(* comes back, then up()s the semaphore.  The host (QEMU's backend, not   *)
(* in this repository) takes requests from the avail ring in order and    *)
(* returns one answer each on the used ring.                               *)
(*                                                                         *)
(* Each caller thread has its own open file.  Buffer contents are         *)
(* abstracted to the request kind and the host descriptor; user pointers  *)
(* are abstracted to whether each copy_from_user / copy_to_user succeeds, *)
(* which the caller chooses.  kzalloc of these few bytes is taken never   *)
(* to fail, and the memory a call leaves allocated is not tracked.         *)
(***************************************************************************)
EXTENDS Integers, Sequences, FiniteSets

CONSTANTS
    Threads,    \* callers, each with its own open file
    HostFds,    \* descriptors the host's open() may return
    None        \* model value: semaphore free, no host descriptor

ASSUME HostFds \subseteq Nat /\ None \notin Threads \cup HostFds

Cmds == {"CIOCGSESSION", "CIOCFSESSION", "CIOCCRYPT", "OTHER"}
EFAULT == -14
ERESTARTSYS == -512

VARIABLES
    sem,        \* crdev->sem: the thread holding it, or None
    avail,      \* requests added to the virtqueue, not yet taken by the host
    used,       \* answers the host returned, not yet taken by virtqueue_get_buf
    hostOpen,   \* descriptors the host has open for the guest
    isOpen,     \* isOpen[t]: t's file is open (filp->private_data = crof)
    crofFd,     \* crof->host_fd
    pc,         \* "idle", "down", "wait"
    op,         \* the last call: "open", "release" or an ioctl command
    ret         \* the value the last call returned

vars == <<sem, avail, used, hostOpen, isOpen, crofFd, pc, op, ret>>

Request == [from : Threads, op : {"open", "release"} \cup Cmds, fd : HostFds \cup {-1}]
Answer == [to : Threads, val : Int]

-----------------------------------------------------------------------------
(* The calls up to the point where they need the device.                  *)

\* crypto_chrdev_open, lines 62-113: allocate, look up the device, and
\* prepare the request; nothing can fail on the way.
Open(t) ==
    /\ pc[t] = "idle" /\ ~isOpen[t]
    /\ pc' = [pc EXCEPT ![t] = "down"]
    /\ op' = [op EXCEPT ![t] = "open"]
    /\ UNCHANGED <<sem, avail, used, hostOpen, isOpen, crofFd, ret>>

\* crypto_chrdev_release, lines 141-163.
Release(t) ==
    /\ pc[t] = "idle" /\ isOpen[t]
    /\ pc' = [pc EXCEPT ![t] = "down"]
    /\ op' = [op EXCEPT ![t] = "release"]
    /\ UNCHANGED <<sem, avail, used, hostOpen, isOpen, crofFd, ret>>

(***************************************************************************)
(* crypto_chrdev_ioctl, lines 200-276, 294-302 and 312-337: allocate the   *)
(* common buffers, then copy the command's arguments from user space.  A   *)
(* failing copy returns -EFAULT at once (lines 265, 269, 298, 316, 319,    *)
(* 322); an unknown command jumps to fail (line 359) and returns ret,     *)
(* still 0.                                                                *)
(***************************************************************************)
Ioctl(t, c) ==
    /\ pc[t] = "idle" /\ isOpen[t]
    /\ op' = [op EXCEPT ![t] = c]
    /\ \/ /\ c # "OTHER"
          /\ pc' = [pc EXCEPT ![t] = "down"]
          /\ UNCHANGED ret
       \/ /\ c # "OTHER"
          /\ ret' = [ret EXCEPT ![t] = EFAULT]
          /\ UNCHANGED pc
       \/ /\ c = "OTHER"
          /\ ret' = [ret EXCEPT ![t] = 0]
          /\ UNCHANGED pc
    /\ UNCHANGED <<sem, avail, used, hostOpen, isOpen, crofFd>>

-----------------------------------------------------------------------------
(* The device protocol.                                                    *)

\* The request a caller sends: its kind and the host descriptor in crof.
RequestOf(t) ==
    [from |-> t, op |-> op[t], fd |-> IF op[t] = "open" THEN -1 ELSE crofFd[t]]

\* Mutant: the ioctl path adds its request without taking the semaphore.
Down_NoSem(t) ==
    /\ pc[t] = "down"
    /\ (sem = None \/ op[t] \in Cmds)
    /\ sem' = IF op[t] \in Cmds THEN sem ELSE t
    /\ avail' = Append(avail, RequestOf(t))
    /\ pc' = [pc EXCEPT ![t] = "wait"]
    /\ UNCHANGED <<used, hostOpen, isOpen, crofFd, op, ret>>

\* Lines 115-119, 165-169 and virtqueue_helper (187-191): down_interruptible
\* succeeds, the buffers are added to the virtqueue and the host is kicked.
Down(t) ==
    /\ pc[t] = "down"
    /\ sem = None
    /\ sem' = t
    /\ avail' = Append(avail, RequestOf(t))
    /\ pc' = [pc EXCEPT ![t] = "wait"]
    /\ UNCHANGED <<used, hostOpen, isOpen, crofFd, op, ret>>

(***************************************************************************)
(* A signal while the caller sleeps in down_interruptible: -ERESTARTSYS    *)
(* (lines 116, 166, 188 and the ioctl returns at 279, 306 and 341).  A     *)
(* release returning early never reaches the host, and the VFS frees the   *)
(* file anyway.                                                            *)
(***************************************************************************)
Interrupt(t) ==
    /\ pc[t] = "down"
    /\ sem # None
    /\ isOpen' = IF op[t] = "release" THEN [isOpen EXCEPT ![t] = FALSE] ELSE isOpen
    /\ crofFd' = IF op[t] = "release" THEN [crofFd EXCEPT ![t] = None] ELSE crofFd
    /\ ret' = [ret EXCEPT ![t] = ERESTARTSYS]
    /\ pc' = [pc EXCEPT ![t] = "idle"]
    /\ UNCHANGED <<sem, avail, used, hostOpen, op>>

(***************************************************************************)
(* The host, in order: open() on /dev/crypto gives a new descriptor or     *)
(* fails with -1; close() frees the descriptor; an ioctl returns 0.        *)
(***************************************************************************)
HostServe ==
    /\ avail # <<>>
    /\ LET r == Head(avail)
           answer(v) == used' = Append(used, [to |-> r.from, val |-> v])
       IN  \/ /\ r.op = "open"
              /\ \E h \in HostFds \ hostOpen :
                    /\ hostOpen' = hostOpen \cup {h}
                    /\ answer(h)
           \/ /\ r.op = "open"
              /\ answer(-1)
              /\ UNCHANGED hostOpen
           \/ /\ r.op = "release"
              /\ hostOpen' = hostOpen \ {r.fd}
              /\ answer(0)
           \/ /\ r.op \in Cmds
              /\ answer(0)
              /\ UNCHANGED hostOpen
    /\ avail' = Tail(avail)
    /\ UNCHANGED <<sem, isOpen, crofFd, pc, op, ret>>

\* Mutant: open returns the host's descriptor instead of 0.
OpenOutcome_RetFd(t, v) ==
    /\ isOpen' = [isOpen EXCEPT ![t] = v >= 0]
    /\ crofFd' = [crofFd EXCEPT ![t] = IF v >= 0 THEN v ELSE None]
    /\ ret' = [ret EXCEPT ![t] = IF v >= 0 THEN v ELSE -1]

\* Lines 126-138: crof->host_fd = answer; a negative answer frees crof and
\* returns -1.
OpenOutcome(t, v) ==
    /\ isOpen' = [isOpen EXCEPT ![t] = v >= 0]
    /\ crofFd' = [crofFd EXCEPT ![t] = IF v >= 0 THEN v ELSE None]
    /\ ret' = [ret EXCEPT ![t] = IF v >= 0 THEN 0 ELSE -1]

\* Lines 175-179: the file is gone and release returns 0.
ReleaseOutcome(t) ==
    /\ isOpen' = [isOpen EXCEPT ![t] = FALSE]
    /\ crofFd' = [crofFd EXCEPT ![t] = None]
    /\ ret' = [ret EXCEPT ![t] = 0]

(***************************************************************************)
(* Lines 280-370: ret = the host's answer.  CIOCGSESSION copies the       *)
(* session back and CIOCCRYPT the result, and those copies may fault:      *)
(* -EFAULT at 285, 288 and 348, after the host has done the work.  A NULL  *)
(* cop->dst (346) skips the copy and returns ret.                          *)
(***************************************************************************)
IoctlOutcome(t, v) ==
    /\ \/ ret' = [ret EXCEPT ![t] = v]
       \/ /\ op[t] \in {"CIOCGSESSION", "CIOCCRYPT"}
          /\ ret' = [ret EXCEPT ![t] = EFAULT]
    /\ UNCHANGED <<isOpen, crofFd>>

\* The outcome of a call once the host has answered v.
Outcome(t, v) ==
    CASE op[t] = "open" -> OpenOutcome(t, v)
      [] op[t] = "release" -> ReleaseOutcome(t)
      [] OTHER -> IoctlOutcome(t, v)

\* Mutant: the semaphore is not released after the host answers.
Complete_NoUp(t) ==
    /\ pc[t] = "wait"
    /\ used # <<>>
    /\ Outcome(t, Head(used).val)
    /\ used' = Tail(used)
    /\ pc' = [pc EXCEPT ![t] = "idle"]
    /\ UNCHANGED <<sem, avail, hostOpen, op>>

\* Lines 124-125, 174-175, 193-195: the busy-wait ends when
\* virtqueue_get_buf returns a used buffer, then up(); the call finishes.
Complete(t) ==
    /\ pc[t] = "wait"
    /\ used # <<>>
    /\ Outcome(t, Head(used).val)
    /\ used' = Tail(used)
    /\ sem' = None
    /\ pc' = [pc EXCEPT ![t] = "idle"]
    /\ UNCHANGED <<avail, hostOpen, op>>

-----------------------------------------------------------------------------

\* The device as the probe leaves it (not in src/): crdev->sem up and the
\* virtqueue empty; no file is open.
Init ==
    /\ sem = None
    /\ avail = <<>>
    /\ used = <<>>
    /\ hostOpen = {}
    /\ isOpen = [t \in Threads |-> FALSE]
    /\ crofFd = [t \in Threads |-> None]
    /\ pc = [t \in Threads |-> "idle"]
    /\ op = [t \in Threads |-> "none"]
    /\ ret = [t \in Threads |-> 0]

\* A caller's steps once its call has started.
CallStep(t) == Down(t) \/ Complete(t)

Next ==
    \/ \E t \in Threads :
          \/ Open(t) \/ Release(t) \/ \E c \in Cmds : Ioctl(t, c)
          \/ CallStep(t) \/ Interrupt(t)
    \/ HostServe

(***************************************************************************)
(* Fairness: the host serves a kicked queue; a caller spinning in          *)
(* virtqueue_get_buf keeps running; Linux semaphores hand the semaphore   *)
(* to the first sleeper at up(), so a caller that is repeatedly able to    *)
(* take it does (strong fairness).  Callers and signals are not fair.      *)
(***************************************************************************)
Spec == Init /\ [][Next]_vars /\ WF_vars(HostServe)
        /\ \A t \in Threads : SF_vars(Down(t)) /\ WF_vars(Complete(t))

-----------------------------------------------------------------------------

TypeOK ==
    /\ sem \in Threads \cup {None}
    /\ avail \in Seq(Request)
    /\ used \in Seq(Answer)
    /\ hostOpen \subseteq HostFds
    /\ isOpen \in [Threads -> BOOLEAN]
    /\ crofFd \in [Threads -> HostFds \cup {None}]
    /\ pc \in [Threads -> {"idle", "down", "wait"}]
    /\ op \in [Threads -> {"none", "open", "release"} \cup Cmds]
    /\ ret \in [Threads -> {0, -1, EFAULT, ERESTARTSYS}]

(***************************************************************************)
(* The device implements CryptoCalls: each call that reaches the device   *)
(* is served by the host as its own request and returns the host's answer *)
(* to it, whatever the other callers do meanwhile.  A call is "asked"     *)
(* from its start until its answer is on the used ring, "answered" until  *)
(* virtqueue_get_buf hands it back (lines 124, 174, 193); the answer it   *)
(* returns with is the one addressed to it.                               *)
(***************************************************************************)
Answered(t) == \E i \in DOMAIN used : used[i].to = t
AnswerTo(t) == (CHOOSE i \in DOMAIN used : used[i].to = t)
Calls == INSTANCE CryptoCalls WITH
    state <- [t \in Threads |-> IF pc[t] = "idle" THEN "idle"
                                ELSE IF Answered(t) THEN "answered" ELSE "asked"],
    kind <- [t \in Threads |-> IF pc[t] = "idle" THEN "none" ELSE op[t]],
    answer <- [t \in Threads |-> IF Answered(t) THEN used[AnswerTo(t)].val ELSE None],
    fileFd <- [t \in Threads |-> IF isOpen[t] THEN crofFd[t] ELSE None]
CallsRefined == Calls!Spec

\* Every open, release and ioctl that reaches the device returns: the
\* busy-waits of lines 124, 174 and 193 end and the semaphore is released.
CallsReturn ==
    \A t \in Threads : pc[t] # "idle" ~> pc[t] = "idle"

\* A host descriptor stays open only while a guest file holds it in
\* crof->host_fd, or while an open or release is in flight: release
\* (lines 141-181) always closes the host's descriptor.
HostFdsHeld ==
    \A h \in hostOpen :
        \/ \E t \in Threads : isOpen[t] /\ crofFd[t] = h
        \/ \E t \in Threads : pc[t] # "idle" /\ op[t] \in {"open", "release"}

=============================================================================
