----------------------------- MODULE LunixLogger -----------------------------
(***************************************************************************)
(* The user-space logger, src/lunix/lunix-user.c, from create_log_files   *)
(* on.  The parent forks one child per (sensor, measurement) pair.  Each  *)
(* child opens its device and its log file and stops itself with          *)
(* raise(SIGSTOP), whether the opens worked or not.  The parent collects  *)
(* N stop reports with waitpid(-1, WUNTRACED), SIGCONTs every child,      *)
(* draws a progress bar for timeOfLog seconds and reaps N children.  A    *)
(* resumed child logs until timeOfLog seconds have passed, under an       *)
(* alarm of timeOfLog + 5 seconds whose handler exits, then sleeps 2      *)
(* seconds and exits.                                                      *)
(*                                                                         *)
(* Time is counted in whole seconds by Tick; the deadlines each process   *)
(* computes from time(NULL) are kept as seconds left.  The records read   *)
(* and written are abstracted away; a read blocks until the sensor has    *)
(* data, which the environment may never provide.  The faults are those   *)
(* of the environment: fork() failing and a child killed from outside,    *)
(* at most MaxFaults of them.  The logger is taken to run from a job-     *)
(* control shell, so its children's process group is orphaned exactly    *)
(* when the parent exits.                                                  *)
(***************************************************************************)
EXTENDS Integers

CONSTANTS
    N,          \* sensorcnt * measurecnt, the number of children
    TimeOfLog,  \* timeOfLog, the [TIME] argument (> 0, line 339)
    MaxFaults   \* bound on fork failures and outside kills

ASSUME N \in Nat \ {0} /\ TimeOfLog \in Nat \ {0} /\ MaxFaults \in Nat

Children == 1 .. N
ALARM_SLACK == 5    \* alarm(timeOfLog + 5), line 220
SLEEP_SECS == 2     \* sleep(2), line 247

VARIABLES
    ppc,            \* the parent: "fork", "waitReady", "cont", "progress",
                    \* "waitTerm", "done" or "exited"
    i,              \* the parent's loop counter (cnt, then i)
    output,         \* the -o option: 1 prints records, 0 draws the bar
    progressLeft,   \* seconds left of the progress-bar loop
    cpc,            \* cpc[c]: "unforked", "open", "stopped", "resumed",
                    \* "check", "read", "sleep", "zombie", "reaped", "dead"
    logOk,          \* both of c's open() calls succeeded
    reported,       \* waitpid has returned c's stop
    endLeft,        \* seconds until c's endTime
    alarmLeft,      \* seconds until c's SIGALRM
    sleepLeft,      \* seconds left of c's sleep(2)
    faults,         \* faults so far
    arrived,        \* history: c has stopped itself
    passed          \* history: c was sent SIGCONT while stopped

parentVars == <<ppc, i, output, progressLeft>>
timers == <<endLeft, alarmLeft, sleepLeft>>
vars == <<parentVars, cpc, logOk, reported, timers, faults, arrived, passed>>

\* The states of a child process that exists and has not terminated.
Living == {"open", "stopped", "resumed", "check", "read", "sleep"}
\* The states in which a child's alarm is armed.
Armed == {"check", "read", "sleep"}
\* A child that is gone, or was never forked.
Gone == {"unforked", "reaped", "dead"}

-----------------------------------------------------------------------------
(* Process exit.                                                           *)

\* A child terminates: a zombie until the parent reaps it, or reaped at
\* once by init when the parent is gone.  Its alarm and timers go with it.
Exit(c) ==
    /\ cpc' = [cpc EXCEPT ![c] = IF ppc = "exited" THEN "dead" ELSE "zombie"]
    /\ endLeft' = [endLeft EXCEPT ![c] = 0]
    /\ alarmLeft' = [alarmLeft EXCEPT ![c] = 0]
    /\ sleepLeft' = [sleepLeft EXCEPT ![c] = 0]

\* The children after the parent's exit, given their states cp: init reaps
\* the zombies, and the now orphaned process group gets SIGHUP and SIGCONT
\* if one of its members is stopped; SIGHUP kills every living child.
Orphaned(cp) ==
    LET hup == \E c \in Children : cp[c] = "stopped"
    IN  [c \in Children |->
            IF cp[c] = "zombie" \/ (hup /\ cp[c] \in Living) THEN "dead" ELSE cp[c]]

\* exit(1) in the parent (lines 44 and 179), with children cp.
ParentExit(cp) ==
    /\ ppc' = "exited"
    /\ cpc' = Orphaned(cp)

-----------------------------------------------------------------------------
(* The parent.                                                             *)

\* Lines 170-180 and 251-252: fork() child cnt + 1; a failed fork exits.
Fork ==
    /\ ppc = "fork"
    /\ \/ /\ cpc' = [cpc EXCEPT ![i + 1] = "open"]
          /\ i' = IF i + 1 = N THEN 0 ELSE i + 1
          /\ ppc' = IF i + 1 = N THEN "waitReady" ELSE "fork"
          /\ UNCHANGED faults
       \/ /\ faults < MaxFaults
          /\ faults' = faults + 1
          /\ ParentExit(cpc)
          /\ UNCHANGED i
    /\ UNCHANGED <<output, progressLeft, logOk, reported, timers, arrived, passed>>

\* Mutant: the ready loop stops one report short.
WaitReady_OneShort ==
    /\ ppc = "waitReady"
    /\ \E c \in Children :
         \/ /\ cpc[c] = "stopped" /\ ~reported[c]
            /\ reported' = [reported EXCEPT ![c] = TRUE]
            /\ i' = IF i + 2 >= N THEN 0 ELSE i + 1
            /\ ppc' = IF i + 2 >= N THEN "cont" ELSE "waitReady"
            /\ UNCHANGED cpc
         \/ /\ cpc[c] = "zombie"
            /\ ParentExit([cpc EXCEPT ![c] = "reaped"])
            /\ UNCHANGED <<i, reported>>
    /\ UNCHANGED <<output, progressLeft, logOk, timers, faults, arrived, passed>>

\* Mutant: the ready loop waits for stops only, never for a death.
WaitReady_IgnoreDeath ==
    /\ ppc = "waitReady"
    /\ \E c \in Children :
         /\ cpc[c] = "stopped" /\ ~reported[c]
         /\ reported' = [reported EXCEPT ![c] = TRUE]
         /\ i' = IF i + 1 = N THEN 0 ELSE i + 1
         /\ ppc' = IF i + 1 = N THEN "cont" ELSE "waitReady"
    /\ UNCHANGED <<output, progressLeft, cpc, logOk, timers, faults, arrived, passed>>

(***************************************************************************)
(* wait_for_ready_children, lines 36-46: waitpid(-1, WUNTRACED) returns a  *)
(* child whose stop it has not reported yet, or reaps a terminated child;  *)
(* anything but a stop makes the parent exit(1).                           *)
(***************************************************************************)
WaitReady ==
    /\ ppc = "waitReady"
    /\ \E c \in Children :
         \/ /\ cpc[c] = "stopped" /\ ~reported[c]
            /\ reported' = [reported EXCEPT ![c] = TRUE]
            /\ i' = IF i + 1 = N THEN 0 ELSE i + 1
            /\ ppc' = IF i + 1 = N THEN "cont" ELSE "waitReady"
            /\ UNCHANGED cpc
         \/ /\ cpc[c] = "zombie"
            /\ ParentExit([cpc EXCEPT ![c] = "reaped"])
            /\ UNCHANGED <<i, reported>>
    /\ UNCHANGED <<output, progressLeft, logOk, timers, faults, arrived, passed>>

\* Mutant: the SIGCONT loop runs while i <= N, one index past pid_table.
Cont_LoopLE ==
    /\ ppc = "cont"
    /\ LET c == i + 1
           wakes == cpc[c] = "stopped"
       IN  /\ cpc' = IF wakes THEN [cpc EXCEPT ![c] = "resumed"] ELSE cpc
           /\ passed' = IF wakes THEN [passed EXCEPT ![c] = TRUE] ELSE passed
    /\ i' = IF i + 1 > N THEN 0 ELSE i + 1
    /\ ppc' = CASE i + 1 <= N -> "cont"
                [] output = 0 -> "progress"
                [] OTHER -> "waitTerm"
    /\ progressLeft' = IF i + 1 > N /\ output = 0 THEN TimeOfLog ELSE progressLeft
    /\ UNCHANGED <<output, logOk, reported, timers, faults, arrived>>

\* Lines 262-265: kill(pid_table[i], SIGCONT); it resumes a stopped child
\* and does nothing to one that has terminated.  After the last one the
\* parent starts the progress bar (output == 0, line 270) or goes on; i
\* goes back to 0, where the next loop's own counter starts (line 55).
Cont ==
    /\ ppc = "cont"
    /\ LET c == i + 1
           wakes == cpc[c] = "stopped"
       IN  /\ cpc' = IF wakes THEN [cpc EXCEPT ![c] = "resumed"] ELSE cpc
           /\ passed' = IF wakes THEN [passed EXCEPT ![c] = TRUE] ELSE passed
    /\ i' = IF i + 1 = N THEN 0 ELSE i + 1
    /\ ppc' = CASE i + 1 < N -> "cont"
                [] output = 0 -> "progress"
                [] OTHER -> "waitTerm"
    /\ progressLeft' = IF i + 1 = N /\ output = 0 THEN TimeOfLog ELSE progressLeft
    /\ UNCHANGED <<output, logOk, reported, timers, faults, arrived>>

\* Lines 277-297: the bar is redrawn until endTimer; then "Finishing...".
ProgressDone ==
    /\ ppc = "progress"
    /\ progressLeft = 0
    /\ ppc' = "waitTerm"
    /\ UNCHANGED <<i, output, progressLeft, cpc, logOk, reported, timers,
                   faults, arrived, passed>>

(***************************************************************************)
(* wait_for_terminated_children, lines 55-65: waitpid(-1, 0) blocks until  *)
(* a child has terminated and reaps it.  Its -1 return (no child left)     *)
(* cannot happen here: each of the N children is reaped once, and a reap   *)
(* in the ready loop ends the parent.                                      *)
(***************************************************************************)
WaitTerm ==
    /\ ppc = "waitTerm"
    /\ \E c \in Children :
         /\ cpc[c] = "zombie"
         /\ cpc' = [cpc EXCEPT ![c] = "reaped"]
    /\ i' = IF i + 1 = N THEN 0 ELSE i + 1
    /\ ppc' = IF i + 1 = N THEN "done" ELSE "waitTerm"
    /\ UNCHANGED <<output, progressLeft, logOk, reported, timers, faults,
                   arrived, passed>>

-----------------------------------------------------------------------------
(* A child.                                                                *)

\* Lines 194-215: open /dev/lunix<S>-<kind> and the log file, closing the
\* first if the second fails; then raise(SIGSTOP) on every path.
ChildOpen(c) ==
    /\ cpc[c] = "open"
    /\ cpc' = [cpc EXCEPT ![c] = "stopped"]
    /\ \E ok \in BOOLEAN : logOk' = [logOk EXCEPT ![c] = ok]
    /\ arrived' = [arrived EXCEPT ![c] = TRUE]
    /\ UNCHANGED <<parentVars, reported, timers, faults, passed>>

\* After SIGCONT: a child whose opens failed exits (lines 200, 212); the
\* others install the handler, compute endTime and arm the alarm (216-220).
ChildResume(c) ==
    /\ cpc[c] = "resumed"
    /\ \/ /\ logOk[c]
          /\ cpc' = [cpc EXCEPT ![c] = "check"]
          /\ endLeft' = [endLeft EXCEPT ![c] = TimeOfLog]
          /\ alarmLeft' = [alarmLeft EXCEPT ![c] = TimeOfLog + ALARM_SLACK]
          /\ UNCHANGED sleepLeft
       \/ /\ ~logOk[c]
          /\ Exit(c)
    /\ UNCHANGED <<parentVars, logOk, reported, faults, arrived, passed>>

\* Line 222: loop while startTime < endTime; after the loop close both
\* descriptors and sleep(2) (lines 245-247).
ChildCheck(c) ==
    /\ cpc[c] = "check"
    /\ \/ /\ endLeft[c] > 0
          /\ cpc' = [cpc EXCEPT ![c] = "read"]
          /\ UNCHANGED sleepLeft
       \/ /\ endLeft[c] = 0
          /\ cpc' = [cpc EXCEPT ![c] = "sleep"]
          /\ sleepLeft' = [sleepLeft EXCEPT ![c] = SLEEP_SECS]
    /\ UNCHANGED <<parentVars, logOk, reported, endLeft, alarmLeft, faults,
                   arrived, passed>>

\* Lines 224-240: the blocking read returns a record, which is logged;
\* startTime = time(NULL).
ReadReturns(c) ==
    /\ cpc[c] = "read"
    /\ cpc' = [cpc EXCEPT ![c] = "check"]
    /\ UNCHANGED <<parentVars, logOk, reported, timers, faults, arrived, passed>>

\* Line 248: exit(0) after the sleep.
SleepDone(c) ==
    /\ cpc[c] = "sleep"
    /\ sleepLeft[c] = 0
    /\ Exit(c)
    /\ UNCHANGED <<parentVars, logOk, reported, faults, arrived, passed>>

\* alarm_handler, lines 23-28: SIGALRM ends the child wherever it is.
Alarm(c) ==
    /\ cpc[c] \in Armed
    /\ alarmLeft[c] = 0
    /\ Exit(c)
    /\ UNCHANGED <<parentVars, logOk, reported, faults, arrived, passed>>

-----------------------------------------------------------------------------
(* The environment.                                                        *)

\* A living child is killed from outside (SIGKILL, the OOM killer).
Kill(c) ==
    /\ faults < MaxFaults
    /\ cpc[c] \in Living
    /\ faults' = faults + 1
    /\ Exit(c)
    /\ UNCHANGED <<parentVars, logOk, reported, arrived, passed>>

Dec(f) == [c \in Children |-> IF f[c] > 0 THEN f[c] - 1 ELSE 0]

\* One second passes for every process at once.
Tick ==
    /\ \/ progressLeft > 0
       \/ \E c \in Children : endLeft[c] + alarmLeft[c] + sleepLeft[c] > 0
    /\ progressLeft' = IF progressLeft > 0 THEN progressLeft - 1 ELSE 0
    /\ endLeft' = Dec(endLeft)
    /\ alarmLeft' = Dec(alarmLeft)
    /\ sleepLeft' = Dec(sleepLeft)
    /\ UNCHANGED <<ppc, i, output, cpc, logOk, reported, faults, arrived, passed>>

-----------------------------------------------------------------------------

\* create_log_files entered with cnt = 0 (line 170); output is -o.
Init ==
    /\ ppc = "fork"
    /\ i = 0
    /\ output \in {0, 1}
    /\ progressLeft = 0
    /\ cpc = [c \in Children |-> "unforked"]
    /\ logOk = [c \in Children |-> FALSE]
    /\ reported = [c \in Children |-> FALSE]
    /\ endLeft = [c \in Children |-> 0]
    /\ alarmLeft = [c \in Children |-> 0]
    /\ sleepLeft = [c \in Children |-> 0]
    /\ faults = 0
    /\ arrived = [c \in Children |-> FALSE]
    /\ passed = [c \in Children |-> FALSE]

\* Every process has ended (or was never forked).
Terminated ==
    /\ ppc \in {"done", "exited"}
    /\ \A c \in Children : cpc[c] \in Gone

ParentStep == Fork \/ WaitReady \/ Cont \/ ProgressDone \/ WaitTerm
ChildStep(c) == ChildOpen(c) \/ ChildResume(c) \/ ChildCheck(c) \/ SleepDone(c) \/ Alarm(c)

Next ==
    \/ ParentStep
    \/ \E c \in Children : ChildStep(c) \/ ReadReturns(c) \/ Kill(c)
    \/ Tick
    \/ Terminated /\ UNCHANGED vars

\* The kernel runs every runnable process and time passes; a sensor need
\* never deliver data, and faults are never forced.
Spec ==
    /\ Init /\ [][Next]_vars
    /\ WF_vars(ParentStep) /\ WF_vars(Tick)
    /\ \A c \in Children : WF_vars(ChildStep(c))

-----------------------------------------------------------------------------
(* Properties.                                                             *)

\* Types.  i \in 0 .. N - 1: the counters of the parent's loops stay below
\* N, so the fork and SIGCONT loops index pid_table[sensorcnt * measurecnt]
\* (lines 167, 251, 264) within its bounds.
TypeOK ==
    /\ ppc \in {"fork", "waitReady", "cont", "progress", "waitTerm", "done", "exited"}
    /\ i \in 0 .. N - 1
    /\ output \in {0, 1}
    /\ progressLeft \in 0 .. TimeOfLog
    /\ cpc \in [Children -> Living \cup Gone \cup {"zombie"}]
    /\ logOk \in [Children -> BOOLEAN]
    /\ reported \in [Children -> BOOLEAN]
    /\ endLeft \in [Children -> 0 .. TimeOfLog]
    /\ alarmLeft \in [Children -> 0 .. TimeOfLog + ALARM_SLACK]
    /\ sleepLeft \in [Children -> 0 .. SLEEP_SECS]
    /\ faults \in 0 .. MaxFaults
    /\ arrived \in [Children -> BOOLEAN]
    /\ passed \in [Children -> BOOLEAN]

\* The SIGSTOP / WUNTRACED / SIGCONT handshake of lines 215, 258 and
\* 262-265 implements a start barrier: no child starts logging before
\* every child has opened its files and stopped.
Barrier == INSTANCE StartBarrier WITH
    Procs <- Children,
    phase <- [c \in Children |->
                IF passed[c] THEN "passed" ELSE IF arrived[c] THEN "arrived" ELSE "outside"]
BarrierSpec == Barrier!Spec

\* The parent always ends: it returns after reaping every child, or exits.
ParentEnds == <>(ppc \in {"done", "exited"})

\* Every process of the logger ends: no child is left stopped or blocked
\* for ever, whatever the parent did.
AllEnd == <>Terminated
=============================================================================
