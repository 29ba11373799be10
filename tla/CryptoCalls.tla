----------------------------- MODULE CryptoCalls -----------------------------
(***************************************************************************)
(* What the guest's /dev/cryptodev0 promises its callers, with no         *)
(* semaphore and no virtqueue: a call is asked, the host serves that very *)
(* call in one step (opening a fresh descriptor, closing the file's one,  *)
(* or running the command), and the call returns the host's answer to it. *)
(* A call interrupted before the host saw it is abandoned; an abandoned   *)
(* release still drops the file (the VFS frees it regardless).           *)
(***************************************************************************)
EXTENDS Integers

CONSTANTS Threads, HostFds, None, Cmds

VARIABLES
    state,      \* state[t]: "idle", "asked" or "answered"
    kind,       \* the call in progress: "open", "release", a command, or "none"
    answer,     \* the host's answer to t's call, or None
    fileFd,     \* the host descriptor t's open file holds, or None
    hostOpen    \* the descriptors the host has open

Ask(t) ==
    /\ state[t] = "idle"
    /\ \E k \in {"open", "release"} \cup Cmds :
          /\ (k = "open") = (fileFd[t] = None)
          /\ kind' = [kind EXCEPT ![t] = k]
    /\ state' = [state EXCEPT ![t] = "asked"]
    /\ UNCHANGED <<answer, fileFd, hostOpen>>

Serve(t) ==
    /\ state[t] = "asked"
    /\ \/ /\ kind[t] = "open"
          /\ \E h \in HostFds \ hostOpen :
                hostOpen' = hostOpen \cup {h} /\ answer' = [answer EXCEPT ![t] = h]
       \/ /\ kind[t] = "open"
          /\ answer' = [answer EXCEPT ![t] = -1]
          /\ UNCHANGED hostOpen
       \/ /\ kind[t] = "release"
          /\ hostOpen' = hostOpen \ {fileFd[t]}
          /\ answer' = [answer EXCEPT ![t] = 0]
       \/ /\ kind[t] \in Cmds
          /\ answer' = [answer EXCEPT ![t] = 0]
          /\ UNCHANGED hostOpen
    /\ state' = [state EXCEPT ![t] = "answered"]
    /\ UNCHANGED <<kind, fileFd>>

\* The file's descriptor after a call that returned with answer a.
FileAfter(t, a) ==
    CASE kind[t] = "open" -> IF a >= 0 THEN a ELSE None
      [] kind[t] = "release" -> None
      [] OTHER -> fileFd[t]

Return(t) ==
    /\ state[t] = "answered"
    /\ fileFd' = [fileFd EXCEPT ![t] = FileAfter(t, answer[t])]
    /\ state' = [state EXCEPT ![t] = "idle"]
    /\ kind' = [kind EXCEPT ![t] = "none"]
    /\ answer' = [answer EXCEPT ![t] = None]
    /\ UNCHANGED hostOpen

Abandon(t) ==
    /\ state[t] = "asked"
    /\ fileFd' = [fileFd EXCEPT ![t] = IF kind[t] = "release" THEN None ELSE @]
    /\ state' = [state EXCEPT ![t] = "idle"]
    /\ kind' = [kind EXCEPT ![t] = "none"]
    /\ UNCHANGED <<answer, hostOpen>>

Init ==
    /\ state = [t \in Threads |-> "idle"]
    /\ kind = [t \in Threads |-> "none"]
    /\ answer = [t \in Threads |-> None]
    /\ fileFd = [t \in Threads |-> None]
    /\ hostOpen = {}

Next == \E t \in Threads : Ask(t) \/ Serve(t) \/ Return(t) \/ Abandon(t)

Spec == Init /\ [][Next]_<<state, kind, answer, fileFd, hostOpen>>
=============================================================================
