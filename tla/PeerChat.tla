------------------------------- MODULE PeerChat -------------------------------
(***************************************************************************)
(* The one-to-one chat of src/cryptodev/chat/peer_to_peer/tasks-1-2: one  *)
(* connection between chat-server and chat-client, each of which runs     *)
(* pollooper() of chat-app-commons.h on {its socket, its stdin}.          *)
(*                                                                         *)
(* One pollooper iteration is three steps, because the other process runs *)
(* between them: poll() and its snapshot of revents, the socket branch    *)
(* (read and print), and the stdin branch (fgets and insist_write).  The  *)
(* user of each side types lines, ends stdin (Ctrl-D) or presses Ctrl-C;  *)
(* none of these is forced to happen.                                      *)
(*                                                                         *)
(* The kernel's side of the connection is what pollooper sees of it:      *)
(* unread lines in each receive queue, and what has arrived from the     *)
(* other end after them: nothing, its FIN, or an RST.  A socket closed   *)
(* with unread data sends RST instead of FIN, and data that reaches a    *)
(* closed socket is answered with RST.  A reset socket polls as           *)
(* POLLIN|POLLERR|POLLHUP and makes read and write fail.  Message bytes   *)
(* are abstracted to whole lines.  CryptEnable is the CRYPT_ENABLE build, *)
(* which zero-pads every line to whole AES blocks before it is sent; of   *)
(* the bytes one read() returns it prints the text up to the first NUL.   *)
(***************************************************************************)
EXTENDS Naturals

CONSTANTS
    MaxLines,   \* lines each user types at most
    CryptEnable \* TRUE: built with -DCRYPT_ENABLE

ASSUME CryptEnable \in BOOLEAN

Peers == {"server", "client"}
Other(p) == IF p = "server" THEN "client" ELSE "server"

VARIABLES
    pc,         \* "poll", "sock", "stdin" (pollooper), "ret0", "ret1"
                \* (its return value), "accept" (server back in accept), "dead"
    rev,        \* revents of the last poll: [sock, in], sets of flags
    stdin,      \* "empty", "line" (a line is waiting) or "eof"
    typed,      \* lines typed so far
    rcv,        \* unread lines in the receive queue of p's socket
    arrived,    \* what came after them from the other end: "none", "fin", "rst"
    closed,     \* p's socket is closed
    delivered,  \* lines the other side's writes have queued at p
    printed     \* lines p has printed as "Other: ..."

vars == <<pc, rev, stdin, typed, rcv, arrived, closed, delivered, printed>>

LoopPcs == {"poll", "sock", "stdin"}
Flags == SUBSET {"IN", "ERR", "HUP"}
POLLIN == {"IN"}

\* What poll() reports for the socket and for stdin (events = POLLIN; ERR
\* and HUP are always reported).
SockRevents(p) ==
    CASE arrived[p] = "rst" -> {"IN", "ERR", "HUP"}
      [] rcv[p] > 0 \/ arrived[p] = "fin" -> POLLIN
      [] OTHER -> {}
StdinRevents(p) == IF stdin[p] = "empty" THEN {} ELSE POLLIN

\* The kernel closes p's socket: RST if data is left unread, else FIN.
CloseSocket(p) ==
    /\ closed' = [closed EXCEPT ![p] = TRUE]
    /\ arrived' = [arrived EXCEPT ![Other(p)] =
                      IF rcv[p] > 0 \/ @ = "rst" THEN "rst" ELSE "fin"]

-----------------------------------------------------------------------------
(* pollooper, chat-app-commons.h lines 119-180.                            *)

\* Lines 123-133: poll() with no timeout blocks until a descriptor is
\* ready; it never returns 0 or -1 here (SIGINT kills the process).
Poll(p) ==
    /\ pc[p] = "poll"
    /\ SockRevents(p) \cup StdinRevents(p) # {}
    /\ rev' = [rev EXCEPT ![p] = [sock |-> SockRevents(p), in |-> StdinRevents(p)]]
    /\ pc' = [pc EXCEPT ![p] = "sock"]
    /\ UNCHANGED <<stdin, typed, rcv, arrived, closed, delivered, printed>>

\* Lines 150-155: the lines printed of k whole lines one read() returned.
\* Without encryption the n bytes are terminated and printed whole; with
\* it they are decrypted and printed as a C string, which ends at the
\* zero padding of the first line.
PrintedLines(k) == IF CryptEnable THEN 1 ELSE k

\* Lines 135-156: only when revents is exactly POLLIN, read from the other
\* side; data is printed, 0 (FIN) or -1 (RST) breaks out of the loop.
\* One read() takes any number of the queued lines (up to 256 bytes).
ReadOther(p) ==
    /\ pc[p] = "sock"
    /\ \/ /\ rev[p].sock # POLLIN
          /\ pc' = [pc EXCEPT ![p] = "stdin"]
          /\ UNCHANGED <<rcv, printed>>
       \/ /\ rev[p].sock = POLLIN
          /\ rcv[p] > 0
          /\ \E k \in 1..rcv[p] :
                /\ rcv' = [rcv EXCEPT ![p] = @ - k]
                /\ printed' = [printed EXCEPT ![p] = @ + PrintedLines(k)]
          /\ pc' = [pc EXCEPT ![p] = "stdin"]
       \/ /\ rev[p].sock = POLLIN
          /\ rcv[p] = 0
          /\ pc' = [pc EXCEPT ![p] = "ret0"]
          /\ UNCHANGED <<rcv, printed>>
    /\ UNCHANGED <<rev, stdin, typed, arrived, closed, delivered>>

\* insist_write, lines 104-117, of one line to p's socket: it fails once
\* the connection is reset; otherwise the line is queued at the other end,
\* or, if the other end is closed, answered with RST.
InsistWrite(p) ==
    /\ arrived[p] # "rst"
    /\ IF closed[Other(p)]
          THEN /\ arrived' = [arrived EXCEPT ![p] = "rst"]
               /\ UNCHANGED <<rcv, delivered>>
          ELSE /\ rcv' = [rcv EXCEPT ![Other(p)] = @ + 1]
               /\ delivered' = [delivered EXCEPT ![Other(p)] = @ + 1]
               /\ UNCHANGED arrived

\* Lines 157-177: only when revents is exactly POLLIN, fgets a line; at
\* end of input return 1; a failed write breaks out of the loop.
ReadStdin(p) ==
    /\ pc[p] = "stdin"
    /\ \/ /\ rev[p].in # POLLIN
          /\ pc' = [pc EXCEPT ![p] = "poll"]
          /\ UNCHANGED <<stdin, rcv, arrived, delivered>>
       \/ /\ rev[p].in = POLLIN
          /\ stdin[p] = "eof"
          /\ pc' = [pc EXCEPT ![p] = "ret1"]
          /\ UNCHANGED <<stdin, rcv, arrived, delivered>>
       \/ /\ rev[p].in = POLLIN
          /\ stdin[p] = "line"
          /\ stdin' = [stdin EXCEPT ![p] = "empty"]
          /\ \/ /\ InsistWrite(p)
                /\ pc' = [pc EXCEPT ![p] = "poll"]
             \/ /\ arrived[p] = "rst"
                /\ pc' = [pc EXCEPT ![p] = "ret0"]
                /\ UNCHANGED <<rcv, arrived, delivered>>
    /\ UNCHANGED <<rev, typed, closed, printed>>

-----------------------------------------------------------------------------
(* What each program does when pollooper returns, and its SIGINT handler. *)

\* chat-server.c lines 96-100: return 1 raises SIGINT and the process dies;
\* return 0 closes the client socket and goes back to accept().
ServerAfterLoop ==
    /\ pc["server"] \in {"ret0", "ret1"}
    /\ pc' = [pc EXCEPT !["server"] = IF @ = "ret1" THEN "dead" ELSE "accept"]
    /\ CloseSocket("server")
    /\ UNCHANGED <<rev, stdin, typed, rcv, delivered, printed>>

\* chat-client.c lines 88-92: either return ends the process.
ClientAfterLoop ==
    /\ pc["client"] \in {"ret0", "ret1"}
    /\ pc' = [pc EXCEPT !["client"] = "dead"]
    /\ CloseSocket("client")
    /\ UNCHANGED <<rev, stdin, typed, rcv, delivered, printed>>

\* chat-server.c lines 29-35: end the crypto session, then die of SIGINT.
ServerSigint ==
    /\ pc["server"] \in LoopPcs
    /\ pc' = [pc EXCEPT !["server"] = "dead"]
    /\ CloseSocket("server")
    /\ UNCHANGED <<rev, stdin, typed, rcv, delivered, printed>>

\* chat-client.c lines 30-41: shutdown(SHUT_WR) sends FIN, then the process
\* dies of SIGINT, which closes the socket (RST if data is unread).
ClientSigint ==
    /\ pc["client"] \in LoopPcs
    /\ pc' = [pc EXCEPT !["client"] = "dead"]
    /\ CloseSocket("client")
    /\ UNCHANGED <<rev, stdin, typed, rcv, delivered, printed>>

-----------------------------------------------------------------------------
(* The users at the two terminals.                                         *)

TypeLine(p) ==
    /\ stdin[p] = "empty" /\ typed[p] < MaxLines
    /\ stdin' = [stdin EXCEPT ![p] = "line"]
    /\ typed' = [typed EXCEPT ![p] = @ + 1]
    /\ UNCHANGED <<pc, rev, rcv, arrived, closed, delivered, printed>>

EndInput(p) ==
    /\ stdin[p] = "empty"
    /\ stdin' = [stdin EXCEPT ![p] = "eof"]
    /\ UNCHANGED <<pc, rev, typed, rcv, arrived, closed, delivered, printed>>

-----------------------------------------------------------------------------
\* chat-server.c lines 77-95 and chat-client.c lines 79-87: the client has
\* connected, the server has accepted, and both enter pollooper.
Init ==
    /\ pc = [p \in Peers |-> "poll"]
    /\ rev = [p \in Peers |-> [sock |-> {}, in |-> {}]]
    /\ stdin = [p \in Peers |-> "empty"]
    /\ typed = [p \in Peers |-> 0]
    /\ rcv = [p \in Peers |-> 0]
    /\ arrived = [p \in Peers |-> "none"]
    /\ closed = [p \in Peers |-> FALSE]
    /\ delivered = [p \in Peers |-> 0]
    /\ printed = [p \in Peers |-> 0]

PeerStep(p) ==
    \/ Poll(p) \/ ReadOther(p) \/ ReadStdin(p)
    \/ (p = "server" /\ ServerAfterLoop)
    \/ (p = "client" /\ ClientAfterLoop)

Next ==
    \/ \E p \in Peers : PeerStep(p) \/ TypeLine(p) \/ EndInput(p)
    \/ ServerSigint \/ ClientSigint

\* The programs run whenever they can; the users need never act.
Spec == Init /\ [][Next]_vars /\ \A p \in Peers : WF_vars(PeerStep(p))

-----------------------------------------------------------------------------
TypeOK ==
    /\ pc \in [Peers -> LoopPcs \cup {"ret0", "ret1", "accept", "dead"}]
    /\ rev \in [Peers -> [sock : Flags, in : Flags]]
    /\ stdin \in [Peers -> {"empty", "line", "eof"}]
    /\ typed \in [Peers -> 0..MaxLines]
    /\ rcv \in [Peers -> 0..MaxLines]
    /\ arrived \in [Peers -> {"none", "fin", "rst"}]
    /\ closed \in [Peers -> BOOLEAN]
    /\ delivered \in [Peers -> 0..MaxLines]
    /\ printed \in [Peers -> 0..MaxLines]

\* The comment of pollooper (lines 137-140): the loop "breaks if read fails
\* or other_side leaves".  Once the other side has closed its socket, each
\* side still in pollooper eventually leaves it, whether or not its user
\* types anything.
LeavesWhenOtherLeaves ==
    \A p \in Peers :
        (closed[Other(p)] /\ pc[p] \in LoopPcs) ~> (pc[p] \notin LoopPcs)

\* pollooper reads from the other side and writes to stdout (the comment
\* at lines 137-138): every line the other side's insist_write queued at
\* p is printed by p or still waiting in p's receive queue, however the
\* lines were grouped into read() calls.
NoLineLost ==
    \A p \in Peers : printed[p] + rcv[p] = delivered[p]
=============================================================================
