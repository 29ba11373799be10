------------------------------ MODULE ChatServer ------------------------------
(***************************************************************************)
(* The chatroom server, src/cryptodev/chat/chatroom/task-1/server-side.c.  *)
(*                                                                         *)
(* main() accept()s connections forever and starts one clientSession      *)
(* thread per connection, passing it the address of its own local         *)
(* newSocketDescriptor.  A session asks for a username, adds itself to the *)
(* client list headClient, and then relays every line its client sends to *)
(* every other client with sendToClients.  The list is guarded by the      *)
(* semaphore clientsLock.  addClient, removeClient and isUser never block  *)
(* inside the semaphore, so each is one step; sendToClients blocks in      *)
(* select() and write() for every client while holding it, so it is one    *)
(* step per list node.                                                     *)
(*                                                                         *)
(* Descriptors are numbers: accept() returns the lowest free one, close()  *)
(* frees it, and a freed number is reused by the next accept().  A client  *)
(* connection is "up", "fin" once the client has closed it (reads return  *)
(* 0, one more write is accepted) or "reset" once a write has drawn the    *)
(* peer's RST (writes fail with EPIPE; SIGPIPE is ignored, line 260), and *)
(* "gone" once the server has closed its descriptor.                       *)
(* Message text is abstracted away; only whether a message's first token  *)
(* names a listed user matters (isUser).                                   *)
(*                                                                         *)
(* With Encrypting, the module is task-2/server-side.c instead: the same   *)
(* session and list code (crypto-chat-common.h) with three cryptodev       *)
(* ioctls on the process's one /dev/crypto descriptor added: CIOCGSESSION  *)
(* when a session starts, CIOCCRYPT decrypt after every read and encrypt   *)
(* at the top of sendToClients, before it takes clientsLock.  Each exits   *)
(* the whole process when the ioctl fails.                                 *)
(***************************************************************************)
EXTENDS Integers, Sequences, FiniteSets, SequencesExt

CONSTANTS
    Conns,      \* client connections that may arrive at accept()
    Names,      \* usernames clients may send
    Fds,        \* descriptor numbers accept() may return
    None,       \* model value: no descriptor, no name, no holder
    Encrypting  \* TRUE: the encrypting server of task-2

ASSUME
    /\ Fds \subseteq Nat /\ Cardinality(Fds) >= Cardinality(Conns)
    /\ None \notin Fds \cup Names
    /\ Encrypting \in BOOLEAN

\* One thread index (tid[id]) per accepted connection.
Threads == 0 .. Cardinality(Conns) - 1

VARIABLES
    exitedAt,       \* "running", or the step at which the process exited or crashed
    mpc,            \* main(): "accept" or "create" (pthread_create pending)
    newSocketDescriptor, \* main()'s local, whose address every thread gets
    id,             \* main()'s thread counter
    fdConn,         \* descriptor table: fdConn[f] is the connection f refers to
    peer,           \* peer[c]: "new", "up", "fin", "reset" or "gone"
    headClient,     \* the client list, head first: records [name, sd]
    clientsLock,    \* the value of the semaphore
    holder,         \* the thread that took clientsLock in sendToClients
    pc,             \* where each thread is in clientSession
    sd,             \* clientSocketDescriptor
    name,           \* the thread's username
    cursor,         \* sendToClients: index of the list node tmp points to
    after           \* where sendToClients returns to: "loop" or "remove"

mainVars == <<mpc, newSocketDescriptor, id>>
listVars == <<headClient, clientsLock, holder>>
threadVars == <<pc, sd, name, cursor, after>>
vars == <<exitedAt, mainVars, fdConn, peer, listVars, threadVars>>

Pcs == {"none", "start", "prompt", "username", "add", "send", "sending",
        "loop", "isUser", "remove", "close", "done"}
\* Between addClient and removeClient: the thread's node is in the list.
Joined == {"send", "sending", "loop", "isUser", "remove"}

Node == [name : Names, sd : Fds]

alive == exitedAt = "running"

LowestFree == Min({f \in Fds : fdConn[f] = None})

\* Connections whose client has not closed them.
Up == {c \in Conns : peer[c] = "up"}
\* write() on descriptor f fails: closed (EBADF) or the peer reset (EPIPE).
WriteFails(f) == fdConn[f] \notin {c \in Conns : peer[c] # "reset"}
\* A write that succeeds on a connection the client closed draws an RST.
AfterWrite(f) ==
    IF peer[fdConn[f]] = "fin" THEN [peer EXCEPT ![fdConn[f]] = "reset"] ELSE peer
\* read() on f returns 0 or -1 at once: closed descriptor or closed peer.
ReadEnds(f) == fdConn[f] \notin Up

\* Mutant: removeClient that only looks at the head of the list.
removeClient_HeadOnly(list, s) ==
    IF list # <<>> /\ list[1].sd = s THEN Tail(list) ELSE list

\* removeClient: unlink the first node whose descriptor is s, if any.
removeClient(list, s) == RemoveFirstMatch(list, LAMBDA n : n.sd = s)

(***************************************************************************)
(* task-2's cryptodev ioctls on the process's one /dev/crypto descriptor.  *)
(* Each touches only the calling thread's own buffers, so it is part of    *)
(* the step before it, which takes the thread to next, where the call is   *)
(* made: it succeeds, or it fails and exit(1)s the process, every session  *)
(* with it.  A decrypt fails whenever read() returned a length that is not *)
(* a whole number of AES blocks (cryp.len = bytesRead, and TCP may return  *)
(* any prefix of what the client sent); any call fails when the guest     *)
(* driver or the host does.  task-1 has no ioctls: the thread goes on.     *)
(***************************************************************************)
CryptoThen(t, next, call) ==
    /\ pc' = [pc EXCEPT ![t] = next]
    /\ \/ UNCHANGED exitedAt
       \/ Encrypting /\ exitedAt' = call

\* Lines 80-95: a cryptodev session of its own per thread (CIOCGSESSION).
NewSession(t, next) == CryptoThen(t, next, "session")

\* Lines 117-128 and 164-175: decrypt what read() returned.
Decrypt(t, next) == CryptoThen(t, next, "decrypt")

\* sendToClients, lines 19-35: format and encrypt the message, before it
\* takes clientsLock.
Encrypt(t, next) == CryptoThen(t, next, "encrypt")

-----------------------------------------------------------------------------
(* main(), lines 284-313. *)

Accept(c) ==
    /\ mpc = "accept"
    /\ peer[c] = "new"
    /\ fdConn' = [fdConn EXCEPT ![LowestFree] = c]
    /\ newSocketDescriptor' = LowestFree
    /\ peer' = [peer EXCEPT ![c] = "up"]
    /\ mpc' = "create"
    /\ UNCHANGED <<exitedAt, id, listVars, threadVars>>

CreateThread ==
    /\ mpc = "create"
    /\ pc' = [pc EXCEPT ![id] = "start"]
    /\ id' = id + 1
    /\ mpc' = "accept"
    /\ UNCHANGED <<exitedAt, newSocketDescriptor, fdConn, peer, listVars,
                   sd, name, cursor, after>>

\* The client closes its end of a connection.
ClientLeaves(c) ==
    /\ peer[c] = "up"
    /\ peer' = [peer EXCEPT ![c] = "fin"]
    /\ UNCHANGED <<exitedAt, mainVars, fdConn, listVars, threadVars>>

-----------------------------------------------------------------------------
(* clientSession, lines 165-249. *)

\* Line 167: the thread reads main()'s newSocketDescriptor when it first runs.
Start(t) ==
    /\ pc[t] = "start"
    /\ sd' = [sd EXCEPT ![t] = newSocketDescriptor]
    /\ NewSession(t, "prompt")
    /\ UNCHANGED <<mainVars, fdConn, peer, listVars, name, cursor, after>>

\* Lines 175-181: the username prompt; a failed write exits the process.
Prompt(t) ==
    /\ pc[t] = "prompt"
    /\ \/ /\ WriteFails(sd[t])
          /\ exitedAt' = "prompt"
          /\ UNCHANGED <<peer, pc>>
       \/ /\ ~WriteFails(sd[t])
          /\ peer' = AfterWrite(sd[t])
          /\ pc' = [pc EXCEPT ![t] = "username"]
          /\ UNCHANGED exitedAt
    /\ UNCHANGED <<mainVars, fdConn, listVars, sd, name, cursor, after>>

\* Lines 184-193: read() returns 0 or -1: goto close.
UsernameEnds(t) ==
    /\ pc[t] = "username"
    /\ ReadEnds(sd[t])
    /\ pc' = [pc EXCEPT ![t] = "close"]
    /\ UNCHANGED <<exitedAt, mainVars, fdConn, peer, listVars, sd, name, cursor, after>>

\* Lines 185-194: the client sends its username.
UsernameData(t, n) ==
    /\ pc[t] = "username"
    /\ fdConn[sd[t]] \in Up
    /\ name' = [name EXCEPT ![t] = n]
    /\ Decrypt(t, "add")
    /\ UNCHANGED <<mainVars, fdConn, peer, listVars, sd, cursor, after>>

\* addClient (lines 39-50) and the call at 197; then the "entered" notice.
AddClient(t) ==
    /\ pc[t] = "add"
    /\ clientsLock = 1
    /\ headClient' = Cons([name |-> name[t], sd |-> sd[t]], headClient)
    /\ Encrypt(t, "send")
    /\ after' = [after EXCEPT ![t] = "loop"]
    /\ UNCHANGED <<mainVars, fdConn, peer, clientsLock, holder, sd, name, cursor>>

\* sendToClients, lines 111-113: sem_wait and tmp = headClient.
SendEnter(t) ==
    /\ pc[t] = "send"
    /\ clientsLock = 1
    /\ clientsLock' = 0
    /\ holder' = t
    /\ cursor' = [cursor EXCEPT ![t] = 1]
    /\ pc' = [pc EXCEPT ![t] = "sending"]
    /\ UNCHANGED <<exitedAt, mainVars, fdConn, peer, headClient, sd, name, after>>

(***************************************************************************)
(* sendToClients, lines 114-139: one list node per step.  The sender's own *)
(* node is skipped; select() on a closed descriptor fails and the function *)
(* returns at line 125 without sem_post; a write that fails `continue`s    *)
(* at line 132 without advancing tmp, retrying the same node with nothing  *)
(* changed, which is no step at all.                                       *)
(***************************************************************************)
SendNext(t) ==
    /\ pc[t] = "sending"
    /\ LET i == cursor[t]
           f == headClient[i].sd
       IN  \/ /\ i > Len(headClient)
              /\ clientsLock' = 1
              /\ pc' = [pc EXCEPT ![t] = after[t]]
              /\ UNCHANGED <<peer, cursor, holder>>
           \/ /\ i <= Len(headClient) /\ f = sd[t]
              /\ cursor' = [cursor EXCEPT ![t] = i + 1]
              /\ UNCHANGED <<peer, pc, clientsLock, holder>>
           \/ /\ i <= Len(headClient) /\ f # sd[t] /\ fdConn[f] = None
              /\ pc' = [pc EXCEPT ![t] = after[t]]
              /\ UNCHANGED <<peer, cursor, clientsLock, holder>>
           \/ /\ i <= Len(headClient) /\ f # sd[t] /\ ~WriteFails(f)
              /\ peer' = AfterWrite(f)
              /\ cursor' = [cursor EXCEPT ![t] = i + 1]
              /\ UNCHANGED <<pc, clientsLock, holder>>
    /\ UNCHANGED <<exitedAt, mainVars, fdConn, headClient, sd, name, after>>

\* Lines 203-227: select() fails or read() returns 0/-1: goto remove, whose
\* first act is the "left" notice (line 240).
LoopEnds(t) ==
    /\ pc[t] = "loop"
    /\ ReadEnds(sd[t])
    /\ Encrypt(t, "send")
    /\ after' = [after EXCEPT ![t] = "remove"]
    /\ UNCHANGED <<mainVars, fdConn, peer, listVars, sd, name, cursor>>

\* Line 218: the client sends a message.
LoopData(t) ==
    /\ pc[t] = "loop"
    /\ fdConn[sd[t]] \in Up
    /\ Decrypt(t, "isUser")
    /\ UNCHANGED <<mainVars, fdConn, peer, listVars, sd, name, cursor, after>>

(***************************************************************************)
(* isUser (lines 143-162) on the message's first token, lines 228-232: a   *)
(* message whose token names a listed user is dropped; any other is       *)
(* relayed.  A message of separators only has a NULL token, for which     *)
(* isUser returns 0 without taking the semaphore.                          *)
(***************************************************************************)
IsUser(t) ==
    /\ pc[t] = "isUser"
    /\ \/ /\ clientsLock = 1 /\ headClient # <<>>
          /\ pc' = [pc EXCEPT ![t] = "loop"]
          /\ UNCHANGED exitedAt
       \/ /\ clientsLock = 1
          /\ Encrypt(t, "send")
       \/ /\ Encrypt(t, "send")
    /\ after' = [after EXCEPT ![t] = "loop"]
    /\ UNCHANGED <<mainVars, fdConn, peer, listVars, sd, name, cursor>>

\* Mutant: removeClient without its sem_wait (line 55): it runs whatever the
\* semaphore holds and still posts on each of its exits (lines 64, 76, 84).
RemoveClient_NoWait(t) ==
    /\ pc[t] = "remove"
    /\ exitedAt' = IF headClient = <<>> THEN "removeClient" ELSE exitedAt
    /\ headClient' = removeClient(headClient, sd[t])
    /\ clientsLock' = clientsLock + 1
    /\ pc' = [pc EXCEPT ![t] = "close"]
    /\ UNCHANGED <<mainVars, fdConn, peer, holder, sd, name, cursor, after>>

\* removeClient, lines 52-85, called at 241.  Line 60 dereferences
\* headClient unchecked: on an empty list the process crashes.
RemoveClient(t) ==
    /\ pc[t] = "remove"
    /\ clientsLock = 1
    /\ exitedAt' = IF headClient = <<>> THEN "removeClient" ELSE exitedAt
    /\ headClient' = removeClient(headClient, sd[t])
    /\ pc' = [pc EXCEPT ![t] = "close"]
    /\ UNCHANGED <<mainVars, fdConn, peer, clientsLock, holder, sd, name, cursor, after>>

\* Lines 244-248: close() frees the descriptor number (EBADF if already
\* free); the connection it referred to is gone for the server.
Close(t) ==
    /\ pc[t] = "close"
    /\ fdConn' = [fdConn EXCEPT ![sd[t]] = None]
    /\ peer' = IF fdConn[sd[t]] \in Conns
               THEN [peer EXCEPT ![fdConn[sd[t]]] = "gone"] ELSE peer
    /\ pc' = [pc EXCEPT ![t] = "done"]
    /\ sd' = [sd EXCEPT ![t] = None]
    /\ name' = [name EXCEPT ![t] = None]
    /\ after' = [after EXCEPT ![t] = "loop"]
    /\ cursor' = [cursor EXCEPT ![t] = 1]
    /\ UNCHANGED <<exitedAt, mainVars, listVars>>

-----------------------------------------------------------------------------

Init ==
    /\ exitedAt = "running"
    /\ mpc = "accept"
    /\ newSocketDescriptor = None
    /\ id = 0
    /\ fdConn = [f \in Fds |-> None]
    /\ peer = [c \in Conns |-> "new"]
    /\ headClient = <<>>
    /\ clientsLock = 1
    /\ holder = None
    /\ pc = [t \in Threads |-> "none"]
    /\ sd = [t \in Threads |-> None]
    /\ name = [t \in Threads |-> None]
    /\ cursor = [t \in Threads |-> 1]
    /\ after = [t \in Threads |-> "loop"]

\* The steps a thread takes without waiting for its client to send.
ThreadStep(t) ==
    \/ Start(t) \/ Prompt(t) \/ UsernameEnds(t) \/ AddClient(t)
    \/ SendEnter(t) \/ SendNext(t) \/ LoopEnds(t) \/ IsUser(t)
    \/ RemoveClient(t) \/ Close(t)

\* Clients connect and disconnect.
ClientConn == \E c \in Conns : Accept(c) \/ ClientLeaves(c)

\* Clients send a username or a message.
ClientData == \E t \in Threads : LoopData(t) \/ \E n \in Names : UsernameData(t, n)

\* Once the process has exited nothing more happens.
Next ==
    /\ alive
    /\ \/ CreateThread
       \/ ClientConn
       \/ ClientData
       \/ \E t \in Threads : ThreadStep(t)

\* Threads and pthread_create are scheduled fairly; clients are not.
Spec == Init /\ [][Next]_vars /\ WF_vars(CreateThread)
        /\ \A t \in Threads : WF_vars(ThreadStep(t))

-----------------------------------------------------------------------------

\* Types; clientsLock \in 0 .. 1 says the semaphore initialised to 1
\* (line 257) is posted only by a thread that waited on it.
TypeOK ==
    /\ exitedAt \in {"running", "prompt", "removeClient", "session", "decrypt", "encrypt"}
    /\ mpc \in {"accept", "create"}
    /\ newSocketDescriptor \in Fds \cup {None}
    /\ id \in 0 .. Cardinality(Conns)
    /\ fdConn \in [Fds -> Conns \cup {None}]
    /\ peer \in [Conns -> {"new", "up", "fin", "reset", "gone"}]
    /\ headClient \in Seq(Node)
    /\ clientsLock \in 0 .. 1
    /\ holder \in Threads \cup {None}
    /\ pc \in [Threads -> Pcs]
    /\ sd \in [Threads -> Fds \cup {None}]
    /\ name \in [Threads -> Names \cup {None}]
    /\ cursor \in [Threads -> 1 .. Cardinality(Conns) + 1]
    /\ after \in [Threads -> {"loop", "remove"}]

\* The client list holds exactly one node per session between addClient
\* and removeClient, counted per descriptor: concurrent addClient and
\* removeClient calls (lines 39-85) never lose or leave behind a node, so
\* removeClient never meets the empty list it cannot handle (line 60).
ListMatchesSessions ==
    \A f \in Fds :
        Quantify(DOMAIN headClient, LAMBDA i : headClient[i].sd = f)
          = Quantify(Threads, LAMBDA t : pc[t] \in Joined /\ sd[t] = f)

\* clientsLock is taken only by a thread inside sendToClients' loop: every
\* return from sendToClients (lines 125 and 139) releases it.
LockHeldInSend ==
    clientsLock = 0 => pc[holder] = "sending"

\* Every sendToClients call returns (or the process has gone): the loop
\* over the list (lines 114-137) does not run forever.
SendCompletes ==
    \A t \in Threads : pc[t] = "sending" ~> (pc[t] # "sending" \/ ~alive)
=============================================================================
