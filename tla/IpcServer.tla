------------------------------ MODULE IpcServer ------------------------------
(***************************************************************************)
(* The IPC server of ipc.c: one thread that selects over a listening       *)
(* socket and the accepted connections, reads a request, calls the message *)
(* handler and writes its reply; a main thread that starts and destroys    *)
(* the server; and the client programs on the other end of the sockets.    *)
(***************************************************************************)
EXTENDS JsonStream, Integers, FiniteSets

CONSTANTS
    Clients,        \* connections opened by client programs
    Waker,          \* the connection server_destory opens to wake select
    NoConn,         \* a descriptor that is not a connection
    SyncClients,    \* the clients that query through send_cmd_sync
    Fds,            \* descriptors accept may return
    SetupFd,        \* the listening descriptor
    MaxConnector,   \* MAX_CONNECTOR, the length of sfd[] (50)
    MaxFragments,   \* MAX_REQUEST_BUFFER_SIZE, in fragments
    MaxSends,       \* bound: how many requests each client sends
    EarlyDestroy,   \* server_destory may be called before the thread runs
    WakerMayFail,   \* client_create may fail inside server_destory
    StartMayFail,   \* both pthread_create calls may fail
    Pipelining,     \* a client may send while its last request is unread
    HostIgnoresSigpipe  \* the compositor's disposition of SIGPIPE

ASSUME ConnAssumption ==
    /\ Conns = Clients \cup {Waker}
    /\ Waker \notin Clients
    /\ NoConn \notin Conns
    /\ SyncClients \subseteq Clients

ASSUME FdAssumption ==
    /\ Fds \subseteq Nat \ {0}
    /\ SetupFd \in Nat \ {0}
    /\ SetupFd \notin Fds

ASSUME SizeAssumption ==
    /\ MaxConnector \in Nat \ {0}
    /\ MaxFragments \in Nat \ {0}
    /\ MaxSends \in [Clients -> Nat]

ASSUME SwitchAssumption ==
    /\ EarlyDestroy \in BOOLEAN
    /\ WakerMayFail \in BOOLEAN
    /\ StartMayFail \in BOOLEAN
    /\ Pipelining \in BOOLEAN
    /\ HostIgnoresSigpipe \in BOOLEAN

VARIABLES
    \* server_ctx, shared by the server thread and the main thread
    status, socket_set, connector_count, sfd, max_fd,
    \* locals of the server thread: program counter, what is left of the
    \* select snapshot, the descriptor in hand, its read buffer, the request
    pc, set, cur, buffer, msg,
    \* the kernel: listening socket and accept queue, the connection behind
    \* each descriptor, connections the server end of which is gone, bytes
    \* on the way to the server and replies on the way back
    listening, backlog, owner, ended, inbox, outbox,
    \* client programs: state, request whose back is unwritten, requests sent
    client, writing, sends,
    \* the main thread
    main

ctxVars    == <<status, socket_set, connector_count, sfd, max_fd>>
threadVars == <<pc, set, cur, buffer, msg>>
netVars    == <<listening, backlog, owner, ended, inbox, outbox>>
clientVars == <<client, writing, sends>>
vars == <<ctxVars, threadVars, netVars, clientVars, main>>

Slots == 0 .. MaxConnector - 1

\* server_status in declaration order; the server only moves along it.
Rank == [SERVER_INITED |-> 0, SERVER_LISTENING |-> 1,
         SERVER_GOINGTOSTOP |-> 2, SERVER_STOPED |-> 3]

\* The connections in the table and the descriptors the process has open.
Held == {sfd[k] : k \in 0 .. connector_count - 1}
Open == {f \in Fds : owner[f] # NoConn}

Init ==
    /\ status = "SERVER_INITED"
    /\ socket_set = {SetupFd}
    /\ connector_count = 0
    /\ sfd = [k \in Slots |-> -1]
    /\ max_fd = SetupFd
    /\ pc = "none"
    /\ set = {}
    /\ cur = SetupFd
    /\ buffer = <<>>
    /\ msg = NoMsg
    /\ listening = TRUE
    /\ backlog = <<>>
    /\ owner = [f \in Fds |-> NoConn]
    /\ ended = {}
    /\ inbox = [c \in Conns |-> <<>>]
    /\ outbox = [c \in Conns |-> <<>>]
    /\ client = [c \in Conns |-> "idle"]
    /\ writing = [c \in Clients |-> NoMsg]
    /\ sends = [c \in Clients |-> 0]
    /\ main = "created"

-----------------------------------------------------------------------------
(* The server thread: server_routine_start.                                *)

\* The thread's first statement: it becomes LISTENING whatever happened
\* between pthread_create and now.
ThreadBegin ==
    /\ pc = "ready"
    /\ status' = "SERVER_LISTENING"
    /\ pc' = "loop"
    /\ UNCHANGED <<socket_set, connector_count, sfd, max_fd, set, cur, buffer,
                   msg, netVars, clientVars, main>>

LoopTest ==
    /\ pc = "loop"
    /\ pc' = IF status = "SERVER_LISTENING" THEN "select" ELSE "leave"
    /\ UNCHANGED <<ctxVars, set, cur, buffer, msg, netVars, clientVars, main>>

\* The peer of c has closed its end.
PeerClosed(c) == client[c] = "closed"

Readable(f) ==
    IF f = SetupFd THEN backlog # <<>>
    ELSE inbox[owner[f]] # <<>> \/ PeerClosed(owner[f])

\* Mutant: select(max_fd, ...), one descriptor short.
SelectBelowMax ==
    /\ pc = "select"
    /\ IF listening
       THEN LET ready == {f \in socket_set : f < max_fd /\ Readable(f)}
            IN  /\ ready # {}
                /\ set' = ready
                /\ pc' = "scan"
       ELSE set' = set /\ pc' = "loop"
    /\ UNCHANGED <<ctxVars, cur, buffer, msg, netVars, clientVars, main>>

\* select(max_fd + 1, &set): blocks until something below max_fd + 1 is
\* readable; a closed descriptor in the set makes it fail at once.
Select ==
    /\ pc = "select"
    /\ IF listening
       THEN LET ready == {f \in socket_set : f <= max_fd /\ Readable(f)}
            IN  /\ ready # {}
                /\ set' = ready
                /\ pc' = "scan"
       ELSE set' = set /\ pc' = "loop"
    /\ UNCHANGED <<ctxVars, cur, buffer, msg, netVars, clientVars, main>>

ScanDone ==
    /\ pc = "scan"
    /\ set = {}
    /\ pc' = "loop"
    /\ UNCHANGED <<ctxVars, set, cur, buffer, msg, netVars, clientVars, main>>

\* Mutant: a connection stays in the snapshot after it has been served.
ScanNextAgain ==
    /\ pc = "scan"
    /\ \E i \in set :
        /\ \A j \in set : i <= j
        /\ set' = set \ {SetupFd}
        /\ cur' = i
        /\ pc' = IF i = SetupFd THEN "accept" ELSE "read"
    /\ buffer' = <<>>
    /\ UNCHANGED <<ctxVars, msg, netVars, clientVars, main>>

\* The for loop visits the snapshot in ascending order.
ScanNext ==
    /\ pc = "scan"
    /\ \E i \in set :
        /\ \A j \in set : i <= j
        /\ set' = set \ {i}
        /\ cur' = i
        /\ pc' = IF i = SetupFd THEN "accept" ELSE "read"
    /\ buffer' = <<>>
    /\ UNCHANGED <<ctxVars, msg, netVars, clientVars, main>>

\* accept() returns any free number: other threads of the process take and
\* return descriptors all the time.
AcceptedInto(fd) ==
    /\ owner' = [owner EXCEPT ![fd] = Head(backlog)]
    /\ backlog' = Tail(backlog)
    /\ socket_set' = socket_set \cup {fd}
    /\ connector_count' = connector_count + 1

\* Mutant: max_fd is the newest descriptor, not the largest.
AcceptNewestMax ==
    /\ pc = "accept"
    /\ backlog # <<>>
    /\ connector_count < MaxConnector
    /\ \E fd \in Fds \ Open :
        /\ AcceptedInto(fd)
        /\ sfd' = [sfd EXCEPT ![connector_count] = fd]
        /\ max_fd' = fd
    /\ pc' = "scan"
    /\ UNCHANGED <<status, set, cur, buffer, msg, listening, ended, inbox,
                   outbox, clientVars, main>>

Accept ==
    /\ pc = "accept"
    /\ backlog # <<>>
    /\ connector_count < MaxConnector
    /\ \E fd \in Fds \ Open :
        /\ AcceptedInto(fd)
        /\ sfd' = [sfd EXCEPT ![connector_count] = fd]
        /\ max_fd' = IF max_fd > fd THEN max_fd ELSE fd
    /\ pc' = "scan"
    /\ UNCHANGED <<status, set, cur, buffer, msg, listening, ended, inbox,
                   outbox, clientVars, main>>

\* Nothing compares connector_count with MAX_CONNECTOR: the store to
\* sfd[MAX_CONNECTOR] lands on the next member of the struct, max_fd.  The
\* model follows the server to this store and no further.
AcceptOverrun ==
    /\ pc = "accept"
    /\ backlog # <<>>
    /\ connector_count = MaxConnector
    /\ \E fd \in Fds \ Open :
        /\ AcceptedInto(fd)
        /\ max_fd' = fd
    /\ pc' = "overrun"
    /\ UNCHANGED <<status, sfd, set, cur, buffer, msg, listening, ended, inbox,
                   outbox, clientVars, main>>

\* accept() fails: no descriptor left, or the listener was closed under it.
AcceptFails ==
    /\ pc = "accept"
    /\ backlog = <<>> \/ Fds \subseteq Open
    /\ pc' = "scan"
    /\ UNCHANGED <<ctxVars, set, cur, buffer, msg, netVars, clientVars, main>>

\* Mutant: the freed last slot is not set back to -1.
RemoveKeepsSlot(i) ==
    /\ socket_set' = socket_set \ {i}
    /\ ended' = ended \cup {owner[i]}
    /\ owner' = [owner EXCEPT ![i] = NoConn]
    /\ connector_count' = connector_count - 1
    /\ \E k \in 0 .. connector_count - 1 :
        /\ sfd[k] = i
        /\ sfd' = [sfd EXCEPT ![k] = sfd[connector_count - 1]]
    /\ \E m \in (Held \ {i}) \cup {SetupFd} :
        /\ \A f \in (Held \ {i}) \cup {SetupFd} : f <= m
        /\ max_fd' = m

\* Mutant: max_fd is recomputed from the connections alone, starting at 0.
RemoveForgetsSetup(i) ==
    /\ socket_set' = socket_set \ {i}
    /\ ended' = ended \cup {owner[i]}
    /\ owner' = [owner EXCEPT ![i] = NoConn]
    /\ connector_count' = connector_count - 1
    /\ \E k \in 0 .. connector_count - 1 :
        /\ sfd[k] = i
        /\ sfd' = [sfd EXCEPT ![k] = sfd[connector_count - 1],
                              ![connector_count - 1] = -1]
    /\ \E m \in (Held \ {i}) \cup {0} :
        /\ \A f \in (Held \ {i}) \cup {0} : f <= m
        /\ max_fd' = m

\* Mutant: the last entry is copied down, and still counted.
RemoveKeepsCount(i) ==
    /\ socket_set' = socket_set \ {i}
    /\ ended' = ended \cup {owner[i]}
    /\ owner' = [owner EXCEPT ![i] = NoConn]
    /\ connector_count' = connector_count
    /\ \E k \in 0 .. connector_count - 1 :
        /\ sfd[k] = i
        /\ sfd' = [sfd EXCEPT ![k] = sfd[connector_count - 1]]
    /\ \E m \in (Held \ {i}) \cup {SetupFd} :
        /\ \A f \in (Held \ {i}) \cup {SetupFd} : f <= m
        /\ max_fd' = m

\* FD_CLR, close, and the swap-remove that also recomputes max_fd.
Remove(i) ==
    /\ socket_set' = socket_set \ {i}
    /\ ended' = ended \cup {owner[i]}
    /\ owner' = [owner EXCEPT ![i] = NoConn]
    /\ connector_count' = connector_count - 1
    /\ \E k \in 0 .. connector_count - 1 :
        /\ sfd[k] = i
        /\ sfd' = [sfd EXCEPT ![k] = sfd[connector_count - 1],
                              ![connector_count - 1] = -1]
    /\ \E m \in (Held \ {i}) \cup {SetupFd} :
        /\ \A f \in (Held \ {i}) \cup {SetupFd} : f <= m
        /\ max_fd' = m

\* One read() of read_and_check_complete that returns data: everything that
\* has arrived and fits.  Bytes behind the first complete value are freed
\* with the buffer.
ReadData ==
    /\ pc = "read"
    /\ LET c    == owner[cur]
           room == MaxFragments - Len(buffer)
           n    == IF Len(inbox[c]) < room THEN Len(inbox[c]) ELSE room
           got  == buffer \o SubSeq(inbox[c], 1, n)
       IN  /\ inbox[c] # <<>>
           /\ inbox' = [inbox EXCEPT ![c] = SubSeq(@, n + 1, Len(@))]
           /\ \/ /\ Parsed(got) # NoMsg
                 /\ msg' = Parsed(got)
                 /\ buffer' = <<>>
                 /\ pc' = "handle"
                 /\ UNCHANGED <<socket_set, connector_count, sfd, max_fd, owner, ended>>
              \/ /\ Parsed(got) = NoMsg
                 /\ Len(got) < MaxFragments
                 /\ buffer' = got
                 /\ UNCHANGED <<pc, msg, socket_set, connector_count, sfd, max_fd,
                                owner, ended>>
              \/ /\ Parsed(got) = NoMsg
                 /\ Len(got) >= MaxFragments
                 /\ Remove(cur)
                 /\ buffer' = <<>>
                 /\ pc' = "scan"
                 /\ msg' = msg
    /\ UNCHANGED <<status, set, cur, listening, backlog, outbox, clientVars, main>>

\* read() returns 0 or fails: the connection is removed.
ReadEnd ==
    /\ pc = "read"
    /\ inbox[owner[cur]] = <<>>
    /\ PeerClosed(owner[cur])
    /\ Remove(cur)
    /\ buffer' = <<>>
    /\ pc' = "scan"
    /\ UNCHANGED <<status, set, cur, msg, listening, backlog, inbox, outbox,
                   clientVars, main>>

\* Mutant: the reply goes to the first connection of the table.
HandleReplyFirst ==
    /\ pc = "handle"
    /\ outbox' = IF msg.kind = "ask"
                 THEN [outbox EXCEPT ![owner[sfd[0]]] = Append(@, msg)]
                 ELSE outbox
    /\ pc' = "scan"
    /\ msg' = NoMsg
    /\ UNCHANGED <<ctxVars, set, cur, buffer, listening, backlog, owner, ended,
                   inbox, clientVars, main>>

\* msg_handle and the reply.  Writing to a connection the peer has closed
\* raises SIGPIPE.
Handle ==
    /\ pc = "handle"
    /\ \/ /\ msg.kind = "ask"
          /\ ~PeerClosed(owner[cur])
          /\ outbox' = [outbox EXCEPT ![owner[cur]] = Append(@, msg)]
          /\ pc' = "scan"
       \/ /\ msg.kind = "ask"
          /\ PeerClosed(owner[cur])
          /\ outbox' = outbox
          /\ pc' = IF HostIgnoresSigpipe THEN "scan" ELSE "killed"
       \/ /\ msg.kind # "ask"
          /\ outbox' = outbox
          /\ pc' = "scan"
    /\ msg' = NoMsg
    /\ UNCHANGED <<ctxVars, set, cur, buffer, listening, backlog, owner, ended,
                   inbox, clientVars, main>>

\* Mutant: the closing loop stops one connection short.
LeaveLeaksLast ==
    /\ pc = "leave"
    /\ pc' = "exited"
    /\ LET closed == {sfd[k] : k \in 0 .. connector_count - 2}
       IN  IF status = "SERVER_GOINGTOSTOP"
           THEN /\ ended' = ended \cup {owner[f] : f \in closed}
                /\ owner' = [f \in Fds |-> IF f \in closed THEN NoConn ELSE owner[f]]
                /\ sfd' = [k \in Slots |-> -1]
                /\ connector_count' = 0
                /\ status' = "SERVER_STOPED"
           ELSE UNCHANGED <<ended, owner, sfd, connector_count, status>>
    /\ UNCHANGED <<socket_set, max_fd, set, cur, buffer, msg, listening, backlog,
                   inbox, outbox, clientVars, main>>

\* After the loop: close every connection and report STOPED.  socket_set and
\* max_fd keep their last values.
Leave ==
    /\ pc = "leave"
    /\ pc' = "exited"
    /\ IF status = "SERVER_GOINGTOSTOP"
       THEN /\ ended' = ended \cup {owner[f] : f \in Held}
            /\ owner' = [f \in Fds |-> IF f \in Held THEN NoConn ELSE owner[f]]
            /\ sfd' = [k \in Slots |-> IF k < connector_count THEN -1 ELSE sfd[k]]
            /\ connector_count' = 0
            /\ status' = "SERVER_STOPED"
       ELSE UNCHANGED <<ended, owner, sfd, connector_count, status>>
    /\ UNCHANGED <<socket_set, max_fd, set, cur, buffer, msg, listening, backlog,
                   inbox, outbox, clientVars, main>>

ServerStep ==
    \/ ThreadBegin \/ LoopTest \/ Select \/ ScanDone \/ ScanNext
    \/ Accept \/ AcceptOverrun \/ AcceptFails
    \/ ReadData \/ ReadEnd \/ Handle \/ Leave

-----------------------------------------------------------------------------
(* The main thread: server_start and server_destory.                       *)

Start ==
    /\ main = "created"
    /\ \/ main' = "started" /\ pc' = "ready"
       \/ StartMayFail /\ main' = "failed" /\ pc' = pc
    /\ UNCHANGED <<ctxVars, set, cur, buffer, msg, netVars, clientVars>>

\* Mutant: a stop requested before the thread runs is recorded in the status.
DestroyInitedStops ==
    /\ main = "failed" \/ (main = "started" /\ EarlyDestroy)
    /\ status = "SERVER_INITED"
    /\ status' = "SERVER_GOINGTOSTOP"
    /\ main' = "close"
    /\ UNCHANGED <<socket_set, connector_count, sfd, max_fd, threadVars, netVars,
                   clientVars>>

DestroyInited ==
    /\ main = "failed" \/ (main = "started" /\ EarlyDestroy)
    /\ status = "SERVER_INITED"
    /\ main' = "close"
    /\ UNCHANGED <<ctxVars, threadVars, netVars, clientVars>>

DestroyListening ==
    /\ main = "started"
    /\ status = "SERVER_LISTENING"
    /\ status' = "SERVER_GOINGTOSTOP"
    /\ main' = "wake"
    /\ UNCHANGED <<socket_set, connector_count, sfd, max_fd, threadVars, netVars,
                   clientVars>>

\* Mutant: nobody connects to wake the thread.
WakeNobody ==
    /\ main = "wake"
    /\ main' = "spin"
    /\ UNCHANGED <<ctxVars, threadVars, netVars, clientVars>>

\* client_create(ctx->type) followed at once by client_destory.
Wake ==
    /\ main = "wake"
    /\ Len(backlog) <= MaxConnector
    /\ backlog' = Append(backlog, Waker)
    /\ client' = [client EXCEPT ![Waker] = "closed"]
    /\ main' = "spin"
    /\ UNCHANGED <<ctxVars, threadVars, listening, owner, ended, inbox, outbox,
                   writing, sends>>

WakeFails ==
    /\ main = "wake"
    /\ WakerMayFail
    /\ main' = "spin"
    /\ UNCHANGED <<ctxVars, threadVars, netVars, clientVars>>

Spin ==
    /\ main = "spin"
    /\ status = "SERVER_STOPED"
    /\ main' = "close"
    /\ UNCHANGED <<ctxVars, threadVars, netVars, clientVars>>

\* Connections still in the accept queue are reset with the listener.
CloseListener ==
    /\ main = "close"
    /\ listening' = FALSE
    /\ ended' = ended \cup {backlog[k] : k \in 1 .. Len(backlog)}
    /\ backlog' = <<>>
    /\ main' = "join"
    /\ UNCHANGED <<ctxVars, threadVars, owner, inbox, outbox, clientVars>>

\* pthread_join, then free(ctx).  Joining thread_id 0 returns an error or
\* takes the process down.
Join ==
    /\ main = "join"
    /\ \/ pc = "exited" /\ main' = "freed"
       \/ pc = "none" /\ main' \in {"freed", "crashed"}
    /\ UNCHANGED <<ctxVars, threadVars, netVars, clientVars>>

MainStep ==
    \/ Start \/ DestroyInited \/ DestroyListening
    \/ Wake \/ WakeFails \/ Spin \/ CloseListener \/ Join

-----------------------------------------------------------------------------
(* Client programs: client_create, the two send calls, client_destory.     *)

\* Nothing in the protocol tells a client that its last request has been
\* read; without Pipelining clients happen to pause until it has.
MaySend(c) ==
    Pipelining \/ (inbox[c] = <<>> /\ ~(pc = "read" /\ owner[cur] = c))

Connect(c) ==
    /\ client[c] = "idle"
    /\ listening
    /\ Len(backlog) <= MaxConnector
    /\ client' = [client EXCEPT ![c] = "up"]
    /\ backlog' = Append(backlog, c)
    /\ UNCHANGED <<ctxVars, threadVars, listening, owner, ended, inbox, outbox,
                   writing, sends, main>>

\* send_request: the text goes out whole, or its back follows later.
Write(c, kind, next) ==
    LET m == [from |-> c, kind |-> kind]
    IN  /\ writing[c] = NoMsg
        /\ c \notin ended
        /\ sends[c] < MaxSends[c]
        /\ MaySend(c)
        /\ sends' = [sends EXCEPT ![c] = @ + 1]
        /\ client' = [client EXCEPT ![c] = next]
        /\ \/ /\ inbox' = [inbox EXCEPT ![c] = Append(@, Whole(m))]
              /\ writing' = writing
           \/ /\ kind # "null"
              /\ inbox' = [inbox EXCEPT ![c] = Append(@, Front(m))]
              /\ writing' = [writing EXCEPT ![c] = m]
        /\ UNCHANGED <<ctxVars, threadVars, listening, backlog, owner, ended,
                       outbox, main>>

\* client_send_request with a command that has no reply.
Tell(c) ==
    /\ c \notin SyncClients
    /\ client[c] = "up"
    /\ Write(c, "tell", "up")

\* client_send_request_wait_reply with a query.
Ask(c) ==
    /\ c \notin SyncClients
    /\ client[c] = "up"
    /\ Write(c, "ask", "wait")

\* send_cmd_sync: client_send_request with the query, then
\* client_send_request_wait_reply with data = NULL, i.e. the text "null".
SyncSend(c) ==
    /\ c \in SyncClients
    /\ client[c] = "up"
    /\ Write(c, "ask", "sync")

SyncWait(c) ==
    /\ client[c] = "sync"
    /\ Write(c, "null", "wait")

FinishWrite(c) ==
    /\ writing[c] # NoMsg
    /\ client[c] # "closed"
    /\ c \notin ended
    /\ inbox' = [inbox EXCEPT ![c] = Append(@, Back(writing[c]))]
    /\ writing' = [writing EXCEPT ![c] = NoMsg]
    /\ UNCHANGED <<ctxVars, threadVars, listening, backlog, owner, ended, outbox,
                   client, sends, main>>

\* read_request on the client's side: one read takes every reply that has
\* arrived and the first of them is returned.
Receive(c) ==
    /\ client[c] = "wait"
    /\ writing[c] = NoMsg
    /\ outbox[c] # <<>>
    /\ outbox' = [outbox EXCEPT ![c] = <<>>]
    /\ client' = [client EXCEPT ![c] = "up"]
    /\ UNCHANGED <<ctxVars, threadVars, listening, backlog, owner, ended, inbox,
                   writing, sends, main>>

\* The server's end is gone: a reader gets end of file, a writer SIGPIPE.
Disconnected(c) ==
    /\ client[c] \in {"up", "sync", "wait"}
    /\ c \in ended
    /\ client[c] = "wait" /\ writing[c] = NoMsg => outbox[c] = <<>>
    /\ client' = [client EXCEPT ![c] = "closed"]
    /\ UNCHANGED <<ctxVars, threadVars, netVars, writing, sends, main>>

\* client_destory, or the client process dies: at any moment.
Close(c) ==
    /\ client[c] \in {"up", "sync", "wait"}
    /\ client' = [client EXCEPT ![c] = "closed"]
    /\ UNCHANGED <<ctxVars, threadVars, netVars, writing, sends, main>>

ClientStep(c) ==
    \/ Connect(c) \/ Tell(c) \/ Ask(c) \/ SyncSend(c) \/ SyncWait(c)
    \/ FinishWrite(c) \/ Receive(c) \/ Disconnected(c) \/ Close(c)

Next ==
    \/ ServerStep
    \/ MainStep
    \/ \E c \in Clients : ClientStep(c)

Spec == Init /\ [][Next]_vars

(***************************************************************************)
(* The scheduler runs both threads, a select or read with something to     *)
(* return returns, and a client that has begun a request finishes writing  *)
(* it and takes its reply.  start_help_worker starts the thread right after *)
(* server_create.  Nobody has to connect, ask, close or destroy.           *)
(***************************************************************************)
Fairness ==
    /\ WF_vars(ServerStep)
    /\ WF_vars(Start \/ Wake \/ WakeFails \/ Spin \/ CloseListener \/ Join)
    /\ \A c \in Clients :
        WF_vars(SyncWait(c) \/ FinishWrite(c) \/ Receive(c) \/ Disconnected(c))

FairSpec == Spec /\ Fairness

-----------------------------------------------------------------------------
\* Every variable holds a value of its C type, and max_fd and the snapshot only
\* ever name the listener or a descriptor accept can return.
TypeOK ==
    /\ status \in DOMAIN Rank
    /\ socket_set \in SUBSET (Fds \cup {SetupFd})
    /\ connector_count \in 0 .. MaxConnector + 1
    /\ sfd \in [Slots -> Fds \cup {-1}]
    /\ max_fd \in Fds \cup {SetupFd}
    /\ pc \in {"none", "ready", "loop", "select", "scan", "accept", "read",
               "handle", "leave", "exited", "overrun", "killed"}
    /\ set \in SUBSET (Fds \cup {SetupFd})
    /\ cur \in Fds \cup {SetupFd}
    /\ buffer \in Seq(Fragments)
    /\ msg \in Messages \cup {NoMsg}
    /\ listening \in BOOLEAN
    /\ backlog \in Seq(Conns)
    /\ owner \in [Fds -> Conns \cup {NoConn}]
    /\ ended \in SUBSET Conns
    /\ inbox \in [Conns -> Seq(Fragments)]
    /\ outbox \in [Conns -> Seq(Messages)]
    /\ client \in [Conns -> {"idle", "up", "sync", "wait", "closed"}]
    /\ writing \in [Clients -> Messages \cup {NoMsg}]
    /\ sends \in [Clients -> Nat]
    /\ main \in {"created", "started", "failed", "wake", "spin", "close",
                 "join", "freed", "crashed"}

\* The thread still uses the watch set: it has not left its loop, and has not
\* written past the end of sfd[].
Serving == pc \notin {"exited", "overrun"}

\* ipc.h:62-65: while the server runs, the descriptors select watches, the ones
\* in the table and the connections really open are the same set; the table
\* holds each once, and every slot from connector_count on is -1.
TableConsistent ==
    Serving =>
        /\ Held = Open
        /\ socket_set = Open \cup {SetupFd}
        /\ \A j, k \in 0 .. connector_count - 1 : sfd[j] = sfd[k] => j = k
        /\ \A k \in Slots : k >= connector_count => sfd[k] = -1

\* ipc.h:66, "it hold the max fd, which used by select": no watched descriptor
\* lies above max_fd, or select would never report it.  So the code keeps it
\* until a store past sfd[].
MaxFdBoundsWatched ==
    Serving => /\ max_fd \in socket_set
               /\ \A f \in socket_set : f <= max_fd

\* The store past sfd[] (ipc.c:253) takes as many open connections as the table
\* has slots, and one more: however many came and went before, no removal has
\* used a slot up.
OverrunOnlyWhenFull ==
    pc = "overrun" =>
        /\ \A k \in Slots : sfd[k] \in Open
        /\ \A j, k \in Slots : sfd[j] = sfd[k] => j = k
        /\ \E fd \in Open : \A k \in Slots : sfd[k] # fd

\* The select snapshot goes stale while requests are handled and connections
\* are removed, yet what is left of it only names descriptors that are still
\* open, each once: the descriptor in hand is open until its reply is
\* written, and is not visited again.
SnapshotLive ==
    /\ Serving => set \subseteq Open \cup {SetupFd}
    /\ pc \in {"read", "handle"} => cur \in Open \ set

\* Descriptor numbers are reused at once, yet a reply only ever reaches the
\* connection whose request it answers, and an answered client had asked.
RepliesToAsker ==
    /\ \A c \in Conns : \A k \in 1 .. Len(outbox[c]) :
           outbox[c][k] = [from |-> c, kind |-> "ask"]
    /\ pc = "handle" => owner[cur] = msg.from

\* server_destory waits for the thread: when the context is freed the thread
\* is not running, and an orderly stop has closed every connection.
FreedAfterExit ==
    /\ main = "freed" => pc \in {"exited", "none"}
    /\ status = "SERVER_STOPED" => Open = {}

\* ipc.h:67-68: the status has two writers, and neither ever takes it back: the
\* thread's LISTENING never overwrites a request to stop.
StatusForward == [][Rank[status'] >= Rank[status]]_status

-----------------------------------------------------------------------------
(* The inductive invariant behind the safety properties.                   *)

\* Outside the overrun the table never holds more than MAX_CONNECTOR.
WithinTable == Serving => connector_count <= MaxConnector

\* read() is never asked for zero bytes: what has been read fits the limit.
RoomToRead == pc = "read" => Len(buffer) < MaxFragments

\* Bytes keep their author on the way: in the kernel, in the read buffer of the
\* connection in hand, in the unwritten back of a request.
StreamsByAuthor ==
    /\ \A c \in Conns : \A k \in 1 .. Len(inbox[c]) : inbox[c][k].msg.from = c
    /\ pc = "read" => \A k \in 1 .. Len(buffer) : buffer[k].msg.from = owner[cur]
    /\ pc = "handle" => msg \in Messages
    /\ \A c \in Clients : writing[c] # NoMsg => writing[c].from = c

\* The status follows the thread: INITED until its first statement, STOPED only
\* after its last; and there is no thread before pthread_create made one.
StatusFollowsThread ==
    /\ pc \in {"none", "ready"} => status = "SERVER_INITED"
    /\ status = "SERVER_STOPED" => pc = "exited"
    /\ main \in {"created", "failed"} => pc = "none"

IInv ==
    /\ TypeOK
    /\ WithinTable
    /\ TableConsistent
    /\ MaxFdBoundsWatched
    /\ SnapshotLive
    /\ RoomToRead
    /\ StreamsByAuthor
    /\ RepliesToAsker
    /\ StatusFollowsThread
    /\ FreedAfterExit

-----------------------------------------------------------------------------
(* Liveness.                                                               *)

\* server_destory returns: the waker gets the thread out of select, the thread
\* leaves its loop, and the join finds it gone.
DestroyReturns ==
    main \in {"wake", "close"} ~> main \in {"freed", "crashed"}

\* ipc.h:117-118, "wait for server reply, the reply is a new json": a client
\* waiting in client_send_request_wait_reply gets its reply or end of file.
WaitEnds == \A c \in Clients : client[c] = "wait" ~> client[c] # "wait"
=============================================================================
