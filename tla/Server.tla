------------------------------- MODULE Server -------------------------------
(***************************************************************************)
(* main.cpp of the chat server: one thread that accepts connections and    *)
(* turns readable sockets into tasks, pool threads that read them          *)
(* (handle_read_sock) and pool threads that dispatch the messages          *)
(* (handle_mess_que), all working on the same registries:                  *)
(*                                                                         *)
(*    recv_sockfd_mp_ip   fd |-> ip of who is on line    (mpip)            *)
(*    recv_sockfd_mp_mux  fd |-> mutex of the connection (mpmux)           *)
(*    read_clients        the ClientSock objects         (clients)         *)
(*                                                                         *)
(* A descriptor is a small integer the kernel gives out again as soon as   *)
(* it is closed; the registries are keyed by it.  Everything that belongs  *)
(* to one accepted connection (its ClientSock, the mutex made for it) is   *)
(* named by the connection.                                                *)
(*                                                                         *)
(* Atomicity.  The scopes of recv_mpip_mux, recv_mpmx_mux and clients_mux  *)
(* never nest and never block, so each is one step; the mutex of a         *)
(* connection is held across steps.  A read of a registry without its lock *)
(* is one step too.  Sockets are modelled by packets: one recv() takes one *)
(* message, one send() takes a whole one or none (EAGAIN).  The message    *)
(* queue is the atomic queue of Fifo, which SafeQueueHistory justifies,    *)
(* and the pool starts its tasks in the order of its queue (ThreadPool).   *)
(* Redis answers, and SQLite executes whatever statement is well formed    *)
(* and not too long.  What follows exit(1), where the pool's destructor    *)
(* joins the dispatchers for ever, is not modelled.                        *)
(***************************************************************************)
EXTENDS Naturals, Sequences, FiniteSets, SequencesExt

CONSTANTS
    Conn,      \* connections clients may open, each at most once
    Ip,        \* addresses of the clients' machines
    Fd,        \* descriptors the process may hold (RLIMIT_NOFILE)
    Reader,    \* pool threads that run handle_read_sock
    Worker,    \* pool threads that run handle_mess_que
    Main,      \* the thread of main()
    Msg,       \* messages clients may send, each at most once
    Room,      \* the group id of test_lt_room
    Garbled,   \* a text that is nobody's address
    NULL,
    PeerIp,    \* [Conn -> Ip]: where a connection comes from
    To,        \* the address field of a message: an Ip, Room or another text
    Group,     \* the messages of type GUP_COMM
    Members,   \* lt_room[Room], in order
    Clean,     \* messages whose address field is zero behind the room's id
    Storable,  \* messages whose INSERT statement is well formed
    MaxTerms,  \* terms SQLite takes in one WHERE (SQLITE_MAX_EXPR_DEPTH)
    Senders, Closers, Resetters  \* connections whose client may send, close,
                                 \* or be reset (all of them in general)

Thread == {Main} \cup Reader \cup Worker

ASSUME ServerAssumption ==
    /\ Fd \subseteq Nat
    /\ \E top \in Fd : \A f \in Fd : f <= top
    /\ PeerIp \in [Conn -> Ip]
    /\ Members \in Seq(Ip)
    /\ NULL \notin Conn \cup Ip \cup Fd \cup Thread \cup Msg
    /\ Main \notin Reader \cup Worker
    /\ Reader \cap Worker = {}
    /\ Room \notin Ip
    /\ Garbled \notin Ip
    /\ "listen" \notin Conn
    /\ MaxTerms \in Nat

VARIABLES
    proc,      \* "running", "exit" (exit(1) was called) or "killed"
    (* the kernel *)
    peer,      \* the other end of each connection
    backlog,   \* connections not yet accepted
    fdtab,     \* the connection behind each open descriptor
    rq,        \* messages received and not yet read
    watched,   \* connections registered with epoll
    edge,      \* edges not yet reported: "listen" or a connection
    unsent,    \* messages no client has sent yet
    out,       \* what each peer has been sent, in order
    (* shared variables of the program *)
    mpip, mpmux, clients,
    fdOf,      \* client_recv_sockfd of each ClientSock
    owner,     \* the thread that holds the mutex made for a connection
    buf,       \* sock_tmp_buf
    messq,     \* mess_que
    taskq,     \* the pool's queue: descriptors to read
    redis,     \* online_ipset
    rows,      \* table tmp_mess
    lastId,    \* the last ID given out
    (* local variables *)
    mpc, cur, sel, ids,   \* main: the connection logging in, its history
    rpc, rl,              \* readers
    wpc, wl               \* workers

kernel   == <<peer, backlog, fdtab, rq, watched, edge, unsent, out>>
registry == <<mpip, mpmux, clients, fdOf>>
queues   == <<buf, messq, taskq>>
store    == <<redis, rows, lastId>>
mainv    == <<mpc, cur, sel, ids>>
readv    == <<rpc, rl>>
workv    == <<wpc, wl>>
vars == <<proc, kernel, registry, owner, queues, store, mainv, readv, workv>>

ReaderIdle == [fd |-> NULL, mux |-> NULL, conn |-> NULL, j |-> 0,
               ip |-> NULL, failed |-> FALSE]
WorkerIdle == [msg |-> NULL, to |-> NULL, sock |-> NULL, mux |-> NULL,
               left |-> <<>>]

Init ==
    /\ proc = "running"
    /\ peer = [c \in Conn |-> "none"]
    /\ backlog = <<>>
    /\ fdtab = [f \in Fd |-> NULL]
    /\ rq = [c \in Conn |-> <<>>]
    /\ watched = {}
    /\ edge = {}
    /\ unsent = Msg
    /\ out = [c \in Conn |-> <<>>]
    /\ mpip = [f \in Fd |-> NULL]
    /\ mpmux = [f \in Fd |-> NULL]
    /\ clients = <<>>
    /\ fdOf = [c \in Conn |-> NULL]
    /\ owner = [c \in Conn |-> NULL]
    /\ buf = NULL
    /\ messq = <<>>
    /\ taskq = <<>>
    /\ redis = {}
    /\ rows = {}
    /\ lastId = 0
    /\ mpc = "poll"
    /\ cur = NULL
    /\ sel = {}
    /\ ids = {}
    /\ rpc = [r \in Reader |-> "idle"]
    /\ rl = [r \in Reader |-> ReaderIdle]
    /\ wpc = [w \in Worker |-> "pop"]
    /\ wl = [w \in Worker |-> WorkerIdle]

-----------------------------------------------------------------------------
(* The clients and the kernel. *)

\* peer: "none" not connected, "up", "fin" closed by the client, "rst" reset
\* with the error not yet reported, "pipe" reset and reported: recv() sees an
\* end of file, send() raises SIGPIPE.
Peer == {"none", "up", "fin", "rst", "pipe"}

Open == {c \in Conn : \E f \in Fd : fdtab[f] = c}

\* An edge is reported for the connections epoll watches.
EdgeAt(c) == edge \cup ({c} \cap watched)

Connect(c) ==
    /\ peer[c] = "none"
    /\ peer' = [peer EXCEPT ![c] = "up"]
    /\ backlog' = Append(backlog, c)
    /\ edge' = edge \cup {"listen"}
    /\ UNCHANGED <<fdtab, rq, watched, unsent, out>>

ClientSend(c) ==
    /\ c \in Senders
    /\ peer[c] = "up"
    /\ \E m \in unsent :
          /\ unsent' = unsent \ {m}
          /\ rq' = [rq EXCEPT ![c] = Append(@, m)]
    /\ edge' = EdgeAt(c)
    /\ UNCHANGED <<peer, backlog, fdtab, watched, out>>

ClientClose(c) ==
    /\ c \in Closers
    /\ peer[c] = "up"
    /\ peer' = [peer EXCEPT ![c] = "fin"]
    /\ edge' = EdgeAt(c)
    /\ UNCHANGED <<backlog, fdtab, rq, watched, unsent, out>>

\* The client's machine resets the connection.  After a FIN the reset leaves
\* no error for recv() to report.
Reset(c) ==
    /\ c \in Resetters
    /\ peer[c] \in {"up", "fin"}
    /\ peer' = [peer EXCEPT ![c] = IF @ = "up" THEN "rst" ELSE "pipe"]
    /\ edge' = EdgeAt(c)
    /\ UNCHANGED <<backlog, fdtab, rq, watched, unsent, out>>

Environment ==
    /\ proc = "running"
    /\ \E c \in Conn : Connect(c) \/ ClientSend(c) \/ ClientClose(c) \/ Reset(c)
    /\ UNCHANGED <<proc, registry, owner, queues, store, mainv, readv, workv>>

\* close(f), by whoever thinks it owns f: EBADF if nobody does.
Close(f) ==
    /\ fdtab' = [fdtab EXCEPT ![f] = NULL]
    /\ watched' = watched \ {fdtab[f]}
    /\ edge' = edge \ {fdtab[f]}
    /\ UNCHANGED <<peer, backlog, rq, unsent, out>>

\* Lowest descriptor not in use.
FreeFd == {f \in Fd : fdtab[f] = NULL}
Lowest(F) == CHOOSE f \in F : \A g \in F : f <= g
Highest(F) == CHOOSE f \in F : \A g \in F : f >= g

-----------------------------------------------------------------------------
(* The thread of main(): the epoll loop and the login of a connection. *)

MainAt(from, to) ==
    /\ proc = "running"
    /\ mpc = from
    /\ mpc' = to

\* One accept() for an event of the listening socket, which is edge
\* triggered.  A failing accept() is not handled: setnonblocking(-1) exits.
Accept ==
    /\ proc = "running"
    /\ mpc = "poll"
    /\ "listen" \in edge
    /\ edge' = edge \ {"listen"}
    /\ IF FreeFd = {}
       THEN /\ proc' = "exit"
            /\ UNCHANGED <<mpc, cur, backlog, fdtab, fdOf>>
       ELSE LET f == Lowest(FreeFd) IN
            /\ mpc' = "pushClient"
            /\ cur' = Head(backlog)
            /\ backlog' = Tail(backlog)
            /\ fdtab' = [fdtab EXCEPT ![f] = Head(backlog)]
            /\ fdOf' = [fdOf EXCEPT ![Head(backlog)] = f]
            /\ UNCHANGED proc
    /\ UNCHANGED <<peer, rq, watched, unsent, out, mpip, mpmux, clients, owner,
                   queues, store, sel, ids, readv, workv>>

PushClient ==
    /\ MainAt("pushClient", "registerIp")
    /\ clients' = Append(clients, cur)
    /\ UNCHANGED <<proc, kernel, mpip, mpmux, fdOf, owner, queues, store, cur,
                   sel, ids, readv, workv>>

\* my_insert_sockfd_map_recv: the ip's first entry goes; map::insert leaves
\* an entry that is already there for this descriptor alone.
FirstWith(ip) == {f \in Fd : mpip[f] = ip /\ \A g \in Fd : mpip[g] = ip => f <= g}

\* Mutant: the ip's former entry is not erased.
RegisterIpKeepingOld ==
    /\ MainAt("registerIp", "registerMux")
    /\ mpip' = [mpip EXCEPT ![fdOf[cur]] = IF @ = NULL THEN PeerIp[cur] ELSE @]
    /\ UNCHANGED <<proc, kernel, mpmux, clients, fdOf, owner, queues, store,
                   cur, sel, ids, readv, workv>>

RegisterIp ==
    /\ MainAt("registerIp", "registerMux")
    /\ LET f == fdOf[cur]
           ip == PeerIp[cur]
           erased == [g \in Fd |-> IF g \in FirstWith(ip) THEN NULL ELSE mpip[g]]
       IN mpip' = [erased EXCEPT ![f] = IF @ = NULL THEN ip ELSE @]
    /\ UNCHANGED <<proc, kernel, mpmux, clients, fdOf, owner, queues, store,
                   cur, sel, ids, readv, workv>>

\* map::emplace: a mutex already there for this descriptor stays.
RegisterMux ==
    /\ MainAt("registerMux", "addRedis")
    /\ mpmux' = [mpmux EXCEPT ![fdOf[cur]] = IF @ = NULL THEN cur ELSE @]
    /\ UNCHANGED <<proc, kernel, mpip, clients, fdOf, owner, queues, store,
                   cur, sel, ids, readv, workv>>

AddRedis ==
    /\ MainAt("addRedis", "select")
    /\ redis' = redis \cup {PeerIp[cur]}
    /\ UNCHANGED <<proc, kernel, registry, owner, queues, rows, lastId, cur,
                   sel, ids, readv, workv>>

\* SELECT * FROM tmp_mess WHERE to_ip = ip, and what the callback collects of
\* each row for the DELETE.
RowsFor(ip) == {row \in rows : row.to = ip}
Ids(R) == {row.id : row \in R}

Select ==
    /\ MainAt("select", "lock")
    /\ sel' = RowsFor(PeerIp[cur])
    /\ ids' = Ids(RowsFor(PeerIp[cur]))
    /\ UNCHANGED <<proc, kernel, registry, owner, queues, store, cur, readv,
                   workv>>

\* recv_mutex is the mutex just created, registered or not.
LockOwn ==
    /\ MainAt("lock", "replay")
    /\ owner[cur] = NULL
    /\ owner' = [owner EXCEPT ![cur] = Main]
    /\ UNCHANGED <<proc, kernel, registry, queues, store, cur, sel, ids, readv,
                   workv>>

\* Who a send() on descriptor f reaches: the program's view is a number.
Receives(f, c) == fdtab[f] = c /\ peer[c] = "up"

\* out of the peer behind f, if there is one, gets one more packet.
Deliver(f, packet) ==
    [c \in Conn |-> IF Receives(f, c) THEN Append(out[c], packet) ELSE out[c]]

\* send() reports the pending error of a reset connection.
Reported(f) ==
    [c \in Conn |-> IF fdtab[f] = c /\ peer[c] = "rst" THEN "pipe" ELSE peer[c]]

Broken(f) == \E c \in Conn : fdtab[f] = c /\ peer[c] = "pipe"

\* SQLite walks the table by ID, so the rows come in the order of their IDs.
Oldest(R) == CHOOSE row \in R : \A other \in R : row.id <= other.id

\* Mutants: the history goes to the first socket instead of the new one; it
\* goes out newest message first.
ReplayToFirst ==
    /\ MainAt("replay", "replay")
    /\ sel # {}
    /\ LET f == Lowest({fdOf[clients[i]] : i \in 1..Len(clients)}) IN
       /\ ~Broken(f)
       /\ out' = Deliver(f, Oldest(sel))
       /\ peer' = Reported(f)
       /\ sel' = sel \ {Oldest(sel)}
    /\ UNCHANGED <<proc, backlog, fdtab, rq, watched, edge, unsent, registry,
                   owner, queues, store, cur, ids, readv, workv>>

ReplayNewest ==
    /\ MainAt("replay", "replay")
    /\ sel # {}
    /\ LET f == fdOf[cur]
           row == CHOOSE r \in sel : \A other \in sel : r.id >= other.id
       IN /\ ~Broken(f)
          /\ out' = Deliver(f, row)
          /\ peer' = Reported(f)
          /\ sel' = sel \ {row}
    /\ UNCHANGED <<proc, backlog, fdtab, rq, watched, edge, unsent, registry,
                   owner, queues, store, cur, ids, readv, workv>>

\* send() of one stored message, its result ignored.  SIGPIPE is not handled.
Replay ==
    /\ MainAt("replay", "replay")
    /\ sel # {}
    /\ LET f == fdOf[cur] IN
       IF Broken(f)
       THEN proc' = "killed" /\ UNCHANGED <<out, peer, sel>>
       ELSE /\ \/ out' = Deliver(f, Oldest(sel))
               \/ UNCHANGED out
            /\ peer' = Reported(f)
            /\ sel' = sel \ {Oldest(sel)}
            /\ UNCHANGED proc
    /\ UNCHANGED <<backlog, fdtab, rq, watched, edge, unsent, registry, owner,
                   queues, store, cur, ids, readv, workv>>

UnlockOwn ==
    /\ MainAt("replay", "delete")
    /\ sel = {}
    /\ owner' = [owner EXCEPT ![cur] = NULL]
    /\ UNCHANGED <<proc, kernel, registry, queues, store, cur, sel, ids, readv,
                   workv>>

\* Mutants: nothing is deleted; the rows are deleted by address.
DeleteNothing ==
    /\ MainAt("delete", "watch")
    /\ ids' = {}
    /\ UNCHANGED <<proc, kernel, registry, owner, queues, store, cur, sel,
                   readv, workv>>

DeleteByAddress ==
    /\ MainAt("delete", "watch")
    /\ rows' = rows \ RowsFor(PeerIp[cur])
    /\ ids' = {}
    /\ UNCHANGED <<proc, kernel, registry, owner, queues, redis, lastId, cur,
                   sel, readv, workv>>

\* DELETE ... WHERE ID = id1 OR ID = id2 ..., which fails if it is too long.
RowsWithout(I) == {row \in rows : row.id \notin I}

Delete ==
    /\ MainAt("delete", "watch")
    /\ rows' = IF Cardinality(ids) <= MaxTerms THEN RowsWithout(ids) ELSE rows
    /\ ids' = {}
    /\ UNCHANGED <<proc, kernel, registry, owner, queues, redis, lastId, cur,
                   sel, readv, workv>>

\* epoll_ctl(ADD): what has already arrived is reported at once.
Watch ==
    /\ MainAt("watch", "poll")
    /\ LET f == fdOf[cur]
           c == fdtab[f]
       IN IF c = NULL
          THEN UNCHANGED <<watched, edge>>
          ELSE /\ watched' = watched \cup {c}
               /\ edge' = IF rq[c] # <<>> \/ peer[c] # "up" THEN edge \cup {c}
                                                          ELSE edge
    /\ cur' = NULL
    /\ UNCHANGED <<proc, peer, backlog, fdtab, rq, unsent, out, registry, owner,
                   queues, store, sel, ids, readv, workv>>

\* A readable connection becomes a task that carries its descriptor.
CommitRead ==
    /\ MainAt("poll", "poll")
    /\ \E f \in Fd :
          /\ fdtab[f] \in edge
          /\ edge' = edge \ {fdtab[f]}
          /\ taskq' = Append(taskq, f)
    /\ UNCHANGED <<proc, peer, backlog, fdtab, rq, watched, unsent, out,
                   registry, owner, buf, messq, store, cur, sel, ids, readv,
                   workv>>

MainStep ==
    \/ Accept \/ PushClient \/ RegisterIp \/ RegisterMux \/ AddRedis \/ Select
    \/ LockOwn \/ Replay \/ UnlockOwn \/ Delete \/ Watch \/ CommitRead

-----------------------------------------------------------------------------
(* handle_read_sock: a pool thread reads a descriptor until EAGAIN, end of *)
(* file or error.  In the last two cases it takes the connection down; the *)
(* error path closes the descriptor after the registries are cleared, the  *)
(* end-of-file path before.                                                *)

ReaderAt(r, from) == proc = "running" /\ rpc[r] = from

ReaderTo(r, to, l) ==
    /\ rpc' = [rpc EXCEPT ![r] = to]
    /\ rl' = [rl EXCEPT ![r] = l]

ReaderGoes(r, to) == ReaderTo(r, to, rl[r])

\* The task starts; no registered mutex, no reading.
StartRead(r) ==
    /\ ReaderAt(r, "idle")
    /\ taskq # <<>>
    /\ taskq' = Tail(taskq)
    /\ LET f == Head(taskq) IN
       IF mpmux[f] = NULL
       THEN UNCHANGED readv
       ELSE ReaderTo(r, "find", [ReaderIdle EXCEPT !.fd = f, !.mux = mpmux[f]])
    /\ UNCHANGED <<proc, kernel, registry, owner, buf, messq, store, mainv,
                   workv>>

\* The last ClientSock with this descriptor; its index is kept.
FindClient(r) ==
    /\ ReaderAt(r, "find")
    /\ LET J == {j \in 1..Len(clients) : fdOf[clients[j]] = rl[r].fd} IN
       IF J = {}
       THEN ReaderTo(r, "idle", ReaderIdle)
       ELSE LET j == Highest(J) IN
            ReaderTo(r, "recv", [rl[r] EXCEPT !.j = j, !.conn = clients[j]])
    /\ UNCHANGED <<proc, kernel, registry, owner, queues, store, mainv, workv>>

\* recv() into sock_tmp_buf, which all readers share, under the mutex.
RecvData(r) ==
    /\ ReaderAt(r, "recv")
    /\ owner[rl[r].mux] = NULL
    /\ \E c \in Conn :
          /\ fdtab[rl[r].fd] = c
          /\ rq[c] # <<>>
          /\ buf' = Head(rq[c])
          /\ rq' = [rq EXCEPT ![c] = Tail(@)]
    /\ ReaderGoes(r, "save")
    /\ UNCHANGED <<proc, peer, backlog, fdtab, watched, edge, unsent, out,
                   registry, owner, messq, taskq, store, mainv, workv>>

\* Nothing to read: EAGAIN, end of file, ECONNRESET (once), or EBADF.
RecvNothing(r) ==
    /\ ReaderAt(r, "recv")
    /\ owner[rl[r].mux] = NULL
    /\ LET f == rl[r].fd
           c == fdtab[f]
       IN /\ c # NULL => rq[c] = <<>>
          /\ IF c # NULL /\ peer[c] = "up"
             THEN ReaderTo(r, "idle", ReaderIdle)
             ELSE ReaderTo(r, "getPeer", [rl[r] EXCEPT !.failed =
                                            (c = NULL \/ peer[c] = "rst")])
          /\ peer' = Reported(f)
    /\ UNCHANGED <<proc, backlog, fdtab, rq, watched, edge, unsent, out,
                   registry, owner, queues, store, mainv, workv>>

\* What is in the shared buffer by now becomes the client's message.
Save(r) ==
    /\ ReaderAt(r, "save")
    /\ owner[rl[r].mux] = NULL
    /\ messq' = Append(messq, buf)
    /\ ReaderGoes(r, "recv")
    /\ UNCHANGED <<proc, kernel, registry, owner, buf, taskq, store, mainv,
                   workv>>

Teardown(r) == IF rl[r].failed THEN "findIp" ELSE "close"

\* Mutant: the wrong map is asked for the ip.
GetPeerFromMux(r) ==
    /\ ReaderAt(r, "getPeer")
    /\ LET ip == mpmux[rl[r].fd] IN
       IF ip = NULL
       THEN ReaderGoes(r, Teardown(r))
       ELSE ReaderTo(r, "srem", [rl[r] EXCEPT !.ip = ip])
    /\ UNCHANGED <<proc, kernel, registry, owner, queues, store, mainv, workv>>

GetPeer(r) ==
    /\ ReaderAt(r, "getPeer")
    /\ LET ip == mpip[rl[r].fd] IN
       IF ip = NULL
       THEN ReaderGoes(r, Teardown(r))
       ELSE ReaderTo(r, "srem", [rl[r] EXCEPT !.ip = ip])
    /\ UNCHANGED <<proc, kernel, registry, owner, queues, store, mainv, workv>>

Srem(r) ==
    /\ ReaderAt(r, "srem")
    /\ redis' = redis \ {rl[r].ip}
    /\ ReaderGoes(r, Teardown(r))
    /\ UNCHANGED <<proc, kernel, registry, owner, queues, rows, lastId, mainv,
                   workv>>

CloseSock(r) ==
    /\ ReaderAt(r, "close")
    /\ Close(rl[r].fd)
    /\ ReaderGoes(r, IF rl[r].failed THEN "eraseClient" ELSE "findIp")
    /\ UNCHANGED <<proc, registry, owner, queues, store, mainv, workv>>

\* my_erase_sockfd_map_recv: a find() without the lock, then the two maps,
\* each under its own.  Without an ip it leaves the mutex registered.
AfterErase(r) == IF rl[r].failed THEN "close" ELSE "eraseClient"

FindIp(r) ==
    /\ ReaderAt(r, "findIp")
    /\ ReaderGoes(r, IF mpip[rl[r].fd] = NULL THEN AfterErase(r) ELSE "eraseIp")
    /\ UNCHANGED <<proc, kernel, registry, owner, queues, store, mainv, workv>>

EraseIp(r) ==
    /\ ReaderAt(r, "eraseIp")
    /\ mpip' = [mpip EXCEPT ![rl[r].fd] = NULL]
    /\ ReaderGoes(r, "eraseMux")
    /\ UNCHANGED <<proc, kernel, mpmux, clients, fdOf, owner, queues, store,
                   mainv, workv>>

EraseMux(r) ==
    /\ ReaderAt(r, "eraseMux")
    /\ mpmux' = [mpmux EXCEPT ![rl[r].fd] = NULL]
    /\ ReaderGoes(r, AfterErase(r))
    /\ UNCHANGED <<proc, kernel, mpip, clients, fdOf, owner, queues, store,
                   mainv, workv>>

\* read_clients.erase(begin() + j) with the index of the scan.  Beyond the end
\* it is undefined: the build drops the last element, or crashes.
EraseClient(r) ==
    /\ ReaderAt(r, "eraseClient")
    /\ LET j == rl[r].j
           n == Len(clients)
       IN \/ /\ j <= n
             /\ clients' = RemoveAt(clients, j)
             /\ UNCHANGED proc
          \/ /\ j > n /\ n > 0
             /\ clients' = SubSeq(clients, 1, n - 1)
             /\ UNCHANGED proc
          \/ /\ j > n
             /\ proc' = "killed"
             /\ UNCHANGED clients
    /\ ReaderTo(r, "idle", ReaderIdle)
    /\ UNCHANGED <<kernel, mpip, mpmux, fdOf, owner, queues, store, mainv, workv>>

ReaderStep(r) ==
    \/ StartRead(r) \/ FindClient(r) \/ RecvData(r) \/ RecvNothing(r) \/ Save(r)
    \/ GetPeer(r) \/ Srem(r) \/ CloseSock(r) \/ FindIp(r) \/ EraseIp(r)
    \/ EraseMux(r) \/ EraseClient(r)

-----------------------------------------------------------------------------
(* handle_mess_que: a pool thread dispatches one message after another, to *)
(* its recipient or to the members of the room in turn.                    *)

WorkerAt(w, from) == proc = "running" /\ wpc[w] = from

WorkerTo(w, to, l) ==
    /\ wpc' = [wpc EXCEPT ![w] = to]
    /\ wl' = [wl EXCEPT ![w] = l]

WorkerGoes(w, to) == WorkerTo(w, to, wl[w])

\* A message for an unknown room is dropped.
Pop(w) ==
    /\ WorkerAt(w, "pop")
    /\ messq # <<>>
    /\ messq' = Tail(messq)
    /\ LET m == Head(messq)
           l == [WorkerIdle EXCEPT !.msg = m, !.to = To[m]]
       IN \/ m \notin Group /\ WorkerTo(w, "lookup", l)
          \/ /\ m \in Group
             /\ To[m] = Room /\ Members # <<>>
             /\ WorkerTo(w, "lookup", [l EXCEPT !.left = Members])
          \/ /\ m \in Group
             /\ ~ (To[m] = Room /\ Members # <<>>)
             /\ UNCHANGED workv
    /\ UNCHANGED <<proc, kernel, registry, owner, buf, taskq, store, mainv,
                   readv>>

IsGroup(w) == wl[w].msg \in Group

Recipient(w) == IF IsGroup(w) THEN Head(wl[w].left) ELSE To[wl[w].msg]

\* The last entry with the recipient's ip for SING_COMM, the first for
\* GUP_COMM, which does not take recv_mpip_mux.
Lookup(w) ==
    /\ WorkerAt(w, "lookup")
    /\ LET F == {f \in Fd : mpip[f] = Recipient(w)} IN
       IF F = {}
       THEN WorkerGoes(w, "insert")
       ELSE WorkerTo(w, "getMux", [wl[w] EXCEPT !.sock =
                                     IF IsGroup(w) THEN Lowest(F)
                                                   ELSE Highest(F)])
    /\ UNCHANGED <<proc, kernel, registry, owner, queues, store, mainv, readv>>

\* No mutex: the break leaves the loop over the members, or, for SING_COMM,
\* the while (1) of the thread.
GetMux(w) ==
    /\ WorkerAt(w, "getMux")
    /\ LET x == mpmux[wl[w].sock] IN
       \/ x # NULL /\ WorkerTo(w, "lock", [wl[w] EXCEPT !.mux = x])
       \/ x = NULL /\ IsGroup(w) /\ WorkerTo(w, "pop", WorkerIdle)
       \/ x = NULL /\ ~IsGroup(w) /\ WorkerGoes(w, "dead")
    /\ UNCHANGED <<proc, kernel, registry, owner, queues, store, mainv, readv>>

LockSend(w) ==
    /\ WorkerAt(w, "lock")
    /\ owner[wl[w].mux] = NULL
    /\ owner' = [owner EXCEPT ![wl[w].mux] = w]
    /\ WorkerGoes(w, "send")
    /\ UNCHANGED <<proc, kernel, registry, queues, store, mainv, readv>>

\* The program's fields, and whom the packet was meant for (for properties).
Packet(w) == [id |-> 0, to |-> wl[w].to, msg |-> wl[w].msg,
              for |-> Recipient(w)]

\* send() to a peer whose reset was reported: SIGPIPE, which nobody handles.
SendBroken(w) ==
    /\ WorkerAt(w, "send")
    /\ Broken(wl[w].sock)
    /\ proc' = "killed"
    /\ UNCHANGED <<kernel, registry, owner, queues, store, mainv, readv, workv>>

\* EBADF, or the reset is reported now.
SendFails(w) ==
    /\ WorkerAt(w, "send")
    /\ LET f == wl[w].sock IN
          /\ fdtab[f] = NULL \/ \E c \in Conn : fdtab[f] = c /\ peer[c] = "rst"
          /\ peer' = Reported(f)
    /\ WorkerGoes(w, "findIp")
    /\ UNCHANGED <<proc, backlog, fdtab, rq, watched, edge, unsent, out,
                   registry, owner, queues, store, mainv, readv>>

\* Sent; or EAGAIN, which drops the message.  A peer that has closed gets
\* the packet from the kernel but nobody reads it.
SendOK(w) ==
    /\ WorkerAt(w, "send")
    /\ LET f == wl[w].sock IN
          /\ \E c \in Conn : fdtab[f] = c /\ peer[c] \in {"up", "fin"}
          /\ out' = Deliver(f, Packet(w)) \/ UNCHANGED out
    /\ WorkerGoes(w, "unlock")
    /\ UNCHANGED <<proc, peer, backlog, fdtab, rq, watched, edge, unsent,
                   registry, owner, queues, store, mainv, readv>>

\* my_erase_sockfd_map_recv again; the descriptor stays open.
WorkerFindIp(w) ==
    /\ WorkerAt(w, "findIp")
    /\ WorkerGoes(w, IF mpip[wl[w].sock] = NULL THEN "insert" ELSE "eraseIp")
    /\ UNCHANGED <<proc, kernel, registry, owner, queues, store, mainv, readv>>

WorkerEraseIp(w) ==
    /\ WorkerAt(w, "eraseIp")
    /\ mpip' = [mpip EXCEPT ![wl[w].sock] = NULL]
    /\ WorkerGoes(w, "eraseMux")
    /\ UNCHANGED <<proc, kernel, mpmux, clients, fdOf, owner, queues, store,
                   mainv, readv>>

WorkerEraseMux(w) ==
    /\ WorkerAt(w, "eraseMux")
    /\ mpmux' = [mpmux EXCEPT ![wl[w].sock] = NULL]
    /\ WorkerGoes(w, "insert")
    /\ UNCHANGED <<proc, kernel, mpip, clients, fdOf, owner, queues, store,
                   mainv, readv>>

\* On to the next member, or to the next message.
Proceed(w, l) ==
    IF Len(l.left) > 1
    THEN WorkerTo(w, "lookup", [l EXCEPT !.left = Tail(@), !.sock = NULL,
                                         !.mux = NULL])
    ELSE WorkerTo(w, "pop", WorkerIdle)

\* Mutant: the address of the first member that was absent stays.
StoredToKept(w) ==
    IF ~IsGroup(w) \/ wl[w].to # Room THEN wl[w].to
    ELSE IF wl[w].msg \in Clean THEN Recipient(w) ELSE Garbled

\* For a group the member's ip is written over the room's id in the message
\* itself, without a terminator, and stays there for the members that follow.
StoredTo(w) ==
    IF ~IsGroup(w) THEN wl[w].to
    ELSE IF wl[w].msg \in Clean THEN Recipient(w) ELSE Garbled

\* INSERT INTO tmp_mess: AUTOINCREMENT numbers the rows in the order they
\* are inserted.
NewRow(w) == [id |-> lastId + 1, to |-> StoredTo(w), msg |-> wl[w].msg,
              for |-> Recipient(w)]

Store(w) ==
    IF wl[w].msg \in Storable
    THEN /\ rows' = rows \cup {NewRow(w)}
         /\ lastId' = lastId + 1
    ELSE UNCHANGED <<rows, lastId>>

\* Mutant: the failed send leaves without unlocking.
InsertNoUnlock(w) ==
    /\ WorkerAt(w, "insert")
    /\ Store(w)
    /\ Proceed(w, [wl[w] EXCEPT !.to = StoredTo(w)])
    /\ UNCHANGED <<proc, kernel, registry, owner, queues, redis, mainv, readv>>

Insert(w) ==
    /\ WorkerAt(w, "insert")
    /\ Store(w)
    /\ LET l == [wl[w] EXCEPT !.to = StoredTo(w)] IN
          IF l.mux = NULL THEN Proceed(w, l) ELSE WorkerTo(w, "unlock", l)
    /\ UNCHANGED <<proc, kernel, registry, owner, queues, redis, mainv, readv>>

\* Mutant: the mutex of a member is kept when the next one's turn comes.
UnlockLast(w) ==
    /\ WorkerAt(w, "unlock")
    /\ owner' = IF Len(wl[w].left) > 1 THEN owner
                 ELSE [owner EXCEPT ![wl[w].mux] = NULL]
    /\ Proceed(w, wl[w])
    /\ UNCHANGED <<proc, kernel, registry, queues, store, mainv, readv>>

Unlock(w) ==
    /\ WorkerAt(w, "unlock")
    /\ owner' = [owner EXCEPT ![wl[w].mux] = NULL]
    /\ Proceed(w, wl[w])
    /\ UNCHANGED <<proc, kernel, registry, queues, store, mainv, readv>>

WorkerStep(w) ==
    \/ Pop(w) \/ Lookup(w) \/ GetMux(w) \/ LockSend(w) \/ SendBroken(w)
    \/ SendFails(w) \/ SendOK(w) \/ WorkerFindIp(w) \/ WorkerEraseIp(w)
    \/ WorkerEraseMux(w) \/ Insert(w) \/ Unlock(w)

-----------------------------------------------------------------------------
Next ==
    \/ Environment
    \/ MainStep
    \/ \E r \in Reader : ReaderStep(r)
    \/ \E w \in Worker : WorkerStep(w)

Spec == Init /\ [][Next]_vars

(***************************************************************************)
(* Fairness: main and the dispatchers go on, and main gets a mutex that    *)
(* becomes free again and again: a sender holds it for one send().         *)
(***************************************************************************)
Fairness ==
    /\ WF_vars(PushClient \/ RegisterIp \/ RegisterMux \/ AddRedis \/ Select
                 \/ Replay \/ UnlockOwn \/ Delete \/ Watch)
    /\ SF_vars(LockOwn)
    /\ \A w \in Worker : WF_vars(SendBroken(w) \/ SendFails(w) \/ SendOK(w)
                                   \/ WorkerFindIp(w) \/ WorkerEraseIp(w)
                                   \/ WorkerEraseMux(w) \/ Insert(w)
                                   \/ Unlock(w))

FairSpec == Spec /\ Fairness

-----------------------------------------------------------------------------
Address == Ip \cup {Room, Garbled} \cup {To[m] : m \in Msg}
Row     == [id : Nat, to : Address, msg : Msg, for : Address]

MainPc == {"poll", "pushClient", "registerIp", "registerMux", "addRedis",
           "select", "lock", "replay", "delete", "watch"}
ReaderPc == {"idle", "find", "recv", "save", "getPeer", "srem", "close",
             "findIp", "eraseIp", "eraseMux", "eraseClient"}
WorkerPc == {"pop", "lookup", "getMux", "lock", "send", "findIp", "eraseIp",
             "eraseMux", "insert", "unlock", "dead"}

ReaderLocal == [fd : Fd \cup {NULL}, mux : Conn \cup {NULL},
                conn : Conn \cup {NULL}, j : Nat,
                ip : Ip \cup {NULL}, failed : BOOLEAN]
WorkerLocal == [msg : Msg \cup {NULL}, to : Address \cup {NULL},
                sock : Fd \cup {NULL}, mux : Conn \cup {NULL},
                left : Seq(Ip)]

(* Types. *)
TypeOK ==
    /\ proc \in {"running", "exit", "killed"}
    /\ peer \in [Conn -> Peer]
    /\ backlog \in Seq(Conn)
    /\ fdtab \in [Fd -> Conn \cup {NULL}]
    /\ rq \in [Conn -> Seq(Msg)]
    /\ watched \in SUBSET Conn
    /\ edge \in SUBSET (Conn \cup {"listen"})
    /\ unsent \in SUBSET Msg
    /\ out \in [Conn -> Seq(Row)]
    /\ mpip \in [Fd -> Ip \cup {NULL}]
    /\ mpmux \in [Fd -> Conn \cup {NULL}]
    /\ clients \in Seq(Conn)
    /\ fdOf \in [Conn -> Fd \cup {NULL}]
    /\ owner \in [Conn -> {Main, NULL} \cup Worker]
    /\ buf \in Msg \cup {NULL}
    /\ messq \in Seq(Msg)
    /\ taskq \in Seq(Fd)
    /\ redis \in SUBSET Ip
    /\ rows \in SUBSET Row
    /\ lastId \in Nat
    /\ mpc \in MainPc
    /\ cur \in Conn \cup {NULL}
    /\ sel \in SUBSET Row
    /\ ids \in SUBSET Nat
    /\ rpc \in [Reader -> ReaderPc]
    /\ rl \in [Reader -> ReaderLocal]
    /\ wpc \in [Worker -> WorkerPc]
    /\ wl \in [Worker -> WorkerLocal]

\* An ip is on line under one descriptor at most: although a client may
\* reconnect before the server has seen its old connection end, and the two
\* lookups (lines 612-618: the last match, 686-691: the first) therefore agree.
UniqueIp ==
    \A f, g \in Fd : mpip[f] = mpip[g] /\ mpip[f] # NULL => f = g

\* A connection's mutex is held exactly by the thread that is between its
\* lock() and its unlock(): no path through a failed send, an erased registry
\* entry or a break leaves it locked, and nobody releases another's lock.
Sending == {"send", "findIp", "eraseIp", "eraseMux", "unlock"}

Holds(t, x) ==
    \/ t = Main /\ mpc = "replay" /\ cur = x
    \/ /\ t \in Worker
       /\ wl[t].mux = x
       /\ wpc[t] \in Sending \cup {"insert"}

NoOrphanLock ==
    \A x \in Conn, t \in {Main} \cup Worker : owner[x] = t <=> Holds(t, x)

\* Offline messages go to the one they were stored for only: no packet of the
\* replay (lines 355-368) reaches a connection from another ip, although main
\* sends to a number that readers may close under it, the SELECT goes by an
\* address that a dispatcher writes into the message for each member of a
\* room in turn, and the same message serves them all.
HistoryToAddressee ==
    \A c \in Conn : \A i \in 1..Len(out[c]) :
        out[c][i].id # 0 => out[c][i].for = PeerIp[c]

\* They are replayed in the order they were stored, whatever workers store
\* or send meanwhile, and no connection gets one twice.
HistoryInOrder ==
    \A c \in Conn : \A i, j \in 1..Len(out[c]) :
        i < j /\ out[c][i].id # 0 /\ out[c][j].id # 0 =>
            out[c][i].id < out[c][j].id

\* No stored message is replayed to two connections: the DELETE of a login
\* takes every row it replayed out of the next login's SELECT, as long as no
\* history can be longer than the statement may be.
NoRowReplayedTwice ==
    lastId <= MaxTerms =>
    \A c, d \in Conn : c # d =>
        \A i \in 1..Len(out[c]), j \in 1..Len(out[d]) :
            out[c][i].id # 0 => out[c][i].id # out[d][j].id

\* A row leaves the table only after a login of its addressee has gone
\* through it: what a worker stores between the SELECT and the DELETE of
\* the same address stays (the DELETE goes by ID, lines 838-850).
OnlyReplayedRowsDeleted ==
    [][\A row \in rows \ rows' :
          /\ cur # NULL /\ row.to = PeerIp[cur]
          /\ row.id \in ids
          /\ sel = {}]_vars

\* A login, once accepted, ends: main gets the mutex of the new connection
\* though workers may already be sending to it, and serves the next event.
LoginCompletes == (mpc # "poll") ~> (mpc = "poll" \/ proc # "running")

-----------------------------------------------------------------------------
(* What comments of the code say, and the code does not do. *)

\* Line 266: "8 message handling threads".  No dispatcher ends.
DispatchersLive == \A w \in Worker : wpc[w] # "dead"

\* Line 95: "mapping of socket to ip address".  A single chat message goes
\* to the address it is for.
SentToAddressee ==
    \A c \in Conn : \A i \in 1..Len(out[c]) :
        out[c][i].id = 0 /\ out[c][i].msg \notin Group =>
            out[c][i].to = PeerIp[c]

\* Line 443: "gets the mutex of the receiving socket, which can serve as the
\* client's lock".  While main sends a client its history (lines 339-374) no
\* dispatcher sends to the same descriptor under the mutex registered for it.
ClientLock ==
    \A w \in Worker :
        ~ /\ mpc = "replay" /\ sel # {}
          /\ wpc[w] = "send"
          /\ wl[w].sock = fdOf[cur]
          /\ wl[w].mux = mpmux[fdOf[cur]]

\* Line 460: "copy the received data into the client's buffer": what one
\* reader received is not taken for another's message.
ReceivedOnce ==
    \A i, j \in 1..Len(messq) : messq[i] = messq[j] => i = j
=============================================================================
