----------------------------- MODULE ServerProofs -----------------------------
(***************************************************************************)
(* The registries and the mutexes of main.cpp stay consistent under every  *)
(* interleaving of the accepting thread, the readers and the dispatchers,  *)
(* for any number of them, of connections, descriptors and messages.       *)
(***************************************************************************)
EXTENDS Server, WellFoundedInduction, TLAPS

-----------------------------------------------------------------------------
(* Least and greatest elements. *)

\* A set of natural numbers that is not empty has a least element.
LEMMA LeastExists ==
    ASSUME NEW T \in SUBSET Nat, T # {}
    PROVE  \E x \in T : \A y \in T : x <= y
<1> DEFINE R == OpToRel(<, Nat)
<1>1. IsWellFoundedOn(R, Nat)
  BY NatLessThanWellFounded
<1>2. \A x, y \in Nat : x < y => <<x, y>> \in R
  BY DEF OpToRel
<1> HIDE DEF R
<1>3. \E x \in T : \A y \in T : ~ (<<y, x>> \in R)
  BY <1>1, WFMin, Zenon
<1>4. PICK x \in T : \A y \in T : ~ (<<y, x>> \in R)
  BY <1>3
<1>5. \A y \in T : ~ (y < x)
  BY <1>2, <1>4
<1>6. \A y \in T : x <= y
  BY <1>5
<1> QED
  BY <1>6

\* If it is bounded it has a greatest one.
LEMMA GreatestExists ==
    ASSUME NEW T \in SUBSET Nat, T # {}, NEW n \in Nat, \A t \in T : t <= n
    PROVE  \E x \in T : \A y \in T : x >= y
<1> DEFINE S == {n - t : t \in T}
<1>1. S \in SUBSET Nat /\ S # {}
  OBVIOUS
<1>2. PICK s \in S : \A y \in S : s <= y
  BY <1>1, LeastExists
<1>3. PICK t \in T : s = n - t
  OBVIOUS
<1>4. \A y \in T : n - t <= n - y
  BY <1>2, <1>3
<1>5. \A y \in T : t >= y
  BY <1>4
<1> QED
  BY <1>5

\* The lowest and the highest of some descriptors is one of them.
LEMMA Extremes ==
    ASSUME NEW F \in SUBSET Fd, F # {}
    PROVE  Lowest(F) \in F /\ Highest(F) \in F
<1>1. PICK top \in Fd : \A f \in Fd : f <= top
  BY ServerAssumption
<1>2. F \in SUBSET Nat /\ top \in Nat /\ \A f \in F : f <= top
  BY <1>1, ServerAssumption
<1>3. \E f \in F : \A g \in F : f <= g
  BY <1>2, LeastExists
<1>4. \E f \in F : \A g \in F : f >= g
  BY <1>2, GreatestExists
<1> QED
  BY <1>3, <1>4 DEF Lowest, Highest

\* So is the highest of some indices.
LEMMA LastIndex ==
    ASSUME NEW n \in Nat, NEW J \in SUBSET (1..n), J # {}
    PROVE  Highest(J) \in J
<1>1. J \in SUBSET Nat /\ \A j \in J : j <= n
  OBVIOUS
<1>2. \E f \in J : \A g \in J : f >= g
  BY <1>1, GreatestExists
<1> QED
  BY <1>2 DEF Highest

\* And the oldest of some rows.
LEMMA OldestExists ==
    ASSUME NEW R \in SUBSET Row, R # {}
    PROVE  Oldest(R) \in R /\ \A row \in R : Oldest(R).id <= row.id
<1> DEFINE T == {row.id : row \in R}
<1>1. T \in SUBSET Nat /\ T # {}
  BY DEF Row
<1>2. PICK x \in T : \A y \in T : x <= y
  BY <1>1, LeastExists
<1>3. PICK row \in R : x = row.id
  OBVIOUS
<1>4. \A other \in R : row.id <= other.id
  BY <1>2, <1>3
<1> QED
  BY <1>4 DEF Oldest

-----------------------------------------------------------------------------
(* The inductive invariant. *)

\* What main works on while it logs a connection in.
MainOK ==
    /\ mpc = "poll" <=> cur = NULL
    /\ cur # NULL => fdOf[cur] \in Fd

\* A connection gets its descriptor once, when accept() takes it from the
\* backlog; the listening socket has an edge only if there is one to take.
BacklogOK ==
    /\ "listen" \in edge => backlog # <<>>
    /\ \A i \in 1..Len(backlog) :
          /\ fdOf[backlog[i]] = NULL
          /\ peer[backlog[i]] # "none"
          /\ \A j \in 1..Len(backlog) : backlog[i] = backlog[j] => i = j
    /\ \A c \in Conn : peer[c] = "none" => fdOf[c] = NULL

\* What a reader has in its local variables.
ReadersOK ==
    \A r \in Reader :
        /\ rpc[r] # "idle" => rl[r].fd \in Fd /\ rl[r].mux \in Conn
        /\ rl[r].mux # NULL => rl[r].fd \in Fd
        /\ rpc[r] \notin {"idle", "find"} => rl[r].j >= 1
        /\ rpc[r] = "save" => buf \in Msg
        /\ rpc[r] = "srem" => rl[r].ip \in Ip

\* What a dispatcher has in its local variables.
WorkersOK ==
    \A w \in Worker :
        /\ wpc[w] # "pop" =>
              /\ wl[w].msg \in Msg
              /\ wl[w].to \in Address
              /\ IF IsGroup(w) THEN wl[w].left # <<>>
                               ELSE wl[w].to = To[wl[w].msg]
        /\ wpc[w] \in {"pop", "lookup", "getMux", "dead"} => wl[w].mux = NULL
        /\ wpc[w] \in {"lock"} \cup Sending => wl[w].mux \in Conn
        /\ wpc[w] = "getMux" \/ wl[w].mux # NULL => wl[w].sock \in Fd

IInv == /\ TypeOK /\ MainOK /\ BacklogOK /\ ReadersOK /\ WorkersOK
        /\ UniqueIp /\ NoOrphanLock

\* The server starts without connections.
LEMMA InitInv == Init => IInv
<1> SUFFICES ASSUME Init PROVE IInv
  OBVIOUS
<1> USE ServerAssumption DEF Init
<1>1. TypeOK
  BY DEF TypeOK, Peer, Row, MainPc, ReaderPc, WorkerPc, ReaderIdle, WorkerIdle,
         ReaderLocal, WorkerLocal
<1>2. MainOK /\ BacklogOK /\ UniqueIp
  BY DEF MainOK, BacklogOK, UniqueIp
<1>3. ReadersOK /\ WorkersOK
  BY DEF ReadersOK, ReaderIdle, WorkersOK, WorkerIdle, Sending
<1>4. NoOrphanLock
  BY DEF NoOrphanLock, Holds, Sending, Thread
<1> QED
  BY <1>1, <1>2, <1>3, <1>4 DEF IInv

-----------------------------------------------------------------------------
(* Types. *)

\* What the clients do keeps the types.
LEMMA EnvironmentType == IInv /\ Environment => TypeOK'
<1> SUFFICES ASSUME IInv, Environment PROVE TypeOK'
  OBVIOUS
<1> USE ServerAssumption
    DEF IInv, Environment, registry, queues, store, mainv, readv, workv
<1>1. ASSUME NEW c \in Conn, Connect(c) PROVE TypeOK'
  <2>1. /\ peer' = [peer EXCEPT ![c] = "up"]
        /\ backlog' = Append(backlog, c)
        /\ edge' = edge \cup {"listen"}
        /\ UNCHANGED <<fdtab, rq, watched, unsent, out>>
    BY <1>1 DEF Connect
  <2>2. /\ peer' \in [Conn -> Peer]
        /\ backlog' \in Seq(Conn)
        /\ edge' \in SUBSET (Conn \cup {"listen"})
    BY <2>1 DEF TypeOK, Peer
  <2> QED
    BY <2>1, <2>2 DEF TypeOK
<1>2. ASSUME NEW c \in Conn, ClientSend(c) PROVE TypeOK'
  <2>1. PICK m \in unsent : /\ unsent' = unsent \ {m}
                            /\ rq' = [rq EXCEPT ![c] = Append(@, m)]
    BY <1>2 DEF ClientSend
  <2>2. UNCHANGED <<peer, backlog, fdtab, watched, out>>
    BY <1>2 DEF ClientSend
  <2>3. /\ unsent' \in SUBSET Msg
        /\ rq' \in [Conn -> Seq(Msg)]
    BY <2>1 DEF TypeOK
  <2>4. edge' \in SUBSET (Conn \cup {"listen"})
    BY <1>2 DEF ClientSend, EdgeAt, TypeOK
  <2> QED
    BY <2>2, <2>3, <2>4 DEF TypeOK
<1>3. ASSUME NEW c \in Conn, ClientClose(c) PROVE TypeOK'
  BY <1>3 DEF ClientClose, TypeOK, Peer, EdgeAt
<1>4. ASSUME NEW c \in Conn, Reset(c) PROVE TypeOK'
  BY <1>4 DEF Reset, TypeOK, Peer, EdgeAt
<1> QED
  BY <1>1, <1>2, <1>3, <1>4

\* The peers and the packets sent keep their types in a send().
LEMMA SendType ==
    ASSUME TypeOK, NEW f, NEW packet \in Row
    PROVE  Reported(f) \in [Conn -> Peer] /\ Deliver(f, packet) \in [Conn -> Seq(Row)]
  BY DEF TypeOK, Reported, Deliver, Peer

\* The steps of main keep the types.
LEMMA MainType == IInv /\ MainStep => TypeOK'
<1> SUFFICES ASSUME IInv, MainStep PROVE TypeOK'
  OBVIOUS
<1> USE ServerAssumption
    DEF IInv, MainAt, MainOK, kernel, registry, queues, store, mainv, readv,
        workv, MainPc
<1>1. CASE Accept
  <2>1. CASE FreeFd = {}
    BY <1>1, <2>1 DEF Accept, TypeOK
  <2>2. CASE FreeFd # {}
    <3>1. Lowest(FreeFd) \in Fd
      BY <2>2, Extremes DEF FreeFd
    <3>2. Head(backlog) \in Conn /\ Tail(backlog) \in Seq(Conn)
      BY <1>1 DEF Accept, BacklogOK, TypeOK
    <3>3. /\ edge' = edge \ {"listen"}
          /\ mpc' = "pushClient"
          /\ cur' = Head(backlog)
          /\ backlog' = Tail(backlog)
          /\ fdtab' = [fdtab EXCEPT ![Lowest(FreeFd)] = Head(backlog)]
          /\ fdOf' = [fdOf EXCEPT ![Head(backlog)] = Lowest(FreeFd)]
          /\ UNCHANGED <<proc, peer, rq, watched, unsent, out, mpip, mpmux,
                         clients, owner, queues, store, sel, ids, readv, workv>>
      BY <1>1, <2>2 DEF Accept
    <3>4. /\ edge' \in SUBSET (Conn \cup {"listen"})
          /\ cur' \in Conn
          /\ backlog' \in Seq(Conn)
          /\ fdtab' \in [Fd -> Conn \cup {NULL}]
          /\ fdOf' \in [Conn -> Fd \cup {NULL}]
      BY <3>1, <3>2, <3>3 DEF TypeOK
    <3> QED
      BY <3>3, <3>4 DEF TypeOK
  <2> QED
    BY <2>1, <2>2
<1>2. CASE PushClient
  BY <1>2 DEF PushClient, TypeOK
<1>3. CASE RegisterIp
  BY <1>3 DEF RegisterIp, TypeOK
<1>4. CASE RegisterMux
  BY <1>4 DEF RegisterMux, TypeOK
<1>5. CASE AddRedis
  BY <1>5 DEF AddRedis, TypeOK
<1>6. CASE Select
  <2>1. sel' \in SUBSET Row /\ ids' \in SUBSET Nat
    BY <1>6 DEF Select, RowsFor, Ids, TypeOK, Row
  <2> QED
    BY <1>6, <2>1 DEF Select, TypeOK
<1>7. CASE LockOwn
  BY <1>7 DEF LockOwn, TypeOK
<1>8. CASE Replay
  <2>1. sel # {} /\ Oldest(sel) \in Row
    BY <1>8, OldestExists DEF Replay, TypeOK
  <2>2. /\ Reported(fdOf[cur]) \in [Conn -> Peer]
        /\ Deliver(fdOf[cur], Oldest(sel)) \in [Conn -> Seq(Row)]
    BY <2>1, SendType
  <2> QED
    BY <1>8, <2>2 DEF Replay, TypeOK
<1>9. CASE UnlockOwn
  BY <1>9 DEF UnlockOwn, TypeOK
<1>10. CASE Delete
  BY <1>10 DEF Delete, RowsWithout, TypeOK
<1>11. CASE Watch
  <2>1. /\ mpc' = "poll" /\ cur' = NULL
        /\ UNCHANGED <<proc, peer, backlog, fdtab, rq, unsent, out, registry,
                       owner, queues, store, sel, ids, readv, workv>>
    BY <1>11 DEF Watch
  <2>2. \/ UNCHANGED <<watched, edge>>
        \/ \E c \in Conn : /\ watched' = watched \cup {c}
                           /\ edge' \subseteq edge \cup {c}
    BY <1>11 DEF Watch, TypeOK
  <2>3. /\ watched' \in SUBSET Conn
        /\ edge' \in SUBSET (Conn \cup {"listen"})
    BY <2>2 DEF TypeOK
  <2> QED
    BY <2>1, <2>3 DEF TypeOK
<1>12. CASE CommitRead
  <2>1. PICK f \in Fd : /\ edge' = edge \ {fdtab[f]}
                        /\ taskq' = Append(taskq, f)
    BY <1>12 DEF CommitRead
  <2>2. /\ edge' \in SUBSET (Conn \cup {"listen"})
        /\ taskq' \in Seq(Fd)
    BY <2>1 DEF TypeOK
  <2> QED
    BY <1>12, <2>2 DEF CommitRead, TypeOK
<1> QED
  BY <1>1, <1>2, <1>3, <1>4, <1>5, <1>6, <1>7, <1>8, <1>9, <1>10, <1>11,
     <1>12 DEF MainStep

\* A reader moves on with well-typed locals.
LEMMA ReaderMoves ==
    ASSUME TypeOK, NEW r \in Reader, NEW to \in ReaderPc, NEW l \in ReaderLocal,
           ReaderTo(r, to, l)
    PROVE  rpc' \in [Reader -> ReaderPc] /\ rl' \in [Reader -> ReaderLocal]
  BY DEF TypeOK, ReaderTo

\* Erasing an element of the vector leaves a vector.
LEMMA RemovedType ==
    ASSUME NEW s \in Seq(Conn), NEW j \in Nat, j >= 1, j <= Len(s)
    PROVE  RemoveAt(s, j) \in Seq(Conn)
  BY DEF RemoveAt

\* The steps of a reader keep the types.
LEMMA ReaderType == ASSUME IInv, NEW r \in Reader, ReaderStep(r) PROVE TypeOK'
<1> USE ServerAssumption
    DEF IInv, ReaderAt, ReaderGoes, ReadersOK, kernel, registry,
        queues, store, mainv, readv, workv
<1> DEFINE Moved == rpc' \in [Reader -> ReaderPc] /\ rl' \in [Reader -> ReaderLocal]
<1>0. rl[r] \in ReaderLocal
  BY DEF TypeOK
<1>a. ReaderIdle \in ReaderLocal
  BY DEF ReaderIdle, ReaderLocal
<1>1. CASE StartRead(r)
  <2>1. Head(taskq) \in Fd /\ Tail(taskq) \in Seq(Fd)
    BY <1>1 DEF StartRead, TypeOK
  <2>2. mpmux[Head(taskq)] \in Conn \cup {NULL}
    BY <2>1 DEF TypeOK
  <2>3. [ReaderIdle EXCEPT !.fd = Head(taskq), !.mux = mpmux[Head(taskq)]]
            \in ReaderLocal
    BY <2>1, <2>2 DEF ReaderIdle, ReaderLocal
  <2>4. Moved
    <3>1. CASE mpmux[Head(taskq)] = NULL
      BY <1>1, <3>1 DEF StartRead, TypeOK
    <3>2. CASE mpmux[Head(taskq)] # NULL
      BY <1>1, <2>3, <3>2, ReaderMoves DEF StartRead, ReaderPc
    <3> QED
      BY <3>1, <3>2
  <2> QED
    BY <1>1, <2>1, <2>4 DEF StartRead, TypeOK
<1>2. CASE FindClient(r)
  <2> DEFINE J == {j \in 1..Len(clients) : fdOf[clients[j]] = rl[r].fd}
  <2>1. CASE J = {}
    <3>1. Moved
      BY <1>2, <1>a, <2>1, ReaderMoves DEF FindClient, ReaderPc
    <3> QED
      BY <1>2, <3>1 DEF FindClient, TypeOK
  <2>2. CASE J # {}
    <3>1. Len(clients) \in Nat /\ J \in SUBSET (1..Len(clients))
      BY DEF TypeOK
    <3>2. Highest(J) \in 1..Len(clients)
      BY <2>2, <3>1, LastIndex
    <3>3. Highest(J) \in Nat /\ clients[Highest(J)] \in Conn
      BY <3>2 DEF TypeOK
    <3>4. [rl[r] EXCEPT !.j = Highest(J), !.conn = clients[Highest(J)]]
              \in ReaderLocal
      BY <1>0, <3>3 DEF ReaderLocal
    <3>5. Moved
      BY <1>2, <2>2, <3>4, ReaderMoves DEF FindClient, ReaderPc
    <3> QED
      BY <1>2, <3>5 DEF FindClient, TypeOK
  <2> QED
    BY <2>1, <2>2
<1>3. CASE RecvData(r)
  <2>1. PICK c \in Conn : /\ rq[c] # <<>>
                          /\ buf' = Head(rq[c])
                          /\ rq' = [rq EXCEPT ![c] = Tail(@)]
    BY <1>3 DEF RecvData
  <2>2. Head(rq[c]) \in Msg /\ Tail(rq[c]) \in Seq(Msg)
    BY <2>1 DEF TypeOK
  <2>3. buf' \in Msg /\ rq' \in [Conn -> Seq(Msg)]
    BY <2>1, <2>2 DEF TypeOK
  <2>4. Moved
    BY <1>0, <1>3, ReaderMoves DEF RecvData, ReaderPc
  <2> QED
    BY <1>3, <2>3, <2>4 DEF RecvData, TypeOK
<1>4. CASE RecvNothing(r)
  <2>1. peer' \in [Conn -> Peer]
    BY <1>4 DEF RecvNothing, Reported, TypeOK, Peer
  <2>2. \A b \in BOOLEAN : [rl[r] EXCEPT !.failed = b] \in ReaderLocal
    BY <1>0 DEF ReaderLocal
  <2>3. \/ ReaderTo(r, "idle", ReaderIdle)
        \/ \E b \in BOOLEAN : ReaderTo(r, "getPeer", [rl[r] EXCEPT !.failed = b])
    BY <1>4 DEF RecvNothing
  <2>4. Moved
    BY <1>a, <2>2, <2>3, ReaderMoves DEF ReaderPc
  <2> QED
    BY <1>4, <2>1, <2>4 DEF RecvNothing, TypeOK
<1>5. CASE Save(r)
  <2>1. messq' \in Seq(Msg)
    BY <1>5 DEF Save, TypeOK
  <2>2. Moved
    BY <1>0, <1>5, ReaderMoves DEF Save, ReaderPc
  <2> QED
    BY <1>5, <2>1, <2>2 DEF Save, TypeOK
<1>6. CASE GetPeer(r)
  <2>1. mpip[rl[r].fd] # NULL =>
            [rl[r] EXCEPT !.ip = mpip[rl[r].fd]] \in ReaderLocal
    BY <1>0, <1>6 DEF GetPeer, ReaderLocal, TypeOK
  <2>2. Teardown(r) \in ReaderPc
    BY DEF Teardown, ReaderPc
  <2>3. Moved
    BY <1>0, <1>6, <2>1, <2>2, ReaderMoves DEF GetPeer, ReaderPc
  <2> QED
    BY <1>6, <2>3 DEF GetPeer, TypeOK
<1>7. CASE Srem(r)
  <2>1. Moved
    BY <1>0, <1>7, ReaderMoves DEF Srem, Teardown, ReaderPc
  <2> QED
    BY <1>7, <2>1 DEF Srem, TypeOK
<1>8. CASE CloseSock(r)
  <2>1. Moved
    BY <1>0, <1>8, ReaderMoves DEF CloseSock, ReaderPc
  <2> QED
    BY <1>8, <2>1 DEF CloseSock, Close, TypeOK
<1>9. CASE EraseIp(r)
  <2>1. Moved
    BY <1>0, <1>9, ReaderMoves DEF EraseIp, ReaderPc
  <2>2. mpip' \in [Fd -> Ip \cup {NULL}]
    BY <1>9 DEF EraseIp, TypeOK
  <2> QED
    BY <1>9, <2>1, <2>2 DEF EraseIp, TypeOK
<1>10. CASE EraseMux(r)
  <2>1. Moved
    BY <1>0, <1>10, ReaderMoves DEF EraseMux, AfterErase, ReaderPc
  <2> QED
    BY <1>10, <2>1 DEF EraseMux, TypeOK
<1>11. CASE EraseClient(r)
  <2>0. rpc[r] = "eraseClient" /\ clients \in Seq(Conn)
    BY <1>11 DEF EraseClient, TypeOK
  <2>1. rl[r].j \in Nat /\ rl[r].j >= 1 /\ Len(clients) \in Nat
    <3>1. rl[r].j \in Nat
      BY <1>0 DEF ReaderLocal
    <3>2. rl[r].j >= 1
      BY <2>0
    <3> QED
      BY <2>0, <3>1, <3>2
  <2>2. rl[r].j <= Len(clients) => RemoveAt(clients, rl[r].j) \in Seq(Conn)
    BY <2>0, <2>1, RemovedType
  <2>3. SubSeq(clients, 1, Len(clients) - 1) \in Seq(Conn)
    BY <2>1 DEF TypeOK
  <2>4. clients' \in Seq(Conn) /\ proc' \in {"running", "exit", "killed"}
    BY <1>11, <2>2, <2>3 DEF EraseClient, TypeOK
  <2>5. Moved
    BY <1>11, <1>a, ReaderMoves DEF EraseClient, ReaderPc
  <2> QED
    BY <1>11, <2>4, <2>5 DEF EraseClient, TypeOK
<1>12. CASE FindIp(r)
  <2>1. Moved
    BY <1>0, <1>12, ReaderMoves DEF FindIp, AfterErase, ReaderPc
  <2> QED
    BY <1>12, <2>1 DEF FindIp, TypeOK
<1> QED
  BY <1>1, <1>2, <1>3, <1>4, <1>5, <1>6, <1>7, <1>8, <1>9, <1>10, <1>11,
     <1>12 DEF ReaderStep

\* A dispatcher moves on with well-typed locals.
LEMMA WorkerMoves ==
    ASSUME TypeOK, NEW w \in Worker, NEW to \in WorkerPc, NEW l \in WorkerLocal,
           WorkerTo(w, to, l)
    PROVE  wpc' \in [Worker -> WorkerPc] /\ wl' \in [Worker -> WorkerLocal]
  BY DEF TypeOK, WorkerTo

\* The locals of a dispatcher that waits for a message.
LEMMA IdleWorker == WorkerIdle \in WorkerLocal
  BY DEF WorkerIdle, WorkerLocal

\* It goes on to the next member or message with well-typed locals.
LEMMA ProceedMoves ==
    ASSUME TypeOK, NEW w \in Worker, NEW l \in WorkerLocal, Proceed(w, l)
    PROVE  wpc' \in [Worker -> WorkerPc] /\ wl' \in [Worker -> WorkerLocal]
<1>1. CASE Len(l.left) > 1
  <2>1. l.left \in Seq(Ip) /\ Tail(l.left) \in Seq(Ip)
    BY <1>1 DEF WorkerLocal
  <2>2. [l EXCEPT !.left = Tail(@), !.sock = NULL, !.mux = NULL]
            \in WorkerLocal
    BY <2>1 DEF WorkerLocal
  <2> QED
    BY <1>1, <2>2, WorkerMoves DEF Proceed, WorkerPc
<1>2. CASE ~ (Len(l.left) > 1)
  BY <1>2, IdleWorker, WorkerMoves DEF Proceed, WorkerPc
<1> QED
  BY <1>1, <1>2

\* Whom a dispatcher works for, and what it stores the message under, is an
\* address.
LEMMA RecipientAddress ==
    ASSUME IInv, NEW w \in Worker, wpc[w] # "pop"
    PROVE  /\ wl[w].msg \in Msg /\ wl[w].to \in Address
           /\ Recipient(w) \in Address
           /\ IsGroup(w) => Recipient(w) \in Ip
           /\ ~IsGroup(w) => wl[w].to = Recipient(w)
<1> USE DEF IInv, WorkersOK
<1>1. wl[w].msg \in Msg /\ wl[w].to \in Address
  OBVIOUS
<1>2. wl[w].left \in Seq(Ip) /\ (IsGroup(w) => wl[w].left # <<>>)
  BY DEF TypeOK, WorkerLocal
<1>3. IsGroup(w) => Recipient(w) \in Ip
  BY <1>2 DEF Recipient
<1>4. ~IsGroup(w) => wl[w].to = Recipient(w)
  BY DEF Recipient
<1> QED
  BY <1>1, <1>3, <1>4 DEF Address

LEMMA StoredAddress ==
    ASSUME IInv, NEW w \in Worker, wpc[w] = "insert"
    PROVE  /\ wl[w].msg \in Msg /\ StoredTo(w) \in Address
           /\ ~IsGroup(w) => StoredTo(w) = To[wl[w].msg]
           /\ StoredTo(w) \in Ip => StoredTo(w) = Recipient(w)
<1>1. /\ wl[w].msg \in Msg /\ wl[w].to \in Address
      /\ IsGroup(w) => Recipient(w) \in Ip
      /\ ~IsGroup(w) => wl[w].to = Recipient(w)
  BY RecipientAddress
<1>2. ~IsGroup(w) => Recipient(w) = To[wl[w].msg]
  BY DEF Recipient
<1> QED
  BY <1>1, <1>2, ServerAssumption DEF StoredTo, Address

\* The steps of a dispatcher keep the types.
LEMMA WorkerType == ASSUME IInv, NEW w \in Worker, WorkerStep(w) PROVE TypeOK'
<1> USE ServerAssumption
    DEF IInv, WorkerAt, WorkerGoes, WorkersOK, kernel, registry,
        queues, store, mainv, readv, workv
<1> DEFINE Moved == wpc' \in [Worker -> WorkerPc] /\ wl' \in [Worker -> WorkerLocal]
<1>0. wl[w] \in WorkerLocal
  BY DEF TypeOK
<1>1. CASE Pop(w)
  <2>1. Head(messq) \in Msg /\ Tail(messq) \in Seq(Msg)
    BY <1>1 DEF Pop, TypeOK
  <2>2. To[Head(messq)] \in Address
    BY <2>1 DEF Address
  <2> DEFINE l == [WorkerIdle EXCEPT !.msg = Head(messq), !.to = To[Head(messq)]]
  <2>3. l \in WorkerLocal /\ [l EXCEPT !.left = Members] \in WorkerLocal
    <3>1. l \in WorkerLocal
      BY <2>1, <2>2, IdleWorker DEF WorkerLocal
    <3> HIDE DEF l
    <3>2. Members \in Seq(Ip)
      OBVIOUS
    <3> QED
      BY <3>1, <3>2 DEF WorkerLocal
  <2>4. \/ WorkerTo(w, "lookup", l)
        \/ WorkerTo(w, "lookup", [l EXCEPT !.left = Members])
        \/ UNCHANGED workv
    BY <1>1 DEF Pop
  <2> HIDE DEF l
  <2>5. Moved
    <3>1. CASE UNCHANGED workv
      BY <3>1 DEF TypeOK
    <3> QED
      BY <2>3, <2>4, <3>1, WorkerMoves DEF WorkerPc
  <2> QED
    BY <1>1, <2>1, <2>5 DEF Pop, TypeOK
<1>2. CASE Lookup(w)
  <2> DEFINE F == {f \in Fd : mpip[f] = Recipient(w)}
  <2>1. CASE F = {}
    <3>1. Moved
      BY <1>0, <1>2, <2>1, WorkerMoves DEF Lookup, WorkerPc
    <3> QED
      BY <1>2, <3>1 DEF Lookup, TypeOK
  <2>2. CASE F # {}
    <3>1. Lowest(F) \in Fd /\ Highest(F) \in Fd
      BY <2>2, Extremes
    <3> DEFINE f == IF IsGroup(w) THEN Lowest(F) ELSE Highest(F)
    <3>2. [wl[w] EXCEPT !.sock = f] \in WorkerLocal
      BY <1>0, <3>1 DEF WorkerLocal
    <3>3. Moved
      BY <1>2, <2>2, <3>2, WorkerMoves DEF Lookup, WorkerPc
    <3> QED
      BY <1>2, <3>3 DEF Lookup, TypeOK
  <2> QED
    BY <2>1, <2>2
<1>3. CASE GetMux(w)
  <2> DEFINE x == mpmux[wl[w].sock]
  <2>1. x \in Conn \cup {NULL}
    BY <1>3 DEF GetMux, TypeOK
  <2>2. [wl[w] EXCEPT !.mux = x] \in WorkerLocal
    BY <1>0, <2>1 DEF WorkerLocal
  <2>3. \/ WorkerTo(w, "lock", [wl[w] EXCEPT !.mux = x])
        \/ WorkerTo(w, "pop", WorkerIdle)
        \/ WorkerTo(w, "dead", wl[w])
    BY <1>3 DEF GetMux
  <2> HIDE DEF x
  <2>4. Moved
    BY <1>0, <2>2, <2>3, IdleWorker, WorkerMoves DEF WorkerPc
  <2> QED
    BY <1>3, <2>4 DEF GetMux, TypeOK
<1>4. CASE LockSend(w)
  <2>1. Moved
    BY <1>0, <1>4, WorkerMoves DEF LockSend, WorkerPc
  <2> QED
    BY <1>4, <2>1 DEF LockSend, TypeOK
<1>5. CASE SendBroken(w)
  BY <1>5 DEF SendBroken, TypeOK
<1>6. CASE SendFails(w)
  <2>1. Moved
    BY <1>0, <1>6, WorkerMoves DEF SendFails, WorkerPc
  <2>2. peer' \in [Conn -> Peer]
    BY <1>6 DEF SendFails, Reported, Peer, TypeOK
  <2> QED
    BY <1>6, <2>1, <2>2 DEF SendFails, TypeOK
<1>7. CASE SendOK(w)
  <2>1. Packet(w) \in Row
    BY <1>7, RecipientAddress DEF SendOK, Packet, Row
  <2>2. out' = Deliver(wl[w].sock, Packet(w)) \/ out' = out
    BY <1>7 DEF SendOK
  <2>3. out' \in [Conn -> Seq(Row)]
    BY <2>1, <2>2, SendType DEF TypeOK
  <2>4. Moved
    BY <1>0, <1>7, WorkerMoves DEF SendOK, WorkerPc
  <2> QED
    BY <1>7, <2>3, <2>4 DEF SendOK, TypeOK
<1>12. CASE WorkerFindIp(w)
  <2>1. Moved
    BY <1>0, <1>12, WorkerMoves DEF WorkerFindIp, WorkerPc
  <2> QED
    BY <1>12, <2>1 DEF WorkerFindIp, TypeOK
<1>8. CASE WorkerEraseIp(w)
  <2>1. Moved
    BY <1>0, <1>8, WorkerMoves DEF WorkerEraseIp, WorkerPc
  <2>2. mpip' \in [Fd -> Ip \cup {NULL}]
    BY <1>8 DEF WorkerEraseIp, TypeOK
  <2> QED
    BY <1>8, <2>1, <2>2 DEF WorkerEraseIp, TypeOK
<1>9. CASE WorkerEraseMux(w)
  <2>1. Moved
    BY <1>0, <1>9, WorkerMoves DEF WorkerEraseMux, WorkerPc
  <2> QED
    BY <1>9, <2>1 DEF WorkerEraseMux, TypeOK
<1>10. CASE Insert(w)
  <2> DEFINE l == [wl[w] EXCEPT !.to = StoredTo(w)]
  <2>1. wl[w].msg \in Msg /\ StoredTo(w) \in Address
    BY <1>10, StoredAddress DEF Insert
  <2>2. l \in WorkerLocal /\ l.to = StoredTo(w) /\ l.msg = wl[w].msg
    BY <1>0, <2>1 DEF WorkerLocal
  <2>3. rows' \in SUBSET Row /\ lastId' \in Nat
    <3>1. Recipient(w) \in Address
      BY <1>10, RecipientAddress DEF Insert
    <3> QED
      BY <1>10, <2>1, <3>1 DEF Insert, Store, NewRow, TypeOK, Row
  <2>4. Proceed(w, l) \/ WorkerTo(w, "unlock", l)
    BY <1>10 DEF Insert
  <2> HIDE DEF l
  <2>5. Moved
    BY <2>2, <2>4, ProceedMoves, WorkerMoves DEF WorkerPc
  <2> QED
    BY <1>10, <2>3, <2>5 DEF Insert, TypeOK
<1>11. CASE Unlock(w)
  <2>1. Moved
    BY <1>0, <1>11, ProceedMoves DEF Unlock
  <2> QED
    BY <1>11, <2>1 DEF Unlock, TypeOK
<1> QED
  BY <1>1, <1>2, <1>3, <1>4, <1>5, <1>6, <1>7, <1>8, <1>9, <1>10, <1>11,
     <1>12 DEF WorkerStep

\* Every step keeps the types.
LEMMA TypeNext == IInv /\ [Next]_vars => TypeOK'
<1> SUFFICES ASSUME IInv, [Next]_vars PROVE TypeOK'
  OBVIOUS
<1>1. CASE UNCHANGED vars
  BY <1>1 DEF IInv, TypeOK, vars, kernel, registry, queues, store, mainv,
              readv, workv
<1> QED
  BY <1>1, EnvironmentType, MainType, ReaderType, WorkerType DEF Next

-----------------------------------------------------------------------------
(* Who touches what. *)

\* The clients touch no variable of the program.
LEMMA EnvironmentFrame ==
    ASSUME Environment
    PROVE  UNCHANGED <<mpip, mpmux, clients, fdOf, owner, buf, mpc, cur, sel,
                       ids, rpc, rl, wpc, wl, redis, rows, lastId, messq, taskq>>
  BY DEF Environment, registry, queues, store, mainv, readv, workv

\* main leaves the locals of the pool's threads alone.
LEMMA MainFrame ==
    ASSUME MainStep
    PROVE  UNCHANGED <<buf, rpc, rl, wpc, wl>>
  BY DEF MainStep, Accept, PushClient, RegisterIp, RegisterMux, AddRedis,
         Select, LockOwn, Replay, UnlockOwn, Delete, Watch, CommitRead,
         queues, readv, workv

\* A reader gives no descriptor and takes no connection's mutex across steps.
LEMMA ReaderFrame ==
    ASSUME TypeOK, NEW r \in Reader, ReaderStep(r)
    PROVE  /\ UNCHANGED <<fdOf, owner, mpc, cur, sel, ids, wpc, wl, backlog>>
           /\ \A q \in Reader \ {r} : rpc'[q] = rpc[q] /\ rl'[q] = rl[q]
  BY
      DEF TypeOK, ReaderStep, StartRead, FindClient, RecvData, RecvNothing,
          Save,
         GetPeer, Srem, CloseSock, Close, FindIp, EraseIp, EraseMux,
         EraseClient, ReaderTo, ReaderGoes, kernel, registry, queues, store, mainv, readv,
         workv

\* A dispatcher touches only its own locals, and no descriptor.
LEMMA WorkerFrame ==
    ASSUME TypeOK, NEW w \in Worker, WorkerStep(w)
    PROVE  /\ UNCHANGED <<fdOf, clients, mpc, cur, sel, ids, rpc, rl, backlog,
                          edge, fdtab, buf>>
           /\ \A v \in Worker \ {w} : wpc'[v] = wpc[v] /\ wl'[v] = wl[v]
<1> USE DEF kernel, registry, queues, store, mainv, readv, workv
<1>1. UNCHANGED <<fdOf, clients, mpc, cur, sel, ids, rpc, rl, backlog, edge,
                  fdtab, buf>>
  BY DEF WorkerStep, Pop, Lookup, GetMux, LockSend, SendBroken, SendFails,
         SendOK, WorkerFindIp, WorkerEraseIp, WorkerEraseMux, Insert, Unlock
<1>2. \/ UNCHANGED <<wpc, wl>>
      \/ \E to, l : WorkerTo(w, to, l)
  BY DEF WorkerStep, Pop, Lookup, GetMux, LockSend, SendBroken, SendFails,
         SendOK, WorkerFindIp, WorkerEraseIp, WorkerEraseMux, Insert, Unlock,
         WorkerGoes,
         Proceed
<1> QED
  BY <1>1, <1>2 DEF WorkerTo, TypeOK

-----------------------------------------------------------------------------
(* The parts of the invariant that type the threads' locals. *)

\* main's locals.
LEMMA MainOKNext == IInv /\ [Next]_vars => MainOK'
<1> SUFFICES ASSUME IInv, [Next]_vars PROVE MainOK'
  OBVIOUS
<1> USE ServerAssumption DEF IInv, MainOK
<1>1. CASE UNCHANGED vars
  BY <1>1 DEF vars, registry, mainv
<1>2. CASE Environment
  BY <1>2, EnvironmentFrame
<1>3. ASSUME NEW r \in Reader, ReaderStep(r) PROVE MainOK'
  BY <1>3, ReaderFrame
<1>4. ASSUME NEW w \in Worker, WorkerStep(w) PROVE MainOK'
  BY <1>4, WorkerFrame
<1>5. CASE MainStep
  <2>1. CASE Accept
    <3>1. CASE FreeFd = {}
      BY <2>1, <3>1 DEF Accept, registry
    <3>2. CASE FreeFd # {}
      <4>1. Lowest(FreeFd) \in Fd
        BY <3>2, Extremes DEF FreeFd
      <4>2. Head(backlog) \in Conn
        BY <2>1 DEF Accept, BacklogOK, TypeOK
      <4> QED
        BY <2>1, <3>2, <4>1, <4>2 DEF Accept, TypeOK
    <3> QED
      BY <3>1, <3>2
  <2>2. CASE Watch
    BY <2>2 DEF Watch, MainAt
  <2>3. CASE CommitRead
    BY <2>3 DEF CommitRead, MainAt, registry
  <2>4. CASE \/ PushClient \/ RegisterIp \/ RegisterMux \/ AddRedis \/ Select
             \/ LockOwn \/ Replay \/ UnlockOwn \/ Delete
    BY <2>4 DEF PushClient, RegisterIp, RegisterMux, AddRedis, Select, LockOwn,
                Replay, UnlockOwn, Delete, MainAt, registry
  <2> QED
    BY <1>5, <2>1, <2>2, <2>3, <2>4 DEF MainStep
<1> QED
  BY <1>1, <1>2, <1>3, <1>4, <1>5 DEF Next

\* Readers' locals.
LEMMA ReadersOKNext == IInv /\ [Next]_vars => ReadersOK'
<1> SUFFICES ASSUME IInv, [Next]_vars PROVE ReadersOK'
  OBVIOUS
<1> USE ServerAssumption DEF IInv, ReadersOK
<1>1. CASE UNCHANGED vars
  BY <1>1 DEF vars, queues, readv
<1>2. CASE Environment
  BY <1>2, EnvironmentFrame
<1>3. CASE MainStep
  BY <1>3, MainFrame
<1>4. ASSUME NEW w \in Worker, WorkerStep(w) PROVE ReadersOK'
  BY <1>4, WorkerFrame
<1>5. ASSUME NEW r \in Reader, ReaderStep(r) PROVE ReadersOK'
  <2> DEFINE OK(q) ==
        /\ rpc[q] # "idle" => rl[q].fd \in Fd /\ rl[q].mux \in Conn
        /\ rl[q].mux # NULL => rl[q].fd \in Fd
        /\ rpc[q] \notin {"idle", "find"} => rl[q].j >= 1
        /\ rpc[q] = "save" => buf \in Msg
        /\ rpc[q] = "srem" => rl[q].ip \in Ip
  <2>1. buf' = buf \/ buf' \in Msg
    <3>1. CASE RecvData(r)
      BY <3>1 DEF RecvData, TypeOK
    <3> QED
      BY <1>5, <3>1 DEF ReaderStep, StartRead, FindClient, RecvNothing, Save,
           GetPeer, Srem, CloseSock, FindIp, EraseIp, EraseMux,
           EraseClient, queues
  <2>2. \A q \in Reader \ {r} : OK(q)'
    BY <1>5, <2>1, ReaderFrame
  <2>3. OK(r)'
    <3> USE DEF ReaderAt, ReaderTo, ReaderGoes, readv
    <3>0. /\ rl[r] \in ReaderLocal /\ r \in DOMAIN rpc /\ r \in DOMAIN rl
          /\ ReaderIdle.mux = NULL
      BY DEF TypeOK, ReaderIdle
    <3>1. CASE StartRead(r)
      <4>1. Head(taskq) \in Fd
        BY <3>1 DEF StartRead, TypeOK
      <4>2. mpmux[Head(taskq)] \in Conn \cup {NULL}
        BY <4>1 DEF TypeOK
      <4>3. CASE mpmux[Head(taskq)] = NULL
        BY <3>1, <4>3 DEF StartRead, queues
      <4>4. CASE mpmux[Head(taskq)] # NULL
        <5> DEFINE f == Head(taskq)
                   x == mpmux[f]
        <5>1. ReaderTo(r, "find", [ReaderIdle EXCEPT !.fd = f, !.mux = x])
          BY <3>1, <4>4 DEF StartRead
        <5>2. f \in Fd /\ x \in Conn
          BY <4>1, <4>2, <4>4
        <5> HIDE DEF f, x
        <5>3. rpc'[r] = "find" /\ rl'[r].fd = f /\ rl'[r].mux = x
          BY <3>0, <5>1 DEF ReaderIdle
        <5> QED
          BY <5>2, <5>3
      <4> QED
        BY <4>3, <4>4
    <3>2. CASE FindClient(r)
      <4> DEFINE J == {j \in 1..Len(clients) : fdOf[clients[j]] = rl[r].fd}
      <4>1. J # {} => Highest(J) >= 1
        <5>1. Len(clients) \in Nat /\ J \in SUBSET (1..Len(clients))
          BY DEF TypeOK
        <5>2. J # {} => Highest(J) \in 1..Len(clients)
          BY <5>1, LastIndex
        <5> HIDE DEF J
        <5> QED
          BY <5>1, <5>2
      <4>2. CASE J = {}
        BY <3>0, <3>2, <4>2 DEF FindClient
      <4>3. CASE J # {}
        <5> DEFINE j == Highest(J)
        <5>1. ReaderTo(r, "recv", [rl[r] EXCEPT !.j = j, !.conn = clients[j]])
          BY <3>2, <4>3 DEF FindClient
        <5> HIDE DEF j
        <5>2. /\ rpc'[r] = "recv" /\ rl'[r].j = j
              /\ rl'[r].fd = rl[r].fd /\ rl'[r].mux = rl[r].mux
          BY <3>0, <5>1 DEF ReaderLocal
        <5>3. j >= 1
          BY <4>1, <4>3 DEF j
        <5>4. rpc[r] = "find"
          BY <3>2 DEF FindClient
        <5> QED
          BY <5>2, <5>3, <5>4
      <4> QED
        BY <4>2, <4>3
    <3>3. CASE RecvData(r)
      <4>1. buf' \in Msg
        BY <3>3 DEF RecvData, TypeOK
      <4> QED
        BY <3>0, <3>3, <4>1 DEF RecvData
    <3>4. CASE RecvNothing(r)
      BY <3>0, <3>4 DEF RecvNothing, ReaderLocal
    <3>5. CASE GetPeer(r)
      <4>1. mpip[rl[r].fd] \in Ip \cup {NULL}
        BY <3>5 DEF GetPeer, TypeOK
      <4>2. rpc[r] = "getPeer"
        BY <3>5 DEF GetPeer
      <4>3. CASE mpip[rl[r].fd] = NULL
        <5>1. rl'[r] = rl[r] /\ rpc'[r] \in {"findIp", "close"}
          BY <3>0, <3>5, <4>3 DEF GetPeer, Teardown
        <5> QED
          BY <4>2, <5>1
      <4>4. CASE mpip[rl[r].fd] # NULL
        <5> DEFINE ip == mpip[rl[r].fd]
                   n == [rl[r] EXCEPT !.ip = ip]
        <5>1. rl'[r] = n /\ rpc'[r] = "srem"
          BY <3>0, <3>5, <4>4 DEF GetPeer
        <5>2. n.fd = rl[r].fd /\ n.mux = rl[r].mux /\ n.j = rl[r].j /\ n.ip = ip
          BY <3>0 DEF ReaderLocal
        <5>3. ip \in Ip
          BY <4>1, <4>4
        <5> HIDE DEF ip, n
        <5> QED
          BY <4>2, <5>1, <5>2, <5>3
      <4> QED
        BY <4>3, <4>4
    <3>6. CASE \/ Save(r) \/ Srem(r) \/ CloseSock(r) \/ FindIp(r)
               \/ EraseIp(r) \/ EraseMux(r)
      <4> DEFINE Leaving == /\ rl'[r] = rl[r]
                            /\ rpc[r] \notin {"idle", "find"}
                            /\ rpc'[r] \notin {"idle", "find", "save", "srem"}
      <4>1. ASSUME Save(r) PROVE Leaving
        BY <3>0, <4>1 DEF Save
      <4>2. ASSUME Srem(r) PROVE Leaving
        BY <3>0, <4>2 DEF Srem, Teardown
      <4>3. ASSUME CloseSock(r) PROVE Leaving
        BY <3>0, <4>3 DEF CloseSock
      <4>4. ASSUME FindIp(r) PROVE Leaving
        BY <3>0, <4>4 DEF FindIp, AfterErase
      <4>5. ASSUME EraseIp(r) PROVE Leaving
        BY <3>0, <4>5 DEF EraseIp
      <4>6. ASSUME EraseMux(r) PROVE Leaving
        BY <3>0, <4>6 DEF EraseMux, AfterErase
      <4>7. Leaving
        BY <3>6, <4>1, <4>2, <4>3, <4>4, <4>5, <4>6
      <4> QED
        BY <4>7
    <3>7. CASE EraseClient(r)
      <4>1. rpc'[r] = "idle" /\ rl'[r] = ReaderIdle
        BY <3>0, <3>7 DEF EraseClient
      <4> QED
        BY <3>0, <4>1
    <3> QED
      BY <1>5, <3>1, <3>2, <3>3, <3>4, <3>5, <3>6, <3>7 DEF ReaderStep
  <2> QED
    BY <2>2, <2>3
<1> QED
  BY <1>1, <1>2, <1>3, <1>4, <1>5 DEF Next

\* A group with more than one member left is not through yet.
LEMMA MoreLeft ==
    ASSUME NEW s \in Seq(Ip), Len(s) > 1
    PROVE  Tail(s) # <<>>
<1> DEFINE t == Tail(s)
<1>1. Len(s) \in Nat /\ s # <<>>
  OBVIOUS
<1>2. Len(t) = Len(s) - 1
  BY <1>1
<1> HIDE DEF t
<1>3. Len(t) # 0
  BY <1>1, <1>2
<1>4. t # <<>>
  BY <1>3
<1> QED
  BY <1>4 DEF t

\* Dispatchers' locals.
LEMMA WorkersOKNext == IInv /\ [Next]_vars => WorkersOK'
<1> SUFFICES ASSUME IInv, [Next]_vars PROVE WorkersOK'
  OBVIOUS
<1> USE ServerAssumption DEF IInv, WorkersOK, Sending, IsGroup
<1>1. CASE UNCHANGED vars
  BY <1>1 DEF vars, workv
<1>2. CASE Environment
  BY <1>2, EnvironmentFrame
<1>3. CASE MainStep
  BY <1>3, MainFrame
<1>4. ASSUME NEW r \in Reader, ReaderStep(r) PROVE WorkersOK'
  BY <1>4, ReaderFrame
<1>5. ASSUME NEW w \in Worker, WorkerStep(w) PROVE WorkersOK'
  <2> DEFINE OK(v) ==
        /\ wpc[v] # "pop" =>
              /\ wl[v].msg \in Msg
              /\ wl[v].to \in Address
              /\ IF wl[v].msg \in Group THEN wl[v].left # <<>>
                                         ELSE wl[v].to = To[wl[v].msg]
        /\ wpc[v] \in {"pop", "lookup", "getMux", "dead"} => wl[v].mux = NULL
        /\ wpc[v] \in {"lock"} \cup Sending => wl[v].mux \in Conn
        /\ wpc[v] = "getMux" \/ wl[v].mux # NULL => wl[v].sock \in Fd
  <2>1. \A v \in Worker \ {w} : OK(v)'
    BY <1>5, WorkerFrame
  <2>2. OK(w)'
    <3> USE DEF WorkerAt, WorkerTo, WorkerGoes, workv
    <3>0. wl[w] \in WorkerLocal /\ w \in DOMAIN wpc /\ w \in DOMAIN wl
      BY DEF TypeOK
    <3>a. WorkerIdle.mux = NULL
      BY DEF WorkerIdle
    <3>b. ASSUME NEW l \in WorkerLocal, Proceed(w, l), l.msg \in Msg,
                 l.to \in Address, l.msg \notin Group => l.to = To[l.msg]
          PROVE  OK(w)'
      <4>1. CASE Len(l.left) > 1
        <5> DEFINE n == [l EXCEPT !.left = Tail(@), !.sock = NULL, !.mux = NULL]
        <5>1. Tail(l.left) # <<>>
          BY <4>1, MoreLeft DEF WorkerLocal
        <5>2. WorkerTo(w, "lookup", n)
          BY <3>b, <4>1 DEF Proceed
        <5>3. /\ n.msg = l.msg /\ n.to = l.to
              /\ n.left = Tail(l.left) /\ n.mux = NULL
          BY <3>b DEF WorkerLocal
        <5> HIDE DEF n
        <5> QED
          BY <3>0, <3>b, <5>1, <5>2, <5>3
      <4>2. CASE ~ (Len(l.left) > 1)
        BY <3>0, <3>a, <3>b, <4>2 DEF Proceed
      <4> QED
        BY <4>1, <4>2
    <3>1. CASE Pop(w)
      <4> DEFINE m == Head(messq)
                 l == [WorkerIdle EXCEPT !.msg = m, !.to = To[m]]
      <4>1. m \in Msg
        BY <3>1 DEF Pop, TypeOK
      <4>2. To[m] \in Address
        BY <4>1 DEF Address
      <4>3. \/ m \notin Group /\ WorkerTo(w, "lookup", l)
            \/ Members # <<>> /\ WorkerTo(w, "lookup", [l EXCEPT !.left = Members])
            \/ UNCHANGED workv
        BY <3>1 DEF Pop
      <4> HIDE DEF m
      <4>4. /\ l.msg = m /\ l.to = To[m] /\ l.mux = NULL
            /\ [l EXCEPT !.left = Members].msg = m
            /\ [l EXCEPT !.left = Members].to = To[m]
            /\ [l EXCEPT !.left = Members].mux = NULL
            /\ [l EXCEPT !.left = Members].left = Members
        BY DEF WorkerIdle
      <4> HIDE DEF l
      <4>5. CASE m \notin Group /\ WorkerTo(w, "lookup", l)
        <5>1. wpc'[w] = "lookup" /\ wl'[w] = l
          BY <3>0, <4>5
        <5> QED
          BY <4>1, <4>2, <4>4, <4>5, <5>1
      <4>6. CASE /\ Members # <<>>
                 /\ WorkerTo(w, "lookup", [l EXCEPT !.left = Members])
        <5> DEFINE n == [l EXCEPT !.left = Members]
        <5>1. wpc'[w] = "lookup" /\ wl'[w] = n
          BY <3>0, <4>6
        <5>2. /\ n.msg = m /\ n.to = To[m] /\ n.mux = NULL
              /\ n.left = Members
          BY <4>4
        <5> HIDE DEF n
        <5> QED
          BY <4>1, <4>2, <4>6, <5>1, <5>2
      <4>7. CASE UNCHANGED workv
        BY <4>7
      <4> QED
        BY <4>3, <4>5, <4>6, <4>7
    <3>2. CASE Lookup(w)
      <4> DEFINE F == {f \in Fd : mpip[f] = Recipient(w)}
      <4>1. CASE F = {}
        BY <3>0, <3>2, <4>1 DEF Lookup
      <4>2. CASE F # {}
        <5> DEFINE f == IF wl[w].msg \in Group THEN Lowest(F) ELSE Highest(F)
        <5>1. f \in Fd
          BY <4>2, Extremes
        <5>2. WorkerTo(w, "getMux", [wl[w] EXCEPT !.sock = f])
          BY <3>2, <4>2 DEF Lookup
        <5>3. wpc[w] = "lookup"
          BY <3>2 DEF Lookup
        <5> HIDE DEF f
        <5> DEFINE n == [wl[w] EXCEPT !.sock = f]
        <5>4. wpc'[w] = "getMux" /\ wl'[w] = n
          BY <3>0, <5>2
        <5>5. /\ n.msg = wl[w].msg /\ n.to = wl[w].to /\ n.left = wl[w].left
              /\ n.mux = wl[w].mux /\ n.sock = f
          BY <3>0 DEF WorkerLocal
        <5> HIDE DEF n
        <5> QED
          BY <5>1, <5>3, <5>4, <5>5
      <4> QED
        BY <4>1, <4>2
    <3>3. CASE GetMux(w)
      <4> DEFINE x == mpmux[wl[w].sock]
      <4>1. x \in Conn \cup {NULL} /\ wpc[w] = "getMux"
        BY <3>3 DEF GetMux, TypeOK
      <4>2. \/ x # NULL /\ WorkerTo(w, "lock", [wl[w] EXCEPT !.mux = x])
            \/ WorkerTo(w, "pop", WorkerIdle)
            \/ WorkerTo(w, "dead", wl[w])
        BY <3>3 DEF GetMux
      <4> HIDE DEF x
      <4>3. CASE x # NULL /\ WorkerTo(w, "lock", [wl[w] EXCEPT !.mux = x])
        <5> DEFINE n == [wl[w] EXCEPT !.mux = x]
        <5>1. wpc'[w] = "lock" /\ wl'[w] = n
          BY <3>0, <4>3
        <5>2. /\ n.msg = wl[w].msg /\ n.to = wl[w].to /\ n.left = wl[w].left
              /\ n.sock = wl[w].sock /\ n.mux = x
          BY <3>0 DEF WorkerLocal
        <5> HIDE DEF n
        <5> QED
          BY <4>1, <4>3, <5>1, <5>2
      <4>4. CASE WorkerTo(w, "pop", WorkerIdle)
        <5>1. wpc'[w] = "pop" /\ wl'[w] = WorkerIdle
          BY <3>0, <4>4
        <5> QED
          BY <3>a, <5>1
      <4>5. CASE WorkerTo(w, "dead", wl[w])
        <5>1. wpc'[w] = "dead" /\ wl'[w] = wl[w]
          BY <3>0, <4>5
        <5> QED
          BY <4>1, <5>1
      <4> QED
        BY <4>2, <4>3, <4>4, <4>5
    <3>4. CASE \/ LockSend(w) \/ SendFails(w) \/ SendOK(w)
               \/ WorkerFindIp(w) \/ WorkerEraseIp(w) \/ WorkerEraseMux(w)
      <4> DEFINE Kept ==
            /\ wl'[w] = wl[w]
            /\ wpc[w] # "pop"
            /\ wpc'[w] \notin {"pop", "lookup", "getMux", "dead"}
            /\ wpc'[w] \in {"lock"} \cup Sending => wpc[w] \in {"lock"} \cup Sending
      <4>1. ASSUME LockSend(w) PROVE Kept
        BY <3>0, <4>1 DEF LockSend
      <4>2. ASSUME SendFails(w) PROVE Kept
        BY <3>0, <4>2 DEF SendFails
      <4>3. ASSUME SendOK(w) PROVE Kept
        BY <3>0, <4>3 DEF SendOK
      <4>4. ASSUME WorkerFindIp(w) PROVE Kept
        BY <3>0, <4>4 DEF WorkerFindIp
      <4>5. ASSUME WorkerEraseIp(w) PROVE Kept
        BY <3>0, <4>5 DEF WorkerEraseIp
      <4>6. ASSUME WorkerEraseMux(w) PROVE Kept
        BY <3>0, <4>6 DEF WorkerEraseMux
      <4>7. Kept
        BY <3>4, <4>1, <4>2, <4>3, <4>4, <4>5, <4>6
      <4> QED
        BY <4>7
    <3>5. CASE SendBroken(w)
      BY <3>5 DEF SendBroken
    <3>6. CASE Insert(w)
      <4> DEFINE l == [wl[w] EXCEPT !.to = StoredTo(w)]
      <4>1. /\ wl[w].msg \in Msg /\ StoredTo(w) \in Address
            /\ wl[w].msg \notin Group => StoredTo(w) = To[wl[w].msg]
            /\ wpc[w] = "insert"
        BY <3>6, StoredAddress DEF Insert
      <4>2. /\ l \in WorkerLocal /\ l.to = StoredTo(w) /\ l.msg = wl[w].msg
            /\ l.mux = wl[w].mux /\ l.left = wl[w].left /\ l.sock = wl[w].sock
        BY <3>0, <4>1 DEF WorkerLocal
      <4>3. \/ Proceed(w, l)
            \/ l.mux # NULL /\ WorkerTo(w, "unlock", l)
        BY <3>6 DEF Insert
      <4> HIDE DEF l
      <4>4. l.mux \in Conn \cup {NULL}
        BY <4>2 DEF WorkerLocal
      <4> QED
        BY <3>0, <3>b, <4>1, <4>2, <4>3, <4>4
    <3>7. CASE Unlock(w)
      BY <3>0, <3>b, <3>7 DEF Unlock
    <3> QED
      BY <1>5, <3>1, <3>2, <3>3, <3>4, <3>5, <3>6, <3>7 DEF WorkerStep
  <2> QED
    BY <2>1, <2>2
<1> QED
  BY <1>1, <1>2, <1>3, <1>4, <1>5 DEF Next

-----------------------------------------------------------------------------
(* The registries. *)

\* accept() gives a descriptor to a connection that never had one.
LEMMA BacklogOKNext == IInv /\ [Next]_vars => BacklogOK'
<1> SUFFICES ASSUME IInv, [Next]_vars PROVE BacklogOK'
  OBVIOUS
<1> USE ServerAssumption DEF IInv, BacklogOK
<1>0. backlog \in Seq(Conn) /\ Len(backlog) \in Nat
  BY DEF TypeOK
<1>1. CASE UNCHANGED vars
  BY <1>1 DEF vars, kernel, registry
<1>2. CASE Environment
  <2> USE <1>2, EnvironmentFrame
  <2>1. ASSUME NEW c \in Conn, Connect(c) PROVE BacklogOK'
    <3>1. /\ peer[c] = "none" /\ peer' = [peer EXCEPT ![c] = "up"]
          /\ backlog' = Append(backlog, c) /\ UNCHANGED fdOf
      BY <2>1 DEF Connect
    <3>2. /\ Len(backlog') = Len(backlog) + 1
          /\ \A i \in 1..Len(backlog) : backlog'[i] = backlog[i]
          /\ backlog'[Len(backlog) + 1] = c
      BY <1>0, <3>1
    <3>3. backlog' # <<>>
      BY <1>0, <3>1
    <3>4. \A i \in 1..Len(backlog) : backlog[i] # c /\ backlog[i] \in Conn
      BY <1>0, <3>1
    <3>5. \A i \in 1..Len(backlog') :
             /\ fdOf'[backlog'[i]] = NULL
             /\ peer'[backlog'[i]] # "none"
      <4> SUFFICES ASSUME NEW i \in 1..(Len(backlog) + 1)
                   PROVE  /\ fdOf'[backlog'[i]] = NULL
                          /\ peer'[backlog'[i]] # "none"
        BY <3>2
      <4>1. CASE i \in 1..Len(backlog)
        BY <3>1, <3>2, <3>4, <4>1 DEF TypeOK
      <4>2. CASE i = Len(backlog) + 1
        BY <3>1, <3>2, <4>2 DEF TypeOK
      <4> QED
        BY <1>0, <4>1, <4>2
    <3>6. \A i, j \in 1..Len(backlog') : backlog'[i] = backlog'[j] => i = j
      BY <1>0, <3>2, <3>4
    <3>7. \A d \in Conn : peer'[d] = "none" => fdOf'[d] = NULL
      BY <3>1 DEF TypeOK
    <3> QED
      BY <3>3, <3>5, <3>6, <3>7
  <2>2. ASSUME NEW c \in Conn, ClientSend(c) \/ ClientClose(c) \/ Reset(c)
        PROVE  BacklogOK'
    <3>1. /\ UNCHANGED <<backlog, fdOf>>
          /\ \A d \in Conn : peer'[d] = "none" <=> peer[d] = "none"
      BY <2>2 DEF ClientSend, ClientClose, Reset, TypeOK
    <3>2. "listen" \in edge' => "listen" \in edge
      BY <2>2 DEF ClientSend, ClientClose, Reset, EdgeAt
    <3>3. \A i \in 1..Len(backlog) : backlog[i] \in Conn
      BY <1>0
    <3> QED
      BY <3>1, <3>2, <3>3
  <2> QED
    BY <1>2, <2>1, <2>2 DEF Environment
<1>3. ASSUME UNCHANGED <<backlog, fdOf>>, "listen" \in edge' => "listen" \in edge,
             \A d \in Conn : peer'[d] = "none" <=> peer[d] = "none"
      PROVE  BacklogOK'
  <2>1. \A i \in 1..Len(backlog) : backlog[i] \in Conn
    BY <1>0
  <2> QED
    BY <1>3, <2>1
<1>4. CASE MainStep
  <2> USE DEF MainAt, kernel, registry
  <2>1. CASE Accept
    <3>1. CASE FreeFd = {}
      <4>1. UNCHANGED <<backlog, fdOf, peer>> /\ edge' = edge \ {"listen"}
        BY <2>1, <3>1 DEF Accept
      <4> QED
        BY <1>3, <4>1
    <3>2. CASE FreeFd # {}
      <4> DEFINE c == Head(backlog)
      <4>1. /\ backlog # <<>> /\ backlog' = Tail(backlog)
            /\ fdOf' = [fdOf EXCEPT ![c] = Lowest(FreeFd)]
            /\ edge' = edge \ {"listen"} /\ UNCHANGED peer
        BY <2>1, <3>2 DEF Accept
      <4>2. /\ Len(backlog) >= 1 /\ Len(backlog') = Len(backlog) - 1
            /\ \A i \in 1..(Len(backlog) - 1) : backlog'[i] = backlog[i + 1]
            /\ c = backlog[1]
        BY <1>0, <4>1
      <4>3. \A i \in 1..(Len(backlog) - 1) : i + 1 \in 1..Len(backlog) /\ i + 1 # 1
        BY <1>0, <4>2
      <4>4. 1 \in 1..Len(backlog)
        BY <1>0, <4>2
      <4>5. \A i \in 1..Len(backlog') : backlog'[i] # c /\ backlog'[i] \in Conn
        <5> SUFFICES ASSUME NEW i \in 1..(Len(backlog) - 1)
                     PROVE  backlog'[i] # c /\ backlog'[i] \in Conn
          BY <4>2
        <5>1. i + 1 \in 1..Len(backlog) /\ i + 1 # 1
          BY <4>3
        <5>2. backlog'[i] = backlog[i + 1] /\ backlog[i + 1] # backlog[1]
          BY <4>2, <4>4, <5>1
        <5>3. backlog[i + 1] \in Conn
          BY <1>0, <5>1
        <5> QED
          BY <4>2, <5>2, <5>3
      <4>6. \A i \in 1..Len(backlog') :
              /\ fdOf'[backlog'[i]] = NULL
              /\ peer'[backlog'[i]] # "none"
        BY <4>1, <4>2, <4>3, <4>5 DEF TypeOK
      <4>7. \A i, j \in 1..Len(backlog') : backlog'[i] = backlog'[j] => i = j
        <5> SUFFICES ASSUME NEW i \in 1..(Len(backlog) - 1),
                            NEW j \in 1..(Len(backlog) - 1),
                            backlog'[i] = backlog'[j]
                     PROVE  i = j
          BY <4>2
        <5>1. i + 1 = j + 1
          BY <4>2, <4>3
        <5> QED
          BY <1>0, <5>1
      <4>8. \A d \in Conn : peer'[d] = "none" => fdOf'[d] = NULL
        <5>1. peer[c] # "none"
          BY <4>2, <4>4
        <5> QED
          BY <4>1, <5>1 DEF TypeOK
      <4>9. "listen" \notin edge'
        BY <4>1
      <4> QED
        BY <4>6, <4>7, <4>8, <4>9
    <3> QED
      BY <3>1, <3>2
  <2>2. CASE Watch
    <3>1. UNCHANGED <<backlog, fdOf, peer>>
      BY <2>2 DEF Watch
    <3>2. \/ UNCHANGED edge
          \/ fdtab[fdOf[cur]] # NULL /\ edge' = edge \cup {fdtab[fdOf[cur]]}
      BY <2>2 DEF Watch
    <3>3. fdtab[fdOf[cur]] \in Conn \cup {NULL}
      BY <2>2 DEF TypeOK, MainOK, Watch
    <3>4. "listen" \in edge' => "listen" \in edge
      BY <3>2, <3>3
    <3> QED
      BY <1>3, <3>1, <3>4
  <2>3. CASE CommitRead
    <3>1. UNCHANGED <<backlog, fdOf, peer>> /\ edge' \subseteq edge
      BY <2>3 DEF CommitRead
    <3> QED
      BY <1>3, <3>1
  <2>4. CASE Replay
    <3>1. UNCHANGED <<backlog, fdOf, edge>>
      BY <2>4 DEF Replay
    <3>2. peer' = Reported(fdOf[cur]) \/ peer' = peer
      BY <2>4 DEF Replay
    <3>3. \A d \in Conn : peer'[d] = "none" <=> peer[d] = "none"
      BY <3>2 DEF Reported
    <3> QED
      BY <1>3, <3>1, <3>3
  <2>5. CASE \/ PushClient \/ RegisterIp \/ RegisterMux \/ AddRedis \/ Select
             \/ LockOwn \/ UnlockOwn \/ Delete
    <3>1. UNCHANGED <<backlog, fdOf, edge, peer>>
      BY <2>5
          DEF PushClient, RegisterIp, RegisterMux, AddRedis, Select, LockOwn,
                  UnlockOwn, Delete
    <3> QED
      BY <1>3, <3>1
  <2> QED
    BY <1>4, <2>1, <2>2, <2>3, <2>4, <2>5 DEF MainStep
<1>5. ASSUME NEW r \in Reader, ReaderStep(r) PROVE BacklogOK'
  <2>1. UNCHANGED <<backlog, fdOf>>
    BY <1>5, ReaderFrame
  <2>2. peer' = peer \/ peer' = Reported(rl[r].fd)
    BY <1>5 DEF ReaderStep, StartRead, FindClient, RecvData, RecvNothing, Save,
         GetPeer, Srem, CloseSock, Close, FindIp, EraseIp, EraseMux,
         EraseClient, kernel
  <2>3. edge' \subseteq edge
    BY <1>5 DEF ReaderStep, StartRead, FindClient, RecvData, RecvNothing, Save,
         GetPeer, Srem, CloseSock, Close, FindIp, EraseIp, EraseMux,
         EraseClient, kernel
  <2>4. \A d \in Conn : peer'[d] = "none" <=> peer[d] = "none"
    BY <2>2 DEF Reported
  <2> QED
    BY <1>3, <2>1, <2>3, <2>4
<1>6. ASSUME NEW w \in Worker, WorkerStep(w) PROVE BacklogOK'
  <2>1. UNCHANGED <<backlog, fdOf, edge>>
    BY <1>6, WorkerFrame
  <2>2. peer' = peer \/ peer' = Reported(wl[w].sock)
    BY <1>6
        DEF WorkerStep, Pop, Lookup, GetMux, LockSend, SendBroken, SendFails,
         SendOK, WorkerFindIp, WorkerEraseIp, WorkerEraseMux, Insert, Unlock,
         kernel
  <2>3. \A d \in Conn : peer'[d] = "none" <=> peer[d] = "none"
    BY <2>2 DEF Reported
  <2> QED
    BY <1>3, <2>1, <2>3
<1> QED
  BY <1>1, <1>2, <1>4, <1>5, <1>6 DEF Next

\* Descriptors are numbers.
LEMMA FdReflexive == \A f \in Fd : f <= f
<1> SUFFICES ASSUME NEW f \in Fd PROVE f <= f
  OBVIOUS
<1>1. f \in Nat
  BY ServerAssumption
<1> QED
  BY <1>1

\* Erasing entries keeps the rest unique.
LEMMA ErasedIsUnique ==
    ASSUME UniqueIp, \A f \in Fd : mpip'[f] \in {mpip[f], NULL}
    PROVE  UniqueIp'
  BY DEF UniqueIp

\* No step puts an ip on line twice.
LEMMA UniqueIpNext == IInv /\ [Next]_vars => UniqueIp'
<1> SUFFICES ASSUME IInv, [Next]_vars PROVE UniqueIp'
  OBVIOUS
<1> USE ServerAssumption DEF IInv
<1>1. CASE UNCHANGED mpip
  BY <1>1, ErasedIsUnique
<1>2. CASE RegisterIp
  <2> DEFINE ip == PeerIp[cur]
             erased == [g \in Fd |-> IF g \in FirstWith(ip) THEN NULL ELSE mpip[g]]
             f == fdOf[cur]
  <2>1. mpip' = [erased EXCEPT ![f] = IF @ = NULL THEN ip ELSE @]
    BY <1>2 DEF RegisterIp
  <2>2. FirstWith(ip) = {g \in Fd : mpip[g] = ip}
    <3>1. ip # NULL
      BY <1>2 DEF RegisterIp, MainAt, MainOK, TypeOK
    <3>2. \A g, h \in Fd : mpip[g] = ip /\ mpip[h] = ip => g = h
      BY <3>1 DEF UniqueIp
    <3>3. \A g, h \in Fd : mpip[g] = ip /\ mpip[h] = ip => g <= h
      BY <3>2, FdReflexive
    <3> HIDE DEF ip
    <3> QED
      BY <3>3 DEF FirstWith
  <2>3. \A g \in Fd : /\ erased[g] # ip
                      /\ erased[g] \in {mpip[g], NULL}
    <3>1. ip # NULL
      BY <1>2 DEF RegisterIp, MainAt, MainOK, TypeOK
    <3> QED
      BY <2>2, <3>1
  <2>4. \A g \in Fd : \/ mpip'[g] = erased[g]
                      \/ g = f /\ mpip'[g] = ip
    BY <2>1
  <2> HIDE DEF erased, ip, f
  <2> QED
    BY <2>3, <2>4 DEF UniqueIp
<1>3. ASSUME NEW r \in Reader, EraseIp(r) PROVE UniqueIp'
  BY <1>3, ErasedIsUnique DEF EraseIp, TypeOK
<1>4. ASSUME NEW w \in Worker, WorkerEraseIp(w) PROVE UniqueIp'
  BY <1>4, ErasedIsUnique DEF WorkerEraseIp, TypeOK
<1>5. CASE Environment
  BY <1>1, <1>5, EnvironmentFrame
<1>6. CASE MainStep
  <2>1. RegisterIp \/ UNCHANGED mpip
    BY <1>6 DEF MainStep, Accept, PushClient, RegisterMux, AddRedis,
       Select, LockOwn, Replay, UnlockOwn, Delete, Watch, CommitRead, registry
  <2> QED
    BY <1>1, <1>2, <2>1
<1>7. ASSUME NEW r \in Reader, ReaderStep(r) PROVE UniqueIp'
  <2>1. EraseIp(r) \/ UNCHANGED mpip
    BY <1>7 DEF ReaderStep, StartRead, FindClient, RecvData, RecvNothing, Save,
         GetPeer, Srem, CloseSock, FindIp, EraseMux, EraseClient, registry
  <2> QED
    BY <1>1, <1>3, <2>1
<1>8. ASSUME NEW w \in Worker, WorkerStep(w) PROVE UniqueIp'
  <2>1. WorkerEraseIp(w) \/ UNCHANGED mpip
    BY <1>8
        DEF WorkerStep, Pop, Lookup, GetMux, LockSend, SendBroken, SendFails,
         SendOK, WorkerFindIp, WorkerEraseMux, Insert, Unlock, registry
  <2> QED
    BY <1>1, <1>4, <2>1
<1> QED
  BY <1>1, <1>5, <1>6, <1>7, <1>8 DEF Next, vars, registry

-----------------------------------------------------------------------------
(* The mutexes. *)

\* What NoOrphanLock says of one mutex depends on few variables.
LEMMA LocksAlone ==
    ASSUME NoOrphanLock, UNCHANGED <<owner, wpc, wl>>,
           (mpc' = "replay" <=> mpc = "replay"),
           mpc = "replay" => cur' = cur
    PROVE  NoOrphanLock'
  BY DEF NoOrphanLock, Holds

\* A dispatcher that neither takes nor gives up a mutex.
LEMMA SameHold ==
    ASSUME NoOrphanLock, NEW w \in Worker, UNCHANGED <<owner, mpc, cur>>,
           \A v \in Worker \ {w} : wpc'[v] = wpc[v] /\ wl'[v] = wl[v],
           \A x \in Conn : Holds(w, x)' <=> Holds(w, x),
           Main \notin Worker
    PROVE  NoOrphanLock'
  BY DEF NoOrphanLock, Holds

\* Every step leaves each mutex with the thread that is inside its lock.
LEMMA NoOrphanLockNext == IInv /\ [Next]_vars => NoOrphanLock'
<1> SUFFICES ASSUME IInv, [Next]_vars PROVE NoOrphanLock'
  OBVIOUS
<1> USE ServerAssumption DEF IInv, Thread
<1>0. owner \in [Conn -> {Main, NULL} \cup Worker] /\ Main \notin Worker
      /\ NULL \notin {Main} \cup Worker
  BY DEF TypeOK
<1>1. CASE UNCHANGED vars
  BY <1>1, LocksAlone DEF vars, workv, mainv
<1>2. CASE Environment
  BY <1>2, EnvironmentFrame, LocksAlone
<1>3. ASSUME NEW r \in Reader, ReaderStep(r) PROVE NoOrphanLock'
  BY <1>3, ReaderFrame, LocksAlone
<1>4. CASE MainStep
  <2>0. UNCHANGED <<wpc, wl>>
    BY <1>4, MainFrame
  <2> USE DEF MainAt, mainv
  <2>1. CASE LockOwn
    <3>1. /\ mpc = "lock" /\ mpc' = "replay" /\ owner[cur] = NULL
          /\ owner' = [owner EXCEPT ![cur] = Main] /\ cur' = cur
      BY <2>1 DEF LockOwn
    <3>2. \A w \in Worker, x \in Conn : Holds(w, x)' <=> Holds(w, x)
      BY <1>0, <2>0 DEF Holds
    <3>3. \A x \in Conn : Holds(Main, x)' <=> x = cur
      BY <1>0, <3>1 DEF Holds
    <3>4. \A x \in Conn : owner[x] # Main
      BY <1>0, <3>1 DEF NoOrphanLock, Holds
    <3>5. \A w \in Worker : ~ Holds(w, cur)
      BY <1>0, <3>1 DEF NoOrphanLock, MainOK, TypeOK
    <3>6. \A x \in Conn : owner'[x] = IF x = cur THEN Main ELSE owner[x]
      BY <1>0, <3>1
    <3> QED
      BY <1>0, <3>2, <3>3, <3>4, <3>5, <3>6 DEF NoOrphanLock
  <2>2. CASE UnlockOwn
    <3>1. /\ mpc = "replay" /\ mpc' = "delete"
          /\ owner' = [owner EXCEPT ![cur] = NULL] /\ cur' = cur
      BY <2>2 DEF UnlockOwn
    <3>2. \A w \in Worker, x \in Conn : Holds(w, x)' <=> Holds(w, x)
      BY <1>0, <2>0 DEF Holds
    <3>3. \A x \in Conn : ~ Holds(Main, x)'
      BY <1>0, <3>1 DEF Holds
    <3>4. \A x \in Conn : owner[x] = Main <=> x = cur
      BY <1>0, <3>1 DEF NoOrphanLock, Holds
    <3>5. \A w \in Worker : ~ Holds(w, cur)
      BY <1>0, <3>1, <3>4 DEF NoOrphanLock, MainOK, TypeOK
    <3>6. \A x \in Conn : owner'[x] = IF x = cur THEN NULL ELSE owner[x]
      BY <1>0, <3>1
    <3> QED
      BY <1>0, <3>2, <3>3, <3>4, <3>5, <3>6 DEF NoOrphanLock
  <2>3. CASE \/ Accept \/ PushClient \/ RegisterIp \/ RegisterMux \/ AddRedis
             \/ Select \/ Replay \/ Delete \/ Watch \/ CommitRead
    <3>1. /\ UNCHANGED owner /\ (mpc' = "replay" <=> mpc = "replay")
          /\ (mpc = "replay" => cur' = cur)
      BY <2>3 DEF Accept, PushClient, RegisterIp, RegisterMux, AddRedis,
         Select, Replay, Delete, Watch, CommitRead
    <3> QED
      BY <2>0, <3>1, LocksAlone
  <2> QED
    BY <1>4, <2>1, <2>2, <2>3 DEF MainStep
<1>5. ASSUME NEW w \in Worker, WorkerStep(w) PROVE NoOrphanLock'
  <2>0. /\ UNCHANGED <<mpc, cur>>
        /\ \A v \in Worker \ {w} : wpc'[v] = wpc[v] /\ wl'[v] = wl[v]
    BY <1>5, WorkerFrame
  <2>a. wl[w] \in WorkerLocal /\ w \in DOMAIN wpc /\ w \in DOMAIN wl
    BY DEF TypeOK
  <2>b. NULL \notin Conn /\ WorkerIdle.mux = NULL
    BY DEF WorkerIdle
  <2>c. ASSUME NEW l \in WorkerLocal, Proceed(w, l)
        PROVE  wl'[w].mux = NULL /\ wpc'[w] \in {"pop", "lookup"}
    <3> DEFINE n == [l EXCEPT !.left = Tail(@), !.sock = NULL, !.mux = NULL]
    <3>1. n.mux = NULL
      BY DEF WorkerLocal
    <3>2. WorkerTo(w, "lookup", n) \/ WorkerTo(w, "pop", WorkerIdle)
      BY <2>c DEF Proceed
    <3> HIDE DEF n
    <3> QED
      BY <2>a, <2>b, <3>1, <3>2 DEF WorkerTo
  <2> USE DEF WorkerAt, WorkerTo, WorkerGoes, workv, WorkersOK
  <2>1. CASE LockSend(w)
    <3> DEFINE m == wl[w].mux
    <3>1. /\ wpc[w] = "lock" /\ wpc'[w] = "send" /\ wl'[w] = wl[w]
          /\ owner[m] = NULL /\ owner' = [owner EXCEPT ![m] = w]
      BY <2>1, <2>a DEF LockSend
    <3>2. m \in Conn
      BY <3>1
    <3>3. \A x \in Conn : Holds(w, x)' <=> x = m
      BY <1>0, <3>1 DEF Holds, Sending
    <3>4. \A x \in Conn : ~ Holds(w, x)
      BY <1>0, <3>1 DEF Holds, Sending
    <3>5. \A t \in ({Main} \cup Worker) \ {w}, x \in Conn :
             Holds(t, x)' <=> Holds(t, x)
      BY <1>0, <2>0 DEF Holds
    <3>6. \A x \in Conn : owner'[x] = IF x = m THEN w ELSE owner[x]
      BY <1>0, <3>1, <3>2
    <3> HIDE DEF m
    <3> QED
      BY <1>0, <3>1, <3>2, <3>3, <3>4, <3>5, <3>6 DEF NoOrphanLock
  <2>2. CASE Unlock(w)
    <3> DEFINE m == wl[w].mux
    <3>1. /\ wpc[w] = "unlock" /\ owner' = [owner EXCEPT ![m] = NULL]
          /\ wl'[w].mux = NULL
      BY <2>2, <2>a, <2>c DEF Unlock
    <3>2. m \in Conn
      BY <3>1 DEF Sending
    <3>3. \A x \in Conn : ~ Holds(w, x)'
      BY <1>0, <2>b, <3>1 DEF Holds
    <3>4. \A x \in Conn : owner[x] = w <=> x = m
      BY <1>0, <3>1 DEF NoOrphanLock, Holds, Sending
    <3>5. \A t \in ({Main} \cup Worker) \ {w}, x \in Conn :
             Holds(t, x)' <=> Holds(t, x)
      BY <1>0, <2>0 DEF Holds
    <3>6. \A x \in Conn : owner'[x] = IF x = m THEN NULL ELSE owner[x]
      BY <1>0, <3>1, <3>2
    <3> HIDE DEF m
    <3> QED
      BY <1>0, <3>2, <3>3, <3>4, <3>5, <3>6 DEF NoOrphanLock
  <2>3. ASSUME UNCHANGED owner, \A x \in Conn : Holds(w, x)' <=> Holds(w, x)
        PROVE  NoOrphanLock'
    BY <1>0, <2>0, <2>3, SameHold
  <2>4. CASE Pop(w)
    <3> DEFINE l == [WorkerIdle EXCEPT !.msg = Head(messq),
                                       !.to = To[Head(messq)]]
    <3>1. /\ wpc[w] = "pop" /\ UNCHANGED owner
          /\ \/ WorkerTo(w, "lookup", l)
             \/ WorkerTo(w, "lookup", [l EXCEPT !.left = Members])
             \/ UNCHANGED workv
      BY <2>4 DEF Pop
    <3> HIDE DEF l
    <3>2. wpc'[w] \in {"pop", "lookup"}
      BY <2>a, <3>1
    <3>3. \A x \in Conn : ~ Holds(w, x) /\ ~ Holds(w, x)'
      BY <1>0, <3>1, <3>2 DEF Holds, Sending
    <3> QED
      BY <2>3, <3>1, <3>3
  <2>5. CASE Lookup(w)
    <3>1. wpc[w] = "lookup" /\ UNCHANGED owner /\ wl[w].mux = NULL
      BY <2>5 DEF Lookup
    <3>2. wl'[w].mux = NULL
      BY <2>5, <2>a, <3>1 DEF Lookup, WorkerLocal
    <3>3. \A x \in Conn : ~ Holds(w, x) /\ ~ Holds(w, x)'
      BY <1>0, <2>b, <3>1, <3>2 DEF Holds
    <3> QED
      BY <2>3, <3>1, <3>3
  <2>6. CASE GetMux(w)
    <3>1. wpc[w] = "getMux" /\ UNCHANGED owner
      BY <2>6 DEF GetMux
    <3>2. wpc'[w] \in {"lock", "pop", "dead"}
      BY <2>6, <2>a DEF GetMux
    <3>3. \A x \in Conn : ~ Holds(w, x) /\ ~ Holds(w, x)'
      BY <1>0, <3>1, <3>2 DEF Holds, Sending
    <3> QED
      BY <2>3, <3>1, <3>3
  <2>7. CASE SendBroken(w)
    BY <2>3, <2>7 DEF SendBroken, Holds
  <2>8. CASE \/ SendFails(w) \/ SendOK(w) \/ WorkerFindIp(w)
             \/ WorkerEraseIp(w) \/ WorkerEraseMux(w)
    <3>1. /\ UNCHANGED owner /\ wl'[w] = wl[w]
          /\ wpc[w] \in Sending \cup {"insert"}
          /\ wpc'[w] \in Sending \cup {"insert"}
      BY <2>8, <2>a
          DEF SendFails, SendOK, WorkerFindIp, WorkerEraseIp, WorkerEraseMux,
              Sending
    <3>2. \A x \in Conn : Holds(w, x)' <=> Holds(w, x)
      BY <1>0, <3>1 DEF Holds
    <3> QED
      BY <2>3, <3>1, <3>2
  <2>9. CASE Insert(w)
    <3> DEFINE l == [wl[w] EXCEPT !.to = StoredTo(w)]
    <3>1. wpc[w] = "insert" /\ UNCHANGED owner
      BY <2>9 DEF Insert
    <3>2. l \in WorkerLocal /\ l.mux = wl[w].mux
      BY <2>a, <3>1, StoredAddress DEF WorkerLocal
    <3>3. \/ l.mux = NULL /\ Proceed(w, l)
          \/ WorkerTo(w, "unlock", l)
      BY <2>9 DEF Insert
    <3> HIDE DEF l
    <3>4. CASE l.mux = NULL /\ Proceed(w, l)
      <4>1. \A x \in Conn : ~ Holds(w, x) /\ ~ Holds(w, x)'
        BY <1>0, <2>b, <2>c, <3>2, <3>4 DEF Holds
      <4> QED
        BY <2>3, <3>1, <4>1
    <3>5. CASE WorkerTo(w, "unlock", l)
      <4>1. wpc'[w] = "unlock" /\ wl'[w].mux = wl[w].mux
        BY <2>a, <3>2, <3>5
      <4>2. \A x \in Conn : Holds(w, x)' <=> Holds(w, x)
        BY <1>0, <3>1, <4>1 DEF Holds, Sending
      <4> QED
        BY <2>3, <3>1, <4>2
    <3> QED
      BY <3>3, <3>4, <3>5
  <2> QED
    BY <1>5, <2>1, <2>2, <2>4, <2>5, <2>6, <2>7, <2>8, <2>9 DEF WorkerStep
<1> QED
  BY <1>1, <1>2, <1>3, <1>4, <1>5 DEF Next

-----------------------------------------------------------------------------
\* Every step preserves the invariant.
LEMMA InvNext == IInv /\ [Next]_vars => IInv'
  BY TypeNext, MainOKNext, BacklogOKNext, ReadersOKNext, WorkersOKNext,
     UniqueIpNext, NoOrphanLockNext DEF IInv

\* The variables of main.cpp keep their types, however readers, dispatchers
\* and main interleave.
THEOREM ServerTypes == Spec => []TypeOK
<1>1. IInv => TypeOK
  BY DEF IInv
<1> QED
  BY <1>1, InitInv, InvNext, PTL DEF Spec

\* An ip is never on line under two descriptors (main.cpp 123-154), so the two
\* lookups of handle_mess_que (612-618 and 686-691) find the same socket.
THEOREM OneDescriptorPerIp == Spec => []UniqueIp
<1>1. IInv => UniqueIp
  BY DEF IInv
<1> QED
  BY <1>1, InitInv, InvNext, PTL DEF Spec

\* A connection's mutex is held exactly between lock() and unlock(), on every
\* path of handle_mess_que (634-670 and 707-744) and of the login (339-374).
THEOREM LocksReleased == Spec => []NoOrphanLock
<1>1. IInv => NoOrphanLock
  BY DEF IInv
<1> QED
  BY <1>1, InitInv, InvNext, PTL DEF Spec
=============================================================================
