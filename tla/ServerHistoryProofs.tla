------------------------- MODULE ServerHistoryProofs -------------------------
(***************************************************************************)
(* What clients receive of their history: the replay of a login sends to   *)
(* the right connection, in order, and no row twice, under every           *)
(* interleaving with the readers, which close descriptors under it, and    *)
(* the dispatchers, which store rows and send on the same connection.      *)
(***************************************************************************)
EXTENDS ServerProofs, FiniteSetTheorems

-----------------------------------------------------------------------------
(* What a peer has been sent.  A packet of the history carries the id of   *)
(* its row, a packet of a dispatcher 0.                                    *)

Replayed(s) == {s[i].id : i \in {j \in 1..Len(s) : s[j].id # 0}}

Addressed(s, ip) == \A i \in 1..Len(s) : s[i].id # 0 => s[i].for = ip

Ordered(s) ==
    \A i, j \in 1..Len(s) :
        i < j /\ s[i].id # 0 /\ s[j].id # 0 => s[i].id < s[j].id

LEMMA AppendPacket ==
    ASSUME NEW s \in Seq(Row), NEW p \in Row
    PROVE  /\ p.id = 0 => Replayed(Append(s, p)) = Replayed(s)
           /\ p.id # 0 => Replayed(Append(s, p)) = Replayed(s) \cup {p.id}
           /\ \A ip : Addressed(s, ip) /\ (p.id # 0 => p.for = ip)
                         => Addressed(Append(s, p), ip)
           /\ Ordered(s) /\ (p.id # 0 => \A k \in Replayed(s) : k < p.id)
                 => Ordered(Append(s, p))
<1> DEFINE t == Append(s, p)
<1>1. /\ Len(s) \in Nat /\ Len(t) = Len(s) + 1
      /\ t[Len(s) + 1] = p
      /\ \A i \in 1..Len(s) : t[i] = s[i]
  OBVIOUS
<1>2. \A i \in 1..Len(t) : i \in 1..Len(s) \/ i = Len(s) + 1
  BY <1>1
<1>3. \A i \in 1..Len(s) : i \in 1..Len(t)
  BY <1>1
<1>4. Len(s) + 1 \in 1..Len(t)
  BY <1>1
<1> HIDE DEF t
<1>5. p.id = 0 => Replayed(t) = Replayed(s)
  BY <1>1, <1>2, <1>3 DEF Replayed
<1>6. p.id # 0 => Replayed(t) = Replayed(s) \cup {p.id}
  BY <1>1, <1>2, <1>3, <1>4 DEF Replayed
<1>7. ASSUME NEW ip, Addressed(s, ip), p.id # 0 => p.for = ip
      PROVE  Addressed(t, ip)
  BY <1>1, <1>2, <1>7 DEF Addressed
<1>8. ASSUME Ordered(s), p.id # 0 => \A k \in Replayed(s) : k < p.id
      PROVE  Ordered(t)
  <2> SUFFICES ASSUME NEW i \in 1..Len(t), NEW j \in 1..Len(t),
                      i < j, t[i].id # 0, t[j].id # 0
               PROVE  t[i].id < t[j].id
    BY DEF Ordered
  <2>1. i \in 1..Len(s)
    BY <1>1
  <2>2. CASE j \in 1..Len(s)
    BY <1>1, <1>8, <2>1, <2>2 DEF Ordered
  <2>3. CASE j = Len(s) + 1
    <3>1. s[i].id \in Replayed(s)
      BY <1>1, <2>1 DEF Replayed
    <3> QED
      BY <1>1, <1>8, <2>1, <2>3, <3>1
  <2> QED
    BY <1>2, <2>2, <2>3
<1> QED
  BY <1>5, <1>6, <1>7, <1>8 DEF t

\* send() appends to the peer behind the descriptor, if to anything.
LEMMA Delivered ==
    ASSUME TypeOK, NEW f \in Fd, NEW p, NEW c \in Conn,
           out' = Deliver(f, p) \/ UNCHANGED out
    PROVE  \/ out'[c] = out[c]
           \/ fdtab[f] = c /\ out'[c] = Append(out[c], p)
  BY DEF Deliver, Receives

-----------------------------------------------------------------------------
(* The inductive invariant. *)

\* AUTOINCREMENT; and what the table holds under an address was stored for it.
TableOK ==
    /\ \A row \in rows : row.to \in Ip => row.for = row.to
    /\ \A row \in rows : row.id \in 1..lastId
    /\ \A r, s \in rows : r.id = s.id => r = s

\* The descriptor main sends to is still the new connection's, or closed:
\* only main gives descriptors out.  What is left to send was stored for the
\* new connection's address, and its ids have been noted.
LoginOK ==
    /\ cur # NULL => fdtab[fdOf[cur]] \in {NULL, cur}
    /\ sel # {} => mpc \in {"lock", "replay"}
    /\ \A row \in sel : row.for = PeerIp[cur] /\ row.id \in ids
    /\ \A r, s \in sel : r.id = s.id => r = s
    /\ \A id \in ids : id \in 1..lastId

\* A connection gets its history between the lock and the unlock of its login;
\* what is still to be sent has greater ids.
PacketsOK ==
    \A c \in Conn :
        /\ Replayed(out[c]) # {} =>
              fdOf[c] # NULL /\ (c = cur => mpc \in {"replay", "delete", "watch"})
        /\ \A k \in Replayed(out[c]) : k \in 1..lastId
        /\ c = cur => \A row \in sel, k \in Replayed(out[c]) : k < row.id
        /\ Addressed(out[c], PeerIp[c])
        /\ Ordered(out[c])

\* As long as the DELETE is not too long: a row that has been sent is not
\* about to be sent, and is in the table only until the login deletes it.
Gone(c, k) ==
    \/ \A row \in rows : row.id # k
    \/ c = cur /\ mpc \in {"replay", "delete"} /\ k \in ids

OnceOK ==
    lastId <= MaxTerms =>
        /\ \A c \in Conn : \A k \in Replayed(out[c]) :
              Gone(c, k) /\ \A row \in sel : row.id # k
        /\ \A c, d \in Conn : c # d =>
              \A k \in Replayed(out[c]) : k \notin Replayed(out[d])

HInv == TableOK /\ LoginOK /\ PacketsOK /\ OnceOK

touched == <<fdtab, fdOf, out, rows, lastId, mpc, cur, sel, ids>>

LEMMA HistoryInit == Init => HInv
<1> SUFFICES ASSUME Init PROVE HInv
  OBVIOUS
<1>1. TableOK /\ LoginOK
  BY DEF Init, TableOK, LoginOK
<1>2. \A c \in Conn : out[c] = <<>>
  BY DEF Init
<1>3. \A c \in Conn : Replayed(out[c]) = {}
  BY <1>2 DEF Replayed
<1>4. \A c \in Conn : Addressed(out[c], PeerIp[c]) /\ Ordered(out[c])
  BY <1>2 DEF Addressed, Ordered
<1>5. PacketsOK /\ OnceOK
  BY <1>3, <1>4 DEF PacketsOK, OnceOK
<1> QED
  BY <1>1, <1>5 DEF HInv

-----------------------------------------------------------------------------
(* The steps. *)

LEMMA HistorySame ==
    ASSUME HInv, UNCHANGED touched
    PROVE  HInv'
<1> USE DEF HInv, touched
<1>1. TableOK' /\ LoginOK'
  BY DEF TableOK, LoginOK
<1>2. PacketsOK'
  BY DEF PacketsOK
<1>3. OnceOK'
  BY DEF OnceOK, Gone
<1> QED
  BY <1>1, <1>2, <1>3

\* A reader closes a descriptor.
LEMMA HistoryClose ==
    ASSUME IInv, HInv, NEW r \in Reader, CloseSock(r)
    PROVE  HInv'
<1>1. /\ UNCHANGED <<fdOf, out, rows, lastId, mpc, cur, sel, ids>>
      /\ fdtab' = [fdtab EXCEPT ![rl[r].fd] = NULL]
  BY DEF CloseSock, Close, registry, store, mainv
<1> USE DEF HInv
<1>2. TableOK'
  BY <1>1 DEF TableOK
<1>3. LoginOK'
  <2>1. cur # NULL => fdOf[cur] \in Fd
    BY DEF IInv, MainOK
  <2>2. cur # NULL => fdtab'[fdOf[cur]] \in {NULL, cur}
    BY <1>1, <2>1 DEF LoginOK, IInv, TypeOK
  <2> QED
    BY <1>1, <2>2 DEF LoginOK
<1>4. PacketsOK'
  BY <1>1 DEF PacketsOK
<1>5. OnceOK'
  BY <1>1 DEF OnceOK, Gone
<1> QED
  BY <1>2, <1>3, <1>4, <1>5

\* A dispatcher sends: a packet without an id.
LEMMA HistorySend ==
    ASSUME IInv, IInv', HInv, NEW w \in Worker, SendOK(w)
    PROVE  HInv'
<1> DEFINE p == Packet(w)
<1>1. /\ UNCHANGED <<fdtab, fdOf, rows, lastId, mpc, cur, sel, ids>>
      /\ out' = Deliver(wl[w].sock, p) \/ UNCHANGED out
      /\ wpc[w] = "send"
  BY DEF SendOK, WorkerAt, registry, store, mainv
<1>2. /\ wl[w].sock \in Fd /\ wl[w].msg \in Msg /\ wl[w].to \in Address
      /\ Recipient(w) \in Address
  <2>1. wl[w].mux \in Conn
    BY <1>1 DEF IInv, WorkersOK, Sending
  <2> QED
    BY <1>1, <2>1, RecipientAddress, ServerAssumption DEF IInv, WorkersOK
<1>3. p \in Row /\ p.id = 0
  BY <1>2 DEF Packet, Row
<1> HIDE DEF p
<1>4. ASSUME NEW c \in Conn
      PROVE  /\ Replayed(out'[c]) = Replayed(out[c])
             /\ Addressed(out[c], PeerIp[c]) => Addressed(out'[c], PeerIp[c])
             /\ Ordered(out[c]) => Ordered(out'[c])
  <2>1. out[c] \in Seq(Row)
    BY DEF IInv, TypeOK
  <2>2. out'[c] = out[c] \/ out'[c] = Append(out[c], p)
    BY <1>1, <1>2, Delivered DEF IInv
  <2> QED
    BY <1>3, <2>1, <2>2, AppendPacket
<1> USE DEF HInv
<1>5. TableOK' /\ LoginOK'
  BY <1>1 DEF TableOK, LoginOK
<1>6. PacketsOK'
  BY <1>1, <1>4 DEF PacketsOK
<1>7. OnceOK'
  BY <1>1, <1>4 DEF OnceOK, Gone
<1> QED
  BY <1>5, <1>6, <1>7

\* A dispatcher stores a row, with an id nobody has been sent.
LEMMA HistoryInsert ==
    ASSUME IInv, IInv', HInv, NEW w \in Worker, Insert(w)
    PROVE  HInv'
<1>1. /\ UNCHANGED <<fdtab, fdOf, out, mpc, cur, sel, ids>>
      /\ \/ UNCHANGED <<rows, lastId>>
         \/ \E row : /\ row.id = lastId + 1
                     /\ row.to \in Ip => row.for = row.to
                     /\ rows' = rows \cup {row} /\ lastId' = lastId + 1
  <2>1. /\ UNCHANGED <<fdtab, fdOf, out, mpc, cur, sel, ids>>
        /\ \/ UNCHANGED <<rows, lastId>>
           \/ rows' = rows \cup {NewRow(w)} /\ lastId' = lastId + 1
    BY DEF Insert, Store, kernel, registry, mainv
  <2>2. StoredTo(w) \in Ip => StoredTo(w) = Recipient(w)
    BY StoredAddress DEF Insert, WorkerAt
  <2>3. /\ NewRow(w).id = lastId + 1
        /\ NewRow(w).to \in Ip => NewRow(w).for = NewRow(w).to
    BY <2>2 DEF NewRow
  <2> QED
    BY <2>1, <2>3
<1>2. CASE UNCHANGED <<rows, lastId>>
  BY <1>1, <1>2, HistorySame DEF touched
<1>3. ASSUME NEW row, row.id = lastId + 1,
             row.to \in Ip => row.for = row.to,
             rows' = rows \cup {row}, lastId' = lastId + 1
      PROVE  HInv'
  <2> USE DEF HInv
  <2>1. lastId \in Nat /\ MaxTerms \in Nat
    BY ServerAssumption DEF IInv, TypeOK
  <2>2. \A k \in 1..lastId : k \in 1..lastId' /\ k # row.id
    BY <1>3, <2>1
  <2>3. TableOK'
    <3>1. \A other \in rows : other.id \in 1..lastId' /\ other.id # row.id
      BY <2>2 DEF TableOK
    <3>2. row.id \in 1..lastId'
      BY <1>3, <2>1
    <3>3. \A other \in rows' : other.to \in Ip => other.for = other.to
      BY <1>3 DEF TableOK
    <3> QED
      BY <1>3, <3>1, <3>2, <3>3 DEF TableOK
  <2>4. LoginOK'
    BY <1>1, <2>2 DEF LoginOK
  <2>5. PacketsOK'
    BY <1>1, <2>2 DEF PacketsOK
  <2>6. OnceOK'
    <3> SUFFICES ASSUME lastId' <= MaxTerms
                 PROVE  /\ \A c \in Conn : \A k \in Replayed(out[c]) :
                              Gone(c, k)' /\ \A s \in sel : s.id # k
                        /\ \A c, d \in Conn : c # d =>
                              \A k \in Replayed(out[c]) : k \notin Replayed(out[d])
      BY <1>1 DEF OnceOK
    <3>1. lastId <= MaxTerms
      BY <1>3, <2>1
    <3>2. \A c \in Conn : \A k \in Replayed(out[c]) : k # row.id
      BY <2>2 DEF PacketsOK
    <3>3. \A c \in Conn : \A k \in Replayed(out[c]) : Gone(c, k)'
      BY <1>1, <1>3, <3>1, <3>2 DEF OnceOK, Gone
    <3> QED
      BY <3>1, <3>3 DEF OnceOK
  <2> QED
    BY <2>3, <2>4, <2>5, <2>6
<1> QED
  BY <1>1, <1>2, <1>3

\* A connection comes from the backlog: nothing has been sent to it.
LEMMA HistoryAccept ==
    ASSUME IInv, HInv, Accept
    PROVE  HInv'
<1>1. CASE FreeFd = {}
  <2>1. UNCHANGED touched
    BY <1>1 DEF Accept, store, touched
  <2> QED
    BY <2>1, HistorySame
<1>2. CASE FreeFd # {}
  <2> DEFINE f == Lowest(FreeFd)
             new == Head(backlog)
  <2>1. f \in Fd
    BY <1>2, Extremes DEF FreeFd
  <2>2. /\ UNCHANGED <<out, rows, lastId, sel, ids>>
        /\ fdtab' = [fdtab EXCEPT ![f] = new] /\ fdOf' = [fdOf EXCEPT ![new] = f]
        /\ cur' = new /\ mpc = "poll" /\ mpc' = "pushClient" /\ cur = NULL
    BY <1>2 DEF Accept, store, IInv, MainOK
  <2>3. new \in Conn /\ fdOf[new] = NULL
    BY DEF Accept, IInv, BacklogOK, TypeOK
  <2> HIDE DEF f, new
  <2> USE DEF HInv
  <2>4. sel = {} /\ Replayed(out[new]) = {}
    BY <2>2, <2>3 DEF LoginOK, PacketsOK
  <2>5. TableOK'
    BY <2>2 DEF TableOK
  <2>6. LoginOK'
    <3>1. fdtab'[fdOf'[new]] = new
      BY <2>1, <2>2, <2>3 DEF IInv, TypeOK
    <3> QED
      BY <2>2, <2>4, <3>1 DEF LoginOK
  <2>7. \A c \in Conn : c # new => fdOf'[c] = fdOf[c]
    BY <2>2, <2>3 DEF IInv, TypeOK
  <2>8. PacketsOK'
    BY <2>2, <2>4, <2>7 DEF PacketsOK
  <2>9. OnceOK'
    BY <2>2, <2>4 DEF OnceOK, Gone
  <2> QED
    BY <2>5, <2>6, <2>8, <2>9
<1> QED
  BY <1>1, <1>2

\* The steps of a login that only move on, before the history is sent.
LEMMA HistoryMoves ==
    ASSUME IInv, HInv,
           PushClient \/ RegisterIp \/ RegisterMux \/ AddRedis \/ LockOwn
    PROVE  HInv'
<1>1. /\ UNCHANGED <<fdtab, fdOf, out, rows, lastId, cur, sel, ids>>
      /\ mpc \in {"pushClient", "registerIp", "registerMux", "addRedis", "lock"}
      /\ mpc = "lock" => mpc' = "replay"
  BY DEF PushClient, RegisterIp, RegisterMux, AddRedis, LockOwn, MainAt,
         kernel, registry, store
<1> USE DEF HInv
<1>2. TableOK' /\ LoginOK'
  BY <1>1 DEF TableOK, LoginOK
<1>3. PacketsOK'
  BY <1>1 DEF PacketsOK
<1>4. OnceOK'
  BY <1>1 DEF OnceOK, Gone
<1> QED
  BY <1>2, <1>3, <1>4

LEMMA HistorySelect ==
    ASSUME IInv, HInv, Select
    PROVE  HInv'
<1>1. /\ UNCHANGED <<fdtab, fdOf, out, rows, lastId, cur>>
      /\ mpc = "select" /\ mpc' = "lock"
      /\ sel' = RowsFor(PeerIp[cur]) /\ ids' = Ids(RowsFor(PeerIp[cur]))
  BY DEF Select, MainAt, kernel, registry, store
<1> USE DEF HInv
<1>2. TableOK'
  BY <1>1 DEF TableOK
<1>3. LoginOK'
  <2>1. PeerIp[cur] \in Ip
    BY <1>1, ServerAssumption DEF IInv, MainOK, TypeOK
  <2> QED
    BY <1>1, <2>1 DEF LoginOK, TableOK, RowsFor, Ids
<1>4. \A c \in Conn : c = cur => Replayed(out[c]) = {}
  BY <1>1 DEF PacketsOK
<1>5. PacketsOK'
  BY <1>1, <1>4 DEF PacketsOK
<1>6. \A row \in sel' : row \in rows
  BY <1>1 DEF RowsFor
<1>7. OnceOK'
  BY <1>1, <1>4, <1>6 DEF OnceOK, Gone
<1> QED
  BY <1>2, <1>3, <1>5, <1>7

\* The oldest of the rows that are left goes to the new connection.
LEMMA HistoryReplay ==
    ASSUME IInv, HInv, Replay
    PROVE  HInv'
<1> DEFINE p == Oldest(sel)
<1>1. /\ UNCHANGED <<fdtab, fdOf, rows, lastId, cur, ids>>
      /\ mpc = "replay" /\ mpc' = "replay" /\ sel # {}
      /\ \/ UNCHANGED <<out, sel>>
         \/ /\ out' = Deliver(fdOf[cur], p) \/ UNCHANGED out
            /\ sel' = sel \ {p}
  BY DEF Replay, MainAt, registry, store
<1>2. CASE UNCHANGED <<out, sel>>
  BY <1>1, <1>2, HistorySame DEF touched
<1>3. CASE /\ out' = Deliver(fdOf[cur], p) \/ UNCHANGED out
           /\ sel' = sel \ {p}
  <2>1. cur \in Conn /\ fdOf[cur] \in Fd
    BY <1>1 DEF IInv, MainOK, TypeOK
  <2>2. sel \in SUBSET Row
    BY DEF IInv, TypeOK
  <2>3. p \in sel /\ p \in Row /\ \A row \in sel : p.id <= row.id
    BY <1>1, <2>2, OldestExists
  <2> HIDE DEF p
  <2>4. /\ p.for = PeerIp[cur] /\ p.id \in ids /\ p.id \in 1..lastId
        /\ lastId \in Nat /\ p.id # 0
    <3>1. p.for = PeerIp[cur] /\ p.id \in ids /\ p.id \in 1..lastId
      BY <2>3 DEF HInv, LoginOK
    <3>2. lastId \in Nat
      BY DEF IInv, TypeOK
    <3> QED
      BY <3>1, <3>2
  <2>5. \A row \in sel' : row \in sel /\ row.id # p.id /\ p.id < row.id
    <3>1. \A row \in sel : row.id \in Nat
      BY <2>2 DEF Row
    <3>2. \A row \in sel' : row \in sel /\ row.id # p.id
      BY <1>3, <2>3 DEF HInv, LoginOK
    <3> QED
      BY <2>3, <2>4, <3>1, <3>2
  <2>6. \A c \in Conn : c # cur => out'[c] = out[c]
    <3> SUFFICES ASSUME NEW c \in Conn, c # cur PROVE out'[c] = out[c]
      OBVIOUS
    <3>1. fdtab[fdOf[cur]] # c
      BY <2>1, ServerAssumption DEF HInv, LoginOK
    <3> QED
      BY <1>3, <2>1, <3>1, Delivered DEF IInv
  <2>7. out'[cur] = out[cur] \/ out'[cur] = Append(out[cur], p)
    BY <1>3, <2>1, Delivered DEF IInv
  <2>8. out[cur] \in Seq(Row)
    BY <2>1 DEF IInv, TypeOK
  <2>9. /\ Replayed(out'[cur]) \subseteq Replayed(out[cur]) \cup {p.id}
        /\ Addressed(out'[cur], PeerIp[cur])
        /\ Ordered(out'[cur])
    <3>1. /\ Addressed(out[cur], PeerIp[cur]) /\ Ordered(out[cur])
          /\ \A k \in Replayed(out[cur]) : k < p.id
      BY <2>1, <2>3 DEF HInv, PacketsOK
    <3> QED
      BY <2>3, <2>4, <2>7, <2>8, <3>1, AppendPacket
  <2> USE DEF HInv
  <2>10. TableOK'
    BY <1>1 DEF TableOK
  <2>11. LoginOK'
    BY <1>1, <2>5 DEF LoginOK
  <2>12. PacketsOK'
    <3> SUFFICES ASSUME NEW c \in Conn
                 PROVE  /\ fdOf[c] # NULL \/ Replayed(out'[c]) = {}
                        /\ \A k \in Replayed(out'[c]) : k \in 1..lastId
                        /\ c = cur => \A row \in sel', k \in Replayed(out'[c]) :
                                         k < row.id
                        /\ Addressed(out'[c], PeerIp[c])
                        /\ Ordered(out'[c])
      BY <1>1 DEF PacketsOK
    <3>1. CASE c # cur
      BY <2>6, <3>1 DEF PacketsOK
    <3>2. CASE c = cur
      <4>1. fdOf[cur] # NULL
        BY <2>1, ServerAssumption
      <4>2. \A k \in Replayed(out[cur]) : k \in 1..lastId
        BY <2>1 DEF PacketsOK
      <4>3. \A row \in sel, k \in Replayed(out[cur]) : k < row.id
        BY <2>1 DEF PacketsOK
      <4> QED
        BY <2>4, <2>5, <2>9, <3>2, <4>1, <4>2, <4>3
    <3> QED
      BY <3>1, <3>2
  <2>13. OnceOK'
    <3> SUFFICES ASSUME lastId <= MaxTerms
                 PROVE  /\ \A c \in Conn : \A k \in Replayed(out'[c]) :
                              Gone(c, k) /\ \A row \in sel' : row.id # k
                        /\ \A c, d \in Conn : c # d =>
                              \A k \in Replayed(out'[c]) : k \notin Replayed(out'[d])
      BY <1>1 DEF OnceOK, Gone
    <3>1. \A c \in Conn : \A k \in Replayed(out[c]) :
             Gone(c, k) /\ k # p.id /\ \A row \in sel : row.id # k
      BY <2>3 DEF OnceOK
    <3>2. Gone(cur, p.id)
      BY <1>1, <2>4 DEF Gone
    <3>3. ASSUME NEW c \in Conn
          PROVE  \A k \in Replayed(out'[c]) :
                    k \in Replayed(out[c]) \/ (c = cur /\ k = p.id)
      <4>1. CASE c = cur
        BY <2>9, <4>1
      <4>2. CASE c # cur
        <5>1. out'[c] = out[c]
          BY <2>6, <4>2
        <5> QED
          BY <5>1
      <4> QED
        BY <4>1, <4>2
    <3>4. ASSUME NEW c \in Conn, NEW k \in Replayed(out'[c])
          PROVE  Gone(c, k) /\ \A row \in sel' : row.id # k
      <4>1. k \in Replayed(out[c]) \/ (c = cur /\ k = p.id)
        BY <3>3
      <4> QED
        BY <2>5, <3>1, <3>2, <4>1
    <3>5. ASSUME NEW c \in Conn, NEW d \in Conn, c # d,
                 NEW k \in Replayed(out'[c])
          PROVE  k \notin Replayed(out'[d])
      <4>1. k \in Replayed(out[c]) \/ (c = cur /\ k = p.id)
        BY <3>3
      <4>2. \A l \in Replayed(out'[d]) : l \in Replayed(out[d]) \/ (d = cur /\ l = p.id)
        BY <3>3
      <4>3. k \in Replayed(out[c]) => k \notin Replayed(out[d])
        BY <3>5 DEF OnceOK
      <4> QED
        BY <3>1, <3>5, <4>1, <4>2, <4>3
    <3> QED
      BY <3>4, <3>5
  <2> QED
    BY <2>10, <2>11, <2>12, <2>13
<1> QED
  BY <1>1, <1>2, <1>3

LEMMA HistoryUnlock ==
    ASSUME IInv, HInv, UnlockOwn
    PROVE  HInv'
<1>1. /\ UNCHANGED <<fdtab, fdOf, out, rows, lastId, cur, sel, ids>>
      /\ mpc = "replay" /\ mpc' = "delete" /\ sel = {}
  BY DEF UnlockOwn, MainAt, kernel, registry, store
<1> USE DEF HInv
<1>2. TableOK' /\ LoginOK'
  BY <1>1 DEF TableOK, LoginOK
<1>3. PacketsOK'
  BY <1>1 DEF PacketsOK
<1>4. OnceOK'
  BY <1>1 DEF OnceOK, Gone
<1> QED
  BY <1>2, <1>3, <1>4

\* The rows that were sent leave the table if the statement is not too long.
LEMMA HistoryDelete ==
    ASSUME IInv, HInv, Delete
    PROVE  HInv'
<1>1. /\ UNCHANGED <<fdtab, fdOf, out, lastId, cur, sel>>
      /\ mpc = "delete" /\ mpc' = "watch" /\ ids' = {}
      /\ rows' = IF Cardinality(ids) <= MaxTerms THEN RowsWithout(ids) ELSE rows
  BY DEF Delete, MainAt, kernel, registry
<1>2. lastId \in Nat /\ MaxTerms \in Nat
  BY ServerAssumption DEF IInv, TypeOK
<1>3. Cardinality(ids) \in Nat /\ Cardinality(ids) <= lastId
  <2>1. ids \subseteq 1..lastId
    BY DEF HInv, LoginOK
  <2>2. IsFiniteSet(1..lastId) /\ Cardinality(1..lastId) = lastId
    BY <1>2, FS_Interval
  <2>3. IsFiniteSet(ids) /\ Cardinality(ids) <= Cardinality(1..lastId)
    BY <2>1, <2>2, FS_Subset
  <2> QED
    BY <2>2, <2>3, FS_CardinalityType
<1> USE DEF HInv
<1>4. sel = {} /\ rows' \subseteq rows
  BY <1>1 DEF LoginOK, RowsWithout
<1>5. TableOK'
  BY <1>1, <1>4 DEF TableOK
<1>6. LoginOK'
  BY <1>1, <1>4 DEF LoginOK
<1>7. PacketsOK'
  BY <1>1, <1>4 DEF PacketsOK
<1>8. OnceOK'
  <2> SUFFICES ASSUME lastId <= MaxTerms PROVE OnceOK'
    BY <1>1 DEF OnceOK
  <2>1. rows' = RowsWithout(ids)
    BY <1>1, <1>2, <1>3
  <2>2. \A c \in Conn : \A k \in Replayed(out[c]) : \A row \in rows' : row.id # k
    BY <2>1 DEF OnceOK, Gone, RowsWithout
  <2> QED
    BY <1>1, <1>4, <2>2 DEF OnceOK, Gone
<1> QED
  BY <1>5, <1>6, <1>7, <1>8

LEMMA HistoryWatch ==
    ASSUME IInv, HInv, Watch
    PROVE  HInv'
<1>1. /\ UNCHANGED <<fdtab, fdOf, out, rows, lastId, sel, ids>>
      /\ mpc = "watch" /\ mpc' = "poll" /\ cur' = NULL
  BY DEF Watch, MainAt, registry, store
<1> USE DEF HInv
<1>2. sel = {} /\ NULL \notin Conn
  BY <1>1, ServerAssumption DEF LoginOK
<1>3. TableOK' /\ LoginOK'
  BY <1>1, <1>2 DEF TableOK, LoginOK
<1>4. PacketsOK'
  BY <1>1, <1>2 DEF PacketsOK
<1>5. OnceOK'
  BY <1>1, <1>2 DEF OnceOK, Gone
<1> QED
  BY <1>3, <1>4, <1>5

-----------------------------------------------------------------------------
LEMMA HistoryNext == IInv /\ IInv' /\ HInv /\ [Next]_vars => HInv'
<1> SUFFICES ASSUME IInv, IInv', HInv, [Next]_vars PROVE HInv'
  OBVIOUS
<1>1. CASE UNCHANGED vars
  BY <1>1, HistorySame DEF vars, kernel, registry, store, mainv, touched
<1>2. CASE Environment
  <2>1. UNCHANGED touched
    BY <1>2 DEF Environment, Connect, ClientSend, ClientClose, Reset, registry,
                store, mainv, touched
  <2> QED
    BY <2>1, HistorySame
<1>3. ASSUME NEW r \in Reader, ReaderStep(r) PROVE HInv'
  <2>1. CASE CloseSock(r)
    BY <2>1, HistoryClose
  <2>2. CASE ~CloseSock(r)
    <3>1. UNCHANGED touched
      BY <1>3, <2>2
         DEF ReaderStep, StartRead, FindClient, RecvData, RecvNothing, Save,
             GetPeer, Srem, FindIp, EraseIp, EraseMux, EraseClient, kernel, registry,
             store, mainv, touched
    <3> QED
      BY <3>1, HistorySame
  <2> QED
    BY <2>1, <2>2
<1>4. ASSUME NEW w \in Worker, WorkerStep(w) PROVE HInv'
  <2>1. CASE SendOK(w)
    BY <2>1, HistorySend
  <2>2. CASE Insert(w)
    BY <2>2, HistoryInsert
  <2>3. CASE ~SendOK(w) /\ ~Insert(w)
    <3>1. UNCHANGED touched
      BY <1>4, <2>3
         DEF WorkerStep, Pop, Lookup, GetMux, LockSend, SendBroken, SendFails,
             WorkerFindIp, WorkerEraseIp, WorkerEraseMux, Unlock, kernel,
             registry, store, mainv, touched
    <3> QED
      BY <3>1, HistorySame
  <2> QED
    BY <2>1, <2>2, <2>3
<1>5. CASE MainStep
  <2>1. CASE CommitRead
    <3>1. UNCHANGED touched
      BY <2>1 DEF CommitRead, MainAt, registry, store, touched
    <3> QED
      BY <3>1, HistorySame
  <2> QED
    BY <1>5, <2>1, HistoryAccept, HistoryMoves, HistorySelect, HistoryReplay,
       HistoryUnlock, HistoryDelete, HistoryWatch DEF MainStep
<1> QED
  BY <1>1, <1>2, <1>3, <1>4, <1>5 DEF Next

LEMMA HistoryHolds == Spec => []HInv
  BY InitInv, InvNext, HistoryInit, HistoryNext, PTL DEF Spec

\* The replay of the login (main.cpp 355-368) sends what was stored for the new
\* connection's address to that connection and to no other, although it sends
\* to a number that a reader may close under it and selects by an address that
\* dispatchers wrote into the message, one room member over the other.
THEOREM HistoryGoesHome == Spec => []HistoryToAddressee
<1>1. HInv => HistoryToAddressee
  BY DEF HInv, PacketsOK, Addressed, HistoryToAddressee
<1> QED
  BY <1>1, HistoryHolds, PTL

\* It sends the rows in the order they were stored, whatever dispatchers store
\* or send on the same connection meanwhile.
THEOREM HistoryOrdered == Spec => []HistoryInOrder
<1>1. HInv => HistoryInOrder
  BY DEF HInv, PacketsOK, Ordered, HistoryInOrder
<1> QED
  BY <1>1, HistoryHolds, PTL

\* No row is sent to two connections, of one user or of several, as long as
\* SQLite takes a DELETE of that many terms.
THEOREM NoRowTwice == Spec => []NoRowReplayedTwice
<1>1. HInv => NoRowReplayedTwice
  <2> SUFFICES ASSUME HInv, lastId <= MaxTerms, NEW c \in Conn, NEW d \in Conn,
                      c # d, NEW i \in 1..Len(out[c]), NEW j \in 1..Len(out[d]),
                      out[c][i].id # 0
               PROVE  out[c][i].id # out[d][j].id
    BY DEF NoRowReplayedTwice
  <2>1. out[c][i].id \in Replayed(out[c])
    BY DEF Replayed
  <2>2. out[c][i].id = out[d][j].id => out[d][j].id \in Replayed(out[d])
    BY DEF Replayed
  <2> QED
    BY <2>1, <2>2 DEF HInv, OnceOK
<1> QED
  BY <1>1, HistoryHolds, PTL

-----------------------------------------------------------------------------
(* What leaves the table. *)

\* Between the SELECT and the DELETE the ids of a login are of rows for its
\* address, whatever is stored meanwhile: a new row gets a greater id.
IdsOK ==
    ids # {} =>
        /\ mpc \in {"lock", "replay", "delete"}
        /\ \A row \in rows : row.id \in ids => row.to = PeerIp[cur]

LEMMA IdsSame ==
    ASSUME IdsOK, UNCHANGED <<rows, mpc, cur, ids>>
    PROVE  IdsOK'
  BY DEF IdsOK

\* INSERT numbers the row after all that are in the table or were.
LEMMA IdsInsert ==
    ASSUME IInv, HInv, IdsOK, NEW w \in Worker, Insert(w)
    PROVE  IdsOK' /\ rows \subseteq rows'
<1>1. UNCHANGED <<mpc, cur, ids>>
  BY DEF Insert, mainv
<1>2. \/ UNCHANGED rows
      \/ \E row : row.id = lastId + 1 /\ rows' = rows \cup {row}
  BY DEF Insert, Store, NewRow
<1>3. lastId + 1 \notin ids
  <2>1. lastId \in Nat
    BY DEF IInv, TypeOK
  <2> QED
    BY <2>1 DEF HInv, LoginOK
<1> QED
  BY <1>1, <1>2, <1>3 DEF IdsOK

\* A login begins without ids, and ends without them.
LEMMA IdsMain ==
    ASSUME IInv, HInv, IdsOK, MainStep
    PROVE  IdsOK'
<1>1. CASE Accept
  <2>1. ids = {} /\ ids' = ids
    BY <1>1 DEF Accept, IdsOK
  <2> QED
    BY <2>1 DEF IdsOK
<1>2. CASE PushClient \/ RegisterIp \/ RegisterMux \/ AddRedis
  <2>1. ids = {} /\ ids' = ids
    BY <1>2 DEF PushClient, RegisterIp, RegisterMux, AddRedis, MainAt, IdsOK
  <2> QED
    BY <2>1 DEF IdsOK
<1>3. CASE Select
  <2>1. /\ UNCHANGED <<rows, cur>> /\ mpc' = "lock"
        /\ ids' = {row.id : row \in {row \in rows : row.to = PeerIp[cur]}}
    BY <1>3 DEF Select, MainAt, RowsFor, Ids, store
  <2>2. \A r, s \in rows : r.id = s.id => r = s
    BY DEF HInv, TableOK
  <2> QED
    BY <2>1, <2>2 DEF IdsOK
<1>4. CASE LockOwn \/ Replay \/ UnlockOwn
  <2>1. UNCHANGED <<rows, cur, ids>> /\ mpc' \in {"lock", "replay", "delete"}
    BY <1>4 DEF LockOwn, Replay, UnlockOwn, MainAt, store
  <2> QED
    BY <2>1 DEF IdsOK
<1>5. CASE Delete
  BY <1>5 DEF Delete, IdsOK
<1>6. CASE Watch
  <2>1. ids = {} /\ ids' = ids
    BY <1>6 DEF Watch, MainAt, IdsOK
  <2> QED
    BY <2>1 DEF IdsOK
<1>7. CASE CommitRead
  <2>1. UNCHANGED <<rows, mpc, cur, ids>>
    BY <1>7 DEF CommitRead, MainAt, store
  <2> QED
    BY <2>1, IdsSame
<1> QED
  BY <1>1, <1>2, <1>3, <1>4, <1>5, <1>6, <1>7 DEF MainStep

\* Only the DELETE takes rows out of the table.
LEMMA RowsStay ==
    ASSUME IInv, HInv, IdsOK, [Next]_vars, ~Delete
    PROVE  rows \subseteq rows'
<1>1. ASSUME NEW w \in Worker, WorkerStep(w)
      PROVE  rows \subseteq rows'
  <2>1. CASE Insert(w)
    BY <2>1, IdsInsert
  <2>2. CASE ~Insert(w)
    BY <1>1, <2>2
       DEF WorkerStep, Pop, Lookup, GetMux, LockSend, SendOK, SendBroken,
           SendFails, WorkerFindIp, WorkerEraseIp, WorkerEraseMux, Unlock, store
  <2> QED
    BY <2>1, <2>2
<1>2. ASSUME NEW r \in Reader, ReaderStep(r)
      PROVE  rows \subseteq rows'
  BY <1>2
     DEF ReaderStep, StartRead, FindClient, RecvData, RecvNothing, CloseSock,
         Save, GetPeer, Srem, FindIp, EraseIp, EraseMux, EraseClient, store
<1>3. CASE MainStep
  BY <1>3
     DEF MainStep, Accept, PushClient, RegisterIp, RegisterMux, AddRedis,
         Select, LockOwn, Replay, UnlockOwn, Watch, CommitRead, store
<1>4. CASE Environment
  BY <1>4 DEF Environment, Connect, ClientSend, ClientClose, Reset, store
<1>5. CASE UNCHANGED vars
  BY <1>5 DEF vars, store
<1> QED
  BY <1>1, <1>2, <1>3, <1>4, <1>5 DEF Next

LEMMA IdsNext == IInv /\ HInv /\ IdsOK /\ [Next]_vars => IdsOK'
<1> SUFFICES ASSUME IInv, HInv, IdsOK, [Next]_vars PROVE IdsOK'
  OBVIOUS
<1>1. CASE UNCHANGED vars
  BY <1>1, IdsSame DEF vars, store, mainv
<1>2. CASE Environment
  <2>1. UNCHANGED <<rows, mpc, cur, ids>>
    BY <1>2 DEF Environment, Connect, ClientSend, ClientClose, Reset, store,
                mainv
  <2> QED
    BY <2>1, IdsSame
<1>3. ASSUME NEW r \in Reader, ReaderStep(r) PROVE IdsOK'
  <2>1. UNCHANGED <<rows, mpc, cur, ids>>
    BY <1>3
       DEF ReaderStep, StartRead, FindClient, RecvData, RecvNothing, CloseSock,
           Save, GetPeer, Srem, FindIp, EraseIp, EraseMux, EraseClient, store,
           mainv
  <2> QED
    BY <2>1, IdsSame
<1>4. ASSUME NEW w \in Worker, WorkerStep(w) PROVE IdsOK'
  <2>1. CASE Insert(w)
    BY <2>1, IdsInsert
  <2>2. CASE ~Insert(w)
    <3>1. UNCHANGED <<rows, mpc, cur, ids>>
      BY <1>4, <2>2
         DEF WorkerStep, Pop, Lookup, GetMux, LockSend, SendOK, SendBroken,
             SendFails, WorkerFindIp, WorkerEraseIp, WorkerEraseMux, Unlock,
             store, mainv
    <3> QED
      BY <3>1, IdsSame
  <2> QED
    BY <2>1, <2>2
<1>5. CASE MainStep
  BY <1>5, IdsMain
<1> QED
  BY <1>1, <1>2, <1>3, <1>4, <1>5 DEF Next

\* A row leaves the table only by the DELETE of a login of its addressee that
\* has gone through all it selected: a row that a dispatcher stores for the
\* same address between SELECT and DELETE stays for the next login.
THEOREM RowsDeletedByLogin == Spec => OnlyReplayedRowsDeleted
<1> DEFINE Deleted ==
             \A row \in rows \ rows' : /\ cur # NULL /\ row.to = PeerIp[cur]
                                       /\ row.id \in ids
                                       /\ sel = {}
<1>1. Init => IdsOK
  BY DEF Init, IdsOK
<1>2. ASSUME IInv, HInv, IdsOK, [Next]_vars
      PROVE  Deleted
  <2>1. CASE Delete
    <3>1. mpc = "delete" /\ \A row \in rows \ rows' : row.id \in ids
      BY <2>1 DEF Delete, MainAt, RowsWithout
    <3>2. cur # NULL /\ sel = {}
      BY <1>2, <3>1 DEF IInv, MainOK, HInv, LoginOK
    <3> QED
      BY <1>2, <3>1, <3>2 DEF IdsOK
  <2>2. CASE ~Delete
    BY <1>2, <2>2, RowsStay
  <2> QED
    BY <2>1, <2>2
<1>3. IInv /\ HInv /\ IdsOK /\ [Next]_vars => [Deleted]_vars
  BY <1>2
<1>4. Spec => []IInv
  BY InitInv, InvNext, PTL DEF Spec
<1>5. Spec => []IdsOK
  BY <1>1, <1>4, HistoryHolds, IdsNext, PTL DEF Spec
<1> QED
  BY <1>3, <1>4, <1>5, HistoryHolds, PTL DEF Spec, OnlyReplayedRowsDeleted
=============================================================================
