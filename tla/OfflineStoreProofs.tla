-------------------------- MODULE OfflineStoreProofs --------------------------
(***************************************************************************)
(* What is proved of OfflineStore, for any addresses, messages, texts,     *)
(* sizes and number of faults.                                             *)
(***************************************************************************)
EXTENDS OfflineStore, FiniteSetTheorems, TLAPS

-----------------------------------------------------------------------------
(* The inductive invariant. *)

\* AUTOINCREMENT; a message is stored at most once.
RowsOK ==
    /\ \A r \in rows : r.id \in 1..lastId
    /\ \A r, s \in rows : r.id = s.id \/ r.msg = s.msg => r = s

\* A message is with its sender, with a dispatcher, or in the table.
PlacesOK ==
    /\ \A m \in held : m \notin unsent
    /\ \A r \in rows : r.msg \notin unsent /\ r.msg \notin held
    /\ \A m \in seen : m \notin unsent /\ m \notin held

\* callback() is called in the order of the ids, and notes each id together
\* with its message.
IdsOK ==
    /\ \A id \in ids : id <= lastId
    /\ pc = "select" =>
          /\ \A r \in Remaining : \A id \in ids : id < r.id
          /\ \A id \in ids : \E i \in 1..Len(mess) : mess[i].row.id = id

\* What is in the buffer is in the table as long as the login has not come to
\* its DELETE.
EntriesOK ==
    pc \in {"select", "replay"} =>
        \A i \in 1..Len(mess) : mess[i].row \in rows /\ mess[i].row.id \in ids

Ascending(s) ==
    \A i, j \in 1..Len(s) : i < j => s[i].row.id < s[j].row.id

OrderOK ==
    /\ Ascending(mess)
    /\ pc = "select" => last = 0
    /\ pc = "replay" => \A i \in 1..Len(mess) : last < mess[i].row.id

\* Every message begins where the one before it ends, and the last one ends at
\* sqlite_select_mess_len.
After(e) == e.at + ProtocolLength(e.row)

Chained(s, end) ==
    /\ s # <<>> => s[1].at = 0
    /\ \A i, j \in 1..Len(s) : i < j => After(s[i]) <= s[j].at
    /\ \A i, j \in 1..Len(s) : j = i + 1 => s[j].at = After(s[i])
    /\ end = IF s = <<>> THEN 0 ELSE After(s[Len(s)])

OffsetsOK == Chained(mess, len)

\* What has been delivered and is in the table has been delivered by the login
\* at work, or is excused.
SeenOK ==
    \A r \in rows :
        r.msg \in seen => r.msg \in excused \/ (pc # "idle" /\ r \in Sent)

IInv ==
    /\ TypeOK
    /\ RowsOK /\ PlacesOK /\ IdsOK /\ EntriesOK /\ OrderOK /\ OffsetsOK /\ SeenOK
    /\ NothingLeftOver /\ OnceUnlessFault

-----------------------------------------------------------------------------
(* The buffer. *)

\* The callback and the replay account for a message with the same number of
\* bytes, at least a header.
LEMMA Lengths ==
  ASSUME NEW row, row.msg \in Msg
  PROVE  /\ ProtocolLength(row) \in Nat
         /\ ProtocolLength(row) >= HeadLen
         /\ HeadLen \in Nat \ {0}
         /\ Written(row) = ProtocolLength(row)
<1> DEFINE s == Content[row.msg]
<1>1. HeadLen \in Nat \ {0} /\ Len(s) \in Nat
  BY StoreAssumption DEF StoreAssumption
<1>2. IsFiniteSet(1..Len(s))
  BY <1>1, FS_Interval
<1>3. IsFiniteSet(Unquoted(s))
  BY <1>2, FS_Subset DEF Unquoted
<1>4. Cardinality(Unquoted(s)) \in Nat
  BY <1>3, FS_CardinalityType
<1>5. TextLength(row) \in Nat
  BY <1>4 DEF TextLength
<1> QED
  BY <1>1, <1>5 DEF ProtocolLength, Written

LEMMA EntryType ==
  ASSUME NEW e \in Entry
  PROVE  /\ e.row \in StoredRow /\ e.row.id \in Nat /\ e.row.msg \in Msg
         /\ e.at \in Nat
         /\ ProtocolLength(e.row) \in Nat /\ ProtocolLength(e.row) >= HeadLen
         /\ After(e) \in Nat /\ After(e) = e.at + ProtocolLength(e.row)
         /\ e.at <= After(e)
<1>1. /\ e.row \in StoredRow /\ e.row.id \in Nat /\ e.row.msg \in Msg
      /\ e.at \in Nat
  BY DEF Entry, StoredRow
<1>2. ProtocolLength(e.row) \in Nat /\ ProtocolLength(e.row) >= HeadLen
  BY <1>1, Lengths
<1> QED
  BY <1>1, <1>2 DEF After

LEMMA Empty ==
  /\ Ascending(<<>>)
  /\ \A end : Chained(<<>>, end) <=> end = 0
  BY DEF Ascending, Chained

\* What callback() does to the buffer.
LEMMA ChainedAppend ==
  ASSUME NEW s \in Seq(Entry), NEW end \in Nat, NEW row \in StoredRow,
         Chained(s, end)
  PROVE  Chained(Append(s, [row |-> row, at |-> end]), end + ProtocolLength(row))
<1> DEFINE e == [row |-> row, at |-> end]
           t == Append(s, e)
<1>1. e \in Entry /\ e.at = end /\ After(e) = end + ProtocolLength(row)
  BY DEF Entry, After
<1>2. /\ Len(s) \in Nat /\ Len(t) = Len(s) + 1 /\ t # <<>>
      /\ t[Len(s) + 1] = e
      /\ \A i \in 1..Len(s) : t[i] = s[i] /\ s[i] \in Entry
  BY <1>1
<1> HIDE DEF e, t
<1>3. \A i \in 1..Len(s) :
         s[i].at \in Nat /\ After(s[i]) \in Nat /\ s[i].at <= After(s[i])
  <2> SUFFICES ASSUME NEW i \in 1..Len(s)
               PROVE  s[i].at \in Nat /\ After(s[i]) \in Nat /\ s[i].at <= After(s[i])
    OBVIOUS
  <2> DEFINE o == s[i]
  <2>1. o \in Entry
    BY <1>2
  <2> HIDE DEF o
  <2>2. o.at \in Nat /\ After(o) \in Nat /\ o.at <= After(o)
    BY <2>1, EntryType
  <2> QED
    BY <2>2 DEF o
<1>4. Len(s) > 0 => s # <<>> /\ end = After(s[Len(s)])
  BY DEF Chained
<1>5. ASSUME NEW i \in 1..Len(s) PROVE After(s[i]) <= end
  <2>1. Len(s) \in 1..Len(s) /\ Len(s) > 0
    BY <1>2
  <2>2. CASE i = Len(s)
    BY <2>1, <2>2, <1>4, <1>3
  <2>3. CASE i < Len(s)
    <3>1. After(s[i]) <= s[Len(s)].at
      BY <2>1, <2>3 DEF Chained
    <3> QED
      BY <3>1, <2>1, <1>3, <1>4
  <2> QED
    BY <2>2, <2>3, <1>2
<1>6. t[1].at = 0
  <2>1. CASE Len(s) = 0
    BY <2>1, <1>1, <1>2 DEF Chained
  <2>2. CASE Len(s) > 0
    <3>1. 1 \in 1..Len(s)
      BY <2>2, <1>2
    <3> QED
      BY <3>1, <2>2, <1>2, <1>4 DEF Chained
  <2> QED
    BY <2>1, <2>2, <1>2
<1>7. ASSUME NEW i \in 1..Len(t), NEW j \in 1..Len(t), i < j
      PROVE  After(t[i]) <= t[j].at
  <2>1. i \in 1..Len(s) /\ t[i] = s[i]
    BY <1>7, <1>2
  <2>2. CASE j \in 1..Len(s)
    BY <2>1, <2>2, <1>7, <1>2 DEF Chained
  <2>3. CASE j = Len(s) + 1
    BY <2>1, <2>3, <1>1, <1>2, <1>5
  <2> QED
    BY <2>2, <2>3, <1>2
<1>8. ASSUME NEW i \in 1..Len(t), NEW j \in 1..Len(t), j = i + 1
      PROVE  t[j].at = After(t[i])
  <2>1. i \in 1..Len(s) /\ t[i] = s[i]
    BY <1>8, <1>2
  <2>2. CASE j \in 1..Len(s)
    BY <2>1, <2>2, <1>8, <1>2 DEF Chained
  <2>3. CASE j = Len(s) + 1
    <3>1. i = Len(s) /\ Len(s) > 0
      BY <2>3, <2>1, <1>8, <1>2
    <3> QED
      BY <3>1, <2>1, <2>3, <1>1, <1>2, <1>4
  <2> QED
    BY <2>2, <2>3, <1>2
<1>9. Chained(t, end + ProtocolLength(row))
  BY <1>1, <1>2, <1>6, <1>7, <1>8 DEF Chained
<1> QED
  BY <1>9 DEF e, t

\* What the replay does to it.
LEMMA ChainedMoved ==
  ASSUME NEW s \in Seq(Entry), s # <<>>, NEW end \in Nat, Chained(s, end),
         NEW n, n = ProtocolLength(s[1].row),
         NEW t, t = Moved(s, n)
  PROVE  /\ Len(s) \in Nat \ {0} /\ s[1] \in Entry
         /\ t \in Seq(Entry) /\ Len(t) = Len(s) - 1
         /\ \A i \in 1..Len(t) : i + 1 \in 1..Len(s) /\ t[i].row = s[i + 1].row
         /\ end - n \in Nat
         /\ Chained(t, end - n)
<1>1. Len(s) \in Nat \ {0} /\ 1 \in 1..Len(s) /\ Len(s) \in 1..Len(s)
  <2>1. Len(s) \in Nat /\ Len(s) # 0
    BY SMT
  <2> QED
    BY <2>1
<1>2. \A i \in 1..Len(s) : s[i] \in Entry
  OBVIOUS
<1>3. n \in Nat /\ After(s[1]) = n
  BY <1>1, <1>2, EntryType DEF Chained
<1>4. ASSUME NEW i \in 1..(Len(s) - 1)
      PROVE  /\ i \in 1..Len(s) /\ i + 1 \in 1..Len(s) /\ s[i + 1] \in Entry
             /\ s[i + 1].at \in Nat /\ s[i + 1].at - n \in Nat
             /\ t[i] = [s[i + 1] EXCEPT !.at = @ - n]
  <2>1. i \in 1..Len(s) /\ i + 1 \in 1..Len(s) /\ 1 < i + 1
    BY <1>1
  <2>2. s[i + 1] \in Entry
    BY <2>1, <1>2
  <2>3. s[i + 1].at \in Nat
    BY <2>2, EntryType
  <2>4. After(s[1]) <= s[i + 1].at
    BY <2>1, <1>1 DEF Chained
  <2>5. s[i + 1].at - n \in Nat
    BY <2>3, <2>4, <1>3
  <2>6. t[i] = [s[i + 1] EXCEPT !.at = @ - n]
    BY DEF Moved
  <2> QED
    BY <2>1, <2>2, <2>3, <2>5, <2>6
<1>5. ASSUME NEW i \in 1..(Len(s) - 1)
      PROVE  /\ t[i] \in Entry /\ t[i].row = s[i + 1].row
             /\ t[i].at = s[i + 1].at - n
             /\ After(t[i]) = After(s[i + 1]) - n
  <2> DEFINE e == s[i + 1]
  <2>1. e \in Entry /\ e.at - n \in Nat /\ t[i] = [e EXCEPT !.at = e.at - n]
    BY <1>4
  <2> HIDE DEF e
  <2>2. t[i] \in Entry /\ t[i].row = e.row /\ t[i].at = e.at - n
    BY <2>1 DEF Entry
  <2>3. After(e) = e.at + ProtocolLength(e.row) /\ ProtocolLength(e.row) \in Nat
        /\ e.at \in Nat
    BY <2>1, EntryType
  <2>4. After(t[i]) = (e.at - n) + ProtocolLength(e.row)
    BY <2>2 DEF After
  <2>5. After(t[i]) = After(e) - n
    BY <2>3, <2>4, <1>3
  <2> QED
    BY <2>2, <2>5 DEF e
<1>6. t \in Seq(Entry) /\ Len(t) = Len(s) - 1
  <2>1. Len(s) - 1 \in Nat
    BY <1>1
  <2>2. t \in [1..(Len(s) - 1) -> Entry]
    BY <1>5 DEF Moved
  <2> QED
    BY <2>1, <2>2
<1>7. ASSUME NEW i \in 1..Len(t), NEW j \in 1..Len(t), i < j
      PROVE  After(t[i]) <= t[j].at
  <2>1. /\ i \in 1..(Len(s) - 1) /\ j \in 1..(Len(s) - 1) /\ i + 1 < j + 1
    BY <1>7, <1>6, <1>1
  <2>2. After(s[i + 1]) <= s[j + 1].at
    BY <2>1, <1>4 DEF Chained
  <2>3. After(s[i + 1]) \in Nat /\ s[j + 1].at \in Nat
    BY <2>1, <1>4, EntryType
  <2>4. After(t[i]) = After(s[i + 1]) - n /\ t[j].at = s[j + 1].at - n
    BY <2>1, <1>5
  <2> DEFINE a == After(s[i + 1])
             b == s[j + 1].at
  <2>5. a \in Nat /\ b \in Nat /\ a <= b /\ n \in Nat
    BY <2>2, <2>3, <1>3
  <2>6. After(t[i]) = a - n /\ t[j].at = b - n
    BY <2>4
  <2> HIDE DEF a, b
  <2>7. a - n <= b - n
    BY <2>5
  <2> QED
    BY <2>6, <2>7
<1>8. ASSUME NEW i \in 1..Len(t), NEW j \in 1..Len(t), j = i + 1
      PROVE  t[j].at = After(t[i])
  <2>1. /\ i \in 1..(Len(s) - 1) /\ j \in 1..(Len(s) - 1) /\ j + 1 = (i + 1) + 1
    BY <1>8, <1>6, <1>1
  <2>2. s[j + 1].at = After(s[i + 1])
    BY <2>1, <1>4 DEF Chained
  <2> QED
    BY <2>1, <2>2, <1>5
<1>9. t # <<>> => t[1].at = 0
  <2> SUFFICES ASSUME t # <<>> PROVE t[1].at = 0
    OBVIOUS
  <2>1. Len(t) # 0
    BY <1>6
  <2>2. 1 \in 1..(Len(s) - 1) /\ 2 \in 1..Len(s)
    BY <2>1, <1>6, <1>1
  <2>3. s[2].at = n
    BY <2>2, <1>1, <1>3 DEF Chained
  <2>4. t[1].at = s[2].at - n
    BY <2>2, <1>5
  <2> QED
    BY <2>3, <2>4, <1>3
<1>10. end - n = IF t = <<>> THEN 0 ELSE After(t[Len(t)])
  <2>1. end = After(s[Len(s)])
    BY DEF Chained
  <2>2. CASE Len(s) = 1
    <3>1. t = <<>>
      BY <2>2, <1>6
    <3> QED
      BY <3>1, <2>1, <2>2, <1>3
  <2>3. CASE Len(s) > 1
    <3>1. Len(t) \in 1..(Len(s) - 1) /\ Len(t) + 1 = Len(s) /\ t # <<>>
      BY <2>3, <1>1, <1>6
    <3>2. After(t[Len(t)]) = After(s[Len(s)]) - n
      BY <3>1, <1>5
    <3> QED
      BY <3>1, <3>2, <2>1
  <2>4. Len(s) = 1 \/ Len(s) > 1
    <3> DEFINE l == Len(s)
    <3>1. l \in Nat /\ l # 0
      BY <1>1
    <3> HIDE DEF l
    <3>2. l = 1 \/ l > 1
      BY <3>1
    <3> QED
      BY <3>2 DEF l
  <2> QED
    BY <2>2, <2>3, <2>4
<1>11. end - n \in Nat
  <2>1. CASE t = <<>>
    BY <2>1, <1>10
  <2>2. CASE t # <<>>
    <3>1. Len(t) # 0 /\ Len(t) \in 1..(Len(s) - 1)
      BY <2>2, <1>6, <1>1
    <3>2. t[Len(t)] \in Entry
      BY <3>1, <1>5
    <3> QED
      BY <3>2, <2>2, <1>10, EntryType
  <2> QED
    BY <2>1, <2>2
<1>12. Chained(t, end - n)
  BY <1>7, <1>8, <1>9, <1>10 DEF Chained
<1> QED
  BY <1>1, <1>2, <1>4, <1>5, <1>6, <1>11, <1>12

\* When len and the length of the first message say that there is one, there
\* is one; and when they say there is none, the buffer is empty.
LEMMA ChainedFirst ==
  ASSUME NEW s \in Seq(Entry), s # <<>>, NEW end \in Nat, Chained(s, end)
  PROVE  end >= HeadLen /\ end >= ProtocolLength(s[1].row)
<1>1. Len(s) \in Nat \ {0} /\ 1 \in 1..Len(s) /\ Len(s) \in 1..Len(s)
  <2>1. Len(s) \in Nat /\ Len(s) # 0
    BY SMT
  <2> QED
    BY <2>1
<1>2. s[1] \in Entry /\ s[Len(s)] \in Entry
  BY <1>1
<1>3. /\ ProtocolLength(s[1].row) \in Nat /\ ProtocolLength(s[1].row) >= HeadLen
      /\ After(s[1]) = ProtocolLength(s[1].row)
  BY <1>2, EntryType DEF Chained
<1>4. end = After(s[Len(s)])
  BY DEF Chained
<1>5. s[Len(s)].at <= After(s[Len(s)]) /\ s[Len(s)].at \in Nat
  <2> DEFINE e == s[Len(s)]
  <2>1. e \in Entry
    BY <1>2
  <2> HIDE DEF e
  <2>2. e.at \in Nat /\ e.at <= After(e)
    BY <2>1, EntryType
  <2> QED
    BY <2>2 DEF e
<1>6. HeadLen \in Nat
  BY StoreAssumption DEF StoreAssumption
<1>7. end >= ProtocolLength(s[1].row)
  <2>1. CASE Len(s) = 1
    BY <2>1, <1>3, <1>4
  <2>2. CASE Len(s) > 1
    <3>1. After(s[1]) <= s[Len(s)].at
      BY <2>2, <1>1 DEF Chained
    <3> QED
      BY <3>1, <1>3, <1>4, <1>5
  <2>3. Len(s) = 1 \/ Len(s) > 1
    <3> DEFINE l == Len(s)
    <3>1. l \in Nat /\ l # 0
      BY <1>1
    <3> HIDE DEF l
    <3>2. l = 1 \/ l > 1
      BY <3>1
    <3> QED
      BY <3>2 DEF l
  <2> QED
    BY <2>1, <2>2, <2>3
<1> QED
  BY <1>3, <1>6, <1>7

-----------------------------------------------------------------------------
(* The steps. *)

LEMMA InitIInv == Init => IInv
<1> SUFFICES ASSUME Init PROVE IInv
  OBVIOUS
<1>1. TypeOK /\ RowsOK /\ PlacesOK /\ IdsOK /\ EntriesOK /\ SeenOK
  BY DEF Init, TypeOK, RowsOK, PlacesOK, IdsOK, EntriesOK, SeenOK
<1>2. OrderOK /\ OffsetsOK
  BY Empty DEF Init, OrderOK, OffsetsOK
<1>3. NothingLeftOver /\ OnceUnlessFault
  BY DEF Init, NothingLeftOver, OnceUnlessFault
<1> QED
  BY <1>1, <1>2, <1>3 DEF IInv

\* The parts of the invariant that are about the login at work do not change
\* when its variables and the table do not.
LEMMA LoginUnchanged ==
  ASSUME IInv, UNCHANGED <<disk, login, buffer, history>>
  PROVE  /\ IdsOK' /\ EntriesOK' /\ OrderOK' /\ OffsetsOK' /\ SeenOK'
         /\ NothingLeftOver' /\ OnceUnlessFault'
<1> USE DEF IInv, disk, login, buffer, history
<1>1. IdsOK' /\ EntriesOK'
  BY DEF IdsOK, EntriesOK, Remaining
<1>2. OrderOK' /\ OffsetsOK'
  BY DEF OrderOK, OffsetsOK
<1>3. SeenOK'
  BY DEF SeenOK, Sent, InBuffer
<1>4. NothingLeftOver' /\ OnceUnlessFault'
  BY DEF NothingLeftOver, OnceUnlessFault
<1> QED
  BY <1>1, <1>2, <1>3, <1>4

LEMMA PutAsideIInv ==
  ASSUME IInv, NEW m \in Msg, PutAside(m)
  PROVE  IInv'
<1>1. TypeOK'
  BY DEF IInv, TypeOK, PutAside, disk, login, buffer, history
<1>2. RowsOK' /\ PlacesOK'
  BY DEF IInv, RowsOK, PlacesOK, TypeOK, PutAside, disk, history
<1> QED
  BY <1>1, <1>2, LoginUnchanged DEF IInv, PutAside

\* The new row has a greater id than any the login at work has noted.
LEMMA InsertIInv ==
  ASSUME IInv, NEW m \in Msg, Insert(m)
  PROVE  IInv'
<1> USE DEF IInv, Insert, Executes, login, buffer, history
<1>0. /\ lastId \in Nat /\ To[m] \in Ip
      /\ NewRow(m).id = lastId + 1 /\ NewRow(m).msg = m
      /\ NewRow(m) \in StoredRow
  BY StoreAssumption DEF StoreAssumption, TypeOK, NewRow, StoredRow
<1> HIDE DEF IInv
<1>1. TypeOK'
  BY <1>0 DEF TypeOK, IInv
<1>2. RowsOK'
  BY <1>0 DEF RowsOK, PlacesOK, TypeOK, StoredRow, IInv
<1>3. PlacesOK'
  BY <1>0 DEF PlacesOK, TypeOK, IInv
<1>4. IdsOK'
  <2>1. \A id \in ids : id \in Nat /\ id <= lastId
    BY DEF IdsOK, TypeOK, IInv
  <2>2. \A id \in ids' : id <= lastId'
    BY <2>1, <1>0
  <2>3. pc' # "select"
    OBVIOUS
  <2> QED
    BY <2>2, <2>3 DEF IdsOK
<1>5. EntriesOK'
  BY DEF EntriesOK, IInv
<1>6. OrderOK' /\ OffsetsOK'
  BY DEF OrderOK, OffsetsOK, IInv
<1>7. SeenOK'
  BY <1>0 DEF SeenOK, PlacesOK, Sent, InBuffer, IInv
<1>8. NothingLeftOver' /\ OnceUnlessFault'
  BY DEF NothingLeftOver, OnceUnlessFault, IInv
<1> QED
  BY <1>1, <1>2, <1>3, <1>4, <1>5, <1>6, <1>7, <1>8 DEF IInv

LEMMA InsertFailsIInv ==
  ASSUME IInv, NEW m \in Msg, InsertFails(m)
  PROVE  IInv'
<1>1. TypeOK'
  BY DEF IInv, TypeOK, InsertFails, Fault, disk, login, buffer, history
<1>2. RowsOK' /\ PlacesOK'
  BY DEF IInv, RowsOK, PlacesOK, TypeOK, InsertFails, disk, history
<1>3. UNCHANGED <<disk, login, buffer, history>>
  BY DEF InsertFails
<1> QED
  BY <1>1, <1>2, <1>3, LoginUnchanged DEF IInv

LEMMA LoginIInv ==
  ASSUME IInv, NEW ip \in Ip, Login(ip)
  PROVE  IInv'
<1> USE DEF IInv, Login, disk
<1>1. TypeOK'
  BY DEF TypeOK
<1>2. RowsOK' /\ PlacesOK'
  BY DEF RowsOK, PlacesOK
<1>3. IdsOK' /\ EntriesOK'
  BY DEF IdsOK, EntriesOK
<1>4. OrderOK' /\ OffsetsOK'
  BY Empty DEF OrderOK, OffsetsOK
<1>5. SeenOK'
  BY DEF SeenOK
<1>6. NothingLeftOver' /\ OnceUnlessFault'
  BY DEF NothingLeftOver, OnceUnlessFault
<1> QED
  BY <1>1, <1>2, <1>3, <1>4, <1>5, <1>6

\* The new entry is the last in the buffer, with the greatest id.
LEMMA CallbackIInv ==
  ASSUME IInv, NEW row \in rows, Callback(row)
  PROVE  IInv'
<1> DEFINE entry == [row |-> row, at |-> len]
<1>0. /\ row \in StoredRow /\ row.id \in Nat /\ row.msg \in Msg
      /\ mess \in Seq(Entry) /\ len \in Nat
      /\ ids \in SUBSET Nat
  BY DEF IInv, TypeOK, StoredRow
<1>1. /\ entry \in Entry /\ entry.row = row /\ entry.at = len
      /\ mess' = Append(mess, entry)
  BY <1>0 DEF Callback, Entry
<1> HIDE DEF entry
<1>2. /\ mess' \in Seq(Entry) /\ Len(mess') = Len(mess) + 1 /\ Len(mess) \in Nat
      /\ mess'[Len(mess) + 1] = entry
      /\ \A i \in 1..Len(mess) : mess'[i] = mess[i] /\ mess[i] \in Entry
  BY <1>0, <1>1
<1>3. /\ ProtocolLength(row) \in Nat
      /\ len' = len + ProtocolLength(row) /\ len' \in Nat
  BY <1>0, Lengths DEF Callback
<1>4. TypeOK'
  BY <1>0, <1>2, <1>3
     DEF IInv, TypeOK, Callback, disk, login, history
<1>5. RowsOK' /\ PlacesOK'
  BY DEF IInv, RowsOK, PlacesOK, Callback, disk, history
<1>6. row \in Remaining /\ \A other \in Remaining : row.id <= other.id
  BY DEF Callback, IsNext
<1>7. \A id \in ids : id < row.id
  BY <1>6 DEF IInv, IdsOK, Callback
<1>8. IdsOK'
  <2>1. \A id \in ids' : id <= lastId'
    BY <1>0 DEF IInv, IdsOK, RowsOK, TypeOK, Callback, disk
  <2>2. ASSUME NEW r \in Remaining', NEW id \in ids' PROVE id < r.id
    <3>1. r \in Remaining /\ r.id # row.id /\ r.id \in Nat
      BY DEF Remaining, IInv, TypeOK, StoredRow, Callback, disk, login
    <3>2. CASE id \in ids
      BY <3>1, <3>2 DEF IInv, IdsOK, Callback
    <3>3. CASE id = row.id
      BY <3>1, <3>3, <1>6, <1>0
    <3> QED
      BY <3>2, <3>3 DEF Callback
  <2>3. ASSUME NEW id \in ids' PROVE \E i \in 1..Len(mess') : mess'[i].row.id = id
    <3>1. CASE id \in ids
      <4>1. PICK i \in 1..Len(mess) : mess[i].row.id = id
        BY <3>1 DEF IInv, IdsOK, Callback
      <4>2. i \in 1..Len(mess') /\ mess'[i].row.id = id
        BY <4>1, <1>2
      <4> QED
        BY <4>2
    <3>2. CASE id = row.id
      <4>1. Len(mess) + 1 \in 1..Len(mess') /\ mess'[Len(mess) + 1].row.id = id
        BY <3>2, <1>1, <1>2
      <4> QED
        BY <4>1
    <3> QED
      BY <3>1, <3>2 DEF Callback
  <2> QED
    BY <2>1, <2>2, <2>3 DEF IdsOK
<1>9. ASSUME NEW i \in 1..Len(mess')
      PROVE  \/ i \in 1..Len(mess) /\ mess'[i] = mess[i]
             \/ i = Len(mess) + 1 /\ mess'[i] = entry
  BY <1>2
<1>10. EntriesOK'
  <2>1. \A i \in 1..Len(mess) : mess[i].row \in rows /\ mess[i].row.id \in ids
    BY DEF IInv, EntriesOK, Callback
  <2> QED
    BY <2>1, <1>1, <1>9 DEF EntriesOK, Callback, disk
<1>11. OrderOK'
  <2>1. \A i \in 1..Len(mess) : mess[i].row.id < row.id
    BY <1>7 DEF IInv, EntriesOK, Callback
  <2>2. ASSUME NEW i \in 1..Len(mess'), NEW j \in 1..Len(mess'), i < j
        PROVE  mess'[i].row.id < mess'[j].row.id
    <3>1. i \in 1..Len(mess) /\ mess'[i] = mess[i]
      BY <2>2, <1>2
    <3>2. CASE j \in 1..Len(mess)
      BY <3>1, <3>2, <2>2, <1>2 DEF IInv, OrderOK, Ascending
    <3>3. CASE j = Len(mess) + 1
      BY <3>1, <3>3, <2>1, <1>1, <1>2
    <3> QED
      BY <3>2, <3>3, <1>2
  <2>3. Ascending(mess')
    BY <2>2 DEF Ascending
  <2> QED
    BY <2>3 DEF IInv, OrderOK, Callback, login, history
<1>12. OffsetsOK'
  <2>1. Chained(mess, len)
    BY DEF IInv, OffsetsOK
  <2>2. Chained(mess', len')
    BY <2>1, <1>0, <1>1, <1>3, ChainedAppend DEF entry
  <2> QED
    BY <2>2 DEF OffsetsOK
<1>13. SeenOK'
  <2> SUFFICES ASSUME NEW r \in rows, r.msg \in seen, r.msg \notin excused
               PROVE  pc # "idle" /\ r \in Sent'
    BY DEF SeenOK, Callback, disk, login, history
  <2>1. r \in Sent /\ pc = "select"
    BY DEF IInv, SeenOK, Callback
  <2>2. r.id \in ids /\ \A i \in 1..Len(mess) : mess[i].row.id # r.id
    BY <2>1 DEF Sent, InBuffer
  <2> QED
    BY <2>1, <2>2 DEF IInv, IdsOK
<1>14. NothingLeftOver' /\ OnceUnlessFault'
  BY DEF IInv, NothingLeftOver, OnceUnlessFault, Callback, login, history
<1> QED
  BY <1>4, <1>5, <1>8, <1>10, <1>11, <1>12, <1>13, <1>14 DEF IInv

LEMMA EndSelectIInv ==
  ASSUME IInv, EndSelect
  PROVE  IInv'
<1> USE DEF IInv, EndSelect, disk, buffer, history
<1>1. TypeOK'
  BY DEF TypeOK, Fault
<1>2. RowsOK' /\ PlacesOK'
  BY DEF RowsOK, PlacesOK
<1>3. IdsOK' /\ EntriesOK'
  BY DEF IdsOK, EntriesOK
<1>4. OffsetsOK'
  BY DEF OffsetsOK
<1>5. OrderOK'
  <2>1. \A i \in 1..Len(mess) : mess[i].row.id \in 1..lastId /\ last = 0
    BY DEF EntriesOK, RowsOK, OrderOK
  <2>2. lastId \in Nat
    BY DEF TypeOK
  <2>3. \A i \in 1..Len(mess) : last < mess[i].row.id
    BY <2>1, <2>2
  <2> QED
    BY <2>3 DEF OrderOK
<1>6. SeenOK'
  BY DEF SeenOK, Sent, InBuffer
<1>7. NothingLeftOver' /\ OnceUnlessFault'
  BY DEF NothingLeftOver, OnceUnlessFault
<1> QED
  BY <1>1, <1>2, <1>3, <1>4, <1>5, <1>6, <1>7

LEMMA Accounts ==
  ASSUME IInv
  PROVE  /\ HasMessage <=> mess # <<>>
         /\ mess = <<>> => len = 0
<1>1. mess \in Seq(Entry) /\ len \in Nat /\ Chained(mess, len)
  BY DEF IInv, TypeOK, OffsetsOK
<1>2. ASSUME mess = <<>> PROVE len = 0 /\ ~HasMessage
  BY <1>1, <1>2, Empty, StoreAssumption DEF HasMessage, StoreAssumption
<1>3. ASSUME mess # <<>> PROVE HasMessage
  BY <1>1, <1>3, ChainedFirst DEF HasMessage, First
<1> QED
  BY <1>2, <1>3

\* The first message leaves the buffer, and the others move up.
LEMMA ReplayBuffer ==
  ASSUME IInv, Replay
  PROVE  /\ pc = "replay" /\ UNCHANGED <<disk, login, ids, excused>>
         /\ Len(mess) \in Nat \ {0} /\ 1 \in 1..Len(mess)
         /\ First = mess[1].row /\ First.id \in Nat /\ First.msg \in Msg
         /\ mess' \in Seq(Entry) /\ Len(mess') = Len(mess) - 1
         /\ \A i \in 1..Len(mess') :
               i + 1 \in 1..Len(mess) /\ mess'[i].row = mess[i + 1].row
         /\ len' \in Nat
         /\ Chained(mess', len')
<1> DEFINE n == ProtocolLength(First)
<1>0. /\ mess \in Seq(Entry) /\ mess # <<>> /\ len \in Nat
      /\ Chained(mess, len)
      /\ First = mess[1].row
      /\ mess' = Moved(mess, n)
      /\ len' = len - n
      /\ pc = "replay" /\ UNCHANGED <<disk, login, ids, excused>>
  BY Accounts DEF IInv, TypeOK, OffsetsOK, Replay, First
<1>1. n = ProtocolLength(mess[1].row)
  BY <1>0
<1> HIDE DEF n
<1>2. /\ Len(mess) \in Nat \ {0} /\ mess[1] \in Entry
      /\ mess' \in Seq(Entry) /\ Len(mess') = Len(mess) - 1
      /\ \A i \in 1..Len(mess') :
            i + 1 \in 1..Len(mess) /\ mess'[i].row = mess[i + 1].row
      /\ len' \in Nat
      /\ Chained(mess', len')
  BY <1>0, <1>1, ChainedMoved
<1>3. First.id \in Nat /\ First.msg \in Msg /\ 1 \in 1..Len(mess)
  BY <1>0, <1>2, EntryType
<1> QED
  BY <1>0, <1>2, <1>3

LEMMA ReplayIInv ==
  ASSUME IInv, Replay
  PROVE  IInv'
<1>0. /\ pc = "replay" /\ UNCHANGED <<disk, login, ids, excused>>
      /\ First = mess[1].row
  BY ReplayBuffer
<1>2. /\ Len(mess) \in Nat \ {0}
      /\ mess' \in Seq(Entry) /\ Len(mess') = Len(mess) - 1
      /\ \A i \in 1..Len(mess') :
            i + 1 \in 1..Len(mess) /\ mess'[i].row = mess[i + 1].row
      /\ len' \in Nat
      /\ Chained(mess', len')
  BY ReplayBuffer
<1>3. First.id \in Nat /\ First.msg \in Msg /\ 1 \in 1..Len(mess)
  BY ReplayBuffer
<1>4. TypeOK'
  BY <1>0, <1>2, <1>3 DEF IInv, TypeOK, Replay, disk, login
<1>5. OffsetsOK'
  BY <1>2 DEF OffsetsOK
<1>6. First \in rows /\ First.id \in ids
  BY <1>0, <1>3 DEF IInv, EntriesOK
<1>7. seen' \subseteq seen \cup {First.msg}
  BY DEF Replay
<1>8. RowsOK' /\ PlacesOK'
  BY <1>6, <1>7 DEF IInv, RowsOK, PlacesOK, Replay, disk
<1>9. IdsOK'
  BY <1>0 DEF IInv, IdsOK, disk, login
<1>10. EntriesOK'
  BY <1>0, <1>2 DEF IInv, EntriesOK, disk, login
<1>11. \A i \in 1..Len(mess') : First.id < mess'[i].row.id
  <2> SUFFICES ASSUME NEW i \in 1..Len(mess')
               PROVE  First.id < mess'[i].row.id
    OBVIOUS
  <2>1. i + 1 \in 1..Len(mess) /\ 1 < i + 1
    BY <1>2
  <2>2. mess[1].row.id < mess[i + 1].row.id
    BY <2>1, <1>3 DEF IInv, OrderOK, Ascending
  <2> QED
    BY <2>2, <1>0, <1>2
<1>12. OrderOK'
  <2>1. ASSUME NEW i \in 1..Len(mess'), NEW j \in 1..Len(mess'), i < j
        PROVE  mess'[i].row.id < mess'[j].row.id
    <3>1. i + 1 \in 1..Len(mess) /\ j + 1 \in 1..Len(mess) /\ i + 1 < j + 1
      BY <2>1, <1>2
    <3>2. mess[i + 1].row.id < mess[j + 1].row.id
      BY <3>1 DEF IInv, OrderOK, Ascending
    <3> QED
      BY <3>2, <1>2
  <2>2. Ascending(mess')
    BY <2>1 DEF Ascending
  <2>3. \A i \in 1..Len(mess') : last < mess'[i].row.id
    BY <1>0, <1>2 DEF IInv, OrderOK
  <2>4. \A i \in 1..Len(mess') : last' < mess'[i].row.id
    BY <2>3, <1>11 DEF Replay
  <2> QED
    BY <2>2, <2>4, <1>0 DEF OrderOK, login
<1>13. First \in Sent'
  <2>1. \A i \in 1..Len(mess') : mess'[i].row.id # First.id
    BY <1>11, <1>3
  <2> QED
    BY <2>1, <1>0, <1>6 DEF Sent, InBuffer, disk
<1>14. ASSUME NEW r \in Sent PROVE r \in Sent'
  <2>1. r \in rows /\ r.id \in ids /\ \A i \in 1..Len(mess) : mess[i].row.id # r.id
    BY DEF Sent, InBuffer
  <2>2. \A i \in 1..Len(mess') : mess'[i].row.id # r.id
    BY <2>1, <1>2
  <2> QED
    BY <2>1, <2>2, <1>0 DEF Sent, InBuffer, disk
<1>15. First \notin Sent
  BY <1>0, <1>3 DEF Sent, InBuffer
<1>16. SeenOK'
  <2> SUFFICES ASSUME NEW r \in rows, r.msg \in seen', r.msg \notin excused
               PROVE  r \in Sent'
    BY <1>0 DEF SeenOK, disk, login
  <2>1. CASE r.msg \in seen
    BY <2>1, <1>14 DEF IInv, SeenOK
  <2>2. CASE r.msg = First.msg
    BY <2>2, <1>6, <1>13 DEF IInv, RowsOK
  <2> QED
    BY <2>1, <2>2, <1>7
<1>17. First.msg \in seen => First.msg \in excused
  BY <1>6, <1>15 DEF IInv, SeenOK
<1>18. OnceUnlessFault'
  BY <1>17 DEF IInv, OnceUnlessFault, Replay
<1>19. NothingLeftOver'
  BY <1>0 DEF NothingLeftOver, login
<1> QED
  BY <1>4, <1>5, <1>8, <1>9, <1>10, <1>12, <1>16, <1>18, <1>19 DEF IInv

LEMMA EndReplayIInv ==
  ASSUME IInv, EndReplay
  PROVE  IInv'
<1>1. mess = <<>> /\ len = 0
  BY Accounts DEF EndReplay
<1> USE DEF IInv, EndReplay, disk, buffer, history
<1>2. TypeOK'
  BY DEF TypeOK
<1>3. RowsOK' /\ PlacesOK'
  BY DEF RowsOK, PlacesOK
<1>4. IdsOK' /\ EntriesOK'
  BY DEF IdsOK, EntriesOK
<1>5. OrderOK' /\ OffsetsOK'
  BY DEF OrderOK, OffsetsOK
<1>6. SeenOK'
  BY DEF SeenOK, Sent, InBuffer
<1>7. NothingLeftOver' /\ OnceUnlessFault'
  BY <1>1 DEF NothingLeftOver, OnceUnlessFault
<1> QED
  BY <1>2, <1>3, <1>4, <1>5, <1>6, <1>7

LEMMA DeleteIInv ==
  ASSUME IInv, Delete
  PROVE  IInv'
<1> USE DEF IInv, Delete, buffer, history
<1>1. TypeOK'
  BY DEF TypeOK
<1>2. RowsOK' /\ PlacesOK'
  BY DEF RowsOK, PlacesOK
<1>3. IdsOK' /\ EntriesOK'
  BY DEF IdsOK, EntriesOK
<1>4. OrderOK' /\ OffsetsOK'
  BY DEF OrderOK, OffsetsOK
<1>5. SeenOK'
  BY DEF SeenOK, Sent
<1>6. NothingLeftOver' /\ OnceUnlessFault'
  BY DEF NothingLeftOver, OnceUnlessFault
<1> QED
  BY <1>1, <1>2, <1>3, <1>4, <1>5, <1>6

\* What the login has delivered is excused when it does not come to delete it.
LEMMA TriedHolds ==
  ASSUME NEW r \in Sent, pc # "idle"
  PROVE  r.msg \in Tried
  BY DEF Tried

LEMMA TriedType == IInv => Tried \in SUBSET Msg
  BY DEF IInv, TypeOK, Tried, Sent, StoredRow

LEMMA DeleteFailsIInv ==
  ASSUME IInv, DeleteFails
  PROVE  IInv'
<1> USE DEF IInv, DeleteFails, disk, buffer
<1>1. TypeOK'
  BY TriedType DEF TypeOK, Fault
<1>2. RowsOK' /\ PlacesOK'
  BY DEF RowsOK, PlacesOK
<1>3. IdsOK' /\ EntriesOK'
  BY DEF IdsOK, EntriesOK
<1>4. OrderOK' /\ OffsetsOK'
  BY DEF OrderOK, OffsetsOK
<1>5. SeenOK'
  BY TriedHolds DEF SeenOK
<1>6. NothingLeftOver' /\ OnceUnlessFault'
  BY DEF NothingLeftOver, OnceUnlessFault
<1> QED
  BY <1>1, <1>2, <1>3, <1>4, <1>5, <1>6

LEMMA CrashIInv ==
  ASSUME IInv, Crash
  PROVE  IInv'
<1> USE DEF IInv, Crash, disk
<1>1. TypeOK'
  BY TriedType DEF TypeOK, Fault
<1>2. RowsOK' /\ PlacesOK'
  BY DEF RowsOK, PlacesOK
<1>3. IdsOK' /\ EntriesOK'
  BY DEF IdsOK, EntriesOK
<1>4. OrderOK' /\ OffsetsOK'
  BY Empty DEF OrderOK, OffsetsOK
<1>5. SeenOK'
  BY TriedHolds DEF SeenOK
<1>6. NothingLeftOver' /\ OnceUnlessFault'
  BY DEF NothingLeftOver, OnceUnlessFault
<1> QED
  BY <1>1, <1>2, <1>3, <1>4, <1>5, <1>6

LEMMA SameIInv ==
  ASSUME IInv, Restart \/ UNCHANGED vars
  PROVE  IInv'
<1>1. UNCHANGED <<disk, held, login, buffer, unsent, faults, history>>
  BY DEF Restart, vars
<1>2. TypeOK'
  BY <1>1 DEF IInv, TypeOK, Restart, vars, disk, login, buffer, history
<1>3. RowsOK' /\ PlacesOK'
  BY <1>1 DEF IInv, RowsOK, PlacesOK, disk, history
<1> QED
  BY <1>1, <1>2, <1>3, LoginUnchanged DEF IInv

LEMMA NextIInv == IInv /\ [Next]_vars => IInv'
  BY PutAsideIInv, InsertIInv, InsertFailsIInv, LoginIInv, CallbackIInv,
     EndSelectIInv, ReplayIInv, EndReplayIInv, DeleteIInv, DeleteFailsIInv,
     CrashIInv, SameIInv DEF Next

LEMMA IInvHolds == Spec => []IInv
  BY InitIInv, NextIInv, PTL DEF Spec

-----------------------------------------------------------------------------
(* The theorems about states. *)

(* The table, the buffer and the counters have their types in every            *)
(* reachable state.                                                            *)
THEOREM StoreTypes == Spec => []TypeOK
  BY IInvHolds, PTL DEF IInv

(* What callback() wrote into sqlite_select_mess and what the replay of main   *)
(* takes out come out even: the error of main.cpp:371 is never printed.        *)
THEOREM NothingIsLeftOver == Spec => []NothingLeftOver
  BY IInvHolds, PTL DEF IInv

(* A stored message is delivered twice only if a login that had sent it died   *)
(* or could not execute its DELETE.                                            *)
THEOREM DeliveredOnce == Spec => []OnceUnlessFault
  BY IInvHolds, PTL DEF IInv

-----------------------------------------------------------------------------
(* The theorems about steps. *)

LEMMA NextInOrder ==
  ASSUME IInv, [Next]_vars
  PROVE  last' \in {0, last} \/ last' > last
<1>1. CASE Replay
  <2>1. last < First.id
    BY <1>1, ReplayBuffer DEF IInv, OrderOK
  <2>2. last' = First.id \/ last' = last
    BY <1>1 DEF Replay
  <2>3. last \in Nat /\ First.id \in Nat
    BY <1>1, ReplayBuffer DEF IInv, TypeOK
  <2> QED
    BY <2>1, <2>2, <2>3
<1>2. CASE \E ip \in Ip : Login(ip)
  BY <1>2 DEF Login
<1>3. CASE /\ ~Replay
           /\ ~\E ip \in Ip : Login(ip)
  <2>1. last' = last
    BY <1>3 DEF Next, PutAside, Insert, InsertFails, Callback, EndSelect,
       EndReplay, Delete, DeleteFails, Crash, Restart, history, vars
  <2> QED
    BY <2>1
<1> QED
  BY <1>1, <1>2, <1>3

(* The replay of a login sends rows in the order of their ids, that is in the  *)
(* order they were inserted, whatever dispatchers insert meanwhile.            *)
THEOREM HistoryOldestFirst == Spec => OldestFirst
<1>1. IInv /\ [Next]_vars => [last' \in {0, last} \/ last' > last]_vars
  BY NextInOrder
<1> QED
  BY <1>1, IInvHolds, PTL DEF Spec, OldestFirst

-----------------------------------------------------------------------------
(* The table is a mailbox. *)

LEMMA SameMailbox ==
  ASSUME UNCHANGED <<rows, ids, mess, pc>>
  PROVE  UNCHANGED <<Waiting, Tried>>
  BY DEF Waiting, Tried, Sent, InBuffer

\* While the SELECT runs nothing has been sent.
LEMMA SelectTriesNothing ==
  ASSUME IInv, pc = "select"
  PROVE  Tried = {}
<1>1. \A id \in ids : \E i \in 1..Len(mess) : mess[i].row.id = id
  BY DEF IInv, IdsOK
<1>2. Sent = {}
  BY <1>1 DEF Sent, InBuffer
<1> QED
  BY <1>2 DEF Tried

LEMMA InsertPuts ==
  ASSUME IInv, NEW m \in Msg, Insert(m)
  PROVE  M!Put(m)
<1>1. /\ rows' = rows \cup {NewRow(m)} /\ NewRow(m).msg = m
      /\ NewRow(m).id = lastId + 1
      /\ UNCHANGED <<ids, mess, pc>>
  BY DEF Insert, NewRow, login, buffer
<1>2. Waiting' = Waiting \cup {m}
  BY <1>1 DEF Waiting
<1>3. \A id \in ids : id # lastId + 1
  BY DEF IInv, IdsOK, TypeOK
<1>4. InBuffer' = InBuffer
  BY <1>1 DEF InBuffer
<1>5. Sent' = Sent
  BY <1>1, <1>3, <1>4 DEF Sent
<1>6. Tried' = Tried
  BY <1>1, <1>5 DEF Tried
<1> QED
  BY <1>2, <1>6 DEF M!Put

LEMMA ReplayTries ==
  ASSUME IInv, Replay
  PROVE  M!Try(First.msg)
<1>1. First \in rows /\ First.id \in ids
  BY ReplayBuffer DEF IInv, EntriesOK
<1>2. First.msg \in Waiting /\ Waiting' = Waiting
  BY <1>1, ReplayBuffer DEF Waiting, disk
<1>3. ASSUME NEW r \in Sent PROVE r \in Sent'
  <2>1. r \in rows /\ r.id \in ids /\ \A i \in 1..Len(mess) : mess[i].row.id # r.id
    BY DEF Sent, InBuffer
  <2>2. \A i \in 1..Len(mess') : mess'[i].row.id # r.id
    BY <2>1, ReplayBuffer
  <2> QED
    BY <2>1, <2>2, ReplayBuffer DEF Sent, InBuffer, disk
<1>4. First \in Sent'
  <2>1. \A i \in 1..Len(mess') : mess'[i].row.id # First.id
    <3> SUFFICES ASSUME NEW i \in 1..Len(mess')
                 PROVE  mess'[i].row.id # First.id
      OBVIOUS
    <3>1. i + 1 \in 1..Len(mess) /\ 1 < i + 1
      BY ReplayBuffer
    <3>2. mess[1].row.id < mess[i + 1].row.id
      BY <3>1, ReplayBuffer DEF IInv, OrderOK, Ascending
    <3> QED
      BY <3>2, ReplayBuffer
  <2> QED
    BY <2>1, <1>1, ReplayBuffer DEF Sent, InBuffer, disk
<1>5. ASSUME NEW r \in Sent', r # First PROVE r \in Sent
  <2>1. r \in rows /\ r.id \in ids /\ \A i \in 1..Len(mess') : mess'[i].row.id # r.id
    BY ReplayBuffer DEF Sent, InBuffer, disk
  <2>2. ASSUME NEW i \in 1..Len(mess), mess[i].row.id = r.id PROVE FALSE
    <3>1. CASE i = 1
      BY <3>1, <2>1, <2>2, <1>1, <1>5, ReplayBuffer DEF IInv, RowsOK
    <3>2. CASE i # 1
      <4>1. i - 1 \in 1..Len(mess') /\ (i - 1) + 1 = i
        BY <3>2, ReplayBuffer
      <4>2. mess'[i - 1].row = mess[i].row
        BY <4>1, ReplayBuffer
      <4> QED
        BY <4>1, <4>2, <2>1, <2>2
    <3> QED
      BY <3>1, <3>2
  <2> QED
    BY <2>1, <2>2 DEF Sent, InBuffer
<1>6. Sent' = Sent \cup {First}
  BY <1>3, <1>4, <1>5
<1>7. Tried' = Tried \cup {First.msg}
  BY <1>6, ReplayBuffer DEF Tried, login
<1> QED
  BY <1>2, <1>7 DEF M!Try

LEMMA DeleteForgets ==
  ASSUME IInv, Delete
  PROVE  M!Forget
<1>1. mess = <<>> /\ pc = "delete" /\ pc' = "idle"
      /\ rows' = {row \in rows : row.id \notin ids}
  BY DEF IInv, NothingLeftOver, Delete
<1>2. Sent = {row \in rows : row.id \in ids}
  BY <1>1 DEF Sent, InBuffer
<1>3. \A r, s \in rows : r.msg = s.msg => r = s
  BY DEF IInv, RowsOK
<1>4. Waiting' = Waiting \ Tried
  BY <1>1, <1>2, <1>3 DEF Waiting, Tried
<1>5. Tried' = {}
  BY <1>1 DEF Tried
<1> QED
  BY <1>4, <1>5 DEF M!Forget

LEMMA NextMailbox ==
  ASSUME IInv, IInv', [Next]_vars
  PROVE  M!MNext \/ UNCHANGED <<Waiting, Tried>>
<1>1. CASE \E m \in Msg : PutAside(m) \/ InsertFails(m)
  BY <1>1, SameMailbox DEF PutAside, InsertFails, disk, login, buffer
<1>2. CASE \E m \in Msg : Insert(m)
  BY <1>2, InsertPuts DEF M!MNext
<1>3. CASE \E ip \in Ip : Login(ip)
  <2>1. Tried = {} /\ Tried' = {} /\ Waiting' = Waiting
    BY <1>3 DEF Login, Tried, Sent, Waiting, disk
  <2> QED
    BY <2>1
<1>4. CASE \E row \in rows : Callback(row)
  <2>1. Tried = {} /\ pc' = "select"
    BY <1>4, SelectTriesNothing DEF Callback, login
  <2>2. \A id \in ids' : \E i \in 1..Len(mess') : mess'[i].row.id = id
    BY <2>1 DEF IInv, IdsOK
  <2>3. Sent' = {}
    BY <2>2 DEF Sent, InBuffer
  <2>4. Tried' = {}
    BY <2>3 DEF Tried
  <2>5. Waiting' = Waiting
    BY <1>4 DEF Callback, Waiting, disk
  <2> QED
    BY <2>1, <2>4, <2>5
<1>5. CASE EndSelect
  BY <1>5 DEF EndSelect, Waiting, Tried, Sent, InBuffer, disk, buffer
<1>6. CASE Replay
  <2>1. First.msg \in Msg
    BY <1>6, ReplayBuffer
  <2> QED
    BY <1>6, <2>1, ReplayTries DEF M!MNext
<1>7. CASE EndReplay
  BY <1>7 DEF EndReplay, Waiting, Tried, Sent, InBuffer, disk, buffer
<1>8. CASE Delete
  BY <1>8, DeleteForgets DEF M!MNext
<1>9. CASE DeleteFails \/ Crash
  <2>1. Tried' = {} /\ Waiting' = Waiting
    BY <1>9 DEF DeleteFails, Crash, Tried, Waiting, disk
  <2> QED
    BY <2>1 DEF M!MNext, M!Abandon
<1>10. CASE Restart \/ UNCHANGED vars
  BY <1>10, SameMailbox DEF Restart, vars, disk, login, buffer
<1> QED
  BY <1>1, <1>2, <1>3, <1>4, <1>5, <1>6, <1>7, <1>8, <1>9, <1>10 DEF Next

(* The table is a mailbox: a message is forgotten only by a login that has     *)
(* sent it, and by that login only after the last of its messages.             *)
THEOREM RefinesMailbox == Spec => ImplementsMailbox
<1>1. Init => M!MInit
  BY DEF Init, M!MInit, Waiting, Tried
<1>2. IInv /\ IInv' /\ [Next]_vars => [M!MNext]_<<Waiting, Tried>>
  BY NextMailbox
<1>3. Spec => M!MInit /\ [][M!MNext]_<<Waiting, Tried>>
  BY <1>1, <1>2, IInvHolds, PTL DEF Spec
<1> QED
  BY <1>3 DEF ImplementsMailbox, M!MSpec, M!mvars
=============================================================================
