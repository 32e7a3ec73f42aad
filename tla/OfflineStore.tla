----------------------------- MODULE OfflineStore -----------------------------
(***************************************************************************)
(* The messages of users who are not on line: main.cpp and sqlite_lib.cpp  *)
(* around the table tmp_mess.                                              *)
(*                                                                         *)
(* A dispatcher that cannot deliver a message writes its text into an      *)
(* INSERT statement.  A login selects the rows of its address: for every   *)
(* row SQLite calls callback(), which notes the id in sqlite_select_ids    *)
(* and appends header and content to sqlite_select_mess; then main sends   *)
(* what is in that buffer and deletes the ids it has noted.                *)
(*                                                                         *)
(* The table outlives the process.  A process may die at any moment        *)
(* (SIGPIPE, exit(1), a crash) and is started again.                       *)
(*                                                                         *)
(* Who is on line, and which descriptor a login has, is in Server; here a  *)
(* message is handed to the store at any time.  sqlite3_exec() holds the   *)
(* mutex of the database handle, callbacks included.                       *)
(***************************************************************************)
EXTENDS Naturals, Sequences, FiniteSets

CONSTANTS
    Ip, Msg,
    To,        \* [Msg -> Ip]
    Content,   \* [Msg -> Seq(Sign)]: the ciphertext, as a C string
    HeadLen,   \* sizeof(TranMessage)
    BufMax,    \* sizeof(sqlite_select_mess)
    IdsMax,    \* elements of sqlite_select_ids
    MaxTerms,  \* terms SQLite takes in one WHERE (SQLITE_MAX_EXPR_DEPTH)
    MaxFault,  \* bound on what goes wrong: crashes and failing statements
    NULL

\* What matters of a byte of a ciphertext is whether it is a quote.  (That the
\* bytes between two quotes happen to be an SQL operator is left out.)
Sign == {"quote", "other"}

ASSUME StoreAssumption ==
    /\ To \in [Msg -> Ip]
    /\ Content \in [Msg -> Seq(Sign)]
    /\ HeadLen \in Nat \ {0} /\ BufMax \in Nat
    /\ IdsMax \in Nat /\ MaxTerms \in Nat
    /\ MaxFault \in Nat
    /\ NULL \notin Ip

VARIABLES
    (* on disk *)
    rows,      \* table tmp_mess
    lastId,    \* sqlite_sequence
    (* the process *)
    proc,      \* "up", "down", or "corrupt": memory was overwritten
    held,      \* messages dispatchers are about to store
    pc, user,  \* main: "idle", "select", "replay", "delete"; who logs in
    mess,      \* sqlite_select_mess: the messages in it, and where they start
    len,       \* sqlite_select_mess_len
    ids,       \* sqlite_select_ids
    (* history *)
    unsent,    \* messages nobody has sent yet
    faults,    \* what has gone wrong so far
    last,      \* id of the last row delivered on the present connection
    seen,      \* messages delivered
    again,     \* messages delivered more than once
    excused    \* messages sent by a login that did not get them deleted

disk    == <<rows, lastId>>
buffer  == <<mess, len, ids>>
login   == <<pc, user>>
history == <<last, seen, again, excused>>
vars == <<disk, proc, held, login, buffer, unsent, faults, history>>

Init ==
    /\ rows = {} /\ lastId = 0
    /\ proc = "up"
    /\ held = {}
    /\ pc = "idle" /\ user = NULL
    /\ mess = <<>> /\ len = 0 /\ ids = {}
    /\ unsent = Msg
    /\ faults = 0
    /\ last = 0 /\ seen = {} /\ again = {} /\ excused = {}

Fault == faults < MaxFault /\ faults' = faults + 1

-----------------------------------------------------------------------------
(* gen_insert_sql_chs: the content goes between two quotes as it is.       *)

\* The place of a quote in its run of quotes: the run began after the last
\* byte that is none.
PlaceInRun(s, i) ==
    i - CHOOSE j \in 0..(i - 1) :
            /\ j = 0 \/ s[j] = "other"
            /\ \A k \in (j + 1)..i : s[k] = "quote"

Doubled(s, i) == s[i] = "quote" /\ PlaceInRun(s, i) % 2 = 0

\* Inside a literal two quotes stand for one; a single one ends it, and what
\* follows is not SQL.
Closed(s) ==
    \A i \in 1..Len(s) :
        s[i] = "quote" /\ (i = Len(s) \/ s[i + 1] = "other") => Doubled(s, i)

\* An empty content is written as '' without a comma, and runs into the next
\* literal: nine values for ten columns.
WellFormed(s) == s # <<>> /\ Closed(s)

Unquoted(s) == {i \in 1..Len(s) : ~Doubled(s, i)}

-----------------------------------------------------------------------------
(* The dispatchers. *)

\* The lookup or the send() has failed.
PutAside(m) ==
    /\ proc = "up"
    /\ m \in unsent
    /\ unsent' = unsent \ {m}
    /\ held' = held \cup {m}
    /\ UNCHANGED <<disk, proc, login, buffer, faults, history>>

\* Nobody else is inside sqlite3_exec().
Executes == proc = "up" /\ pc # "select"

\* Mutant: TO_IP is not taken from the header.
NewRowWithoutAddress(m) == [id |-> lastId + 1, to |-> NULL, msg |-> m]

NewRow(m) == [id |-> lastId + 1, to |-> To[m], msg |-> m]

Insert(m) ==
    /\ Executes
    /\ m \in held
    /\ WellFormed(Content[m])
    /\ held' = held \ {m}
    /\ rows' = rows \cup {NewRow(m)}
    /\ lastId' = lastId + 1
    /\ UNCHANGED <<proc, login, buffer, unsent, faults, history>>

\* The statement is malformed, or fails: an error is printed and the message
\* is gone.
InsertFails(m) ==
    /\ Executes
    /\ m \in held
    /\ held' = held \ {m}
    /\ \/ ~WellFormed(Content[m]) /\ UNCHANGED faults
       \/ WellFormed(Content[m]) /\ Fault
    /\ UNCHANGED <<disk, proc, login, buffer, unsent, history>>

-----------------------------------------------------------------------------
(* main: the login of a user. *)

\* Mutant: sqlite_select_ids_num is not reset.
LoginKeepingIds(ip) ==
    /\ proc = "up"
    /\ pc = "idle"
    /\ pc' = "select"
    /\ user' = ip
    /\ mess' = <<>> /\ len' = 0
    /\ last' = 0
    /\ UNCHANGED <<disk, proc, held, ids, unsent, faults, seen, again, excused>>

\* A connection is accepted, both counters are reset, the SELECT begins.
Login(ip) ==
    /\ proc = "up"
    /\ pc = "idle"
    /\ pc' = "select"
    /\ user' = ip
    /\ mess' = <<>> /\ len' = 0 /\ ids' = {}
    /\ last' = 0
    /\ UNCHANGED <<disk, proc, held, unsent, faults, seen, again, excused>>

\* The rows of the address callback() has not been called for, and the next.
Remaining == {row \in rows : row.to = user /\ row.id \notin ids}

\* Mutant: ORDER BY ID DESC.
IsNewest(row) ==
    row \in Remaining /\ \A other \in Remaining : other.id <= row.id

IsNext(row) ==
    row \in Remaining /\ \A other \in Remaining : row.id <= other.id

\* strlen() of CONTENT: it has no zero byte.
TextLength(row) == Cardinality(Unquoted(Content[row.msg]))

\* Mutant: the length includes the terminating zero, as in the older code in
\* the comments (main.cpp:340-353).
ProtocolLengthWithZero(row) == HeadLen + TextLength(row) + 1

\* potocol_length.
ProtocolLength(row) == HeadLen + TextLength(row)

\* The header and the content are copied behind what is there already.
Written(row) == HeadLen + TextLength(row)

\* Nothing compares sqlite_select_ids_num and sqlite_select_mess_len with the
\* sizes of the arrays.
Overrun(noted, length) == Cardinality(noted) > IdsMax \/ length > BufMax

Callback(row) ==
    /\ proc = "up"
    /\ pc = "select"
    /\ IsNext(row)
    /\ ids' = ids \cup {row.id}
    /\ mess' = Append(mess, [row |-> row, at |-> len])
    /\ len' = len + Written(row)
    /\ proc' = IF Overrun(ids', len') THEN "corrupt" ELSE "up"
    /\ UNCHANGED <<disk, held, login, unsent, faults, history>>

\* All rows, or an error, which is printed: the login goes on with the rows it
\* has.
EndSelect ==
    /\ proc = "up"
    /\ pc = "select"
    /\ \/ Remaining = {} /\ UNCHANGED faults
       \/ Remaining # {} /\ Fault
    /\ pc' = "replay"
    /\ UNCHANGED <<disk, proc, held, user, buffer, unsent, history>>

\* while (len >= sizeof(TranMessage)), if (len >= protocol_length)
First == mess[1].row
HasMessage == len >= HeadLen /\ len >= ProtocolLength(First)

\* memmove() of what follows the first message.
Moved(s, n) ==
    [i \in 1..(Len(s) - 1) |-> [s[i + 1] EXCEPT !.at = @ - n]]

\* The result of send() is ignored; a packet that does not get through, or
\* not as a whole, has been sent all the same.
Replay ==
    /\ proc = "up"
    /\ pc = "replay"
    /\ HasMessage
    /\ \/ /\ last' = First.id
          /\ seen' = seen \cup {First.msg}
          /\ again' = again \cup ({First.msg} \cap seen)
       \/ UNCHANGED <<last, seen, again>>
    /\ mess' = Moved(mess, ProtocolLength(First))
    /\ len' = len - ProtocolLength(First)
    /\ UNCHANGED <<disk, proc, held, login, ids, unsent, faults, excused>>

\* Mutant: if (sqlite_select_ids_num > 1).
EndReplayOffByOne ==
    /\ proc = "up"
    /\ pc = "replay"
    /\ ~HasMessage
    /\ pc' = IF Cardinality(ids) <= 1 THEN "idle" ELSE "delete"
    /\ UNCHANGED <<disk, proc, held, user, buffer, unsent, faults, history>>

EndReplay ==
    /\ proc = "up"
    /\ pc = "replay"
    /\ ~HasMessage
    /\ pc' = IF ids = {} THEN "idle" ELSE "delete"
    /\ UNCHANGED <<disk, proc, held, user, buffer, unsent, faults, history>>

\* Mutant: the condition begins with sqlite_select_ids[1].
DeleteFromSecond ==
    /\ proc = "up"
    /\ pc = "delete"
    /\ Cardinality(ids) <= MaxTerms
    /\ rows' = {row \in rows :
                   row.id \in ids => \A id \in ids : row.id <= id}
    /\ pc' = "idle"
    /\ UNCHANGED <<lastId, proc, held, user, buffer, unsent, faults, history>>

\* gen_delid_sql_chs: DELETE ... WHERE ID = id1 OR ID = id2 ..., one term for
\* each row of the history.
TooLong(I) == Cardinality(I) > MaxTerms

Delete ==
    /\ proc = "up"
    /\ pc = "delete"
    /\ ~TooLong(ids)
    /\ rows' = {row \in rows : row.id \notin ids}
    /\ pc' = "idle"
    /\ UNCHANGED <<lastId, proc, held, user, buffer, unsent, faults, history>>

\* The messages in the table that the present login has sent.
InBuffer == {mess[i].row.id : i \in 1..Len(mess)}
Sent == {row \in rows : row.id \in ids \ InBuffer}
Tried == IF pc = "idle" THEN {} ELSE {row.msg : row \in Sent}

\* SQLite refuses a statement that is too long, at this login and at every
\* later one; any other may fail.  An error is printed.
DeleteFails ==
    /\ proc = "up"
    /\ pc = "delete"
    /\ \/ TooLong(ids) /\ UNCHANGED faults
       \/ ~TooLong(ids) /\ Fault
    /\ excused' = excused \cup Tried
    /\ pc' = "idle"
    /\ UNCHANGED <<disk, proc, held, user, buffer, unsent, last, seen, again>>

-----------------------------------------------------------------------------
(* The process dies and comes back: the table stays, memory does not.      *)

Crash ==
    /\ proc = "up"
    /\ Fault
    /\ proc' = "down"
    /\ held' = {}
    /\ excused' = excused \cup Tried
    /\ pc' = "idle" /\ user' = NULL
    /\ mess' = <<>> /\ len' = 0 /\ ids' = {}
    /\ UNCHANGED <<disk, unsent, last, seen, again>>

Restart ==
    /\ proc = "down"
    /\ proc' = "up"
    /\ UNCHANGED <<disk, held, login, buffer, unsent, faults, history>>

-----------------------------------------------------------------------------
Next ==
    \/ \E m \in Msg : PutAside(m) \/ Insert(m) \/ InsertFails(m)
    \/ \E ip \in Ip : Login(ip)
    \/ \E row \in rows : Callback(row)
    \/ EndSelect \/ Replay \/ EndReplay \/ Delete \/ DeleteFails
    \/ Crash \/ Restart

Spec == Init /\ [][Next]_vars

(***************************************************************************)
(* Fairness: main finishes a login it has begun, somebody starts the       *)
(* server again, and every user logs in again and again.                   *)
(***************************************************************************)
Fairness ==
    /\ WF_vars(\E row \in rows : Callback(row))
    /\ WF_vars(EndSelect) /\ WF_vars(Replay) /\ WF_vars(EndReplay)
    /\ WF_vars(Delete \/ DeleteFails)
    /\ WF_vars(Restart)
    /\ \A ip \in Ip : SF_vars(Login(ip))

FairSpec == Spec /\ Fairness

-----------------------------------------------------------------------------
StoredRow == [id : Nat, to : Ip, msg : Msg]
Entry == [row : StoredRow, at : Nat]

(* Types. *)
TypeOK ==
    /\ rows \in SUBSET StoredRow /\ lastId \in Nat
    /\ proc \in {"up", "down", "corrupt"}
    /\ held \in SUBSET Msg /\ unsent \in SUBSET Msg
    /\ pc \in {"idle", "select", "replay", "delete"}
    /\ user \in Ip \cup {NULL}
    /\ mess \in Seq(Entry)
    /\ len \in Nat
    /\ ids \in SUBSET Nat
    /\ faults \in Nat /\ last \in Nat
    /\ seen \in SUBSET Msg /\ again \in SUBSET Msg /\ excused \in SUBSET Msg

\* Lines 369-372 report "sqlite_select_mess_len != 0, sqlite select handle
\* error!": what the callback wrote and what the replay takes out again, each
\* by its own account of the lengths, always come out even.
NothingLeftOver == pc = "delete" => len = 0 /\ mess = <<>>

\* A stored message is delivered once, whatever dispatchers insert, however
\* the server crashes and whatever statement fails; a second time only if a
\* login that had sent it did not get it deleted: the server died, or the
\* DELETE failed or was refused for its length.
OnceUnlessFault == again \subseteq excused

\* On one connection the history comes in the order it was stored, although
\* rows are inserted, deleted and numbered across crashes.
OldestFirst == [][last' \in {0, last} \/ last' > last]_vars

Waiting == {row.msg : row \in rows}

M == INSTANCE Mailbox WITH Item <- Msg, waiting <- Waiting, tried <- Tried

\* A row is deleted only by a login that has sent it: not by one whose SELECT
\* was cut short, not by the next one, not by a crash.
ImplementsMailbox == M!MSpec

History(ip) == {row.id : row \in {r \in rows : r.to = ip}}

\* A stored message leaves the table in the end, if its user logs in again and
\* again, except out of a history longer than one DELETE takes: that is sent
\* at every login and grows until it overruns sqlite_select_ids.
EveryRowDelivered ==
    \A m \in Msg :
        m \in Waiting ~>
            m \notin Waiting \/ TooLong(History(To[m])) \/ proc = "corrupt"
=============================================================================
