# A verification of the ltzy chat server and clients

ltzy is a small chat system: a Linux server (`src/ltzy_linux`), a Linux client
(`src/ltzy_client_linux`) and a Windows client (`src/ltzy_windows`). Users are
identified by their IP address. This directory holds TLA+ modules translated
from the code, TLC configurations that check them on small instances, and
TLAPS proofs of the main safety properties for every instance. `PROJECT.json`
maps each definition to the lines it stands for and lists the runs, the
mutants, the findings, the hazards and the theorems.

In the following `S` is `src/ltzy_linux/ltzy_linux`, `C` is
`src/ltzy_client_linux/ltzy_client_linux` and `W` is
`src/ltzy_windows/ltzy_client`.

## 1. The system

### Components, their state and operations

| Component | Code | State | Operations |
|---|---|---|---|
| message queue | `S/safe_queue.h` | linked list with a dummy last node, `head_mut`, `tail_mut`, `data_cond` | `push`, `wait_and_pop`, `try_pop` |
| thread pool | `S/thread_pool.h` | `_pool`, `_tasks`, `_lock`, `_task_cv`, `_run` | `commit`, the worker loop, the destructor |
| login and epoll loop | `S/main.cpp` 212-431 | the registries `recv_sockfd_mp_ip`, `recv_sockfd_mp_mux`, `read_clients`, redis set `online_ipset` | accept, register, replay the history, watch; commit a read task for each readable socket |
| readers | `S/main.cpp` `handle_read_sock` | `sock_tmp_buf`, the buffer of each `ClientSock` | receive until EAGAIN, cut into messages, push; take a closed connection down |
| dispatchers | `S/main.cpp` `handle_mess_que` | `mess_que`, `lt_room` | pop, look the recipient up, send under his mutex, store what cannot be sent |
| offline store | `S/sqlite_lib.cpp`, `S/main.cpp` 330-381, 753-851 | table `tmp_mess`, which outlives the process; `sqlite_select_mess`, `sqlite_select_mess_len`, `sqlite_select_ids` | insert, select by address with a callback for each row, replay, delete by ID |
| wire format, cipher | `message_struct.h`, `utils.cpp` of each program | | `TranMessage` headers, DES-ECB, `set_data_length` |
| Linux client | `C/client_linux.cpp` | `sendfd`, `exit_flag`, `data_buff` | `main`, `connect_server`, `send_process`, `recv_process` |
| Windows client | `W/client_main.cpp`, `W/encode.h`, `W/utils.cpp` | the same | the same, and the conversions `G2U` and `U2G` |
| samples | AES, RSA, hiredis and socket trials | | called by nobody |

### How they interact

`main` is one thread. It commits eight endless tasks (`handle_mess_que`) to a
pool of sixteen threads, then runs the epoll loop: a new connection is logged
in by `main` itself, step by step; a readable one becomes a task
(`handle_read_sock`) for the other eight threads. Readers push messages to
`mess_que`; dispatchers pop them. All of them, and `main`, share the
registries, each behind its own mutex, and every connection has a mutex for
its socket. Redis and SQLite are called from `main`, the readers and the
dispatchers. A client is three threads that share one socket and `exit_flag`.
Clients send a TCP stream of headers and ciphertexts to the
server, which forwards the ciphertext without decrypting it.

### What is hard

- Three kinds of threads change the registries in several locked steps each,
  and take decisions on what they have read in an earlier step.
- The registries are keyed by descriptors, which the kernel hands out again.
- A user may log in again before his old connection has been taken down.
- Listening socket and connections are edge triggered, and non-blocking.
- A send may fail, find the socket full, or raise SIGPIPE at any time.
- The queue has one mutex for each end and lets a consumer sleep with one of
  them locked; the pool's destructor writes the predicate without its lock.
- The stream arrives in pieces; lengths are computed with `strlen` on
  ciphertexts.
- The table outlives the process: a row is inserted, selected, sent and deleted
  in steps between which the process may die or a statement fail, and it passes
  through a buffer whose lengths are counted twice.
- Any thread of a client may close the socket another one is using, and `main`
  waits for them by reading a plain `int`.

### What makes each part correct

- *Queue*: behaves as an atomic FIFO queue; no freed node is touched; no
  consumer sleeps on an element; every push is popped.
- *Pool*: a task runs at most once; none waits while a worker sleeps; each is
  started although some tasks never end; the destructor returns.
- *Server*: an ip is on line once; no mutex stays locked; a login ends; a
  message reaches its addressee; the history is replayed to whom it was stored
  for, in order, once, and only what has been replayed is deleted. (That the
  mutex registered for a descriptor is that of its client does not hold:
  `stale_mutex`.)
- *Offline store*: what was put aside is forgotten only by a login that sent it,
  comes twice only after a fault or a refused DELETE, in the order of its
  storing, and does not stay in the table for ever unless the history has become
  too long for one DELETE.
- *Clients*: "exit" ends the process; the end of the connection ends the receive
  loop; the socket is closed before `exit_flag` is set; once the receiver has
  closed it SIGPIPE is over.
- *Stream*: no byte is lost or belongs to two messages, however the stream is
  cut; buffers are bounded; what is shown is what was typed.

`PROJECT.json` lists the hazards, each at its line, with the property that
would catch it or the reason why none can.

## 2. The modules

| Module | Models | |
|---|---|---|
| `Fifo` | what the callers of the queue rely on | abstract specification |
| `SafeQueue` | `safe_queue.h`, one action between two lock operations | |
| `SafeQueueHistory` | `SafeQueue` with the history variable `chain`; refinement of `Fifo` | |
| `SafeQueueProofs` | theorems | |
| `ThreadPool` | `thread_pool.h` | |
| `ThreadPoolProofs` | theorems | |
| `Server` | the three kinds of threads of `main.cpp`, the kernel, redis, the table | uses the queue as `Fifo`, the pool as its task queue |
| `ServerProofs` | theorems on registries and mutexes | |
| `ServerHistoryProofs` | theorems on what is replayed | extends `ServerProofs` |
| `Mailbox` | what the table is for | abstract specification |
| `OfflineStore` | statements, callback, buffer, replay, DELETE, faults and restarts; refinement of `Mailbox` | the login and the dispatchers of `Server` in closer view |
| `OfflineStoreProofs` | theorems | |
| `Cipher` | `des_encrypt`, `des_decrypt` and C strings | |
| `CipherProofs` | theorems | |
| `Framing` | a message from the sender's keyboard to the receiver's screen, byte by byte, between any two of the clients | uses the queue as `Fifo`, `Cipher` |
| `FramingProofs` | theorems | extends `CipherProofs` |
| `Client` | the threads of both clients | the bytes they send are in `Framing` |
| `ClientProofs` | theorems | |
| `MC*` | instances for TLC | |

`SafeQueueHistory` justifies that `Server` and `Framing` take `mess_que` as a
sequence with an atomic push and pop. `ThreadPool` justifies that `Server`
starts committed reads in their order and that some thread starts each of them.

### SafeQueue

Each thread has a program counter; the steps are the pieces of code between
two operations on a mutex or the condition variable, and, where a thread works
on shared memory with no lock (the deletion of the old head), the memory
accesses themselves. Nodes are addresses that can be allocated again after
`delete`. `wait_and_pop` sleeps with `tail_mut` released and `head_mut` held,
as the code does; wake-ups without a notification are possible at any time.
`empty()` and the destructor are not modelled: the program calls the first only
before it has threads and destroys the queue when it exits.

### ThreadPool

The owner (`main`) commits or destroys; the two never overlap, since they are
the same thread. A worker tests its predicate and goes to sleep in two steps:
for whoever takes `_lock` they are one, for the destructor, which does not,
they are two. The idle counter is left out because nothing reads it.

### Server

The state is grouped as the code's: the kernel's (`peer`, `backlog`, `fdtab`,
`rq`, `watched`, `edge`), the registries (`mpip`, `mpmux`, `clients`, `fdOf`),
the mutex of each connection (`owner`), the queues, redis and the table, and
the locals of each thread. `out` records what each peer was sent and is the
history variable of the properties; a row of the table also records for whom
the dispatcher stored it (`for`), which the code never sees. One action is one
critical section, one call of the kernel, redis or SQLite, or one unlocked read:
`my_erase_sockfd_map_recv` is three, the unlocked find and its two erasures.

What is abstracted:

- Sockets carry packets here: a `recv` takes a message, a `send` takes a whole
  one, drops it (EAGAIN), fails, or kills the process (SIGPIPE). `Framing` has
  the bytes.
- `epoll_wait` returns one event at a time. A batch is a sequence of such
  steps; events that arrive while a batch is handled are only seen later in
  the code, and may be seen later here, since nothing forces an event.
- An unlocked read of a registry is one step; the memory of `std::map` and
  `std::vector` under such a read is below this level.
- Redis answers and SQLite executes what is well formed (`Storable`: the
  generator of the statement leaves a comma out when a field is empty) and not
  longer than `MaxTerms`.
- A room's id is overwritten with a member's ip without a terminator: `Clean`
  says for which messages the result is an address, and `Garbled` is what
  nobody has as his address.
- After `exit(1)` nothing is modelled; the pool's destructor then joins the
  dispatchers for ever.

### OfflineStore and Mailbox

`OfflineStore` looks closer at what `Server` takes as three steps. `PutAside`
stands for a lookup that finds nobody or a `send` that fails; `Insert` writes
the statement. What matters of a ciphertext there is where its quotes are: a
single one ends the literal and makes the statement malformed (`WellFormed`), a
doubled one loses a byte (`Unquoted`), and an empty text leaves out a comma.
`Callback` is called for one row after the other; it notes the id in
`sqlite_select_ids` (4096 elements) and appends header and content to
`sqlite_select_mess` (4096 * 2014 bytes), and nothing compares either count with
the size of the array (`Overrun`; what happens after `proc = "corrupt"` is not
followed). A DELETE names every id in one `WHERE ... OR ...`, and SQLite refuses
an expression deeper than `MaxTerms` (1000 by default): such a history is sent
at every login and never deleted (`TooLong`, `DeleteFails`). `Replay` takes
one message out of the buffer by the `protocol_length` in its header. While
`sqlite3_exec` runs its callbacks it holds the mutex of the database handle, so
no INSERT comes between two rows of a SELECT; between SELECT, replay and DELETE
any number may.

`Fault` bounds what goes wrong: the process dies and starts again with the table
and `sqlite_sequence` as they were, or a statement fails. History variables say
what was delivered, delivered again, and sent by a login that did not get it
deleted (`excused`).

`Mailbox` is the abstract specification: items wait; a session tries some of
them; it ends well and forgets those, or badly and forgets nothing. `waiting` is
mapped to the messages of the rows and `tried` to those the present login has
taken out of its buffer.

### Cipher and Framing

DES under the fixed key is a permutation of the blocks (`key`), one of those in
`DesKey`. Padding, the decryption and the C strings around them are as in the
code. A header is `HeadLen` bytes that know the length they carry; both
receivers cut their buffers with their own loop conditions (`>` on the server,
`>=` in the clients) and their own use of `set_data_length`. The server's `send`
takes what the connection has room for; `cut` records that it did not take
everything. Any number of dispatchers pop messages (`Pop`, into `held`) and send
them under the mutex of the connection (`Dispatch`), in two steps, so that one
message may overtake another; `sent` is the history of the order. Both ends stay
connected, and one reader works: the rest is in `Server` and `Client`.

Sender and receiver are each a Linux or a Windows client. The Windows client
converts what is typed from its code page to UTF-8 and back, with a substitute
for what the code page has not; and it copies ciphertext and decrypted text to
the heap without their terminator, so that `strlen` may find some of what lies
behind (`Junk`). A character is one byte in both encodings here.

### Client

`main` connects or not, starts the two threads in either case, and spins. The
threads are detached. On Linux `recv` keeps waiting when another thread closes
the descriptor, and `send` on a reset connection fails or raises SIGPIPE; the
receiver reports the end of the connection in one step and closes the socket in
the next. On
Windows `closesocket` ends a `recv`, the sender leaves the socket open after an
error, and no error ends the receive loop. `exit_flag` is neither atomic nor
volatile: a compiler may read it once (`hoisted`), or, since a loop without
effects may be assumed to end, drop the loop (`removed`, which MSVC does not).
The `build` is chosen in `Init`.

## 3. The runs

Every run sets `CHECK_DEADLOCK FALSE`: the models bound what users do (each
connection is opened once, each message sent once), and a server with nothing
to do waits. "No deadlock" would say something about the bound only; the
liveness properties say what must go on.

### Passing

| Run | Instance | Shows |
|---|---|---|
| `safe_queue` | 1 producer, 2 consumers, 2 values, 4 nodes | memory safety, no lost wake-up, the list invariant, refinement of `Fifo`, every push is popped |
| `thread_pool` | 3 workers, 2 tasks and an endless one | at most once, no stranded task, every task started while the pool runs |
| `server_reconnect` | 2 connections of one ip, 2 descriptors, 1 reader, 1 dispatcher, a message to a room of 2 members and one to a room that does not exist; one connection sends and is reset, the other closes; the DELETE always fails | types, one descriptor for an ip, no mutex stays locked, history to whom it was stored for, logins end |
| `server_store` | 3 connections (two of ip a, one of b), 2 descriptors, 2 readers, 1 dispatcher, 2 messages of b to a | no mutex stays locked with readers that work on stale indexes and descriptors; the history: to whom, in which order, once, what is deleted |
| `framing` | bytes 0 to 2, blocks and headers of 2 bytes, `recv` of at most 3, a socket with room for 8, 2 dispatchers, 3 messages of one or two blocks, both clients at both ends, 2 keys | the stream is taken apart exactly, the buffer is bounded, uncut messages are shown intact and once, though not in the order of typing, every message arrives in `mess_que` (but for a last one without content) |
| `offline_store` | 2 users, 4 messages (three for one user, one of them with a doubled quote, and a malformed one), a DELETE that takes 2 ids, arrays that just hold three rows, 2 faults | the length accounts agree, delivered once but for a fault or a refused DELETE, oldest first, refinement of `Mailbox`, every row of a history one DELETE takes leaves the table |
| `client` | both systems, all builds | the socket is released, "exit" ends, the end of the connection is noticed, SIGPIPE kills nobody whose receiver has closed the socket |

Why the bounds are enough for what they are to show:

- *Queue*: with four nodes and two values a node is freed and allocated again
  while another consumer is between its unlock and its delete; with two
  consumers one waits for `head_mut` behind a sleeper. Several producers exclude
  each other by `tail_mut` from `PushLock` to `Publish`; that any number of them
  keeps the invariants is proved.
- *Pool*: three workers allow one endless task, one worker that sleeps and one
  on its way to the queue.
- *Server*: with two descriptors for two connections in sequence (and three
  connections in `server_store`) descriptors are reused while readers and
  dispatchers still hold the number, and `accept` finds none free. Two
  connections of one ip are what a reconnect needs, one connection of another
  ip what misdelivery needs. Two readers compete for one closed connection and
  its place in `read_clients`. The instances divide what is costly: a room, a
  reset and failing DELETEs in one, the table and two readers in the other.
- *Framing*: `RecvMax` is less than a whole message and more than a header, so
  messages are cut in the header and in the content, and the end of one comes
  with the beginning of the next; the socket holds one long message or two
  short ones and part of another, so sends are short. Two dispatchers let any
  two of the three messages overtake each other. Under the first key
  ciphertexts have no zero byte or begin with one; under the second the zero
  byte of the padding stays, and a full block may get one.
- *Offline store*: two messages for one user make an order and a shift of the
  buffer; with two faults a crash may follow a failed DELETE, or a second crash
  interrupt the login that repairs the first. The third message makes a history
  one DELETE no longer takes, as 1001 rows do in the code, and the arrays hold
  exactly that: the largest history that fits. Longer ones, which overrun the
  arrays, are in the proofs, which hold for any sizes.
- *Client*: complete; nothing is bounded.

Symmetry (of threads of one kind) is used in `server_store` only, where
invariants and a step property are checked and no liveness.

### Violations

Each checks what a comment says and finds the code doing otherwise.

| Run | The comment | What happens |
|---|---|---|
| `pool_stop_hangs` | `thread_pool.h:37`: wakes all threads | `_run` is written without `_lock`; a worker between its test and its sleep misses the only notification, and `join` does not return |
| `dispatcher_ends` | `main.cpp:266`: eight dispatcher threads | a login registers the ip (305) and then the mutex (311); a dispatcher that looks the address up in between breaks out of `while (1)` |
| `message_to_other_ip` | `main.cpp:95`: socket to ip | the descriptor found is closed and given to another user before `send` |
| `shared_buffer` | `main.cpp:460`: copies the received data to the client's buffer | two readers receive into `sock_tmp_buf` before either copies |
| `stale_mutex` | `main.cpp:443`: the registered mutex is also the client's lock | a reader has closed the descriptor of a client that left (533) and not yet erased its mutex (148); the number goes to a new login, whose `emplace` (311) keeps the old mutex, while `main` replays the history under the new client's own; a dispatcher sends to the same client under the old one |

The mutex of the last run may also stay registered for good: when a reconnect
has moved the ip to another descriptor, `my_erase_sockfd_map_recv` of the old
one returns at line 137 and erases nothing (`FindIp`).

The models contain further behaviour of this kind, noted with the hazards: a
history too long for one DELETE, which is sent at every login and grows until it
overruns `sqlite_select_ids` (`DeleteFails`, `Overrun` in `OfflineStore`); a
user's message stored after his login has read the table (`Lookup`, `Insert`;
`EveryRowDelivered` says it leaves the table at a later login), the ip of a user
who is on line again removed from `online_ipset` by the reader of his old
connection (`Srem`), the wrong `ClientSock` dropped by a stale index (`EraseClient`), the ip left in
redis after a failed send (`WorkerEraseIp`, `Srem`), a connection that waits in
the backlog because one edge leads to one `accept` (`Accept`), a short `send`
taken for success (`Dispatch`), a ciphertext cut at its first zero byte
(`Sent`). The passing properties are stated so that they hold together with
these behaviours, and each says what it does not cover.

### Fairness

- *Queue*: a running thread goes on (weak); a thread that competes for a mutex
  gets it if it is free again and again (strong), since every critical section
  is a few instructions. Consumers call `wait_and_pop` in an endless loop, as
  the dispatchers do. Nothing makes a producer push, a consumer call `try_pop`
  or a sleeper wake without a reason.
- *Pool*: the same; a task that is not endless returns. Nothing makes the owner
  commit or destroy.
- *Server*: `main` and the dispatchers go on (weak), and `main` gets the mutex
  of a connection that is free again and again (strong): a dispatcher holds it
  for one non-blocking `send` and the calls of the error path. Nothing is
  assumed of clients, readers or the arrival of connections.
- *Framing*: the server goes on receiving and cutting (weak): the edge of what
  it has not received is reported, and a reader works until EAGAIN.
- *Offline store*: `main` finishes a login it has begun and somebody starts the
  server again (weak); every user logs in again and again (strong, because
  `main` may be busy with somebody else each time he tries). Nothing is assumed
  of dispatchers. That SF on `Login` is an assumption about users, not about the
  code: without it nobody ever asks for his history.
- *Client*: threads run, and the user presses the key that `pause` waits for
  (weak). Nothing makes him type, or the connection end.

## 4. The proofs

TLAPS checks all of them from the assumptions on the constants stated in
`SafeQueueAssumption`, `ThreadPoolAssumption`, `ServerAssumption`,
`StoreAssumption`, `ClientAssumption`, `CipherAssumption` and
`FramingAssumption`: kinds of threads are disjoint, `NULL` is none of the
values, the pool is finite, descriptors are a bounded set of numbers, a header
has at least one byte and a block too. What is typed has no zero byte and is not
empty, there are finitely many texts (one fits in `send_mess`) and finitely many
remains a string may end with on the heap; the code page maps its characters to
different UTF-8 characters. The sets are otherwise arbitrary.

| Theorem | Statement |
|---|---|
| `ListInvariant`, `QueueTypes` | `ListInv` and `TypeOK` of the queue |
| `MemorySafe`, `DummyNotPopped`, `OldHeadIsPrivate` | no use after free, never the dummy, an unlinked node is private |
| `WakeupNotLost` | no consumer sleeps while the queue has an element and no producer is about to notify |
| `RefinesFifo` | `HSpec => F!FSpec` |
| `TasksRunOnce`, `NoTaskStranded`, `PoolTypes` | the invariants of the pool |
| `ServerTypes`, `OneDescriptorPerIp`, `LocksReleased` | `TypeOK`, `UniqueIp`, `NoOrphanLock` |
| `HistoryGoesHome`, `HistoryOrdered`, `NoRowTwice`, `RowsDeletedByLogin` | `HistoryToAddressee`, `HistoryInOrder`, `NoRowReplayedTwice`, `OnlyReplayedRowsDeleted` |
| `StoreTypes`, `NothingIsLeftOver`, `DeliveredOnce`, `HistoryOldestFirst`, `RefinesMailbox` | every safety property of `OfflineStore`, and `Spec => M!MSpec` |
| `ClientTypes`, `SocketIsReleased`, `NoSigpipeAfterClose` | the safety properties of `Client` |
| `RoundTrip`, `TextComesBack` | `des_decrypt` after `des_encrypt` gives the padded text, and as a C string the text |
| `Types`, `NothingLostUplink`, `BufferBound`, `Intact` | every safety property of `Framing`: `TypeOK`, `UplinkExact`, `BufferFits`, `ShownIntact` |

*The list.* That no freed node is reached is not inductive: it needs to know
what the list looks like. `ListInv` says that the nodes from head to tail are
one chain linked by `next`, all but the last filled; that every other node in
use belongs to one thread; and how far the owner of `tail_mut` has got with the
dummy. The chain itself cannot be defined from `next` without recursion, so it
is a history variable that changes where `head` and `tail` are assigned. With
it the refinement is one lemma for each action: `Publish` is a push, `Advance` a
pop, `GetTailNone` the empty answer, and everything else a stutter.

*The pool.* `TaskOnce` needs that a worker has a task exactly while it runs one,
and `NoStrandedTask` that who tests or falls asleep holds `_lock`, and that the
queue is empty when he falls asleep. The count of wake-ups on their way is
compared through cardinalities of finite sets.

*The server.* The invariant is the conjunction of the three properties with
`MainOK` (main has a descriptor while it logs a connection in), `BacklogOK`
(connections in the backlog are distinct and have had no descriptor, so a
connection gets one descriptor, once), `ReadersOK` and `WorkersOK` (which locals
are set at which program counter). `NoOrphanLock` rests on `WorkersOK`: every
path from `lock()`, through a failed send, an erased entry and the insertion,
keeps the mutex it started with, be it the client's or a stale one.

*The history.* That a replay goes to its addressee needs that nobody else's
connection gets the descriptor main is replaying on, and that a dispatcher
stores under the address it is sending to (`for`) while it readdresses one
message to each member of a room. That it is in order needs
that what the login has selected is later than what it has sent, and that all
ids are at most `lastId`, whatever dispatchers insert meanwhile. That no row is
replayed twice needs that two logins do not overlap and that a DELETE removes
what was selected. That only such rows leave the table needs `IdsOK`: from the
SELECT to the DELETE the noted ids are of rows for the address that logs in,
because a row stored meanwhile gets an id greater than all of them.

*The offline store.* The invariant ties the disk to the buffer: ids are distinct
and at most `lastId` (`RowsOK`); a message is with its sender, with a dispatcher
or in the table (`PlacesOK`); `callback()` has seen the smallest ids of the
address (`IdsOK`); what is in the buffer is still in the table (`EntriesOK`) and
ascending, after what has been delivered (`OrderOK`); every message begins where
the one before it ends and the last one ends at `sqlite_select_mess_len`
(`OffsetsOK`); and what has been delivered and is still in the table has been
sent by the login at work, or is excused (`SeenOK`). From `OffsetsOK` the loop
finds a message exactly as long as the buffer has one, so that it ends with
nothing left over; from this and `EntriesOK` what the DELETE removes is what the
login has tried, which is `Forget` of `Mailbox`.

*The clients.* The invariant adds that nothing opens the socket once the threads
run, and that who is about to raise `exit_flag` has closed it.

*The cipher.* Byte `i` of a text is byte `j` of block `q` for exactly one pair
with `i = q * BlockLen + j`, by the uniqueness of quotient and remainder, which
is proved first. Padding then leaves whole blocks alone, encryption maps block
to block, and the inverse of a permutation undoes it.

*The stream.* What was sent is one stream of cells that is cut twice: into
messages, and into what the server has taken, what it has in `sbuf` and what is
still in `up`. `UplinkInv` says that both cuts are of the same stream, so a
buffer that is not empty begins with the header of the next message, and taking
`protocol_length` bytes takes exactly that message; `Reframed` is the same
length because what was sent is a C string and has no zero byte (`Clean`).
`BufferInv` adds that the buffer holds no complete message when `recv` is
called, from which its bound follows; a header without content may stay in it,
since the loop's condition is `>`. `QueueInv` says that `mess_que` is the last
of what was taken and that each dispatcher holds a message from before it;
`OnceInv` that none of those was sent, and none sent twice; `DownlinkInv`, as
long as no `send` was short, says of `down`, `cbuf` and what has been shown,
against the order of sending, what `UplinkInv` says of the way up. `FlattenSeq`, with which `UplinkExact` is stated, chooses a recursive
function; that it does to one message more what is expected is proved without
induction, from the least place at which two such functions could differ. For
`Intact` the messages are then followed through the cipher: bytes that
`strlen` finds behind a ciphertext do not change what the blocks before them
decrypt to, so what is printed begins with what was typed. It is exactly that
between Linux clients, and between any when the last block was padded, because
a zero byte then ends the string.

Model-checked only: the liveness properties (`EveryPushIsPopped`,
`CommittedIsStarted`, `LoginCompletes`, `EveryMessageTaken`,
`EveryRowDelivered`, `ExitEnds`, `EndNoticed`), which are beyond the prover.
Every safety property that a passing run checks is a theorem.

## 5. Not modelled

- Start-up, and redis replies of NULL with the reconnect: with a dead redis the
  code uses a reply it did not get, and there is nothing to state behind that.
- What a restart finds in `online_ipset`: nobody reads that set.
- SQL beyond the quotes of a content: the other fields are written by the
  clients and have none.
- What happens after `callback()` has overrun an array, and after `exit(1)`.
- Data races below the level of a call: `redisContext` used by several threads,
  maps and vectors read while they are changed, `data_mess` written one byte
  past its allocation.
- The value of bytes in a code page: a character is one byte in `Framing`.
- `THREADPOOL_AUTO_GROW`, the futures of `commit`, `traverse_safe_queue`,
  `enc_des`/`dec_des`, `sqlite_update`, the CBC variants, `encode.cpp` and the
  AES, RSA, hiredis and socket samples: not used by the program.

What could be added: the replies of one `redisContext` under several threads,
which needs a model of hiredis, whose source is not part of the repository.
