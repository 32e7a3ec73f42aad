------------------------------- MODULE Framing -------------------------------
(***************************************************************************)
(* What becomes of the messages of one client on their way to another:     *)
(*                                                                         *)
(*   send_process -> up -> handle_read_sock -> messq -> handle_mess_que    *)
(*                -> down -> recv_process                                  *)
(*                                                                         *)
(* up and down are TCP streams of bytes.  A message is a TranMessage, sent *)
(* as a header of HeadLen bytes that holds protocol_length, and protocol_  *)
(* length - HeadLen bytes of content: the C string of the ciphertext.  The *)
(* receivers cut the stream into messages again: the server in the buffer  *)
(* of its ClientSock (sbuf), the client in data_buff (cbuf).               *)
(*                                                                         *)
(* Either client may be the one for Linux or the one for Windows: theirs   *)
(* are the same loops, but the Windows client converts texts from and to   *)
(* its code page, and does not terminate two of its strings.               *)
(*                                                                         *)
(* Several threads dispatch, so two messages may overtake each other       *)
(* between mess_que and the socket.  One thread reads the connection: what *)
(* several do with one shared buffer is in Server.  Both ends stay         *)
(* connected.  The client's socket blocks, so send() takes a whole         *)
(* message; the server's does not, so it takes what the peer's window and  *)
(* the socket's buffer have room for.                                      *)
(***************************************************************************)
EXTENDS Cipher, Functions, FiniteSetsExt

CONSTANTS
    HeadLen,   \* sizeof(TranMessage)
    RecvMax,   \* sizeof(sock_tmp_buf)
    SockBuf,   \* bytes the connection to the receiver holds at most
    Text,      \* what a user may type on Linux, in UTF-8
    GbkText,   \* what he may type on Windows
    Utf8,      \* the characters of the Windows code page, and what they are in
               \* UTF-8; a character is one byte here, in both
    Substitute,\* what the code page has instead of other characters
    Junk,      \* what may lie on the heap behind a string
    DesKey,    \* the keys looked at
    Dispatchers, \* how many threads run handle_mess_que
    MaxSend    \* bound on the number of messages

ASSUME FramingAssumption ==
    /\ HeadLen \in Nat \ {0} /\ RecvMax \in Nat \ {0}
    /\ SockBuf \in Nat /\ MaxSend \in Nat /\ Dispatchers \in Nat \ {0}
    /\ \A t \in Text : t # <<>> /\ t \in Seq(Byte \ {0})
    /\ \A t \in GbkText : t # <<>> /\ t \in Seq(DOMAIN Utf8)
    /\ IsInjective(Utf8) /\ Range(Utf8) \subseteq Byte \ {0}
    /\ DOMAIN Utf8 \subseteq Nat /\ Substitute \in Nat \ DOMAIN Utf8
    /\ \A j \in Junk : j \in Seq(Byte \ {0})
    /\ \A k \in DesKey : k \in Key
    \* A text fits in send_mess, a string in the heap.
    /\ \A S \in {Text, GbkText, Junk} : IsFiniteSet(S) /\ S # {}

VARIABLES
    from, to,     \* the clients: "linux", "windows"
    key,          \* the permutation that DES is under des_key
    typed,        \* history: the texts typed, and their contents as sent
    up,           \* bytes sent and not yet received by the server
    srv, sbuf,    \* server: "recv" or "frame", and client_msg_buf
    taken,        \* history: the contents of the messages pushed
    messq,        \* mess_que: [len, content], and n, the place in taken
    held,         \* what the dispatchers have popped and not yet sent
    sent,         \* history: the places of the messages, in the order sent
    down,         \* bytes sent to the receiving client
    cut,          \* history: some message was not sent as a whole
    cli, cbuf,    \* client: "recv", "frame" or "lost", and data_buff
    shown         \* the texts printed

setting  == <<from, to, key>>
sender   == <<setting, typed>>
server   == <<srv, sbuf, taken>>
queue    == <<messq, held, sent>>
receiver == <<cli, cbuf, shown>>
vars == <<sender, up, server, queue, down, cut, receiver>>

Init ==
    /\ from \in {"linux", "windows"} /\ to \in {"linux", "windows"}
    /\ key \in DesKey
    /\ typed = <<>>
    /\ up = <<>>
    /\ srv = "recv" /\ sbuf = <<>> /\ taken = <<>>
    /\ messq = <<>> /\ held = {} /\ sent = <<>>
    /\ down = <<>>
    /\ cut = FALSE
    /\ cli = "recv" /\ cbuf = <<>> /\ shown = <<>>

-----------------------------------------------------------------------------
(* The bytes.  A byte of a header knows its place and the protocol_length. *)

\* Mutant: a compiler packs the sender's struct differently.
HeaderPadded(len) ==
    [i \in 1..(HeadLen + 1) |-> [tag |-> "head", at |-> i, val |-> len]]

Header(len) == [i \in 1..HeadLen |-> [tag |-> "head", at |-> i, val |-> len]]

Data(s) == [i \in 1..Len(s) |-> [tag |-> "data", at |-> 0, val |-> s[i]]]

\* The first protocol_length bytes of header and content.
Packet(len, s) == SubSeq(Header(len) \o Data(s), 1, len)

ProtocolLength(buffer) == buffer[1].val

\* The bytes from HeadLen on, up to protocol_length.
Content(buffer) ==
    LET cells == SubSeq(buffer, HeadLen + 1, ProtocolLength(buffer))
    IN [i \in 1..Len(cells) |-> cells[i].val]

From(s, n) == SubSeq(s, n + 1, Len(s))

Least(m, n) == IF m <= n THEN m ELSE n

-----------------------------------------------------------------------------
(* send_process *)

\* The conversions of the Windows client.
G2U(text) == [i \in 1..Len(text) |-> Utf8[text[i]]]

U2G(s) ==
    [i \in 1..Len(s) |->
        IF s[i] \in Range(Utf8)
        THEN CHOOSE c \in DOMAIN Utf8 : Utf8[c] = s[i]
        ELSE Substitute]

\* A string that is copied to the heap without its terminator ends at a zero
\* byte of its own, or where the heap happens to have one.
Unterminated(s) == IF CStr(s) = s THEN {s \o j : j \in Junk} ELSE {CStr(s)}

\* enc_str as strlen() measures it.
EncStr(text) == {CStr(des_encrypt(text, key))}
EncStrWindows(text) == Unterminated(des_encrypt(G2U(text), key))

\* What the user may type, and what may be sent of it.
Typeable == IF from = "linux" THEN Text ELSE GbkText
Contents(text) == IF from = "linux" THEN EncStr(text) ELSE EncStrWindows(text)

Sent(content) == Packet(HeadLen + Len(content), content)

Send ==
    /\ Len(typed) < MaxSend
    /\ \E text \in Typeable : \E content \in Contents(text) :
          /\ typed' = Append(typed, [text |-> text, content |-> content])
          /\ up' = up \o Sent(content)
    /\ UNCHANGED <<setting, server, queue, down, cut, receiver>>

-----------------------------------------------------------------------------
(* handle_read_sock: recv() as much as there is, at most RecvMax; append   *)
(* it to the buffer; take the complete messages out of the buffer.         *)

ServerRecv ==
    /\ srv = "recv"
    /\ \E n \in 1..Least(RecvMax, Len(up)) :
          /\ sbuf' = sbuf \o SubSeq(up, 1, n)
          /\ up' = From(up, n)
    /\ srv' = "frame"
    /\ UNCHANGED <<sender, taken, queue, down, cut, receiver>>

\* while (cur_msgbuf_len > sizeof(TranMessage)): one byte more than a header.
ServerHas ==
    Len(sbuf) > HeadLen /\ Len(sbuf) >= ProtocolLength(sbuf)

\* set_data_length() rewrites the length in the buffer before it is used to
\* remove the message.
Reframed == HeadLen + Len(CStr(Content(sbuf)))

\* The message as it is pushed to mess_que.
Pushed ==
    [n |-> Len(taken) + 1, len |-> Reframed, content |-> CStr(Content(sbuf))]

\* Mutant: what follows the message in the buffer is thrown away.
ServerFrameAll ==
    /\ srv = "frame"
    /\ ServerHas
    /\ messq' = Append(messq, Pushed)
    /\ taken' = Append(taken, CStr(Content(sbuf)))
    /\ sbuf' = <<>>
    /\ UNCHANGED <<sender, up, srv, held, sent, down, cut, receiver>>

ServerFrame ==
    /\ srv = "frame"
    /\ ServerHas
    /\ messq' = Append(messq, Pushed)
    /\ taken' = Append(taken, CStr(Content(sbuf)))
    /\ sbuf' = From(sbuf, Reframed)
    /\ UNCHANGED <<sender, up, srv, held, sent, down, cut, receiver>>

\* Mutant: the loop may be left with a message still in the buffer.
ServerDoneEarly ==
    /\ srv = "frame"
    /\ srv' = "recv"
    /\ UNCHANGED <<sender, up, sbuf, taken, queue, down, cut, receiver>>

ServerDone ==
    /\ srv = "frame"
    /\ ~ServerHas
    /\ srv' = "recv"
    /\ UNCHANGED <<sender, up, sbuf, taken, queue, down, cut, receiver>>

-----------------------------------------------------------------------------
(* handle_mess_que *)

\* wait_and_pop(), by one of the dispatchers that have nothing in hand.
Pop ==
    /\ messq # <<>>
    /\ Cardinality(held) < Dispatchers
    /\ held' = held \cup {Head(messq)}
    /\ messq' = Tail(messq)
    /\ UNCHANGED <<sender, up, server, sent, down, cut, receiver>>

\* One send() under the mutex of the connection.  If it takes a part of the
\* message, that counts as sent; if it takes nothing (EAGAIN), the message is
\* dropped.
Dispatch ==
    \E m \in held :
       LET n == Least(SockBuf - Len(down), m.len)
       IN /\ down' = down \o SubSeq(Packet(m.len, m.content), 1, n)
          /\ cut' = (cut \/ n < m.len)
          /\ sent' = Append(sent, m.n)
          /\ held' = held \ {m}
          /\ UNCHANGED <<sender, up, server, messq, receiver>>

-----------------------------------------------------------------------------
(* recv_process *)

ClientRecv ==
    /\ cli = "recv"
    /\ \E n \in 1..Least(RecvMax, Len(down)) :
          /\ cbuf' = cbuf \o SubSeq(down, 1, n)
          /\ down' = From(down, n)
    /\ cli' = "frame"
    /\ UNCHANGED <<sender, up, server, queue, cut, shown>>

\* The buffer starts with a header, and content follows as far as it goes.
Torn ==
    \/ SubSeq(cbuf, 1, HeadLen) # Header(ProtocolLength(cbuf))
    \/ \E i \in HeadLen+1 .. Least(ProtocolLength(cbuf), Len(cbuf)) :
          cbuf[i].tag # "data"

\* while (data_buff_cur_len >= sizeof(TranMessage)): unlike the server.
ClientHas ==
    Len(cbuf) >= HeadLen /\ Len(cbuf) >= ProtocolLength(cbuf)

\* What is printed: dec_str, on Windows without a terminator and converted.
DecStr == {CStr(des_decrypt(CStr(Content(cbuf)), key))}
DecStrWindows ==
    {U2G(s) : s \in Unterminated(des_decrypt(CStr(Content(cbuf)), key))}

Printed == IF to = "linux" THEN DecStr ELSE DecStrWindows

\* Mutant: the length of the decrypted text is used to remove the message.
ClientFrameByText ==
    /\ cli = "frame"
    /\ ClientHas
    /\ ~Torn
    /\ \E text \in Printed :
          /\ shown' = Append(shown, text)
          /\ cbuf' = From(cbuf, HeadLen + Len(text))
    /\ UNCHANGED <<sender, up, server, queue, down, cut, cli>>

\* old_protocol_length, read before set_data_length(), removes the message.
ClientFrame ==
    /\ cli = "frame"
    /\ ClientHas
    /\ ~Torn
    /\ \E text \in Printed : shown' = Append(shown, text)
    /\ cbuf' = From(cbuf, ProtocolLength(cbuf))
    /\ UNCHANGED <<sender, up, server, queue, down, cut, cli>>

\* Bytes of a header are taken for content, or the other way round: from here
\* on the client prints, waits or crashes as the bytes fall.
ClientMisreads ==
    /\ cli = "frame"
    /\ Len(cbuf) >= HeadLen
    /\ Torn
    /\ cli' = "lost"
    /\ UNCHANGED <<sender, up, server, queue, down, cut, cbuf, shown>>

ClientDone ==
    /\ cli = "frame"
    /\ ~ClientHas
    /\ cli' = "recv"
    /\ UNCHANGED <<sender, up, server, queue, down, cut, cbuf, shown>>

-----------------------------------------------------------------------------
Next ==
    \/ Send
    \/ ServerRecv \/ ServerFrame \/ ServerDone
    \/ Pop \/ Dispatch
    \/ ClientRecv \/ ClientFrame \/ ClientMisreads \/ ClientDone

Spec == Init /\ [][Next]_vars

(***************************************************************************)
(* Fairness: the server goes on reading what has arrived: the edge of the  *)
(* bytes it has not read is reported, and a pool thread reads until EAGAIN.*)
(***************************************************************************)
FairSpec == Spec /\ WF_vars(ServerRecv \/ ServerFrame \/ ServerDone)

-----------------------------------------------------------------------------
Message == [n : Nat, len : Nat, content : Seq(Byte)]

Cell == [tag : {"head", "data"}, at : 0..HeadLen, val : Nat]

(* Types. *)
TypeOK ==
    /\ from \in {"linux", "windows"} /\ to \in {"linux", "windows"}
    /\ key \in DesKey
    /\ typed \in Seq([text : Typeable, content : Seq(Byte)])
    /\ up \in Seq(Cell) /\ down \in Seq(Cell)
    /\ srv \in {"recv", "frame"} /\ sbuf \in Seq(Cell)
    /\ taken \in Seq(Seq(Byte))
    /\ messq \in Seq(Message) /\ held \in SUBSET Message
    /\ sent \in Seq(Nat)
    /\ cut \in BOOLEAN
    /\ cli \in {"recv", "frame", "lost"} /\ cbuf \in Seq(Cell)
    /\ shown \in Seq(Seq(Nat))

\* However the stream is cut, the messages the server has taken out of it, and
\* the bytes it still has to take apart, are those the client sent: the buffer
\* always begins with a message, no byte is lost, none belongs to two messages.
UplinkExact ==
    FlattenSeq([i \in 1..Len(typed) |-> Sent(typed[i].content)]) =
        FlattenSeq([i \in 1..Len(taken) |-> Sent(taken[i])]) \o sbuf \o up

\* The client's buffer on the server (client_msg_buf) never has to hold more
\* than one recv() and an incomplete message, or a header without content.
Longest == Max({Len(content) : content \in UNION {Contents(t) : t \in Typeable}})

BufferFits ==
    Len(sbuf) <= HeadLen + (IF Longest = 0 THEN 0 ELSE Longest - 1) + RecvMax

\* Every message that has content, or is followed by another one, is pushed to
\* mess_que in the end.
EveryMessageTaken ==
    \A i \in 1..MaxSend :
        (Len(typed) >= i /\ (Len(typed) > i \/ typed[i].content # <<>>))
            ~> Len(taken) >= i

\* What the receiver should read.
Wire(text)  == IF from = "linux" THEN text ELSE G2U(text)
Screen(s)   == IF to = "linux" THEN s ELSE U2G(s)
Intended(i) == Screen(Wire(typed[i].text))
HasZero(s)  == CStr(s) # s

\* As long as the kernel takes every message as a whole, the stream is never
\* misread: what the receiver prints is messages that were typed, each at most
\* once, in the order in which the dispatchers sent them.  Except for the texts
\* whose ciphertext contains a zero byte he reads them as they were typed:
\* between Linux clients exactly; if a Windows client is one of them, exactly if
\* the last block of the text is padded, else perhaps with something behind it.
ShownIntact ==
    ~cut =>
    /\ cli # "lost"
    /\ IsInjective(sent) /\ Range(sent) \subseteq 1..Len(typed)
    /\ Len(shown) <= Len(sent)
    /\ \A i \in 1..Len(shown) :
          HasZero(des_encrypt(Wire(typed[sent[i]].text), key)) \/
             /\ IsPrefix(Intended(sent[i]), shown[i])
             /\ ({from, to} = {"linux"} \/
                 Len(typed[sent[i]].text) % BlockLen # 0)
                   => shown[i] = Intended(sent[i])

=============================================================================
