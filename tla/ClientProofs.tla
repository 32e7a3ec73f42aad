----------------------------- MODULE ClientProofs -----------------------------
(* What is proved of Client, for both systems and every build. *)
EXTENDS Client, TLAPS

\* main is in front of its loop exactly as long as a thread has not been
\* started: nothing opens the socket again once the threads run.
Phases ==
    /\ main \in {"connect", "send_thread"} => snd = "off"
    /\ main \in {"connect", "send_thread", "recv_thread"} => rcv = "off"
    /\ main = "connect" => sendfd = "closed"

\* Who is about to raise the flag has closed the socket.
ClosedFirst ==
    /\ snd = "flag" => sendfd = "closed"
    /\ exit_flag = 1 => sendfd = "closed" /\ snd = "done"

IInv == TypeOK /\ Phases /\ ClosedFirst /\ SocketReleased

LEMMA InitIInv == Init => IInv
  BY ClientAssumption DEF Init, IInv, TypeOK, Phases, ClosedFirst, SocketReleased

LEMMA MainIInv ==
  ASSUME IInv, Main
  PROVE  IInv'
<1>1. CASE Connect
  BY <1>1 DEF IInv, TypeOK, Phases, ClosedFirst, SocketReleased, Connect, program
<1>2. CASE ConnectFails \/ ConnectFailsWindows
  BY <1>2 DEF IInv, TypeOK, Phases, ClosedFirst, SocketReleased,
      ConnectFails, ConnectFailsWindows, program
<1>3. CASE StartSender
  BY <1>3 DEF IInv, TypeOK, Phases, ClosedFirst, SocketReleased, StartSender, program
<1>4. CASE StartReceiver
  BY <1>4 DEF IInv, TypeOK, Phases, ClosedFirst, SocketReleased, StartReceiver, program
<1>5. CASE LeaveLoop \/ Spin
  BY <1>5 DEF IInv, TypeOK, Phases, ClosedFirst, SocketReleased, LeaveLoop, Spin, program
<1>6. CASE CloseAgain \/ Return
  BY <1>6 DEF IInv, TypeOK, Phases, ClosedFirst, SocketReleased, CloseAgain, Return, program
<1> QED
  BY <1>1, <1>2, <1>3, <1>4, <1>5, <1>6 DEF Main

\* The sender's threads can only act once they run, when main has connected.
LEMMA SenderIInv ==
  ASSUME IInv, Sender \/ Type \/ TypeExit
  PROVE  IInv'
<1>1. CASE Type \/ TypeExit \/ Sends
  BY <1>1 DEF IInv, TypeOK, Phases, ClosedFirst, SocketReleased,
      Type, TypeExit, Sends, program
<1>2. CASE SendError \/ SendKilled \/ SendErrorWindows
  BY <1>2 DEF IInv, TypeOK, Phases, ClosedFirst, SocketReleased,
      SendError, SendKilled, SendErrorWindows, SendFails, program
<1>3. CASE SenderCloses
  BY <1>3 DEF IInv, TypeOK, Phases, ClosedFirst, SocketReleased, SenderCloses, program
<1>4. CASE SetExitFlag
  BY <1>4 DEF IInv, TypeOK, Phases, ClosedFirst, SocketReleased, SetExitFlag, program
<1> QED
  BY <1>1, <1>2, <1>3, <1>4 DEF Sender

LEMMA ReceiverIInv ==
  ASSUME IInv, Receiver
  PROVE  IInv'
<1>1. CASE Receive
  BY <1>1 DEF IInv, TypeOK, Phases, ClosedFirst, SocketReleased, Receive, program
<1>2. CASE EndOfFile \/ EndOfFileWindows
  BY <1>2 DEF IInv, TypeOK, Phases, ClosedFirst, SocketReleased,
      EndOfFile, EndOfFileWindows, program
<1>3. CASE ReceiveError \/ ReceiveErrorWindows
  BY <1>3 DEF IInv, TypeOK, Phases, ClosedFirst, SocketReleased,
      ReceiveError, ReceiveErrorWindows, program
<1>4. CASE ReceiverCloses
  BY <1>4 DEF IInv, TypeOK, Phases, ClosedFirst, SocketReleased, ReceiverCloses, program
<1> QED
  BY <1>1, <1>2, <1>3, <1>4 DEF Receiver

LEMMA NextIInv == IInv /\ [Next]_vars => IInv'
<1> SUFFICES ASSUME IInv, [Next]_vars PROVE IInv'
  OBVIOUS
<1>1. CASE Fin \/ Reset
  BY <1>1 DEF IInv, TypeOK, Phases, ClosedFirst, SocketReleased, Fin, Reset, program
<1>2. CASE UNCHANGED vars
  BY <1>2 DEF IInv, TypeOK, Phases, ClosedFirst, SocketReleased, vars, program
<1> QED
  BY <1>1, <1>2, MainIInv, SenderIInv, ReceiverIInv DEF Next

LEMMA IInvHolds == Spec => []IInv
  BY InitIInv, NextIInv, PTL DEF Spec

\* The variables of a client, in every build on both systems, keep their types
\* through connects that fail, ends of the connection and exits.
THEOREM ClientTypes == Spec => []TypeOK
<1>1. IInv => TypeOK
  BY DEF IInv
<1> QED
  BY <1>1, IInvHolds, PTL

\* The socket is closed before exit_flag is raised, and on Linux no thread ends
\* and leaves it open.
THEOREM SocketIsReleased == Spec => []SocketReleased
<1>1. IInv => SocketReleased
  BY DEF IInv
<1> QED
  BY <1>1, IInvHolds, PTL

\* Once recv_process has closed the socket of a dead connection, SIGPIPE cannot
\* end the client.  Nothing of the kind holds between the moment it prints the
\* end (client_linux.cpp:250, 262) and the close().
THEOREM NoSigpipeAfterClose == Spec => NotKilledAfterClose
<1>1. IInv /\ [Next]_vars => [main' = "killed" => rcv # "done"]_vars
  <2> SUFFICES ASSUME IInv, Next, main' = "killed" PROVE rcv # "done" \/ UNCHANGED vars
    OBVIOUS
  <2>1. CASE SendKilled
    BY <2>1 DEF SendKilled, IInv, SocketReleased
  <2>2. CASE ~SendKilled /\ main # "killed"
    BY <2>2 DEF Next, Main, Sender, Receiver, Connect, ConnectFails,
        ConnectFailsWindows, StartSender, StartReceiver, LeaveLoop, Spin,
        CloseAgain, Return, Type, TypeExit, Sends, SendError, SendErrorWindows,
        SenderCloses, SetExitFlag, Receive, EndOfFile, EndOfFileWindows,
        ReceiveError, ReceiveErrorWindows, ReceiverCloses, Fin, Reset
  <2>3. CASE main = "killed"
    BY <2>3 DEF Next, Main, Sender, Receiver, Running, Connect, ConnectFails,
        ConnectFailsWindows, StartSender, StartReceiver, LeaveLoop, Spin,
        CloseAgain, Return, Type, TypeExit, Sends, SendFails, SendError,
        SendKilled, SendErrorWindows, SenderCloses, SetExitFlag, Receive,
        EndOfFile, EndOfFileWindows, ReceiveError, ReceiveErrorWindows,
        ReceiverCloses, Fin, Reset
  <2> QED
    BY <2>1, <2>2, <2>3
<1> QED
  BY <1>1, IInvHolds, PTL DEF Spec, NotKilledAfterClose
=============================================================================
