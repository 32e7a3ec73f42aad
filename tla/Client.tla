-------------------------------- MODULE Client --------------------------------
(***************************************************************************)
(* The life of a client: client_linux.cpp and client_main.cpp (Windows).   *)
(*                                                                         *)
(* main connects, starts a thread that sends what the user types and one   *)
(* that prints what is received, and spins on exit_flag.  The threads      *)
(* share the socket; each of them may close it, at any moment of the       *)
(* other.  On Linux a thread that is inside recv() keeps waiting when the  *)
(* descriptor is closed; a send() to a connection that has been reset may  *)
(* raise SIGPIPE.                                                          *)
(*                                                                         *)
(* exit_flag is a plain int: see LeaveLoop.  What becomes of the bytes of  *)
(* a message is in Framing.                                                *)
(***************************************************************************)
EXTENDS Naturals

CONSTANTS Os,     \* the clients looked at: "linux", "windows"
          Build   \* what the compiler makes of the loop of main:
                  \* "plain", "hoisted", "removed"

ASSUME ClientAssumption ==
    /\ Os \subseteq {"linux", "windows"}
    /\ Build \subseteq {"plain", "hoisted", "removed"}

VARIABLES
    os, build,
    main,        \* "connect", "send_thread", "recv_thread", "loop", "spin",
                 \* "close", "pause"; "ended", "killed": the process is gone
    snd,         \* send_process: "off", "input", "send", "close", "flag", "done"
    rcv,         \* recv_process: "off", "recv", "blocked", "done"; "close":
                 \* it has printed that the connection is gone
    closes,      \* send_process closes the socket before it: "exits", "breaks"
    exit_flag,
    sendfd,      \* "open" or "closed": what a call on it finds
    link         \* the connection: "up", "fin" (the server has closed it), "reset"

program == <<os, build>>
vars == <<program, main, snd, rcv, closes, exit_flag, sendfd, link>>

Running == main \notin {"ended", "killed"}

Init ==
    /\ os \in Os /\ build \in Build
    /\ build = "removed" => os = "linux"
    /\ main = "connect"
    /\ snd = "off" /\ rcv = "off" /\ closes = "breaks"
    /\ exit_flag = 0
    /\ sendfd = "closed"
    /\ link = "up"

-----------------------------------------------------------------------------
(* main *)

Connect ==
    /\ main = "connect"
    /\ main' = "send_thread"
    /\ sendfd' = "open"
    /\ UNCHANGED <<program, snd, rcv, closes, exit_flag, link>>

\* socket() or connect() fails, and the socket is closed.  The error is
\* printed, and the client goes on.
ConnectFails ==
    /\ os = "linux"
    /\ main = "connect"
    /\ main' = "send_thread"
    /\ UNCHANGED <<program, snd, rcv, closes, exit_flag, sendfd, link>>

\* WSACleanup() takes the socket with it: all calls fail from here on.
ConnectFailsWindows ==
    /\ os = "windows"
    /\ main = "connect"
    /\ main' = "send_thread"
    /\ UNCHANGED <<program, snd, rcv, closes, exit_flag, sendfd, link>>

\* The threads are detached: nothing waits for them.
StartSender ==
    /\ main = "send_thread"
    /\ main' = "recv_thread"
    /\ snd' = "input"
    /\ UNCHANGED <<program, rcv, closes, exit_flag, sendfd, link>>

StartReceiver ==
    /\ main = "recv_thread"
    /\ main' = "loop"
    /\ rcv' = "recv"
    /\ UNCHANGED <<program, snd, closes, exit_flag, sendfd, link>>

\* while (!exit_flag) {}: nobody has told the compiler that another thread
\* writes exit_flag.  It may read the variable once, before the loop; or, since
\* a loop without effects may be taken to end, leave the loop out.
LeaveLoop ==
    /\ \/ main = "loop" /\ (exit_flag = 1 \/ build = "removed")
       \/ main = "spin" /\ exit_flag = 1 /\ build = "plain"
    /\ main' = "close"
    /\ UNCHANGED <<program, snd, rcv, closes, exit_flag, sendfd, link>>

Spin ==
    /\ main = "loop" /\ exit_flag = 0 /\ build # "removed"
    /\ main' = "spin"
    /\ UNCHANGED <<program, snd, rcv, closes, exit_flag, sendfd, link>>

\* The socket is closed a second time, which finds no descriptor.
CloseAgain ==
    /\ main = "close"
    /\ main' = "pause"
    /\ sendfd' = "closed"
    /\ UNCHANGED <<program, snd, rcv, closes, exit_flag, link>>

\* system("pause"): no command on Linux, a key on Windows.  When main returns
\* the process ends, with the threads wherever they are.
Return ==
    /\ main = "pause"
    /\ main' = "ended"
    /\ UNCHANGED <<program, snd, rcv, closes, exit_flag, sendfd, link>>

-----------------------------------------------------------------------------
(* send_process *)

Type ==
    /\ Running
    /\ snd = "input"
    /\ snd' = "send"
    /\ UNCHANGED <<program, main, rcv, closes, exit_flag, sendfd, link>>

TypeExit ==
    /\ Running
    /\ snd = "input"
    /\ snd' = "close"
    /\ closes' = "exits"
    /\ UNCHANGED <<program, main, rcv, exit_flag, sendfd, link>>

\* The kernel takes it, also when the server has closed its end and will answer
\* with a reset.
Sends ==
    /\ Running
    /\ snd = "send"
    /\ sendfd = "open" /\ link # "reset"
    /\ snd' = "input"
    /\ UNCHANGED <<program, main, rcv, closes, exit_flag, sendfd, link>>

SendFails == Running /\ snd = "send" /\ (sendfd = "closed" \/ link = "reset")

SendError ==
    /\ os = "linux"
    /\ SendFails
    /\ snd' = "close"
    /\ UNCHANGED <<program, main, rcv, closes, exit_flag, sendfd, link>>

\* Nobody ignores SIGPIPE.
SendKilled ==
    /\ os = "linux"
    /\ SendFails
    /\ sendfd = "open"
    /\ main' = "killed"
    /\ UNCHANGED <<program, snd, rcv, closes, exit_flag, sendfd, link>>

\* On Windows the socket stays open.
SendErrorWindows ==
    /\ os = "windows"
    /\ SendFails
    /\ snd' = "done"
    /\ UNCHANGED <<program, main, rcv, closes, exit_flag, sendfd, link>>

\* Mutant: exit_flag is set, and left to main to close.
SenderClosesLate ==
    /\ Running
    /\ snd = "close"
    /\ snd' = IF closes = "exits" THEN "flag" ELSE "done"
    /\ UNCHANGED <<program, main, rcv, closes, exit_flag, sendfd, link>>

SenderCloses ==
    /\ Running
    /\ snd = "close"
    /\ sendfd' = "closed"
    /\ snd' = IF closes = "exits" THEN "flag" ELSE "done"
    /\ UNCHANGED <<program, main, rcv, closes, exit_flag, link>>

\* Mutant: exit_flag is not set.
SetNothing ==
    /\ Running
    /\ snd = "flag"
    /\ snd' = "done"
    /\ UNCHANGED <<program, main, rcv, closes, exit_flag, sendfd, link>>

SetExitFlag ==
    /\ Running
    /\ snd = "flag"
    /\ exit_flag' = 1
    /\ snd' = "done"
    /\ UNCHANGED <<program, main, rcv, closes, sendfd, link>>

-----------------------------------------------------------------------------
(* recv_process.  A recv() that brings data leaves all this as it is. *)

Receive ==
    /\ Running
    /\ rcv = "recv"
    /\ sendfd = "open"
    /\ rcv' = "blocked"
    /\ UNCHANGED <<program, main, snd, closes, exit_flag, sendfd, link>>

\* Mutant: the socket is not closed at the end of file.
EndOfFileNotClosed ==
    /\ Running /\ os = "linux"
    /\ rcv = "blocked" /\ link = "fin"
    /\ rcv' = "done"
    /\ UNCHANGED <<program, main, snd, closes, exit_flag, sendfd, link>>

\* The end is printed first, and the socket closed in another step.
EndOfFile ==
    /\ Running /\ os = "linux"
    /\ rcv = "blocked" /\ link = "fin"
    /\ rcv' = "close"
    /\ UNCHANGED <<program, main, snd, closes, exit_flag, sendfd, link>>

\* On Windows it is not.
EndOfFileWindows ==
    /\ Running /\ os = "windows"
    /\ rcv = "blocked" /\ link = "fin"
    /\ rcv' = "done"
    /\ UNCHANGED <<program, main, snd, closes, exit_flag, sendfd, link>>

\* Mutant: errors do not end the loop, as on Windows.
ReceiveAgain ==
    /\ Running /\ os = "linux"
    /\ \/ rcv = "blocked" /\ link = "reset"
       \/ rcv = "recv" /\ sendfd = "closed"
    /\ rcv' = "recv"
    /\ UNCHANGED <<program, main, snd, closes, exit_flag, sendfd, link>>

\* recv() finds the connection reset, or the descriptor closed.  The socket
\* blocks and no handler interrupts it, so EAGAIN and EINTR do not occur.  The
\* error is printed, and the socket still open.
ReceiveError ==
    /\ Running /\ os = "linux"
    /\ \/ rcv = "blocked" /\ link = "reset"
       \/ rcv = "recv" /\ sendfd = "closed"
    /\ rcv' = "close"
    /\ UNCHANGED <<program, main, snd, closes, exit_flag, sendfd, link>>

\* On Windows closesocket() ends a recv() of another thread; and no error ends
\* the loop: errno is not what Winsock sets.
ReceiveErrorWindows ==
    /\ Running /\ os = "windows"
    /\ rcv = "blocked" /\ (link = "reset" \/ sendfd = "closed")
    /\ rcv' = "recv"
    /\ UNCHANGED <<program, main, snd, closes, exit_flag, sendfd, link>>

\* Mutant: the receiver counts itself into exit_flag, so that main leaves.
ReceiverClosesAndCounts ==
    /\ Running
    /\ rcv = "close"
    /\ sendfd' = "closed"
    /\ exit_flag' = exit_flag + 1
    /\ rcv' = "done"
    /\ UNCHANGED <<program, main, snd, closes, link>>

ReceiverCloses ==
    /\ Running
    /\ rcv = "close"
    /\ sendfd' = "closed"
    /\ rcv' = "done"
    /\ UNCHANGED <<program, main, snd, closes, exit_flag, link>>

-----------------------------------------------------------------------------
(* The server closes the connection, or it breaks. *)

Fin ==
    /\ Running /\ main # "connect" /\ link = "up"
    /\ link' = "fin"
    /\ UNCHANGED <<program, main, snd, rcv, closes, exit_flag, sendfd>>

Reset ==
    /\ Running /\ main # "connect" /\ link # "reset"
    /\ link' = "reset"
    /\ UNCHANGED <<program, main, snd, rcv, closes, exit_flag, sendfd>>

Main ==
    \/ Connect \/ ConnectFails \/ ConnectFailsWindows
    \/ StartSender \/ StartReceiver
    \/ LeaveLoop \/ Spin \/ CloseAgain \/ Return

Sender ==
    \/ Sends \/ SendError \/ SendKilled \/ SendErrorWindows
    \/ SenderCloses \/ SetExitFlag

Receiver ==
    \/ Receive
    \/ EndOfFile \/ EndOfFileWindows
    \/ ReceiveError \/ ReceiveErrorWindows
    \/ ReceiverCloses

Next == Main \/ Type \/ TypeExit \/ Sender \/ Receiver \/ Fin \/ Reset

(***************************************************************************)
(* Fairness: threads run, and the user presses the key of pause.  Nothing  *)
(* makes the user type.                                                    *)
(***************************************************************************)
Spec == Init /\ [][Next]_vars
FairSpec == Spec /\ WF_vars(Main) /\ WF_vars(Sender) /\ WF_vars(Receiver)

-----------------------------------------------------------------------------
(* Types. *)
TypeOK ==
    /\ os \in Os /\ build \in Build
    /\ main \in {"connect", "send_thread", "recv_thread", "loop", "spin",
                 "close", "pause", "ended", "killed"}
    /\ snd \in {"off", "input", "send", "close", "flag", "done"}
    /\ rcv \in {"off", "recv", "blocked", "close", "done"}
    /\ closes \in {"exits", "breaks"}
    /\ exit_flag \in {0, 1}
    /\ sendfd \in {"open", "closed"}
    /\ link \in {"up", "fin", "reset"}

\* A user who types "exit" gets out, wherever the three threads are: one may be
\* waiting in recv() on the socket that is closed.  Of a build that does not read
\* exit_flag again this does not hold.
ExitEnds ==
    build = "plain" /\ snd = "close" /\ closes = "exits" ~> main = "ended"

\* The socket is closed before exit_flag tells main that the client leaves; and
\* on Linux no thread leaves the process behind with a dead connection open,
\* though main spins on when both have ended without "exit".
SocketReleased ==
    /\ exit_flag = 1 => sendfd = "closed"
    /\ os = "linux" /\ (snd = "done" \/ rcv = "done") => sendfd = "closed"

\* Once recv_process has closed the socket of a dead connection, a user who
\* goes on typing gets an error and is not thrown out by SIGPIPE.  Between its
\* message that the connection is gone and the close() he still may be.
NotKilledAfterClose == [][main' = "killed" => rcv # "done"]_vars

\* The end of the connection ends recv_process, also when send_process closes the
\* socket at the same time.  On Windows only the end of file does: after a reset,
\* or closed by the other thread, it calls recv() for ever.
EndNoticed ==
    rcv # "off" /\ link # "up"
        ~> \/ rcv = "done" \/ ~Running
           \/ os = "windows" /\ (link = "reset" \/ sendfd = "closed")
=============================================================================
