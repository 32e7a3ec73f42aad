------------------------------- MODULE Mailbox -------------------------------
(***************************************************************************)
(* What the table tmp_mess is for, whatever SQLite, the sockets and the    *)
(* process do: a message that was put aside waits, a session of its        *)
(* addressee tries to hand it over, and it is forgotten only by a session  *)
(* that has tried it.  A session that is cut short forgets nothing.        *)
(* OfflineStore shows that the code implements this.                       *)
(***************************************************************************)
CONSTANT Item     \* what can be put aside

VARIABLES waiting,  \* put aside and not yet forgotten
          tried     \* handed over, or lost, by the present session

mvars == <<waiting, tried>>

MInit == waiting = {} /\ tried = {}

Put(item) ==
    /\ waiting' = waiting \cup {item}
    /\ UNCHANGED tried

Try(item) ==
    /\ item \in waiting
    /\ tried' = tried \cup {item}
    /\ UNCHANGED waiting

\* The session ends well: what it tried, and nothing else, is forgotten.
Forget ==
    /\ waiting' = waiting \ tried
    /\ tried' = {}

\* It ends badly.
Abandon ==
    /\ tried' = {}
    /\ UNCHANGED waiting

MNext ==
    \/ \E item \in Item : Put(item) \/ Try(item)
    \/ Forget
    \/ Abandon

MSpec == MInit /\ [][MNext]_mvars
=============================================================================
