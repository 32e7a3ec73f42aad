------------------------------ MODULE MCServer ------------------------------
(* Instances of Server for TLC. *)
EXTENDS Server, TLC

CONSTANTS c1, c2, c3, a, b, m1, m2

\* a logs in, and in again after or before its first connection has ended.
AB   == [c \in Conn |-> IF c = c2 THEN b ELSE a]

ToA  == [m \in Msg |-> a]
\* One message to the room, one to a room that does not exist.
ToRoomAndNone == [m \in Msg |-> IF m = m2 THEN Garbled ELSE Room]
NoMembers == <<>>
Two  == <<a, b>>

\* Threads of one kind are interchangeable.
Symmetry == Permutations(Reader) \cup Permutations(Worker)

Descriptors2 == {4, 5}
=============================================================================
