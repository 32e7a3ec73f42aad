---------------------------- MODULE MCOfflineStore ----------------------------
(* Instances of OfflineStore for TLC. *)
EXTENDS OfflineStore

CONSTANTS a, b, m1, m2, m3, m4

\* Three messages for a, and one for b that is no SQL.
Addresses == [m \in Msg |-> IF m \in {m1, m2, m3} THEN a ELSE b]
Texts ==
    [m \in Msg |-> CASE m = m2 -> <<"quote", "quote">>
                     [] m = m4 -> <<"other", "quote">>
                     [] OTHER  -> <<"other">>]
=============================================================================
