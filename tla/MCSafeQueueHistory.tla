-------------------------- MODULE MCSafeQueueHistory --------------------------
(* Instances of SafeQueueHistory for TLC. *)
EXTENDS SafeQueueHistory
=============================================================================
