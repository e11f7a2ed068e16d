--------------------------- MODULE MCTaskReminders ---------------------------
(***************************************************************************)
(* Constants for model-checking TaskReminders.                             *)
(***************************************************************************)
EXTENDS TaskReminders, TLC

AllOperations == {"create", "update", "delete"}
RemoteFaults == {"db_error", "db_ack_lost", "queue_error", "queue_ack_lost", "crash"}

Symmetry == Permutations(Requests) \cup Permutations(Users)

=============================================================================
