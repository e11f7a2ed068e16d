---------------------------- MODULE MCTaskService ----------------------------
(***************************************************************************)
(* Constants for model-checking TaskService: requests, users and task ids  *)
(* are model values, interchangeable in the safety runs.                   *)
(***************************************************************************)
EXTENDS TaskRefinement, TLC

QueueFaults == {"queue_error", "queue_ack_lost"}
AllOperations == {"create", "update", "delete"}

\* Clients that wait: a request is sent when no other is running.
OneByOne == Init /\ [][Next /\ Cardinality(InFlight') <= 1]_vars

Symmetry == Permutations(Requests) \cup Permutations(Users) \cup Permutations(TaskIds)

=============================================================================
