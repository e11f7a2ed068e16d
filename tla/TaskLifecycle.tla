---------------------------- MODULE TaskLifecycle ----------------------------
(***************************************************************************)
(* What the task module promises about a task, without handlers, retries   *)
(* and failures: an id is used for one task only; a task is open until it  *)
(* is completed or dropped, once and for good; it is completed only when   *)
(* its reminders are silenced; and once its owner was promised that it     *)
(* exists, it is not dropped before its reminders are silenced either.     *)
(*                                                                         *)
(* A task is a pair of its id and its owner.                               *)
(***************************************************************************)
CONSTANTS TaskIds, Users

Task == TaskIds \X Users

VARIABLES
    spent,     \* ids a create has been answered for, or tried to use
    open,      \* tasks that exist
    promised,  \* tasks whose creation was answered with success
    silenced,  \* tasks whose reminders were asked to be cancelled
    done       \* tasks that are completed

lifecycleVars == <<spent, open, promised, silenced, done>>

TypeInvariant ==
    /\ spent \subseteq TaskIds
    /\ open \subseteq Task /\ promised \subseteq Task
    /\ silenced \subseteq Task /\ done \subseteq Task

Init == spent = {} /\ open = {} /\ promised = {} /\ silenced = {} /\ done = {}

\* The creation of some tasks is given up before they exist.
GiveUp(ids) ==
    /\ ids \cap spent = {}
    /\ spent' = spent \cup ids
    /\ UNCHANGED <<open, promised, silenced, done>>

Open(k) ==
    /\ k[1] \notin spent
    /\ spent' = spent \cup {k[1]}
    /\ open' = open \cup {k}
    /\ UNCHANGED <<promised, silenced, done>>

Promise(k) ==
    /\ k \in open
    /\ promised' = promised \cup {k}
    /\ UNCHANGED <<spent, open, silenced, done>>

Silence(k) ==
    /\ silenced' = silenced \cup {k}
    /\ UNCHANGED <<spent, open, promised, done>>

Complete(k) ==
    /\ k \in open \cap silenced
    /\ open' = open \ {k}
    /\ done' = done \cup {k}
    /\ UNCHANGED <<spent, promised, silenced>>

Drop(k) ==
    /\ k \in open
    /\ k \in silenced \/ k \notin promised
    /\ open' = open \ {k}
    /\ UNCHANGED <<spent, promised, silenced, done>>

Next ==
    \/ \E ids \in SUBSET TaskIds : GiveUp(ids)
    \/ \E k \in Task :
        Open(k) \/ Promise(k) \/ Silence(k) \/ Complete(k) \/ Drop(k)

Spec == Init /\ [][Next]_lifecycleVars

=============================================================================
