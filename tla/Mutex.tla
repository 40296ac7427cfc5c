------------------------------- MODULE Mutex -------------------------------
(***************************************************************************)
(* What lock_t promises its callers: at any time at most one task is       *)
(* inside, a task gets in only when nobody is, and only the task that is   *)
(* inside gets out.                                                        *)
(***************************************************************************)
CONSTANT Task

VARIABLE inside \* the tasks that own the lock

Init == inside = {}

Enter(t) == inside = {} /\ inside' = {t}

Leave(t) == inside = {t} /\ inside' = {}

Next == \E t \in Task : Enter(t) \/ Leave(t)

Spec == Init /\ [][Next]_inside
=============================================================================
