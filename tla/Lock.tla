-------------------------------- MODULE Lock --------------------------------
(***************************************************************************)
(* The recursive lock and the binary semaphore under it (kernel/lock.c).   *)
(*                                                                         *)
(* sema_down and sema_up run with interrupts masked, so each pass of the   *)
(* loop in sema_down up to its task_block, and the whole of sema_up, is    *)
(* one step.  Around them lock_acquire and lock_release may be preempted   *)
(* when the caller runs with interrupts enabled: their accesses to holder  *)
(* and hrepeat are steps of their own.                                     *)
(* A blocked task is made ready by sema_up only; that SIGSTOP and SIGCONT   *)
(* make any blocked task ready is the subject of Task, not of this module. *)
(***************************************************************************)
EXTENDS Integers, Sequences

CONSTANTS
    Task,
    MaxDepth  \* bound: how often a task acquires the lock it holds

ASSUME MaxDepthAssumption == MaxDepth \in Nat \ {0}

VARIABLES
    val,      \* semaphore_t.val
    waiter,   \* semaphore_t.waiter, the list from its head
    holder,   \* lock_t.holder
    hrepeat,  \* lock_t.hrepeat
    pc,       \* where each task is in lock.c, "out" when it is not
    depth     \* acquisitions each task has made and not yet released

lockVars == <<val, waiter, holder, hrepeat, pc, depth>>

NoTask == "NULL"
ASSUME NoTaskAssumption == NoTask \notin Task

LockTypeOK ==
    /\ val \in {0, 1}
    /\ waiter \in Seq(Task)
    /\ holder \in Task \cup {NoTask}
    /\ hrepeat \in 0 .. MaxDepth
    /\ pc \in [Task -> {"out", "down", "blocked", "woken", "got", "up"}]
    /\ depth \in [Task -> 0 .. MaxDepth]

\* lock_init
LockInit ==
    /\ val = 1
    /\ waiter = <<>>
    /\ holder = NoTask
    /\ hrepeat = 0
    /\ pc = [t \in Task |-> "out"]
    /\ depth = [t \in Task |-> 0]

-----------------------------------------------------------------------------
\* lock_acquire by a task that is not the holder goes to sema_down.
Acquire(t) ==
    /\ pc[t] = "out" /\ holder # t
    /\ pc' = [pc EXCEPT ![t] = "down"]
    /\ UNCHANGED <<val, waiter, holder, hrepeat, depth>>

\* lock_acquire by the holder only counts.
AcquireAgain(t) ==
    /\ pc[t] = "out" /\ holder = t
    /\ depth[t] < MaxDepth
    /\ hrepeat' = hrepeat + 1
    /\ depth' = [depth EXCEPT ![t] = @ + 1]
    /\ UNCHANGED <<val, waiter, holder, pc>>

\* Bug: the value is tested once, not after every wake-up.
SemaTakenTestedOnce(t) == val = 0 /\ pc[t] = "down"

\* The condition of the loop in sema_down.
SemaTaken(t) == val = 0

\* sema_down: insert the caller at the head of the list and block ...
SemaWait(t) ==
    /\ pc[t] \in {"down", "woken"}
    /\ SemaTaken(t)
    /\ waiter' = <<t>> \o waiter
    /\ pc' = [pc EXCEPT ![t] = "blocked"]
    /\ UNCHANGED <<val, holder, hrepeat, depth>>

\* ... or take the semaphore.
SemaTake(t) ==
    /\ pc[t] \in {"down", "woken"}
    /\ ~SemaTaken(t)
    /\ val' = 0
    /\ pc' = [pc EXCEPT ![t] = "got"]
    /\ UNCHANGED <<waiter, holder, hrepeat, depth>>

\* Bug: the count is not started again.
AcquiredKeepsCount(t) ==
    /\ pc[t] = "got"
    /\ holder' = t
    /\ depth' = [depth EXCEPT ![t] = 1]
    /\ pc' = [pc EXCEPT ![t] = "out"]
    /\ UNCHANGED <<val, waiter, hrepeat>>

\* The end of lock_acquire.
Acquired(t) ==
    /\ pc[t] = "got"
    /\ holder' = t
    /\ hrepeat' = 1
    /\ depth' = [depth EXCEPT ![t] = 1]
    /\ pc' = [pc EXCEPT ![t] = "out"]
    /\ UNCHANGED <<val, waiter>>

\* lock_release by a task that acquired the lock several times.
ReleaseOne(t) ==
    /\ pc[t] = "out" /\ depth[t] > 0
    /\ hrepeat > 1
    /\ hrepeat' = hrepeat - 1
    /\ depth' = [depth EXCEPT ![t] = @ - 1]
    /\ UNCHANGED <<val, waiter, holder, pc>>

\* lock_release for the last time, up to sema_up.
ReleaseLast(t) ==
    /\ pc[t] = "out" /\ depth[t] > 0
    /\ hrepeat <= 1
    /\ holder' = NoTask
    /\ hrepeat' = 0
    /\ depth' = [depth EXCEPT ![t] = 0]
    /\ pc' = [pc EXCEPT ![t] = "up"]
    /\ UNCHANGED <<val, waiter>>

\* Bug: nobody is woken.
SemaUpNoWake(t) ==
    /\ pc[t] = "up"
    /\ val' = 1
    /\ pc' = [pc EXCEPT ![t] = "out"]
    /\ UNCHANGED <<waiter, holder, hrepeat, depth>>

\* Bug: the woken task stays in the list.
SemaUpNoRemove(t) ==
    /\ pc[t] = "up"
    /\ val' = val + 1
    /\ pc' = IF waiter = <<>>
               THEN [pc EXCEPT ![t] = "out"]
               ELSE [pc EXCEPT ![t] = "out", ![Head(waiter)] = "woken"]
    /\ UNCHANGED <<waiter, holder, hrepeat, depth>>

\* sema_up: raise the value, wake the first task of the list.
SemaUp(t) ==
    /\ pc[t] = "up"
    /\ val' = val + 1
    /\ IF waiter = <<>>
         THEN /\ pc' = [pc EXCEPT ![t] = "out"]
              /\ UNCHANGED waiter
         ELSE /\ pc' = [pc EXCEPT ![t] = "out", ![Head(waiter)] = "woken"]
              /\ waiter' = Tail(waiter)
    /\ UNCHANGED <<holder, hrepeat, depth>>

TaskStep(t) ==
    \/ Acquire(t)
    \/ AcquireAgain(t)
    \/ SemaWait(t)
    \/ SemaTake(t)
    \/ Acquired(t)
    \/ ReleaseOne(t)
    \/ ReleaseLast(t)
    \/ SemaUp(t)

LockNext == \E t \in Task : TaskStep(t)

\* A task that is ready goes on with what it does inside lock.c, and callers
\* release what they acquired.
LockFairness ==
    \A t \in Task :
        /\ WF_lockVars(SemaWait(t) \/ SemaTake(t))
        /\ WF_lockVars(Acquired(t))
        /\ WF_lockVars(ReleaseOne(t))
        /\ SF_lockVars(ReleaseLast(t))
        /\ WF_lockVars(SemaUp(t))

LockSpec == LockInit /\ [][LockNext]_lockVars /\ LockFairness

-----------------------------------------------------------------------------
\* t is between taking the semaphore and giving it back.
Owns(t) == pc[t] \in {"got", "up"} \/ depth[t] > 0

\* The assertions of lock.c never fail: lock_release is called by the
\* recorded holder, sema_up finds the value 0; and the count it keeps is the
\* number of acquisitions its owner has still to release.
AssertsHold ==
    \A t \in Task :
        /\ pc[t] = "out" /\ depth[t] > 0 => holder = t /\ hrepeat = depth[t]
        /\ pc[t] = "up" => val = 0

\* No wake-up is lost: when the semaphore is free and tasks are asleep on
\* it, one that was woken is on its way to take it, although any newcomer
\* may take it first and send the woken task back to the list.
NoLostWakeup ==
    val = 1 /\ waiter # <<>> => \E t \in Task : pc[t] = "woken"

\* lock_t implements the abstract mutex: whoever goes through lock_acquire
\* is alone until its matching lock_release.
M == INSTANCE Mutex WITH inside <- {t \in Task : Owns(t)}
Exclusion == M!Spec

\* Somebody who wants the lock eventually gets it.  (Not everybody: the list
\* is used last in, first out and newcomers may overtake.)
SomebodyEnters ==
    (\E t \in Task : pc[t] \in {"down", "blocked", "woken"}) ~> (\E t \in Task : pc[t] = "got")

-----------------------------------------------------------------------------
\* The value of the semaphore tells whether the lock is owned, there is one
\* owner, and holder and hrepeat describe it.
OwnerInv ==
    /\ \A t \in Task : Owns(t) => val = 0
    /\ val = 0 => \E t \in Task : Owns(t)
    /\ \A t, u \in Task : Owns(t) /\ Owns(u) => t = u
    /\ \A t \in Task : depth[t] > 0 => pc[t] = "out" /\ holder = t /\ hrepeat = depth[t]
    /\ holder # NoTask => depth[holder] > 0

\* A task is in the list only while it is blocked, and only once.
ListInv ==
    /\ \A i \in 1 .. Len(waiter) : pc[waiter[i]] = "blocked"
    /\ \A i, j \in 1 .. Len(waiter) : i # j => waiter[i] # waiter[j]

\* The inductive invariant behind Exclusion and AssertsHold: what the fields
\* of lock_t and semaphore_t say about the tasks that are inside or asleep.
LockInv == OwnerInv /\ ListInv
=============================================================================
