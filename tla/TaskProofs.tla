----------------------------- MODULE TaskProofs -----------------------------
(***************************************************************************)
(* Proofs about the lock and about the process table and the scheduler.    *)
(*                                                                         *)
(* The lock (Lock), for any set of tasks and any depth of nesting: it      *)
(* implements the abstract mutex, its assertions never fail and no wake-up *)
(* is lost.  The process table and the scheduler (Task), for every size of *)
(* the table and of the time slice.                                        *)
(***************************************************************************)
EXTENDS Lock, Task, TLAPS

-----------------------------------------------------------------------------
(* The lock.                                                               *)

Pc == {"out", "down", "blocked", "woken", "got", "up"}

\* The list is not touched by a task that goes from a place other than the
\* list to a place other than the list.
LEMMA ListKept ==
    ASSUME LockTypeOK, ListInv, NEW t \in Task, NEW x \in Pc,
           pc[t] # "blocked", pc' = [pc EXCEPT ![t] = x], waiter' = waiter
    PROVE  ListInv'
<1>1. \A i \in 1 .. Len(waiter) : waiter[i] \in Task
  BY DEF LockTypeOK
<1> QED
  BY <1>1 DEF ListInv, LockTypeOK, Pc

\* Every step keeps types and invariant.
LEMMA LockStep ==
    ASSUME LockTypeOK, LockInv, NEW t \in Task, TaskStep(t)
    PROVE  LockTypeOK' /\ LockInv'
<1> USE MaxDepthAssumption, NoTaskAssumption DEF NoTask
<1>0. /\ pc \in [Task -> Pc] /\ depth \in [Task -> 0 .. MaxDepth]
      /\ OwnerInv /\ ListInv /\ waiter \in Seq(Task)
  BY DEF LockTypeOK, Pc, LockInv
<1>1. CASE Acquire(t)
  <2>1. LockTypeOK'
    BY <1>1 DEF Acquire, LockTypeOK
  <2>2. ListInv'
    BY <1>0, <1>1, ListKept DEF Acquire, Pc
  <2>3. OwnerInv'
    BY <1>0, <1>1 DEF Acquire, OwnerInv, Owns, Pc
  <2> QED
    BY <2>1, <2>2, <2>3 DEF LockInv
<1>2. CASE AcquireAgain(t)
  <2>1. hrepeat = depth[t] /\ hrepeat < MaxDepth /\ depth[t] > 0
    BY <1>0, <1>2 DEF AcquireAgain, OwnerInv
  <2>2. LockTypeOK'
    BY <1>2, <2>1 DEF AcquireAgain, LockTypeOK
  <2>3. ListInv'
    BY <1>0, <1>2 DEF AcquireAgain, ListInv
  <2>4. OwnerInv'
    BY <1>0, <1>2, <2>1 DEF AcquireAgain, OwnerInv, Owns, Pc
  <2> QED
    BY <2>2, <2>3, <2>4 DEF LockInv
<1>3. CASE SemaWait(t)
  <2>0. pc[t] \in {"down", "woken"} /\ waiter' = <<t>> \o waiter /\ pc' = [pc EXCEPT ![t] = "blocked"]
    BY <1>3 DEF SemaWait
  <2>1. LockTypeOK'
    BY <1>0, <1>3, <2>0 DEF SemaWait, LockTypeOK, Pc
  <2>2. /\ Len(waiter') = Len(waiter) + 1
        /\ waiter'[1] = t
        /\ \A i \in 2 .. Len(waiter') : waiter'[i] = waiter[i - 1] /\ i - 1 \in 1 .. Len(waiter)
    BY <1>0, <2>0
  <2>3. \A i \in 1 .. Len(waiter) : waiter[i] \in Task /\ waiter[i] # t
    BY <1>0, <2>0 DEF ListInv
  <2>4. ListInv'
    <3>1. \A i \in 1 .. Len(waiter') : pc'[waiter'[i]] = "blocked"
      BY <1>0, <2>0, <2>2, <2>3 DEF ListInv
    <3>2. ASSUME NEW i \in 1 .. Len(waiter'), NEW j \in 1 .. Len(waiter'), i # j
          PROVE  waiter'[i] # waiter'[j]
      <4>1. Len(waiter) \in Nat
        BY <1>0
      <4>2. CASE i = 1
        <5>1. j \in 2 .. Len(waiter')
          BY <2>2, <3>2, <4>1, <4>2
        <5> QED
          BY <2>2, <2>3, <4>2, <5>1
      <4>3. CASE j = 1
        <5>1. i \in 2 .. Len(waiter')
          BY <2>2, <3>2, <4>1, <4>3
        <5> QED
          BY <2>2, <2>3, <4>3, <5>1
      <4>4. CASE i # 1 /\ j # 1
        <5>1. i \in 2 .. Len(waiter') /\ j \in 2 .. Len(waiter') /\ i - 1 # j - 1
          BY <2>2, <3>2, <4>1, <4>4
        <5>2. /\ waiter'[i] = waiter[i - 1] /\ i - 1 \in 1 .. Len(waiter)
              /\ waiter'[j] = waiter[j - 1] /\ j - 1 \in 1 .. Len(waiter)
          BY <2>2, <5>1
        <5> QED
          BY <1>0, <5>1, <5>2 DEF ListInv
      <4> QED
        BY <4>2, <4>3, <4>4
    <3> QED
      BY <3>1, <3>2 DEF ListInv
  <2>5. OwnerInv'
    BY <1>0, <1>3, <2>0 DEF SemaWait, OwnerInv, Owns, Pc
  <2> QED
    BY <2>1, <2>4, <2>5 DEF LockInv
<1>4. CASE SemaTake(t)
  <2>0. val = 1 /\ pc[t] \in {"down", "woken"}
    BY <1>4 DEF SemaTake, SemaTaken, LockTypeOK
  <2>1. LockTypeOK'
    BY <1>4 DEF SemaTake, LockTypeOK
  <2>2. ListInv'
    BY <1>0, <1>4, ListKept DEF SemaTake, Pc
  <2>3. OwnerInv'
    BY <1>0, <1>4, <2>0 DEF SemaTake, OwnerInv, Owns, Pc
  <2> QED
    BY <2>1, <2>2, <2>3 DEF LockInv
<1>5. CASE Acquired(t)
  <2>1. LockTypeOK'
    BY <1>5 DEF Acquired, LockTypeOK
  <2>2. ListInv'
    BY <1>0, <1>5, ListKept DEF Acquired, Pc
  <2>3. \A u \in Task : u # t => depth[u] = 0 /\ pc[u] \notin {"got", "up"}
    BY <1>0, <1>5 DEF Acquired, OwnerInv, Owns
  <2>4. OwnerInv'
    BY <1>0, <1>5, <2>3 DEF Acquired, OwnerInv, Owns, Pc
  <2> QED
    BY <2>1, <2>2, <2>4 DEF LockInv
<1>6. CASE ReleaseOne(t)
  <2>1. hrepeat = depth[t] /\ depth[t] > 1 /\ depth[t] <= MaxDepth
    BY <1>0, <1>6 DEF ReleaseOne, OwnerInv
  <2>2. LockTypeOK'
    BY <1>6, <2>1 DEF ReleaseOne, LockTypeOK
  <2>3. ListInv'
    BY <1>0, <1>6 DEF ReleaseOne, ListInv
  <2>4. OwnerInv'
    BY <1>0, <1>6, <2>1 DEF ReleaseOne, OwnerInv, Owns, Pc
  <2> QED
    BY <2>2, <2>3, <2>4 DEF LockInv
<1>7. CASE ReleaseLast(t)
  <2>1. LockTypeOK'
    BY <1>7 DEF ReleaseLast, LockTypeOK
  <2>2. ListInv'
    BY <1>0, <1>7, ListKept DEF ReleaseLast, Pc
  <2>3. \A u \in Task : u # t => depth[u] = 0 /\ pc[u] \notin {"got", "up"}
    BY <1>0, <1>7 DEF ReleaseLast, OwnerInv, Owns
  <2>4. OwnerInv'
    BY <1>0, <1>7, <2>3 DEF ReleaseLast, OwnerInv, Owns, Pc
  <2> QED
    BY <2>1, <2>2, <2>4 DEF LockInv
<1>8. CASE SemaUp(t)
  <2>0. pc[t] = "up" /\ val = 0 /\ val' = 1 /\ UNCHANGED <<holder, hrepeat, depth>>
    BY <1>0, <1>8 DEF SemaUp, OwnerInv, Owns
  <2>1. \A u \in Task : u # t => depth[u] = 0 /\ pc[u] \notin {"got", "up"}
    BY <1>0, <2>0 DEF OwnerInv, Owns
  <2>2. depth[t] = 0
    BY <1>0, <2>0 DEF OwnerInv
  <2>3. CASE waiter = <<>>
    <3>1. pc' = [pc EXCEPT ![t] = "out"] /\ waiter' = waiter
      BY <1>8, <2>3 DEF SemaUp
    <3>2. LockTypeOK'
      BY <1>8, <2>0, <3>1 DEF LockTypeOK
    <3>3. ListInv'
      BY <1>0, <2>0, <3>1, ListKept DEF Pc
    <3>4. OwnerInv'
      BY <1>0, <2>0, <2>1, <2>2, <3>1 DEF OwnerInv, Owns, Pc
    <3> QED
      BY <3>2, <3>3, <3>4 DEF LockInv
  <2>4. CASE waiter # <<>>
    <3> DEFINE h == Head(waiter)
    <3>1. pc' = [pc EXCEPT ![t] = "out", ![h] = "woken"] /\ waiter' = Tail(waiter)
      BY <1>8, <2>4 DEF SemaUp
    <3>2. h \in Task /\ h = waiter[1] /\ Len(waiter) > 0 /\ Tail(waiter) \in Seq(Task)
      BY <1>0, <2>4
    <3>3. pc[h] = "blocked" /\ h # t
      BY <1>0, <2>0, <3>2 DEF ListInv
    <3>4. /\ Len(waiter') = Len(waiter) - 1
          /\ \A i \in 1 .. Len(waiter') : waiter'[i] = waiter[i + 1] /\ i + 1 \in 2 .. Len(waiter)
      BY <1>0, <2>4, <3>1
    <3>5. \A i \in 2 .. Len(waiter) : waiter[i] \in Task /\ waiter[i] # h /\ waiter[i] # t
      BY <1>0, <2>0, <3>2 DEF ListInv
    <3> HIDE DEF h
    <3>6. LockTypeOK'
      BY <2>0, <3>1, <3>2 DEF LockTypeOK
    <3>7. ListInv'
      <4>1. \A i \in 1 .. Len(waiter') : pc'[waiter'[i]] = "blocked"
        BY <1>0, <3>1, <3>2, <3>4, <3>5 DEF ListInv
      <4>2. ASSUME NEW i \in 1 .. Len(waiter'), NEW j \in 1 .. Len(waiter'), i # j
            PROVE  waiter'[i] # waiter'[j]
        <5>1. i + 1 # j + 1 /\ i + 1 \in 1 .. Len(waiter) /\ j + 1 \in 1 .. Len(waiter)
          BY <1>0, <3>4, <4>2
        <5>2. waiter[i + 1] # waiter[j + 1]
          BY <1>0, <5>1, Zenon DEF ListInv
        <5>3. waiter'[i] = waiter[i + 1] /\ waiter'[j] = waiter[j + 1]
          BY <3>4
        <5> QED
          BY <5>2, <5>3
      <4> QED
        BY <4>1, <4>2 DEF ListInv
    <3>8. OwnerInv'
      <4>1. \A u \in Task : depth'[u] = 0 /\ pc'[u] \notin {"got", "up"}
        BY <1>0, <2>0, <2>1, <2>2, <3>1, <3>2, <3>3 DEF Pc
      <4>2. holder' = NoTask
        BY <1>0, <2>0, <2>1, <2>2 DEF OwnerInv, LockTypeOK
      <4> QED
        BY <2>0, <4>1, <4>2 DEF OwnerInv, Owns
    <3> QED
      BY <3>6, <3>7, <3>8 DEF LockInv
  <2> QED
    BY <2>3, <2>4
<1> QED
  BY <1>1, <1>2, <1>3, <1>4, <1>5, <1>6, <1>7, <1>8 DEF TaskStep

\* Type correctness and the inductive invariant.
THEOREM LockInvHolds == LockSpec => [](LockTypeOK /\ LockInv)
<1> USE MaxDepthAssumption, NoTaskAssumption DEF NoTask
<1>1. LockInit => LockTypeOK /\ LockInv
  BY DEF LockInit, LockTypeOK, LockInv, OwnerInv, ListInv, Owns
<1>2. (LockTypeOK /\ LockInv) /\ [LockNext]_lockVars => (LockTypeOK /\ LockInv)'
  <2>1. CASE LockNext
    BY <2>1, LockStep DEF LockNext
  <2>2. CASE UNCHANGED lockVars
    BY <2>2 DEF lockVars, LockTypeOK, LockInv, OwnerInv, ListInv, Owns
  <2> QED
    BY <2>1, <2>2
<1> QED
  BY <1>1, <1>2, PTL DEF LockSpec

\* Every field keeps its type: owner and depth of the lock, what a task does and where
\* it sleeps.
THEOREM LockTypeCorrect == LockSpec => []LockTypeOK
BY LockInvHolds, PTL

\* The assertions of lock.c never fail.
THEOREM AssertsHoldAlways == LockSpec => []AssertsHold
<1>1. LockTypeOK /\ LockInv => AssertsHold
  BY DEF LockTypeOK, LockInv, OwnerInv, Owns, AssertsHold
<1> QED
  BY <1>1, LockInvHolds, PTL

\* No wake-up of sema_up is lost.
THEOREM NoLostWakeupHolds == LockSpec => []NoLostWakeup
<1>1. LockInit => NoLostWakeup
  BY DEF LockInit, NoLostWakeup
<1>2. LockTypeOK /\ LockInv /\ NoLostWakeup /\ [LockNext]_lockVars => NoLostWakeup'
  <2> SUFFICES ASSUME LockTypeOK, LockInv, NoLostWakeup, [LockNext]_lockVars, val' = 1, waiter' # <<>>
               PROVE  \E u \in Task : pc'[u] = "woken"
    BY DEF NoLostWakeup
  <2>0. pc \in [Task -> Pc] /\ waiter \in Seq(Task)
    BY DEF LockTypeOK, Pc
  <2>1. ASSUME NEW t \in Task, Acquire(t) \/ Acquired(t) \/ ReleaseLast(t)
        PROVE  \E u \in Task : pc'[u] = "woken"
    BY <2>0, <2>1 DEF Acquire, Acquired, ReleaseLast, NoLostWakeup
  <2>2. ASSUME NEW t \in Task, AcquireAgain(t) \/ ReleaseOne(t)
        PROVE  \E u \in Task : pc'[u] = "woken"
    BY <2>2 DEF AcquireAgain, ReleaseOne, NoLostWakeup
  <2>3. ASSUME NEW t \in Task, SemaWait(t) \/ SemaTake(t) PROVE FALSE
    BY <2>3 DEF SemaWait, SemaTake, SemaTaken
  <2>4. ASSUME NEW t \in Task, SemaUp(t) PROVE \E u \in Task : pc'[u] = "woken"
    <3>1. waiter # <<>>
      BY <2>4 DEF SemaUp
    <3>2. Head(waiter) \in Task
      BY <2>0, <3>1
    <3>3. pc'[Head(waiter)] = "woken"
      BY <2>0, <2>4, <3>1, <3>2 DEF SemaUp
    <3> QED
      BY <3>2, <3>3
  <2>5. CASE UNCHANGED lockVars
    BY <2>5 DEF lockVars, NoLostWakeup
  <2> QED
    BY <2>1, <2>2, <2>3, <2>4, <2>5 DEF LockNext, TaskStep
<1> QED
  BY <1>1, <1>2, LockInvHolds, PTL DEF LockSpec

\* The lock implements the abstract mutex.
THEOREM LockImplementsMutex == LockSpec => Exclusion
<1> USE MaxDepthAssumption
<1> DEFINE In == {t \in Task : Owns(t)}
<1>1. LockInit => M!Init
  BY DEF LockInit, M!Init, Owns
<1>2. LockTypeOK /\ LockInv /\ [LockNext]_lockVars => [M!Next]_In
  <2> SUFFICES ASSUME LockTypeOK, LockInv, LockNext PROVE M!Next \/ In' = In
    BY DEF lockVars, Owns
  <2>0. /\ pc \in [Task -> Pc] /\ depth \in [Task -> 0 .. MaxDepth]
        /\ OwnerInv
    BY DEF LockTypeOK, Pc, LockInv
  <2>1. PICK t \in Task : TaskStep(t)
    BY DEF LockNext
  <2>2. CASE Acquire(t) \/ SemaWait(t)
    <3>1. \A u \in Task : Owns(u)' <=> Owns(u)
      BY <2>0, <2>2 DEF Acquire, SemaWait, Owns, Pc
    <3> QED
      BY <3>1
  <2>3. CASE AcquireAgain(t) \/ Acquired(t) \/ ReleaseOne(t) \/ ReleaseLast(t)
    <3>1. Owns(t) /\ Owns(t)'
      <4>1. CASE AcquireAgain(t)
        BY <2>0, <4>1, NoTaskAssumption DEF AcquireAgain, Owns, OwnerInv
      <4>2. CASE Acquired(t) \/ ReleaseLast(t)
        BY <2>0, <4>2 DEF Acquired, ReleaseLast, Owns, Pc
      <4>3. CASE ReleaseOne(t)
        BY <2>0, <4>3 DEF ReleaseOne, Owns, OwnerInv
      <4> QED
        BY <2>3, <4>1, <4>2, <4>3
    <3>2. \A u \in Task : u # t => (Owns(u)' <=> Owns(u))
      BY <2>0, <2>3 DEF AcquireAgain, Acquired, ReleaseOne, ReleaseLast, Owns, Pc
    <3> QED
      BY <3>1, <3>2
  <2>4. CASE SemaTake(t)
    <3>1. \A u \in Task : ~Owns(u)
      BY <2>0, <2>4 DEF SemaTake, SemaTaken, OwnerInv
    <3>2. \A u \in Task : Owns(u)' <=> u = t
      BY <2>0, <2>4, <3>1 DEF SemaTake, Owns, Pc
    <3>3. In = {} /\ In' = {t}
      BY <3>1, <3>2
    <3> QED
      BY <3>3 DEF M!Next, M!Enter
  <2>5. CASE SemaUp(t)
    <3>1. Owns(t) /\ \A u \in Task : Owns(u) => u = t
      BY <2>0, <2>5 DEF SemaUp, Owns, OwnerInv
    <3>2. depth[t] = 0
      BY <2>0, <2>5 DEF SemaUp, OwnerInv
    <3>3. \A u \in Task : ~Owns(u)'
      BY <2>0, <2>5, <3>1, <3>2 DEF SemaUp, Owns, Pc
    <3>4. In = {t} /\ In' = {}
      BY <3>1, <3>3
    <3> QED
      BY <3>4 DEF M!Next, M!Leave
  <2> QED
    BY <2>1, <2>2, <2>3, <2>4, <2>5 DEF TaskStep
<1> QED
  BY <1>1, <1>2, LockInvHolds, PTL DEF LockSpec, Exclusion, M!Spec

-----------------------------------------------------------------------------
(* The process table and the scheduler.                                    *)

USE DEF Pid, Idle, InitProc, Stat

\* task_schedule keeps the types of what it writes.
LEMMA ScheduleType ==
    ASSUME TypeOK, NEW st \in [Pid -> Stat], Schedule(st)
    PROVE  /\ stat' \in [Pid -> Stat]
           /\ slice' \in [Pid -> 0 .. TASK_TICKS]
           /\ curr' \in Pid
           /\ fault' \in BOOLEAN
<1> USE TaskMaxAssumption, TaskTicksAssumption
<1>1. slice' \in [Pid -> 0 .. TASK_TICKS]
  <2>1. slice \in [Pid -> 0 .. TASK_TICKS] /\ curr \in Pid
    BY DEF TypeOK
  <2>2. slice[curr] \in 0 .. TASK_TICKS
    BY <2>1
  <2>3. (IF slice[curr] = 0 THEN TASK_TICKS ELSE slice[curr] - 1) \in 0 .. TASK_TICKS
    BY <2>2
  <2> QED
    BY <2>1, <2>3 DEF Schedule, SpendTick
<1>2. CASE stat' = st /\ UNCHANGED <<curr, fault>>
  BY <1>1, <1>2 DEF TypeOK
<1>3. CASE \E next \in Pid : GetNext(st, next) /\ Switch(st, next)
  <2>1. PICK next \in Pid : Switch(st, next)
    BY <1>3
  <2>2. stat' \in [Pid -> Stat] /\ curr' \in Pid
    BY <2>1 DEF Switch, TypeOK
  <2>3. fault' \in BOOLEAN
    BY <2>1, Zenon DEF Switch
  <2> QED
    BY <1>1, <2>2, <2>3
<1> QED
  BY <1>2, <1>3 DEF Schedule

\* Type correctness of the process table.
THEOREM TypeCorrect == Spec => []TypeOK
<1> USE TaskMaxAssumption, TaskTicksAssumption, MaxStopsAssumption
<1>1. Init => TypeOK
  <2> SUFFICES ASSUME Init PROVE TypeOK
    OBVIOUS
  <2>1. stat \in [Pid -> Stat]
    BY DEF Init
  <2>2. waitpid \in [Pid -> Pid \cup {-1}]
    BY DEF Init
  <2>3. slice \in [Pid -> 0 .. TASK_TICKS]
    BY DEF Init
  <2>4. kpc \in [Pid -> {"user", "wait", "block", "exit"}] /\ reg \in [Pid -> BOOLEAN]
    BY DEF Init
  <2>5. ppid \in [Pid -> Pid] /\ curr \in Pid
    BY DEF Init
  <2>6. fault \in BOOLEAN
    BY DEF Init
  <2>7. stops \in 0 .. MaxStops
    BY DEF Init
  <2> QED
    BY <2>1, <2>2, <2>3, <2>4, <2>5, <2>6, <2>7 DEF TypeOK
<1>2. TypeOK /\ [Next]_vars => TypeOK'
  <2> SUFFICES ASSUME TypeOK, [Next]_vars PROVE TypeOK'
    OBVIOUS
  <2>0. stat \in [Pid -> Stat] /\ curr \in Pid
    BY DEF TypeOK
  <2>1. CASE Tick
    BY <2>0, <2>1, ScheduleType DEF Tick, TypeOK
  <2>2. CASE SysYield
    BY <2>0, <2>2, ScheduleType DEF SysYield, TypeOK
  <2>3. CASE SysFork
    <3>1. PICK chd \in Pid, junk \in {-1, 0} :
            /\ stat' = [stat EXCEPT ![chd] = "PRE"]
            /\ ppid' = [ppid EXCEPT ![chd] = curr]
            /\ waitpid' = [waitpid EXCEPT ![chd] = junk]
            /\ slice' = [slice EXCEPT ![chd] = slice[curr]]
            /\ kpc' = [kpc EXCEPT ![chd] = "user"]
      BY <2>3 DEF SysFork
    <3>2. UNCHANGED <<reg, curr, fault, stops>>
      BY <2>3 DEF SysFork
    <3>3. junk \in Pid \cup {-1}
      OBVIOUS
    <3> QED
      BY <3>1, <3>2, <3>3 DEF TypeOK
  <2>4. CASE SysForkFull
    BY <2>4 DEF SysForkFull, TypeOK
  <2>5. CASE SysExit
    <3> DEFINE prt == ppid[curr]
               dead == [stat EXCEPT ![curr] = "DIE"]
    <3>1. prt \in Pid /\ dead \in [Pid -> Stat] /\ [dead EXCEPT ![prt] = "PRE"] \in [Pid -> Stat]
      BY DEF TypeOK
    <3>2. \/ Schedule(dead)
          \/ Schedule([dead EXCEPT ![prt] = "PRE"])
      BY <2>5 DEF SysExit
    <3>3. /\ stat' \in [Pid -> Stat]
          /\ slice' \in [Pid -> 0 .. TASK_TICKS]
          /\ curr' \in Pid
          /\ fault' \in BOOLEAN
      BY <3>1, <3>2, ScheduleType
    <3>4. waitpid' \in [Pid -> Pid \cup {-1}]
      BY <2>5 DEF SysExit, TellParent, TypeOK
    <3> QED
      BY <2>5, <3>3, <3>4 DEF SysExit, TypeOK
  <2>6. CASE SysExitOrphan
    BY <2>6 DEF SysExitOrphan, TypeOK
  <2>7. ASSUME NEW pid \in Pid \cup {-1}, SysWait(pid) PROVE TypeOK'
    <3>1. [stat EXCEPT ![curr] = "BLK"] \in [Pid -> Stat]
      BY <2>0
    <3> QED
      BY <2>7, <3>1, ScheduleType DEF SysWait, TypeOK
  <2>8. CASE SysWaitUnsupported
    BY <2>8 DEF SysWaitUnsupported, TypeOK
  <2>9. CASE WaitResume
    <3>0. UNCHANGED <<reg, curr, stops>> /\ 0 \in Pid /\ TASK_TICKS \in 0 .. TASK_TICKS
      BY <2>9 DEF WaitResume
    <3>1. CASE waitpid[curr] = -1
      <4>1. /\ fault' = TRUE
            /\ kpc' = [kpc EXCEPT ![curr] = "user"]
            /\ waitpid' = [waitpid EXCEPT ![curr] = 0]
            /\ UNCHANGED <<stat, ppid, slice>>
        BY <2>9, <3>1 DEF WaitResume
      <4> QED
        BY <3>0, <4>1 DEF TypeOK
    <3>2. CASE waitpid[curr] # -1
      <4> DEFINE termd == waitpid[curr]
      <4>1. termd \in Pid
        BY <3>2 DEF TypeOK
      <4>2. /\ fault' = FALSE
            /\ stat' = [stat EXCEPT ![termd] = "FREE"]
            /\ ppid' = [ppid EXCEPT ![termd] = Idle]
            /\ slice' = [slice EXCEPT ![termd] = TASK_TICKS]
            /\ kpc' = [kpc EXCEPT ![curr] = "user", ![termd] = "user"]
            /\ waitpid' = [waitpid EXCEPT ![curr] = 0, ![termd] = 0]
        BY <2>9, <3>2 DEF WaitResume
      <4> HIDE DEF termd
      <4> QED
        BY <3>0, <4>1, <4>2 DEF TypeOK
    <3> QED
      BY <3>1, <3>2
  <2>10. CASE SysBlock
    <3>1. [stat EXCEPT ![curr] = "BLK"] \in [Pid -> Stat]
      BY <2>0
    <3> QED
      BY <2>10, <3>1, ScheduleType DEF SysBlock, TypeOK
  <2>11. ASSUME NEW p \in Pid, DevWake(p) PROVE TypeOK'
    BY <2>11 DEF DevWake, TypeOK
  <2>12. CASE BlockResume
    BY <2>12 DEF BlockResume, TypeOK
  <2>13. ASSUME NEW p \in Pid, SysStop(p) PROVE TypeOK'
    <3>1. [stat EXCEPT ![p] = "STP"] \in [Pid -> Stat]
      BY <2>0
    <3>2. stops' \in 0 .. MaxStops
      BY <2>13 DEF SysStop, TypeOK
    <3> QED
      BY <2>13, <3>1, <3>2, ScheduleType DEF SysStop, TypeOK
  <2>14. ASSUME NEW p \in Pid, SysCont(p) PROVE TypeOK'
    BY <2>14 DEF SysCont, TypeOK
  <2>15. CASE UNCHANGED vars
    BY <2>15 DEF vars, TypeOK
  <2> QED
    BY <2>1, <2>2, <2>3, <2>4, <2>5, <2>6, <2>7, <2>8, <2>9, <2>10, <2>11, <2>12,
       <2>13, <2>14, <2>15 DEF Next
<1> QED
  BY <1>1, <1>2, PTL DEF Spec

-----------------------------------------------------------------------------
\* If only the current task is marked running in the table task_schedule is
\* given, only the new current task is in the one it leaves.
LEMMA ScheduleNoOther ==
    ASSUME TypeOK, NEW st \in [Pid -> Stat], Schedule(st),
           \A p \in Pid : st[p] = "RUN" => p = curr
    PROVE  \A p \in Pid : stat'[p] = "RUN" => p = curr'
<1> USE TaskMaxAssumption
<1>1. CASE stat' = st /\ UNCHANGED <<curr, fault>>
  BY <1>1
<1>2. CASE \E next \in Pid : GetNext(st, next) /\ Switch(st, next)
  <2>1. PICK next \in Pid : Switch(st, next)
    BY <1>2
  <2>2. curr \in Pid
    BY DEF TypeOK
  <2>3. \A p \in Pid : p # next => stat'[p] # "RUN"
    BY <2>1, <2>2 DEF Switch
  <2> QED
    BY <2>1, <2>3 DEF Switch
<1> QED
  BY <1>1, <1>2 DEF Schedule

\* Whatever processes and signals do, no task but the one _curr names is
\* left marked as running.
THEOREM NoOtherRunnerHolds == Spec => []NoOtherRunner
<1> USE TaskMaxAssumption, TaskTicksAssumption
<1>1. Init => NoOtherRunner
  BY DEF Init, NoOtherRunner
<1>2. TypeOK /\ NoOtherRunner /\ [Next]_vars => NoOtherRunner'
  <2> SUFFICES ASSUME TypeOK, NoOtherRunner, [Next]_vars PROVE NoOtherRunner'
    OBVIOUS
  <2>0. stat \in [Pid -> Stat] /\ curr \in Pid /\ ppid \in [Pid -> Pid]
    BY DEF TypeOK
  <2>1. CASE Tick \/ SysYield
    BY <2>0, <2>1, ScheduleNoOther DEF Tick, SysYield, NoOtherRunner
  <2>2. CASE SysFork
    BY <2>0, <2>2 DEF SysFork, NoOtherRunner
  <2>3. CASE SysForkFull \/ SysExitOrphan \/ SysWaitUnsupported \/ BlockResume
    BY <2>3 DEF SysForkFull, SysExitOrphan, SysWaitUnsupported, BlockResume, NoOtherRunner
  <2>4. CASE SysExit
    <3> DEFINE dead == [stat EXCEPT ![curr] = "DIE"]
               woken == [dead EXCEPT ![ppid[curr]] = "PRE"]
    <3>1. dead \in [Pid -> Stat] /\ woken \in [Pid -> Stat]
      BY <2>0
    <3>2. \A p \in Pid : dead[p] # "RUN" /\ woken[p] # "RUN"
      BY <2>0 DEF NoOtherRunner
    <3>3. Schedule(dead) \/ Schedule(woken)
      BY <2>4 DEF SysExit
    <3> HIDE DEF dead, woken
    <3> QED
      BY <3>1, <3>2, <3>3, ScheduleNoOther DEF NoOtherRunner
  <2>5. CASE SysBlock \/ \E pid \in Pid \cup {-1} : SysWait(pid)
    <3> DEFINE blk == [stat EXCEPT ![curr] = "BLK"]
    <3>1. blk \in [Pid -> Stat] /\ \A p \in Pid : blk[p] # "RUN"
      BY <2>0 DEF NoOtherRunner
    <3>2. Schedule(blk)
      BY <2>5 DEF SysBlock, SysWait
    <3> HIDE DEF blk
    <3> QED
      BY <3>1, <3>2, ScheduleNoOther DEF NoOtherRunner
  <2>6. CASE WaitResume
    BY <2>0, <2>6 DEF WaitResume, NoOtherRunner
  <2>7. ASSUME NEW p \in Pid, DevWake(p) PROVE NoOtherRunner'
    BY <2>0, <2>7 DEF DevWake, NoOtherRunner
  <2>8. ASSUME NEW p \in Pid, SysStop(p) PROVE NoOtherRunner'
    <3> DEFINE stp == [stat EXCEPT ![p] = "STP"]
    <3>1. stp \in [Pid -> Stat] /\ \A q \in Pid : stp[q] = "RUN" => q = curr
      BY <2>0 DEF NoOtherRunner
    <3>2. Schedule(stp) \/ (stat' = stp /\ UNCHANGED curr)
      BY <2>8 DEF SysStop
    <3> HIDE DEF stp
    <3> QED
      BY <3>1, <3>2, ScheduleNoOther DEF NoOtherRunner
  <2>9. ASSUME NEW p \in Pid, SysCont(p) PROVE NoOtherRunner'
    BY <2>0, <2>9 DEF SysCont, NoOtherRunner
  <2>10. CASE UNCHANGED vars
    BY <2>10 DEF vars, NoOtherRunner
  <2> QED
    BY <2>1, <2>2, <2>3, <2>4, <2>5, <2>6, <2>7, <2>8, <2>9, <2>10 DEF Next
<1> QED
  BY <1>1, <1>2, TypeCorrect, PTL DEF Spec

-----------------------------------------------------------------------------
\* task_schedule changes no state but that of ready and running tasks.
LEMMA ScheduleFrame ==
    ASSUME TypeOK, NEW st \in [Pid -> Stat], Schedule(st), NEW p \in Pid
    PROVE  \/ stat'[p] = st[p]
           \/ st[p] \in {"PRE", "RUN"} /\ stat'[p] \in {"PRE", "RUN"}
<1> USE TaskMaxAssumption
<1>1. CASE stat' = st /\ UNCHANGED <<curr, fault>>
  BY <1>1
<1>2. CASE \E next \in Pid : GetNext(st, next) /\ Switch(st, next)
  <2>1. PICK next \in Pid : GetNext(st, next) /\ Switch(st, next)
    BY <1>2
  <2>2. curr \in Pid
    BY DEF TypeOK
  <2>3. CASE p = next
    BY <2>1, <2>2, <2>3 DEF Switch, GetNext
  <2>4. CASE p # next
    BY <2>1, <2>2, <2>4 DEF Switch
  <2> QED
    BY <2>3, <2>4
<1> QED
  BY <1>1, <1>2 DEF Schedule

\* With the idle task ready and the current task not waiting in the ready
\* state, task_schedule ends with the task _curr names running, alone.
LEMMA ScheduleRuns ==
    ASSUME TypeOK, NEW st \in [Pid -> Stat], Schedule(st),
           \A p \in Pid : st[p] = "RUN" => p = curr,
           st[Idle] \in {"PRE", "RUN"}
    PROVE  \A p \in Pid : stat'[p] = "RUN" <=> p = curr'
<1> USE TaskMaxAssumption
<1>0. Idle \in Pid /\ curr \in Pid
  BY DEF TypeOK
<1>1. \A p \in Pid : stat'[p] = "RUN" => p = curr'
  BY ScheduleNoOther
<1>2. stat'[curr'] = "RUN"
  <2>1. CASE KeepsRunning(st) /\ stat' = st /\ UNCHANGED <<curr, fault>>
    BY <2>1 DEF KeepsRunning
  <2>2. CASE (\A p \in Pid : st[p] # "PRE") /\ stat' = st /\ UNCHANGED <<curr, fault>>
    BY <1>0, <2>2
  <2>3. CASE \E next \in Pid : GetNext(st, next) /\ Switch(st, next)
    BY <1>0, <2>3 DEF Switch
  <2> QED
    BY <2>1, <2>2, <2>3 DEF Schedule
<1>3. curr' \in Pid
  BY ScheduleType
<1> QED
  BY <1>1, <1>2, <1>3

-----------------------------------------------------------------------------
(***************************************************************************)
(* The parts of the invariant that concern one task p, for a table st of   *)
(* states, program counters at, registrations rg, awaited children wp and  *)
(* parents pp.                                                             *)
(***************************************************************************)
PcFacts(st, at, rg, p) ==
    /\ st[p] = "FREE" => at[p] = "user"
    /\ st[p] = "DIE" <=> at[p] = "exit"
    /\ st[p] # "STP"
    /\ rg[p] => at[p] = "block"

WaitFacts(st, wp, pp, p) ==
    /\ st[p] = "BLK" =>
           \/ wp[p] = -1
           \/ wp[p] \in Pid \ {Idle} /\ st[wp[p]] # "FREE" /\ pp[wp[p]] = p
    /\ st[p] \in {"PRE", "RUN"} =>
           wp[p] \in Pid \ {Idle} /\ st[wp[p]] = "DIE" /\ pp[wp[p]] = p

\* They are the conjuncts of the invariant.
LEMMA FactsOfInv ==
    /\ StatMatchesPc <=> \A p \in Pid : PcFacts(stat, kpc, reg, p)
    /\ WaiterKnows <=> \A p \in Pid : kpc[p] = "wait" => WaitFacts(stat, waitpid, ppid, p)
<1>1. StatMatchesPc <=> \A p \in Pid : PcFacts(stat, kpc, reg, p)
  BY DEF StatMatchesPc, PcFacts
<1>2. WaiterKnows <=> \A p \in Pid : kpc[p] = "wait" => WaitFacts(stat, waitpid, ppid, p)
  BY TaskMaxAssumption DEF WaiterKnows, IsChildOf, WaitFacts
<1> QED
  BY <1>1, <1>2

\* What a waiter knows stays true in a table in which its own state is in
\* the same class, no used slot has been freed and the dead are still dead.
LEMMA WaitFactsKept ==
    ASSUME NEW st, NEW st2, NEW wp, NEW pp, NEW p \in Pid, WaitFacts(st, wp, pp, p),
           st2[p] = st[p] \/ (st[p] \in {"PRE", "RUN"} /\ st2[p] \in {"PRE", "RUN"}),
           \A w \in Pid : /\ st[w] # "FREE" => st2[w] # "FREE"
                          /\ st[w] = "DIE" => st2[w] = "DIE"
    PROVE  WaitFacts(st2, wp, pp, p)
BY DEF WaitFacts

\* If the table st that task_schedule is given satisfies the invariant,
\* except that the current task need not be running, the table it leaves
\* satisfies all of it.
LEMMA ScheduleKeeps ==
    ASSUME TypeOK, NEW st \in [Pid -> Stat], Schedule(st),
           \A p \in Pid : st[p] = "RUN" => p = curr,
           st[Idle] \in {"PRE", "RUN"}, kpc'[Idle] = "user",
           \A p \in Pid : PcFacts(st, kpc', reg', p),
           \A p \in Pid : kpc'[p] = "wait" => WaitFacts(st, waitpid', ppid', p)
    PROVE  SchedInv'
<1> USE TaskMaxAssumption
<1>0. \A p \in Pid : \/ stat'[p] = st[p]
                     \/ st[p] \in {"PRE", "RUN"} /\ stat'[p] \in {"PRE", "RUN"}
  BY ScheduleFrame
<1>1. OneRunner'
  BY ScheduleRuns DEF OneRunner
<1>2. IdleReady'
  <2>1. Idle \in Pid
    OBVIOUS
  <2> QED
    BY <1>0, <2>1 DEF IdleReady
<1>3. \A p \in Pid : PcFacts(stat', kpc', reg', p)
  BY <1>0 DEF PcFacts
<1>4. \A p \in Pid : kpc'[p] = "wait" => WaitFacts(stat', waitpid', ppid', p)
  <2>1. \A w \in Pid : /\ st[w] # "FREE" => stat'[w] # "FREE"
                       /\ st[w] = "DIE" => stat'[w] = "DIE"
    BY <1>0
  <2> QED
    BY <1>0, <2>1, WaitFactsKept
<1>5. StatMatchesPc'
  BY <1>3 DEF StatMatchesPc, PcFacts
<1>6. WaiterKnows'
  BY <1>4 DEF WaiterKnows, IsChildOf, WaitFacts
<1> QED
  BY <1>1, <1>2, <1>5, <1>6 DEF SchedInv

\* The inductive invariant.
THEOREM SchedInvHolds == Spec => []SchedInv
<1> USE TaskMaxAssumption, TaskTicksAssumption
<1>1. Init => SchedInv
  <2> SUFFICES ASSUME Init PROVE SchedInv
    OBVIOUS
  <2>1. OneRunner /\ IdleReady
    BY DEF Init, OneRunner, IdleReady
  <2>2. StatMatchesPc
    BY DEF Init, StatMatchesPc
  <2>3. WaiterKnows
    BY DEF Init, WaiterKnows
  <2> QED
    BY <2>1, <2>2, <2>3 DEF SchedInv
<1>2. TypeOK /\ SchedInv /\ [Next]_vars => SchedInv'
  <2> SUFFICES ASSUME TypeOK, SchedInv, [Next]_vars, ~fault', stops' = 0
               PROVE  SchedInv'
    BY DEF SchedInv
  <2>s. stops = 0
    <3>1. stops' = stops \/ stops' = stops + 1
      BY DEF Next, vars, Tick, SysYield, SysFork, SysForkFull, SysExit, SysExitOrphan, SysWait,
             SysWaitUnsupported, WaitResume, SysBlock, DevWake, BlockResume, SysStop, SysCont
    <3> QED
      BY <3>1 DEF TypeOK
  <2>0. /\ stat \in [Pid -> Stat] /\ curr \in Pid /\ ppid \in [Pid -> Pid]
        /\ kpc \in [Pid -> {"user", "wait", "block", "exit"}]
        /\ reg \in [Pid -> BOOLEAN]
        /\ waitpid \in [Pid -> Pid \cup {-1}]
    BY DEF TypeOK
  <2> DEFINE I == OneRunner /\ IdleReady /\ StatMatchesPc /\ WaiterKnows
  <2>1. CASE Tick \/ SysYield
    <3>1. ~fault /\ Schedule(stat) /\ UNCHANGED <<ppid, waitpid, kpc, reg>>
      BY <2>1 DEF Tick, SysYield, UserMode, InProcess
    <3>2. I
      BY <2>s, <3>1 DEF SchedInv
    <3>3. /\ \A p \in Pid : PcFacts(stat, kpc', reg', p)
          /\ \A p \in Pid : kpc'[p] = "wait" => WaitFacts(stat, waitpid', ppid', p)
      BY <3>1, <3>2, FactsOfInv
    <3>4. /\ \A p \in Pid : stat[p] = "RUN" => p = curr
          /\ stat[Idle] \in {"PRE", "RUN"} /\ kpc'[Idle] = "user"
      BY <3>1, <3>2 DEF OneRunner, IdleReady
    <3> QED
      BY <2>0, <3>1, <3>3, <3>4, ScheduleKeeps
  <2>2. CASE SysFork
    <3>1. ~fault /\ I
      BY <2>s, <2>2 DEF SysFork, UserMode, InProcess, SchedInv
    <3>2. PICK chd \in Pid, junk \in {-1, 0} :
            /\ stat[chd] = "FREE"
            /\ stat' = [stat EXCEPT ![chd] = "PRE"]
            /\ ppid' = [ppid EXCEPT ![chd] = curr]
            /\ waitpid' = [waitpid EXCEPT ![chd] = junk]
            /\ kpc' = [kpc EXCEPT ![chd] = "user"]
      BY <2>2 DEF SysFork, GetFree
    <3>3. UNCHANGED <<reg, curr, fault>>
      BY <2>2 DEF SysFork
    <3>4. OneRunner' /\ IdleReady'
      BY <2>0, <3>1, <3>2, <3>3 DEF OneRunner, IdleReady
    <3>5. StatMatchesPc'
      BY <2>0, <3>1, <3>2, <3>3 DEF StatMatchesPc
    <3>6. WaiterKnows'
      BY <2>0, <3>1, <3>2, <3>3 DEF WaiterKnows, IsChildOf
    <3> QED
      BY <3>4, <3>5, <3>6 DEF SchedInv
  <2>3. CASE SysForkFull \/ SysExitOrphan \/ SysWaitUnsupported
    BY <2>3 DEF SysForkFull, SysExitOrphan, SysWaitUnsupported
  <2>4. CASE SysExit
    <3> DEFINE prt == ppid[curr]
               dead == [stat EXCEPT ![curr] = "DIE"]
               woken == [dead EXCEPT ![prt] = "PRE"]
    <3>1. ~fault /\ kpc[curr] = "user" /\ curr # Idle /\ I /\ prt \in Pid
      BY <2>0, <2>4, <2>s DEF SysExit, UserMode, InProcess, SchedInv
    <3>2. UNCHANGED <<ppid, reg>> /\ kpc' = [kpc EXCEPT ![curr] = "exit"]
      BY <2>4 DEF SysExit
    <3>3. dead \in [Pid -> Stat] /\ woken \in [Pid -> Stat]
      BY <2>0, <3>1
    <3>4. stat[curr] = "RUN" /\ ~reg[curr]
      BY <2>0, <3>1 DEF OneRunner, StatMatchesPc
    <3>5. CASE WakesParent(prt)
      <4>1. waitpid' = [waitpid EXCEPT ![prt] = curr] /\ Schedule(woken)
        BY <2>4, <3>5 DEF SysExit, TellParent
      <4>2. stat[prt] = "BLK" /\ prt # Idle /\ prt # curr
        BY <3>1, <3>4, <3>5 DEF WakesParent, IdleReady
      <4>3. \A p \in Pid : woken[p] = IF p = prt THEN "PRE" ELSE IF p = curr THEN "DIE" ELSE stat[p]
        BY <2>0, <3>1
      <4> HIDE DEF dead, woken, prt
      <4>4. \A p \in Pid : woken[p] # "RUN"
        BY <2>0, <3>1, <3>4, <4>2, <4>3 DEF OneRunner
      <4>5. woken[Idle] \in {"PRE", "RUN"} /\ kpc'[Idle] = "user"
        BY <2>0, <3>1, <3>2, <4>2, <4>3 DEF IdleReady
      <4>6. \A p \in Pid : PcFacts(woken, kpc', reg', p)
        BY <2>0, <3>1, <3>2, <3>4, <4>2, <4>3 DEF StatMatchesPc, PcFacts
      <4>7. ppid[curr] = prt
        BY DEF prt
      <4>8. ASSUME NEW p \in Pid, kpc'[p] = "wait" PROVE WaitFacts(woken, waitpid', ppid', p)
        <5>1. p # curr /\ kpc[p] = "wait"
          BY <2>0, <3>2, <4>8
        <5>2. CASE p = prt
          BY <2>0, <3>1, <3>2, <4>1, <4>2, <4>3, <4>7, <5>1, <5>2 DEF WaitFacts
        <5>3. CASE p # prt
          <6>1. waitpid'[p] = waitpid[p] /\ woken[p] = stat[p] /\ ppid' = ppid
            BY <2>0, <3>1, <3>2, <4>1, <4>3, <5>1, <5>3
          <6>2. WaitFacts(stat, waitpid, ppid, p)
            BY <3>1, <5>1, FactsOfInv
          <6>3. \A w \in Pid : /\ stat[w] # "FREE" => woken[w] # "FREE"
                               /\ stat[w] = "DIE" => woken[w] = "DIE"
            BY <3>1, <3>4, <4>2, <4>3
          <6>4. WaitFacts(woken, waitpid, ppid, p)
            BY <6>1, <6>2, <6>3, WaitFactsKept
          <6> QED
            BY <6>1, <6>4 DEF WaitFacts
        <5> QED
          BY <5>2, <5>3
      <4> QED
        BY <3>3, <4>1, <4>4, <4>5, <4>6, <4>8, ScheduleKeeps
    <3>6. CASE ~WakesParent(prt)
      <4>1. waitpid' = waitpid /\ Schedule(dead)
        BY <2>4, <3>6 DEF SysExit
      <4>2. \A p \in Pid : dead[p] = IF p = curr THEN "DIE" ELSE stat[p]
        BY <2>0
      <4> HIDE DEF dead
      <4>3. /\ \A p \in Pid : dead[p] # "RUN"
            /\ dead[Idle] \in {"PRE", "RUN"} /\ kpc'[Idle] = "user"
        <5>1. \A p \in Pid : dead[p] # "RUN"
          BY <3>1, <4>2 DEF OneRunner
        <5>2. Idle \in Pid /\ dead[Idle] = stat[Idle]
          BY <2>0, <3>1, <4>2
        <5>3. kpc'[Idle] = kpc[Idle]
          BY <2>0, <3>1, <3>2, <5>2
        <5> QED
          BY <3>1, <5>1, <5>2, <5>3 DEF IdleReady
      <4>4. \A p \in Pid : PcFacts(dead, kpc', reg', p)
        BY <2>0, <3>1, <3>2, <3>4, <4>2 DEF StatMatchesPc, PcFacts
      <4>5. ASSUME NEW p \in Pid, kpc'[p] = "wait" PROVE WaitFacts(dead, waitpid', ppid', p)
        <5>1. dead[p] = stat[p] /\ kpc[p] = "wait"
          BY <2>0, <3>1, <3>2, <4>2, <4>5
        <5>2. WaitFacts(stat, waitpid, ppid, p)
          BY <3>1, <5>1, FactsOfInv
        <5>3. \A w \in Pid : /\ stat[w] # "FREE" => dead[w] # "FREE"
                             /\ stat[w] = "DIE" => dead[w] = "DIE"
          BY <3>1, <3>4, <4>2
        <5>4. WaitFacts(dead, waitpid, ppid, p)
          BY <5>1, <5>2, <5>3, WaitFactsKept
        <5> QED
          BY <3>2, <4>1, <5>4
      <4> QED
        BY <3>3, <4>1, <4>3, <4>4, <4>5, ScheduleKeeps
    <3> QED
      BY <3>5, <3>6
  <2>5. ASSUME NEW pid \in Pid \cup {-1}, SysWait(pid) PROVE SchedInv'
    <3> DEFINE blk == [stat EXCEPT ![curr] = "BLK"]
    <3>1. ~fault /\ kpc[curr] = "user" /\ curr # Idle /\ I
      BY <2>s, <2>5 DEF SysWait, UserMode, InProcess, SchedInv
    <3>2. /\ UNCHANGED <<ppid, reg>>
          /\ kpc' = [kpc EXCEPT ![curr] = "wait"]
          /\ waitpid' = [waitpid EXCEPT ![curr] = pid]
          /\ Schedule(blk)
      BY <2>5 DEF SysWait
    <3>3. pid = -1 \/ (pid \in Pid \ {Idle} /\ stat[pid] # "FREE" /\ ppid[pid] = curr)
      BY <2>5 DEF SysWait, HasChild
    <3>4. blk \in [Pid -> Stat] /\ \A p \in Pid : blk[p] = IF p = curr THEN "BLK" ELSE stat[p]
      BY <2>0
    <3>5. stat[curr] = "RUN" /\ ~reg[curr]
      BY <2>0, <3>1 DEF OneRunner, StatMatchesPc
    <3> HIDE DEF blk
    <3>6. /\ \A p \in Pid : blk[p] # "RUN"
          /\ blk[Idle] \in {"PRE", "RUN"} /\ kpc'[Idle] = "user"
      <4>1. \A p \in Pid : blk[p] # "RUN"
        BY <3>1, <3>4 DEF OneRunner
      <4>2. Idle \in Pid /\ blk[Idle] = stat[Idle]
        BY <2>0, <3>1, <3>4
      <4>3. kpc'[Idle] = kpc[Idle]
        BY <2>0, <3>1, <3>2, <4>2
      <4> QED
        BY <3>1, <4>1, <4>2, <4>3 DEF IdleReady
    <3>7. \A p \in Pid : PcFacts(blk, kpc', reg', p)
      BY <2>0, <3>1, <3>2, <3>4, <3>5 DEF StatMatchesPc, PcFacts
    <3>8. ASSUME NEW p \in Pid, kpc'[p] = "wait" PROVE WaitFacts(blk, waitpid', ppid', p)
      <4>1. CASE p = curr
        BY <2>0, <3>2, <3>3, <3>4, <4>1 DEF WaitFacts
      <4>2. CASE p # curr
        <5>1. blk[p] = stat[p] /\ kpc[p] = "wait" /\ waitpid'[p] = waitpid[p]
          BY <2>0, <3>2, <3>4, <3>8, <4>2
        <5>2. WaitFacts(stat, waitpid, ppid, p)
          BY <3>1, <5>1, FactsOfInv
        <5>3. \A w \in Pid : /\ stat[w] # "FREE" => blk[w] # "FREE"
                             /\ stat[w] = "DIE" => blk[w] = "DIE"
          BY <3>4, <3>5
        <5>4. WaitFacts(blk, waitpid, ppid, p)
          BY <5>1, <5>2, <5>3, WaitFactsKept
        <5> QED
          BY <3>2, <5>1, <5>4 DEF WaitFacts
      <4> QED
        BY <4>1, <4>2
    <3> QED
      BY <3>2, <3>4, <3>6, <3>7, <3>8, ScheduleKeeps
  <2>6. CASE WaitResume
    <3> DEFINE termd == waitpid[curr]
    <3>1. ~fault /\ kpc[curr] = "wait" /\ I
      BY <2>s, <2>6 DEF WaitResume, SchedInv
    <3>2. stat[curr] = "RUN" /\ termd \in Pid \ {Idle} /\ stat[termd] = "DIE" /\ ppid[termd] = curr
      BY <2>0, <3>1 DEF OneRunner, WaiterKnows, IsChildOf
    <3>3. /\ UNCHANGED <<reg, curr>>
          /\ stat' = [stat EXCEPT ![termd] = "FREE"]
          /\ ppid' = [ppid EXCEPT ![termd] = Idle]
          /\ kpc' = [kpc EXCEPT ![curr] = "user", ![termd] = "user"]
          /\ waitpid' = [waitpid EXCEPT ![curr] = 0, ![termd] = 0]
      BY <2>6, <3>2 DEF WaitResume
    <3> HIDE DEF termd
    <3>4. OneRunner' /\ IdleReady'
      BY <2>0, <3>1, <3>2, <3>3 DEF OneRunner, IdleReady
    <3>5. StatMatchesPc'
      BY <2>0, <3>1, <3>2, <3>3 DEF StatMatchesPc
    <3>6. WaiterKnows'
      <4>1. ASSUME NEW p \in Pid, kpc'[p] = "wait"
            PROVE  WaitFacts(stat', waitpid', ppid', p)
        <5>1. p # curr /\ p # termd /\ kpc[p] = "wait"
          BY <2>0, <3>2, <3>3, <4>1
        <5>2. WaitFacts(stat, waitpid, ppid, p)
          BY <3>1, <5>1, FactsOfInv
        <5>3. waitpid'[p] = waitpid[p] /\ stat'[p] = stat[p]
          BY <2>0, <3>2, <3>3, <5>1
        <5>4. waitpid[p] \in Pid /\ ppid[waitpid[p]] = p =>
                 /\ stat'[waitpid[p]] = stat[waitpid[p]]
                 /\ ppid'[waitpid[p]] = ppid[waitpid[p]]
          BY <2>0, <3>2, <3>3, <5>1
        <5> QED
          BY <5>2, <5>3, <5>4 DEF WaitFacts
      <4> QED
        BY <4>1 DEF WaiterKnows, IsChildOf, WaitFacts
    <3> QED
      BY <3>4, <3>5, <3>6 DEF SchedInv
  <2>7. CASE SysBlock
    <3> DEFINE blk == [stat EXCEPT ![curr] = "BLK"]
    <3>1. ~fault /\ kpc[curr] = "user" /\ curr # Idle /\ I
      BY <2>s, <2>7 DEF SysBlock, UserMode, InProcess, SchedInv
    <3>2. /\ UNCHANGED <<ppid, waitpid>>
          /\ kpc' = [kpc EXCEPT ![curr] = "block"]
          /\ reg' = [reg EXCEPT ![curr] = TRUE]
          /\ Schedule(blk)
      BY <2>7 DEF SysBlock
    <3>3. blk \in [Pid -> Stat] /\ \A p \in Pid : blk[p] = IF p = curr THEN "BLK" ELSE stat[p]
      BY <2>0
    <3>4. stat[curr] = "RUN"
      BY <2>0, <3>1 DEF OneRunner
    <3> HIDE DEF blk
    <3>6. /\ \A p \in Pid : blk[p] # "RUN"
          /\ blk[Idle] \in {"PRE", "RUN"} /\ kpc'[Idle] = "user"
      <4>1. \A p \in Pid : blk[p] # "RUN"
        BY <3>1, <3>3 DEF OneRunner
      <4>2. Idle \in Pid /\ blk[Idle] = stat[Idle]
        BY <2>0, <3>1, <3>3
      <4>3. kpc'[Idle] = kpc[Idle]
        BY <2>0, <3>1, <3>2, <4>2
      <4> QED
        BY <3>1, <4>1, <4>2, <4>3 DEF IdleReady
    <3>7. \A p \in Pid : PcFacts(blk, kpc', reg', p)
      BY <2>0, <3>1, <3>2, <3>3, <3>4 DEF StatMatchesPc, PcFacts
    <3>8. ASSUME NEW p \in Pid, kpc'[p] = "wait" PROVE WaitFacts(blk, waitpid', ppid', p)
      <4>1. blk[p] = stat[p] /\ kpc[p] = "wait"
        BY <2>0, <3>1, <3>2, <3>3, <3>8
      <4>2. WaitFacts(stat, waitpid, ppid, p)
        BY <3>1, <4>1, FactsOfInv
      <4>3. \A w \in Pid : /\ stat[w] # "FREE" => blk[w] # "FREE"
                           /\ stat[w] = "DIE" => blk[w] = "DIE"
        BY <3>3, <3>4
      <4>4. WaitFacts(blk, waitpid, ppid, p)
        BY <4>1, <4>2, <4>3, WaitFactsKept
      <4> QED
        BY <3>2, <4>4
    <3> QED
      BY <3>2, <3>3, <3>6, <3>7, <3>8, ScheduleKeeps
  <2>8. ASSUME NEW p \in Pid, DevWake(p) PROVE SchedInv'
    <3>1. ~fault /\ kpc[curr] = "user" /\ reg[p] /\ I
      BY <2>s, <2>8 DEF DevWake, UserMode, SchedInv
    <3>2. kpc[p] = "block" /\ p # curr /\ p # Idle /\ stat[p] # "DIE" /\ stat[p] # "FREE"
      BY <2>0, <3>1 DEF IdleReady, StatMatchesPc
    <3>3. /\ stat' = [stat EXCEPT ![p] = "PRE"]
          /\ reg' = [reg EXCEPT ![p] = FALSE]
          /\ UNCHANGED <<ppid, waitpid, kpc, curr, fault>>
      BY <2>8, <3>2 DEF DevWake
    <3>4. OneRunner' /\ IdleReady'
      BY <2>0, <3>1, <3>2, <3>3 DEF OneRunner, IdleReady
    <3>5. StatMatchesPc'
      BY <2>0, <3>1, <3>2, <3>3 DEF StatMatchesPc
    <3>6. WaiterKnows'
      BY <2>0, <3>1, <3>2, <3>3 DEF WaiterKnows, IsChildOf
    <3> QED
      BY <3>4, <3>5, <3>6 DEF SchedInv
  <2>9. CASE BlockResume
    <3>1. ~fault /\ kpc[curr] = "block" /\ I
      BY <2>s, <2>9 DEF BlockResume, SchedInv
    <3>2. /\ kpc' = [kpc EXCEPT ![curr] = "user"]
          /\ reg' = [reg EXCEPT ![curr] = FALSE]
          /\ UNCHANGED <<stat, ppid, waitpid, curr, fault>>
      BY <2>9 DEF BlockResume
    <3>3. OneRunner' /\ IdleReady'
      BY <2>0, <3>1, <3>2 DEF OneRunner, IdleReady
    <3>4. StatMatchesPc'
      BY <2>0, <3>1, <3>2 DEF StatMatchesPc, OneRunner
    <3>5. WaiterKnows'
      BY <2>0, <3>1, <3>2 DEF WaiterKnows, IsChildOf
    <3> QED
      BY <3>3, <3>4, <3>5 DEF SchedInv
  <2>10. ASSUME NEW p \in Pid, SysStop(p) PROVE SchedInv'
    BY <2>s, <2>10 DEF SysStop
  <2>11. ASSUME NEW p \in Pid, SysCont(p) PROVE SchedInv'
    BY <2>s, <2>11 DEF SysCont, SchedInv, StatMatchesPc, InProcess, UserMode
  <2>12. CASE UNCHANGED vars
    BY <2>s, <2>12 DEF vars, SchedInv, OneRunner, IdleReady, StatMatchesPc, WaiterKnows, IsChildOf
  <2> QED
    BY <2>1, <2>2, <2>3, <2>4, <2>5, <2>6, <2>7, <2>8, <2>9, <2>10, <2>11, <2>12 DEF Next
<1> QED
  BY <1>1, <1>2, TypeCorrect, PTL DEF Spec

\* The task _curr names is in TASK_RUN.
THEOREM CurrRunsHolds == Spec => []CurrRuns
<1>1. TypeOK /\ SchedInv => CurrRuns
  BY DEF TypeOK, SchedInv, OneRunner, CurrRuns
<1> QED
  BY <1>1, TypeCorrect, SchedInvHolds, PTL

\* task_wait frees only the slot of an ended child of the caller.
THEOREM ReapsDeadChildHolds == Spec => []ReapsDeadChild
<1>1. TypeOK /\ SchedInv => ReapsDeadChild
  BY DEF TypeOK, SchedInv, OneRunner, WaiterKnows, IsChildOf, ReapsDeadChild, WaitUninterrupted
<1> QED
  BY <1>1, TypeCorrect, SchedInvHolds, PTL

\* No step brings an ended process back.
THEOREM DeadStaysDeadHolds == Spec => DeadStaysDead
<1> USE TaskMaxAssumption
<1> DEFINE Buried == stops' = 0 => \A p \in Pid : stat[p] = "DIE" => stat'[p] \in {"DIE", "FREE"}
<1>1. TypeOK /\ SchedInv /\ [Next]_vars => [Buried]_vars
  <2> SUFFICES ASSUME TypeOK, SchedInv, Next, stops' = 0, NEW p \in Pid, stat[p] = "DIE"
               PROVE  stat'[p] \in {"DIE", "FREE"}
    OBVIOUS
  <2>0. /\ stat \in [Pid -> Stat] /\ curr \in Pid /\ ppid \in [Pid -> Pid]
        /\ kpc \in [Pid -> {"user", "wait", "block", "exit"}]
        /\ waitpid \in [Pid -> Pid \cup {-1}]
    BY DEF TypeOK
  <2>s. stops = 0
    <3>1. stops' = stops \/ stops' = stops + 1
      BY DEF Next, Tick, SysYield, SysFork, SysForkFull, SysExit, SysExitOrphan, SysWait,
             SysWaitUnsupported, WaitResume, SysBlock, DevWake, BlockResume, SysStop, SysCont
    <3> QED
      BY <3>1 DEF TypeOK
  <2>1. CASE Tick \/ SysYield
    BY <2>0, <2>1, ScheduleFrame DEF Tick, SysYield
  <2>2. CASE SysFork
    BY <2>0, <2>2 DEF SysFork, GetFree
  <2>3. CASE SysForkFull \/ SysExitOrphan \/ SysWaitUnsupported \/ BlockResume
    BY <2>3 DEF SysForkFull, SysExitOrphan, SysWaitUnsupported, BlockResume
  <2>4. CASE SysExit
    <3> DEFINE dead == [stat EXCEPT ![curr] = "DIE"]
               woken == [dead EXCEPT ![ppid[curr]] = "PRE"]
    <3>1. dead \in [Pid -> Stat] /\ woken \in [Pid -> Stat] /\ dead[p] = "DIE"
      BY <2>0
    <3>2. CASE WakesParent(ppid[curr])
      <4>1. woken[p] = "DIE"
        BY <2>0, <3>2 DEF WakesParent
      <4>2. Schedule(woken)
        BY <2>4, <3>2 DEF SysExit
      <4> HIDE DEF dead, woken
      <4> QED
        BY <3>1, <4>1, <4>2, ScheduleFrame
    <3>3. CASE ~WakesParent(ppid[curr])
      <4>1. Schedule(dead)
        BY <2>4, <3>3 DEF SysExit
      <4> HIDE DEF dead, woken
      <4> QED
        BY <3>1, <4>1, ScheduleFrame
    <3> QED
      BY <3>2, <3>3
  <2>5. CASE SysBlock \/ \E pid \in Pid \cup {-1} : SysWait(pid)
    <3> DEFINE blk == [stat EXCEPT ![curr] = "BLK"]
    <3>1. ~fault /\ Schedule(blk)
      BY <2>5 DEF SysBlock, SysWait, InProcess, UserMode
    <3>2. p # curr
      BY <2>0, <2>s, <3>1 DEF SchedInv, OneRunner
    <3>3. blk \in [Pid -> Stat] /\ blk[p] = "DIE"
      BY <2>0, <3>2
    <3> HIDE DEF blk
    <3> QED
      BY <3>1, <3>3, ScheduleFrame
  <2>6. CASE WaitResume
    BY <2>0, <2>6 DEF WaitResume
  <2>7. ASSUME NEW q \in Pid, DevWake(q) PROVE stat'[p] \in {"DIE", "FREE"}
    <3>1. ~fault /\ reg[q]
      BY <2>7 DEF DevWake, UserMode
    <3>2. p # q
      BY <2>s, <3>1 DEF SchedInv, StatMatchesPc
    <3> QED
      BY <2>0, <2>7, <3>2 DEF DevWake
  <2>8. ASSUME NEW q \in Pid, SysStop(q) PROVE FALSE
    BY <2>s, <2>8 DEF SysStop
  <2>9. ASSUME NEW q \in Pid, SysCont(q) PROVE stat'[p] \in {"DIE", "FREE"}
    BY <2>0, <2>9 DEF SysCont
  <2> QED
    BY <2>1, <2>2, <2>3, <2>4, <2>5, <2>6, <2>7, <2>8, <2>9 DEF Next
<1>2. Spec => [][Next]_vars
  BY PTL DEF Spec
<1> QED
  BY <1>1, <1>2, TypeCorrect, SchedInvHolds, PTL DEF DeadStaysDead
=============================================================================
