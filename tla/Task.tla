-------------------------------- MODULE Task --------------------------------
(***************************************************************************)
(* The process table and the scheduler of the kernel (kernel/task.c), the  *)
(* timer interrupt that drives it (kernel/apic.c) and the two signals that *)
(* act on the scheduling state at once (SIGSTOP and SIGCONT, signal.c).    *)
(*                                                                         *)
(* There is one processor.  A system call enters with interrupts masked    *)
(* (MSR_FMASK in user/syscall.c, interrupt gates in arch/X64/intr.c) and   *)
(* __task_switch does not touch the flag, so kernel code runs undisturbed  *)
(* up to the point where it calls task_schedule and another task is        *)
(* switched in.  One action is one such stretch; kpc[p] says where task p  *)
(* goes on when it is switched in again.                                   *)
(*                                                                         *)
(* The stretch of a process that ends in a device wait follows the pattern *)
(* of block_as in net/socket: register the pid, block, and forget the      *)
(* registration after the wait.  Locks, pipes and terminals keep their own *)
(* waiters and are modelled in their own modules.                          *)
(*                                                                         *)
(* task_sleep has no caller in the kernel, so the list of sleepers is      *)
(* always empty and update_sleep, which task_schedule calls first, returns *)
(* at once; the list is left out.                                          *)
(***************************************************************************)
EXTENDS Integers

CONSTANTS
    TASK_MAX,   \* slots of the process table
    TASK_TICKS, \* ticks a task is given at a time
    MaxStops    \* bound: how many SIGSTOPs processes send

ASSUME TaskMaxAssumption == TASK_MAX \in Nat /\ TASK_MAX >= 2
ASSUME TaskTicksAssumption == TASK_TICKS \in Nat
ASSUME MaxStopsAssumption == MaxStops \in Nat

VARIABLES
    stat,     \* state of the task in each slot, "FREE" for a NULL slot
    ppid,     \* parent's slot
    waitpid,  \* child awaited, -1 for any
    slice,    \* remaining ticks (the field curr of task_t)
    kpc,      \* where the task resumes: user mode or inside the kernel
    reg,      \* a driver holds the task's pid and will unblock it
    curr,     \* the slot of the current task (_curr)
    fault,    \* the kernel took an exception or reached unreachable code
    stops     \* history: how many SIGSTOPs have been sent

vars == <<stat, ppid, waitpid, slice, kpc, reg, curr, fault, stops>>

Pid == 0 .. TASK_MAX - 1
Idle == 0
InitProc == 1

\* TASK_INI only exists inside task_create and fork, TASK_SLP needs task_sleep.
Stat == {"FREE", "DIE", "PRE", "RUN", "BLK", "STP"}

TypeOK ==
    /\ stat \in [Pid -> Stat]
    /\ ppid \in [Pid -> Pid]
    /\ waitpid \in [Pid -> Pid \cup {-1}]
    /\ slice \in [Pid -> 0 .. TASK_TICKS]
    /\ kpc \in [Pid -> {"user", "wait", "block", "exit"}]
    /\ reg \in [Pid -> BOOLEAN]
    /\ curr \in Pid
    /\ fault \in BOOLEAN
    /\ stops \in 0 .. MaxStops

-----------------------------------------------------------------------------
(***************************************************************************)
(* task_schedule.  st is the table as the caller left it.                  *)
(***************************************************************************)

\* Bug: the scan starts at slot 0 instead of at _curr.
DistanceFromZero(p) == p

\* How many slots _getnext passes before it looks at slot p.
Distance(p) == (p - curr + TASK_MAX) % TASK_MAX

\* _getnext: p is the first prepared task at or after _curr, cyclically.
GetNext(st, p) ==
    /\ st[p] = "PRE"
    /\ \A q \in Pid : st[q] = "PRE" => Distance(p) <= Distance(q)

\* A running task with ticks left is not switched out.
KeepsRunning(st) == st[curr] = "RUN" /\ slice[curr] # 0

\* Bug: a used-up slice is not refilled.
SpendTickNoRefill(st) ==
    slice' = IF st[curr] = "RUN"
               THEN [slice EXCEPT ![curr] = @ - 1]
               ELSE slice

SpendTick(st) ==
    slice' = IF st[curr] = "RUN"
               THEN [slice EXCEPT ![curr] = IF @ = 0 THEN TASK_TICKS ELSE @ - 1]
               ELSE slice

\* Bug: the task that is switched out stays TASK_RUN.
SwitchNoDemote(st, next) ==
    /\ stat' = [st EXCEPT ![next] = "RUN"]
    /\ curr' = next
    /\ fault' = (kpc[next] = "exit" \/ next = curr)

\* __task_switch: a task switched in after task_exit runs on into
\* __builtin_unreachable; a task that is switched to itself continues from
\* the frame of its previous switch, which is no longer on its stack.
Switch(st, next) ==
    /\ stat' = [st EXCEPT ![curr] = IF @ = "RUN" THEN "PRE" ELSE @,
                          ![next] = "RUN"]
    /\ curr' = next
    /\ fault' = (kpc[next] = "exit" \/ next = curr)

Schedule(st) ==
    /\ SpendTick(st)
    /\ \/ /\ \/ KeepsRunning(st)
             \/ \A p \in Pid : st[p] # "PRE"
          /\ stat' = st
          /\ UNCHANGED <<curr, fault>>
       \/ /\ ~KeepsRunning(st)
          /\ \E next \in Pid : GetNext(st, next) /\ Switch(st, next)

-----------------------------------------------------------------------------
\* The current task executes in user mode (the idle task in its endless
\* loop): interrupts are enabled and, unless it is idle, it may trap.
UserMode == ~fault /\ kpc[curr] = "user"
InProcess == UserMode /\ curr # Idle

\* timer_handler: what the timers call is DevWake, then task_schedule.
Tick ==
    /\ UserMode
    /\ Schedule(stat)
    /\ UNCHANGED <<ppid, waitpid, kpc, reg, stops>>

SysYield ==
    /\ InProcess
    /\ Schedule(stat)
    /\ UNCHANGED <<ppid, waitpid, kpc, reg, stops>>

\* _getfree
GetFree(p) == stat[p] = "FREE" /\ \A q \in 0 .. p - 1 : stat[q] # "FREE"

\* task_fork.  The page that holds the child's task_t is not cleared and
\* waitpid is not assigned: -1 and 0 stand for what it may hold.
SysFork ==
    /\ InProcess
    /\ \E chd \in Pid, junk \in {-1, 0} :
         /\ GetFree(chd)
         /\ stat' = [stat EXCEPT ![chd] = "PRE"]
         /\ ppid' = [ppid EXCEPT ![chd] = curr]
         /\ waitpid' = [waitpid EXCEPT ![chd] = junk]
         /\ slice' = [slice EXCEPT ![chd] = slice[curr]]
         /\ kpc' = [kpc EXCEPT ![chd] = "user"]
    /\ UNCHANGED <<reg, curr, fault, stops>>

\* _task_create returns NULL and task_fork writes through it.
SysForkFull ==
    /\ InProcess
    /\ \A p \in Pid : stat[p] # "FREE"
    /\ fault' = TRUE
    /\ UNCHANGED <<stat, ppid, waitpid, slice, kpc, reg, curr, stops>>

\* Bug: the state of the parent is not looked at.
WakesParentAnyStat(prt) == waitpid[prt] \in {curr, -1}

WakesParent(prt) == stat[prt] = "BLK" /\ waitpid[prt] \in {curr, -1}

\* Bug: the parent is not told which child it was.
TellParentNothing(prt) == waitpid

TellParent(prt) == [waitpid EXCEPT ![prt] = curr]

\* task_exit of the current task.
SysExit ==
    LET prt == ppid[curr]
        dead == [stat EXCEPT ![curr] = "DIE"]
    IN  /\ InProcess
        /\ stat[prt] # "FREE"
        /\ IF WakesParent(prt)
             THEN /\ waitpid' = TellParent(prt)
                  /\ Schedule([dead EXCEPT ![prt] = "PRE"])
             ELSE /\ UNCHANGED waitpid
                  /\ Schedule(dead)
        /\ kpc' = [kpc EXCEPT ![curr] = "exit"]
        /\ UNCHANGED <<ppid, reg, stops>>

\* The parent has been reaped: task_exit reads prt->stat through NULL.
SysExitOrphan ==
    /\ InProcess
    /\ stat[ppid[curr]] = "FREE"
    /\ fault' = TRUE
    /\ UNCHANGED <<stat, ppid, waitpid, slice, kpc, reg, curr, stops>>

\* What task_wait checks before it blocks.
HasChild(pid) ==
    \/ /\ pid \in Pid \ {Idle}
       /\ stat[pid] # "FREE"
       /\ ppid[pid] = curr
    \/ /\ pid = -1
       /\ \E c \in Pid : stat[c] \notin {"FREE", "DIE"} /\ ppid[c] = curr

\* task_wait up to task_block.
SysWait(pid) ==
    /\ InProcess
    /\ HasChild(pid)
    /\ waitpid' = [waitpid EXCEPT ![curr] = pid]
    /\ kpc' = [kpc EXCEPT ![curr] = "wait"]
    /\ Schedule([stat EXCEPT ![curr] = "BLK"])
    /\ UNCHANGED <<ppid, reg, stops>>

\* task_wait after task_block: waitpid names the child that ended, its slot
\* is freed (the fields of a slot without a task are given fixed values).
\* table[-1] lies outside the table.
WaitResume ==
    LET termd == waitpid[curr] IN
    /\ ~fault
    /\ kpc[curr] = "wait"
    /\ IF termd = -1
         THEN /\ fault' = TRUE
              /\ kpc' = [kpc EXCEPT ![curr] = "user"]
              /\ waitpid' = [waitpid EXCEPT ![curr] = 0]
              /\ UNCHANGED <<stat, ppid, slice>>
         ELSE /\ fault' = FALSE
              /\ stat' = [stat EXCEPT ![termd] = "FREE"]
              /\ ppid' = [ppid EXCEPT ![termd] = Idle]
              /\ slice' = [slice EXCEPT ![termd] = TASK_TICKS]
              /\ kpc' = [kpc EXCEPT ![curr] = "user", ![termd] = "user"]
              /\ waitpid' = [waitpid EXCEPT ![curr] = 0, ![termd] = 0]
    /\ UNCHANGED <<reg, curr, stops>>

\* task_wait panics on any other argument.
SysWaitUnsupported ==
    /\ InProcess
    /\ fault' = TRUE
    /\ UNCHANGED <<stat, ppid, waitpid, slice, kpc, reg, curr, stops>>

-----------------------------------------------------------------------------
\* block_as of a socket up to the switch.
SysBlock ==
    /\ InProcess
    /\ reg' = [reg EXCEPT ![curr] = TRUE]
    /\ kpc' = [kpc EXCEPT ![curr] = "block"]
    /\ Schedule([stat EXCEPT ![curr] = "BLK"])
    /\ UNCHANGED <<ppid, waitpid, stops>>

\* A receive interrupt or a timer callback unblocks the registered task and
\* forgets it; task_unblock asserts that the slot is not NULL.
DevWake(p) ==
    /\ UserMode
    /\ reg[p]
    /\ IF stat[p] = "FREE"
         THEN fault' = TRUE /\ UNCHANGED stat
         ELSE stat' = [stat EXCEPT ![p] = "PRE"] /\ UNCHANGED fault
    /\ reg' = [reg EXCEPT ![p] = FALSE]
    /\ UNCHANGED <<ppid, waitpid, slice, kpc, curr, stops>>

\* Bug: the registration outlives the wait.
BlockResumeKeepsReg ==
    /\ ~fault
    /\ kpc[curr] = "block"
    /\ kpc' = [kpc EXCEPT ![curr] = "user"]
    /\ UNCHANGED <<stat, ppid, waitpid, slice, reg, curr, fault, stops>>

\* block_as after the switch back.
BlockResume ==
    /\ ~fault
    /\ kpc[curr] = "block"
    /\ kpc' = [kpc EXCEPT ![curr] = "user"]
    /\ reg' = [reg EXCEPT ![curr] = FALSE]
    /\ UNCHANGED <<stat, ppid, waitpid, slice, curr, fault, stops>>

-----------------------------------------------------------------------------
\* kill(p, SIGSTOP): whatever the target is doing, it becomes TASK_STP.
SysStop(p) ==
    /\ InProcess
    /\ stops < MaxStops
    /\ stat[p] # "FREE" /\ p # Idle
    /\ IF p = curr
         THEN Schedule([stat EXCEPT ![p] = "STP"])
         ELSE stat' = [stat EXCEPT ![p] = "STP"] /\ UNCHANGED <<slice, curr, fault>>
    /\ stops' = stops + 1
    /\ UNCHANGED <<ppid, waitpid, kpc, reg>>

\* kill(p, SIGCONT): a stopped task is made ready, whatever it was before.
SysCont(p) ==
    /\ InProcess
    /\ stat[p] = "STP"
    /\ stat' = [stat EXCEPT ![p] = "PRE"]
    /\ UNCHANGED <<ppid, waitpid, slice, kpc, reg, curr, fault, stops>>

-----------------------------------------------------------------------------
\* task_init and the creation of the first process.
Init ==
    /\ stat = [p \in Pid |-> CASE p = Idle -> "RUN"
                               [] p = InitProc -> "PRE"
                               [] OTHER -> "FREE"]
    /\ ppid = [p \in Pid |-> Idle]
    /\ \E junk \in {-1, 0} : waitpid = [p \in Pid |-> IF p = InitProc THEN junk ELSE 0]
    /\ slice = [p \in Pid |-> TASK_TICKS]
    /\ kpc = [p \in Pid |-> "user"]
    /\ reg = [p \in Pid |-> FALSE]
    /\ curr = Idle
    /\ fault = FALSE
    /\ stops = 0

Next ==
    \/ Tick
    \/ SysYield
    \/ SysFork
    \/ SysForkFull
    \/ SysExit
    \/ SysExitOrphan
    \/ \E pid \in Pid \cup {-1} : SysWait(pid)
    \/ SysWaitUnsupported
    \/ WaitResume
    \/ SysBlock
    \/ \E p \in Pid : DevWake(p)
    \/ BlockResume
    \/ \E p \in Pid : SysStop(p)
    \/ \E p \in Pid : SysCont(p)

\* The local APIC timer is periodic and a tick that arrives while interrupts
\* are masked stays pending until the return to user mode, hence strong
\* fairness.  Code in the kernel goes on by itself.
Fairness ==
    /\ SF_vars(Tick)
    /\ WF_vars(WaitResume)
    /\ WF_vars(BlockResume)

Spec == Init /\ [][Next]_vars /\ Fairness

-----------------------------------------------------------------------------
\* While the kernel works, the task _curr names is in TASK_RUN:
\* task_schedule always finds a task to run, because the idle task is never
\* blocked, stopped or ended, and no late wake-up hits the running task.
\* (A SIGSTOP can lead to such a wake-up.)
CurrRuns == ~fault /\ stops = 0 => stat[curr] = "RUN"

\* Whatever signals do, no task but the one _curr names is ever left marked
\* as running.
NoOtherRunner == \A p \in Pid : stat[p] = "RUN" => p = curr

\* A process that comes back from the block inside task_wait finds in waitpid
\* a child of its own that has ended, so the slot it frees is that of a
\* zombie: wait4 is marked "uninterrupt" in task.c, nothing but the end of a
\* child gets a process out of the wait.  SIGSTOP and SIGCONT do.
WaitUninterrupted ==
    (~fault /\ kpc[curr] = "wait") =>
        /\ waitpid[curr] \in Pid \ {Idle}
        /\ stat[waitpid[curr]] = "DIE"
        /\ ppid[waitpid[curr]] = curr

\* As long as no SIGSTOP has been sent, task_wait frees only the slot of an
\* ended child of the caller, also when several children end before the
\* caller runs again and when waitpid was never initialised.
ReapsDeadChild == stops = 0 => WaitUninterrupted

\* An ended process never becomes ready again, as long as no SIGSTOP has been
\* sent: neither the exit of one of its children nor a late wake-up by a
\* driver brings it back, and its slot is only ever freed.
DeadStaysDead ==
    [][stops' = 0 => \A p \in Pid : stat[p] = "DIE" => stat'[p] \in {"DIE", "FREE"}]_vars

\* Round robin starves nobody: a ready task eventually runs, whatever the
\* other tasks do, unless the kernel has faulted.
Progress ==
    \A p \in Pid : stat[p] = "PRE" ~> (stat[p] # "PRE" \/ fault)

-----------------------------------------------------------------------------
(***************************************************************************)
(* The inductive invariant behind CurrRuns, ReapsDeadChild and             *)
(* DeadStaysDead.                                                          *)
(***************************************************************************)
OneRunner == \A p \in Pid : stat[p] = "RUN" <=> p = curr

IdleReady == stat[Idle] \in {"PRE", "RUN"} /\ kpc[Idle] = "user"

\* What the state of a task says about where it is in the kernel.
StatMatchesPc ==
    \A p \in Pid :
        /\ stat[p] = "FREE" => kpc[p] = "user"
        /\ stat[p] = "DIE" <=> kpc[p] = "exit"
        /\ stat[p] # "STP"
        /\ reg[p] => kpc[p] = "block"

IsChildOf(c, p) == c \in Pid \ {Idle} /\ stat[c] # "FREE" /\ ppid[c] = p

\* A blocked waiter waits for a child of its own, a woken one has been told
\* of a child that has ended.
WaiterKnows ==
    \A p \in Pid : kpc[p] = "wait" =>
        /\ stat[p] = "BLK" => waitpid[p] = -1 \/ IsChildOf(waitpid[p], p)
        /\ stat[p] \in {"PRE", "RUN"} =>
               IsChildOf(waitpid[p], p) /\ stat[waitpid[p]] = "DIE"

\* The conjunction that every step preserves: who runs, that the idle task
\* can always run, and what each task is in the middle of.
SchedInv ==
    ~fault /\ stops = 0 => OneRunner /\ IdleReady /\ StatMatchesPc /\ WaiterKnows
=============================================================================
