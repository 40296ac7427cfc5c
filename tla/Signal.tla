--------------------------------- MODULE Signal ---------------------------------
(***************************************************************************)
(* Signals (signal.c) as processes see them: pending sets, masks, actions,    *)
(* the frames __handle_signal builds on the user stack and sigreturn takes     *)
(* off, kill to a process and to a group, and fork_sig.  A system call runs    *)
(* with interrupts masked and ends in __handle_signal (user/syscall.s), so it  *)
(* is one step with it; only kill(0, SIGSTOP) gives up the processor half-way. *)
(* The effect of SIGSTOP on tasks asleep in the kernel is in module Task.      *)
(*                                                                           *)
(* Handlers return through their restorer, innermost first.  The default        *)
(* actions are empty functions.  SIGKILL makes kill panic and is left out.      *)
(***************************************************************************)
EXTENDS Integers, Sequences, FiniteSets

CONSTANTS
    Proc,       \* pids, natural numbers as in the table
    Sig,        \* signals that become pending, SIGCONT among them
    SIGCONT, SIGSTOP,
    NoDefault,  \* signals beyond the entries of sig_def
    Acts,       \* what sigaction may install
    Masks,      \* what sigprocmask may be given
    Perm,       \* pairs (sender, target) that pass the test of user ids
    MaxCalls    \* bound on calls of kill, sigaction, sigprocmask and setpgid

Action == [h : {"dfl", "ign", "user"}, reset : BOOLEAN, nodefer : BOOLEAN, mask : SUBSET Sig]

ASSUME SignalAssumption ==
    /\ Proc \subseteq Nat \ {0} /\ Proc # {}
    /\ Sig \subseteq Nat \ {0} /\ SIGCONT \in Sig /\ SIGSTOP \in Nat \ Sig
    /\ NoDefault \subseteq Sig /\ Masks \subseteq SUBSET Sig
    /\ Perm \subseteq Proc \X Proc /\ MaxCalls \in Nat
    /\ Acts \subseteq Action

VARIABLES
    task,   \* the fields of task_t that matter here
    loop,   \* kill of a group that stopped its caller: where it goes on
    calls,  \* such calls so far
    fault   \* what stopped the kernel, if anything did

vars == <<task, loop, calls, fault>>

Default == [h |-> "dfl", reset |-> FALSE, nodefer |-> FALSE, mask |-> {}]
Frame == [sig : Sig, prv : Sig \cup {0}, mask : SUBSET Sig, open : BOOLEAN]

\* sigcurr 0 means no handler; base is the mask set outside handlers, a history
\* variable, as is open in a frame: its signal may come again before it returns
TaskRec == [stat : {"none", "run", "stp"}, ppid : Proc, pgid : Proc, pend : SUBSET Sig, mask : SUBSET Sig,
            curr : Sig \cup {0}, acts : [Sig -> Action],
            frames : Seq(Frame), base : SUBSET Sig]

NoTask(p) == [stat |-> "none", ppid |-> p, pgid |-> p, pend |-> {}, mask |-> {}, curr |-> 0,
              acts |-> [s \in Sig |-> Default], frames |-> <<>>, base |-> {}]

First == CHOOSE p \in Proc : \A q \in Proc : p <= q
NoLoop == [on |-> FALSE, grp |-> First, from |-> 0]

Init ==
    /\ task = [p \in Proc |-> [NoTask(First) EXCEPT !.stat = IF p = First THEN "run" ELSE "none"]]
    /\ loop = [p \in Proc |-> NoLoop] /\ calls = 0 /\ fault = "none"

-----------------------------------------------------------------------------
(* __handle_signal                                                           *)

Least(S) == CHOOSE s \in S : \A x \in S : s <= x

\* masked signals are dropped from the pending set, the lowest other one is taken
Deliverable(r) == r.pend \ r.mask

StartsHandler(r) == Deliverable(r) # {} /\ r.acts[Least(Deliverable(r))].h = "user"
NoEntry(r) == /\ Deliverable(r) # {} /\ Least(Deliverable(r)) \in NoDefault
              /\ r.acts[Least(Deliverable(r))].h = "dfl"

\* Bug: the frame saves the mask of the handler
PushFrameLate(r, s) ==
    LET a == r.acts[s]
        m == r.mask \cup a.mask \cup IF a.nodefer THEN {} ELSE {s} IN
    [r EXCEPT !.frames = Append(@, [sig |-> s, prv |-> r.curr, mask |-> m, open |-> a.nodefer]),
              !.curr = s, !.mask = m,
              !.acts = IF a.reset THEN [@ EXCEPT ![s].h = "dfl"] ELSE @]

\* Bug: the signal of the handler is not masked
PushFrameOpen(r, s) ==
    LET a == r.acts[s] IN
    [r EXCEPT !.frames = Append(@, [sig |-> s, prv |-> r.curr, mask |-> r.mask, open |-> a.nodefer]),
              !.curr = s, !.mask = @ \cup a.mask,
              !.acts = IF a.reset THEN [@ EXCEPT ![s].h = "dfl"] ELSE @]

PushFrame(r, s) ==
    LET a == r.acts[s] IN
    [r EXCEPT !.frames = Append(@, [sig |-> s, prv |-> r.curr, mask |-> r.mask, open |-> a.nodefer]),
              !.curr = s, !.mask = @ \cup a.mask \cup IF a.nodefer THEN {} ELSE {s},
              !.acts = IF a.reset THEN [@ EXCEPT ![s].h = "dfl"] ELSE @]

handle_signal(r) ==
    LET s == Least(Deliverable(r))
        r1 == [r EXCEPT !.pend = Deliverable(r) \ {s}] IN
    IF Deliverable(r) = {} THEN [r EXCEPT !.pend = {}]
    ELSE IF r.acts[s].h = "user" THEN PushFrame(r1, s) ELSE r1

\* the end of a system call of p whose tasks are then t
Return(p, t) ==
    /\ task' = [t EXCEPT ![p] = handle_signal(t[p])]
    /\ fault' = IF NoEntry(t[p]) THEN "sig_def" ELSE "none"

Runs(p) == fault = "none" /\ task[p].stat = "run" /\ ~loop[p].on

-----------------------------------------------------------------------------

\* the timer or a device interrupts p; intr.s hands __handle_signal the address
\* of the vector instead of that of the frame, so a handler cannot be started
Interrupt(p) ==
    /\ Runs(p) /\ task[p].pend # {}
    /\ IF StartsHandler(task[p]) THEN fault' = "frame" /\ UNCHANGED task ELSE Return(p, task)
    /\ UNCHANGED <<loop, calls>>

sigaction(p) == \E s \in Sig, a \in Acts :
    /\ Runs(p) /\ calls < MaxCalls /\ calls' = calls + 1
    /\ Return(p, [task EXCEPT ![p].acts[s] = a])
    /\ UNCHANGED loop

\* the cases of sigprocmask fall through: whatever how says, the set replaces the mask
sigprocmask(p) == \E m \in Masks :
    /\ Runs(p) /\ calls < MaxCalls /\ calls' = calls + 1
    /\ LET f == task[p].frames IN
       Return(p, [task EXCEPT ![p].mask = m, ![p].base = IF f = <<>> THEN m ELSE @,
                              ![p].frames = [i \in DOMAIN f |-> [f[i] EXCEPT !.open = @ \/ f[i].sig \notin m]]])
    /\ UNCHANGED loop

\* sigreturn leaves through intr_exit, past __handle_signal
sigreturn(p) ==
    /\ Runs(p) /\ task[p].frames # <<>>
    /\ LET f == task[p].frames
           top == f[Len(f)] IN
       IF top.sig # task[p].curr THEN fault' = "panic" /\ UNCHANGED task
       ELSE /\ task' = [task EXCEPT ![p].frames = SubSeq(f, 1, Len(f) - 1),
                                    ![p].curr = top.prv, ![p].mask = top.mask]
            /\ UNCHANGED fault
    /\ UNCHANGED <<loop, calls>>

\* Bug: SIGSTOP becomes pending too
SignalledPends(r, s) ==
    [r EXCEPT !.pend = @ \cup {s}, !.stat = IF s = SIGSTOP THEN "stp" ELSE "run"]

\* kill of one process, after the tests
Signalled(r, s) ==
    IF s = SIGSTOP THEN [r EXCEPT !.stat = "stp"]
    ELSE [r EXCEPT !.pend = @ \cup {s}, !.stat = IF s = SIGCONT /\ @ = "stp" THEN "run" ELSE @]

SignalAll(p, S, s) ==
    [q \in Proc |-> IF q \in S /\ task[q].stat # "none" /\ <<p, q>> \in Perm
                    THEN Signalled(task[q], s) ELSE task[q]]

\* a caller that stops itself is switched away inside kill and returns when continued
Stopped(p, S, s, l) ==
    /\ task' = SignalAll(p, S, s) /\ loop' = [loop EXCEPT ![p] = l] /\ UNCHANGED fault

kill(p) == \E q \in Proc, s \in Sig \cup {SIGSTOP} :
    /\ Runs(p) /\ calls < MaxCalls /\ calls' = calls + 1
    /\ IF s = SIGSTOP /\ q = p /\ <<p, p>> \in Perm
       THEN Stopped(p, {q}, s, [on |-> TRUE, grp |-> First, from |-> 0])
       ELSE Return(p, SignalAll(p, {q}, s)) /\ UNCHANGED loop

Group(g, from) == {q \in Proc : task[q].pgid = g /\ q >= from}

killpg(p) == \E g \in Proc, s \in Sig \cup {SIGSTOP} :
    /\ Runs(p) /\ calls < MaxCalls /\ calls' = calls + 1
    /\ IF s = SIGSTOP /\ task[p].pgid = g /\ <<p, p>> \in Perm
       THEN Stopped(p, {q \in Group(g, 1) : q <= p}, s, [on |-> TRUE, grp |-> g, from |-> p + 1])
       ELSE Return(p, SignalAll(p, Group(g, 1), s)) /\ UNCHANGED loop

\* the rest of the loop, for the members there are now
killResume(p) ==
    /\ fault = "none" /\ task[p].stat = "run" /\ loop[p].on
    /\ Return(p, IF loop[p].from = 0 THEN task ELSE SignalAll(p, Group(loop[p].grp, loop[p].from), SIGSTOP))
    /\ loop' = [loop EXCEPT ![p] = NoLoop] /\ UNCHANGED calls

\* fork_sig and the copied stack; the child starts after __handle_signal
fork(p) == \E q \in Proc :
    /\ Runs(p) /\ task[q].stat = "none"
    /\ Return(p, [task EXCEPT ![q] = [task[p] EXCEPT !.ppid = p]])
    /\ UNCHANGED <<loop, calls>>

\* the caller or a child of it joins the group named by a process there is; the tests of
\* the session and of did_exec, which are not modelled, may refuse it
setpgid(p) == \E q, g \in Proc :
    /\ Runs(p) /\ calls < MaxCalls /\ calls' = calls + 1
    /\ q = p \/ task[q].ppid = p
    /\ task[q].stat # "none" /\ task[g].stat # "none"
    /\ Return(p, task) \/ Return(p, [task EXCEPT ![q].pgid = g])
    /\ UNCHANGED loop

Next == \E p \in Proc :
    \/ Interrupt(p) \/ sigaction(p) \/ sigprocmask(p) \/ sigreturn(p)
    \/ kill(p) \/ killpg(p) \/ killResume(p) \/ fork(p) \/ setpgid(p)

Spec == Init /\ [][Next]_vars

-----------------------------------------------------------------------------

\* Every field has a value of its C type.
TypeOK ==
    /\ task \in [Proc -> TaskRec]
    /\ loop \in [Proc -> [on : BOOLEAN, grp : Proc, from : Nat]]
    /\ calls \in Nat /\ fault \in {"none", "sig_def", "frame", "panic"}

NestsIn(r) ==
    LET f == r.frames IN
    /\ r.curr = IF f = <<>> THEN 0 ELSE f[Len(f)].sig
    /\ \A i \in DOMAIN f : f[i].prv = IF i = 1 THEN 0 ELSE f[i - 1].sig
    /\ r.base = IF f = <<>> THEN r.mask ELSE f[1].mask

\* __handle_signal and sigreturn fit together however handlers nest, processes fork
\* inside them and masks change: the innermost frame is the one sigcurr names, each
\* frame leads back to the next outer one, and the outermost has the mask the process
\* had set outside handlers.  So the check in sigreturn never panics.
FramesNest == fault # "panic" /\ \A p \in Proc : NestsIn(task[p])

\* A handler is not entered again before it returns, unless its action said SA_NODEFER
\* or somebody replaced the mask by one without its signal meanwhile.
NoReentry ==
    \A p \in Proc : \A i, j \in DOMAIN task[p].frames :
        i < j /\ task[p].frames[i].sig = task[p].frames[j].sig => task[p].frames[i].open

================================================================================
