-------------------------------- MODULE Pipe --------------------------------
(***************************************************************************)
(* A pipe (kernel/fs/pipe.c) on its byte ring (kernel/klib/fifo.c), used   *)
(* by processes in read and write system calls.                            *)
(*                                                                         *)
(* A system call runs with interrupts masked, so a process is switched out *)
(* only where it blocks, in block_as.  There it has released the lock of   *)
(* the pipe, so lock_acquire always finds it free (the lock itself is the  *)
(* subject of Lock).  One step is what a process does up to the end of its *)
(* call or up to block_as.                                                 *)
(*                                                                         *)
(* Bytes are told apart by labels: the bytes written carry 0, 1, 2, ...    *)
(* cyclically, with more labels than the ring has bytes.                   *)
(***************************************************************************)
EXTENDS Integers, Sequences

CONSTANTS
    Readers, Writers, \* processes that call read, write on the pipe
    SIZ,              \* bytes of the ring (a page)
    WRAP,             \* number of values of size_t
    LABELS,           \* number of labels
    MaxReq            \* bound: largest size of a read or write

ASSUME FifoAssumption ==
    /\ SIZ \in Nat \ {0} /\ WRAP \in Nat /\ WRAP > 2 * SIZ
    /\ WRAP % SIZ = 0
ASSUME LabelsAssumption == LABELS \in Nat /\ LABELS > SIZ
ASSUME MaxReqAssumption == MaxReq \in Nat

VARIABLES
    buf, head, tail,       \* fifo_t
    rd_waiter, wr_waiter,  \* pipe_t: the process blocked on each side
    ready,                 \* the process is not blocked
    siz,                   \* what is left of the process's request
    got,                   \* the bytes the last fifo_read copied
    wnext,                 \* label of the next byte to be written
    fault                  \* an assertion has failed: the kernel halts

vars == <<buf, head, tail, rd_waiter, wr_waiter, ready, siz, got, wnext, fault>>

Proc == Readers \cup Writers
None == "-1"

\* A process that uses both ends is in one call at a time: it is taken for two.
ASSUME ProcAssumption == Readers \cap Writers = {} /\ None \notin Proc

TypeOK ==
    /\ buf \in [0 .. SIZ - 1 -> 0 .. LABELS - 1]
    /\ head \in 0 .. WRAP - 1 /\ tail \in 0 .. WRAP - 1
    /\ rd_waiter \in Readers \cup {None}
    /\ wr_waiter \in Writers \cup {None}
    /\ ready \in [Proc -> BOOLEAN]
    /\ siz \in [Proc -> 0 .. MaxReq]
    /\ got \in Seq(0 .. LABELS - 1) /\ Len(got) <= SIZ
    /\ wnext \in 0 .. LABELS - 1
    /\ fault \in BOOLEAN

-----------------------------------------------------------------------------
(***************************************************************************)
(* fifo.c.  head and tail only grow, modulo the range of size_t; an empty  *)
(* ring has tail = head + SIZ.                                             *)
(***************************************************************************)
Min(a, b) == IF a < b THEN a ELSE b

Count == (tail - SIZ - head) % WRAP

\* Bug: one byte too many is taken for free.
RoomOffByOne == (SIZ - Count + 1) % WRAP

Room == (SIZ - Count) % WRAP

\* Slot of the i-th byte after the counter c.
Slot(c, i) == ((c + i) % WRAP) % SIZ

\* Bug: the bytes are copied from the tail.
FifoReadFromTail(k) ==
    /\ got' = [i \in 1 .. k |-> buf[Slot(tail, i - 1)]]
    /\ head' = (head + k) % WRAP
    /\ UNCHANGED <<buf, tail, wnext>>

\* fifo_read copies k bytes out.
FifoRead(k) ==
    /\ got' = [i \in 1 .. k |-> buf[Slot(head, i - 1)]]
    /\ head' = (head + k) % WRAP
    /\ UNCHANGED <<buf, tail, wnext>>

\* fifo_write copies the writer's next k bytes in.
FifoWrite(k) ==
    LET at(j) == CHOOSE i \in 0 .. k - 1 : Slot(tail, i) = j IN
    /\ buf' = [j \in 0 .. SIZ - 1 |->
                  IF \E i \in 0 .. k - 1 : Slot(tail, i) = j
                    THEN (wnext + at(j)) % LABELS
                    ELSE buf[j]]
    /\ tail' = (tail + k) % WRAP
    /\ wnext' = (wnext + k) % LABELS
    /\ UNCHANGED <<head, got>>

-----------------------------------------------------------------------------
\* Bug: the other side is never woken.
WakeNobody(w, r) == r

\* task_unblock of the process registered on the other side.
Wake(w, r) == IF w = None THEN r ELSE [r EXCEPT ![w] = TRUE]

\* The body of the loop in pipe_read, for a request of n more bytes; rdw is
\* the registration of the reading side as the caller left it.  The assertion
\* in block_as fails if somebody else is registered.
ReadPass(p, n, rdw) ==
    LET k == Min(n, Count)
        woken == Wake(wr_waiter, ready)
    IN  /\ FifoRead(k)
        /\ siz' = [siz EXCEPT ![p] = n - k]
        /\ \/ /\ k = n
              /\ ready' = woken
              /\ rd_waiter' = rdw
              /\ UNCHANGED fault
           \/ /\ k < n /\ rdw = None
              /\ ready' = [woken EXCEPT ![p] = FALSE]
              /\ rd_waiter' = p
              /\ UNCHANGED fault
           \/ /\ k < n /\ rdw # None
              /\ fault' = TRUE
              /\ ready' = woken
              /\ rd_waiter' = rdw
        /\ UNCHANGED wr_waiter

\* The body of the loop in pipe_write.
WritePass(p, n, wrw) ==
    LET k == Min(n, Room)
        woken == Wake(rd_waiter, ready)
    IN  /\ FifoWrite(k)
        /\ siz' = [siz EXCEPT ![p] = n - k]
        /\ \/ /\ k = n
              /\ ready' = woken
              /\ wr_waiter' = wrw
              /\ UNCHANGED fault
           \/ /\ k < n /\ wrw = None
              /\ ready' = [woken EXCEPT ![p] = FALSE]
              /\ wr_waiter' = p
              /\ UNCHANGED fault
           \/ /\ k < n /\ wrw # None
              /\ fault' = TRUE
              /\ ready' = woken
              /\ wr_waiter' = wrw
        /\ UNCHANGED rd_waiter

\* A process that is not in a call starts one.
Read(p, n) ==
    /\ ~fault /\ ready[p] /\ siz[p] = 0
    /\ ReadPass(p, n, rd_waiter)

Write(p, n) ==
    /\ ~fault /\ ready[p] /\ siz[p] = 0
    /\ WritePass(p, n, wr_waiter)

\* Bug: the registration survives the wait.
ReadResumeKeepsWaiter(p) ==
    /\ ~fault /\ ready[p] /\ siz[p] > 0
    /\ ReadPass(p, siz[p], rd_waiter)

\* block_as returns: the registration is cleared, the loop goes on.
ReadResume(p) ==
    /\ ~fault /\ ready[p] /\ siz[p] > 0
    /\ ReadPass(p, siz[p], None)

WriteResume(p) ==
    /\ ~fault /\ ready[p] /\ siz[p] > 0
    /\ WritePass(p, siz[p], None)

-----------------------------------------------------------------------------
\* pipe_init and fifo_init
Init ==
    /\ buf = [i \in 0 .. SIZ - 1 |-> 0]
    /\ head = 0
    /\ tail = SIZ
    /\ rd_waiter = None /\ wr_waiter = None
    /\ ready = [p \in Proc |-> TRUE]
    /\ siz = [p \in Proc |-> 0]
    /\ got = <<>>
    /\ wnext = 0
    /\ fault = FALSE

Next ==
    \/ \E p \in Readers, n \in 0 .. MaxReq : Read(p, n)
    \/ \E p \in Writers, n \in 0 .. MaxReq : Write(p, n)
    \/ \E p \in Readers : ReadResume(p)
    \/ \E p \in Writers : WriteResume(p)

\* A process that has been made ready is scheduled again (Progress of Task).
Fairness ==
    /\ \A p \in Readers : WF_vars(ReadResume(p))
    /\ \A p \in Writers : WF_vars(WriteResume(p))

Spec == Init /\ [][Next]_vars /\ Fairness

-----------------------------------------------------------------------------
\* The bytes in the ring, oldest first.
Content == [i \in 1 .. Count |-> buf[Slot(head, i - 1)]]

\* The ring never holds more than SIZ bytes and they are the last ones that
\* were written, in order: nothing is overwritten before it is read, nothing
\* is read twice, also when the counters wrap around.
StreamIntact ==
    /\ Count <= SIZ
    /\ \A i \in 1 .. Count : Content[i] = (wnext - Count + i - 1) % LABELS

\* The pipe implements the abstract channel.
C == INSTANCE Channel WITH Cap <- SIZ, q <- Content
IsChannel == C!Spec

\* No wake-up is lost: a process asleep in pipe_read sleeps on an empty ring,
\* one asleep in pipe_write on a full one, and they are never both asleep.
NoSleepOnWork ==
    ~fault =>
        /\ \A p \in Readers : ~ready[p] => rd_waiter = p /\ Count = 0
        /\ \A p \in Writers : ~ready[p] => wr_waiter = p /\ Count = SIZ

\* The assertion in block_as ("only one task is supported") fails only if
\* two processes really use the same end of the pipe at once.
AssertMeansSharing ==
    fault => \E S \in {Readers, Writers} : \E p, r \in S :
                 p # r /\ siz[p] > 0 /\ siz[r] > 0

\* A reader that waits while there is data in the ring gets on, and so does a
\* writer while there is room.
PipeMoves ==
    /\ \A p \in Readers : (siz[p] > 0 /\ Count > 0) ~> (siz[p] = 0 \/ Count = 0 \/ fault)
    /\ \A p \in Writers : (siz[p] > 0 /\ Count < SIZ) ~> (siz[p] = 0 \/ Count = SIZ \/ fault)
=============================================================================
