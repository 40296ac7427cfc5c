-------------------------------- MODULE Tty --------------------------------
(***************************************************************************)
(* A terminal (kernel/dev/tty/tty.c) with its two character buffers        *)
(* (kernel/dev/tty/tty_buffer.c): the keyboard or serial interrupt feeds   *)
(* characters through the line discipline, processes read, write and       *)
(* switch between canonical and raw input.                                 *)
(*                                                                         *)
(* System calls and interrupt handlers run with interrupts masked, so one  *)
(* step is what a process or a handler does up to its end or up to         *)
(* task_block.  The handler has no context of its own: when the echo of a  *)
(* key blocks, it is the interrupted process that is blocked.              *)
(*                                                                         *)
(* The settings are those of tty_register, of which processes change       *)
(* ICANON only: IXON is set, IXOFF is not (tflow does nothing), VTIME is 0 *)
(* (the timer is never started).  The group signal of tsig is left out.    *)
(*                                                                         *)
(* A character of the input is known by its number in the order of typing. *)
(***************************************************************************)
EXTENDS Integers, Sequences

CONSTANTS
    Proc,      \* processes, the idle task included
    Idle,
    BUFSIZ,    \* TTY_BUFSIZ, the buffers hold one character less
    VMIN,      \* c_cc[VMIN]
    MaxLen,    \* bound: largest size of a read
    MaxWrite,  \* bound: largest size of a write
    MaxTyped   \* bound: characters typed, besides one that finds the buffer full

ASSUME IdleAssumption == Idle \in Proc
ASSUME BufAssumption == BUFSIZ \in Nat /\ BUFSIZ >= 2
ASSUME VminAssumption == VMIN \in Nat /\ MaxLen \in Nat
ASSUME BoundsAssumption == MaxWrite \in Nat /\ MaxTyped \in Nat

VARIABLES
    canon,             \* ICANON
    ibuf,              \* tty_t.ibuf, oldest first, with the flag TTY_BF_END
    obuf,              \* how many characters tty_t.obuf holds
    stop,              \* output is stopped
    iwaiter, owaiter,  \* the process to wake for input, for output
    reqlen,            \* what the last raw read still asked for
    pc,                \* where each process is: in user mode or in tty.c
    ready,             \* the process is not blocked
    left,              \* characters its read or output still has to do
    then,              \* what tty_feed does after the echo, and for which newline
    cnt,               \* characters its raw read has got
    fault,             \* the kernel halts: "unblock" of pid -1, "hung" echo
    typed, given,      \* history: how many characters were typed, which were read
    late,              \* history: newlines that were not put in when they were typed
    junk,              \* history: the read that just returned made up a character
    ishare, oshare     \* history: two slept on the input, on the output

vars == <<canon, ibuf, obuf, stop, iwaiter, owaiter, reqlen, pc, ready, left, then, cnt,
          fault, typed, given, late, junk, ishare, oshare>>

None == "-1"
ASSUME NoneAssumption == None \notin Proc
Cap == BUFSIZ - 1

TypeOK ==
    /\ canon \in BOOLEAN /\ stop \in BOOLEAN
    /\ ibuf \in Seq([num : Nat \ {0}, end : BOOLEAN]) /\ Len(ibuf) <= Cap
    /\ obuf \in 0 .. Cap
    /\ iwaiter \in Proc \cup {None} /\ owaiter \in Proc \cup {None}
    /\ reqlen \in 0 .. MaxLen
    /\ pc \in [Proc -> {"user", "read", "raw", "out"}]
    /\ ready \in [Proc -> BOOLEAN]
    /\ left \in [Proc -> Nat]
    /\ then \in [Proc -> {"none", "nl", "erase"} \X Nat]
    /\ cnt \in [Proc -> 0 .. VMIN]
    /\ fault \in {"no", "unblock", "hung"}
    /\ typed \in Nat /\ given \in SUBSET Nat /\ late \in SUBSET Nat /\ junk \in BOOLEAN
    /\ ishare \in BOOLEAN /\ oshare \in BOOLEAN

-----------------------------------------------------------------------------
Min(a, b) == IF a < b THEN a ELSE b

Wake(w, rdy) == IF w = None THEN rdy ELSE [rdy EXCEPT ![w] = TRUE]

\* Bug: the room in the buffer is not looked at.
IputcNoCheck(b, t) == Append(b, [num |-> t, end |-> FALSE])

\* iputc of character number t: a character that finds the buffer full is dropped.
Iputc(b, t) == IF Len(b) < Cap THEN Append(b, [num |-> t, end |-> FALSE]) ELSE b

\* tty_buf_mark: the last character ends what may be delivered.
Mark(b) == IF b = <<>> THEN b ELSE [b EXCEPT ![Len(b)].end = TRUE]

\* Bug: the erase character reaches back over the end of a line.
EraseOverEnd(b) == IF b = <<>> THEN b ELSE SubSeq(b, 1, Len(b) - 1)

\* tty_buf_erase
Erase(b) ==
    IF b = <<>> \/ b[Len(b)].end THEN b ELSE SubSeq(b, 1, Len(b) - 1)

\* Bug: the characters stay in the buffer.
TakePeeks(k) ==
    /\ given' = given \cup {ibuf[i].num : i \in 1 .. k}
    /\ UNCHANGED ibuf

\* k times tty_buf_getc
Take(k) ==
    /\ given' = given \cup {ibuf[i].num : i \in 1 .. k}
    /\ ibuf' = SubSeq(ibuf, k + 1, Len(ibuf))

\* task_block of p: with nobody else to run task_schedule returns to p.
Block(p, rdy) ==
    /\ ready' = [rdy EXCEPT ![p] = FALSE]
    /\ fault' = IF \E q \in Proc \ {p} : rdy[q] THEN fault ELSE "hung"

-----------------------------------------------------------------------------
(***************************************************************************)
(* Output.  Once the n characters are out, tty_feed goes on with th.       *)
(***************************************************************************)

\* Bug: the end of the line is marked, the reader is not woken.
DeliverNoWake(b, rdy) ==
    /\ ibuf' = Mark(b)
    /\ ready' = rdy
    /\ UNCHANGED iwaiter

\* tdeliver
Deliver(b, rdy) ==
    /\ ibuf' = Mark(b)
    /\ ready' = Wake(iwaiter, rdy)
    /\ iwaiter' = None

NoMore == <<"none", 0>>

\* The part of tty_feed after the echo of a newline, of an erase character.
Finish(th, b, rdy) ==
    \/ /\ th[1] = "none"
       /\ ibuf' = b /\ ready' = rdy
       /\ UNCHANGED iwaiter
    \/ /\ th[1] = "nl"
       /\ Deliver(Iputc(b, th[2]), rdy)
    \/ /\ th[1] = "erase"
       /\ ibuf' = Erase(b) /\ ready' = rdy
       /\ UNCHANGED iwaiter

\* tputc for n characters: stopped output is collected in obuf, and the
\* process blocks when that is full.  b and t are the input and the number of
\* characters typed after the key.
Output(p, n, th, b, t, rdy) ==
    LET k == IF stop THEN Min(n, Cap - obuf) ELSE n IN
    /\ obuf' = IF stop THEN obuf + k ELSE obuf
    /\ typed' = t
    /\ \/ /\ k = n
          /\ Finish(th, b, rdy)
          /\ pc' = [pc EXCEPT ![p] = "user"]
          /\ left' = [left EXCEPT ![p] = 0]
          /\ then' = [then EXCEPT ![p] = NoMore]
          /\ UNCHANGED <<owaiter, fault, late, oshare>>
       \/ /\ k < n
          /\ owaiter' = p
          /\ pc' = [pc EXCEPT ![p] = "out"]
          /\ left' = [left EXCEPT ![p] = n - k]
          /\ then' = [then EXCEPT ![p] = th]
          /\ late' = IF th[1] = "nl" THEN late \cup {th[2]} ELSE late
          /\ Block(p, rdy)
          /\ ibuf' = b
          /\ oshare' = (oshare \/ \E q \in Proc \ {p} : pc[q] = "out")
          /\ UNCHANGED iwaiter

User(p) == fault = "no" /\ ready[p] /\ pc[p] = "user"

\* tty_write
Write(p, n) ==
    /\ User(p) /\ p # Idle
    /\ Output(p, n, NoMore, ibuf, typed, ready)
    /\ UNCHANGED <<canon, stop, reqlen, cnt, given, ishare>>
    /\ junk' = FALSE

\* task_block in tputc returns and the character is tried again.
OutputResume(p) ==
    /\ fault = "no" /\ ready[p] /\ pc[p] = "out"
    /\ Output(p, left[p], then[p], ibuf, typed, ready)
    /\ UNCHANGED <<canon, stop, reqlen, cnt, given, ishare>>
    /\ junk' = FALSE

-----------------------------------------------------------------------------
(***************************************************************************)
(* tty_feed: the interrupt handler runs on top of process p.               *)
(***************************************************************************)
\* bounds what is typed: MaxTyped characters, and one more when the buffer is full
Typable == typed < MaxTyped \/ (typed = MaxTyped /\ Len(ibuf) = Cap)

\* A character with an echo of e characters, 2 for a newline in raw mode (where
\* VEOF, VERASE and VKILL are characters like any other).  In raw mode tty_feed
\* counts reqlen down and unblocks whatever iwaiter holds.
KeyChar(p, e) ==
    LET b == Iputc(ibuf, typed + 1)
        wakes == ~canon /\ (reqlen = 1 \/ Len(b) = Cap)
    IN  /\ User(p) /\ Typable
        /\ canon => e = 1
        /\ reqlen' = IF canon \/ reqlen = 0 THEN reqlen ELSE reqlen - 1
        /\ \/ /\ wakes /\ iwaiter = None
              /\ fault' = "unblock"
              /\ ibuf' = b
              /\ typed' = typed + 1
              /\ UNCHANGED <<obuf, iwaiter, owaiter, pc, ready, left, then, late, oshare>>
           \/ /\ wakes => iwaiter # None
              /\ Output(p, e, NoMore, b, typed + 1,
                        IF wakes THEN Wake(iwaiter, ready) ELSE ready)
        /\ UNCHANGED <<canon, stop, cnt, given, ishare>>
        /\ junk' = FALSE

\* A line ends; the echo of the newline ("\r\n") comes first.
KeyNewline(p) ==
    /\ User(p) /\ canon /\ Typable
    /\ Output(p, 2, <<"nl", typed + 1>>, ibuf, typed + 1, ready)
    /\ UNCHANGED <<canon, stop, reqlen, cnt, given, ishare>>
    /\ junk' = FALSE

\* VEOF delivers what there is.
KeyEof(p) ==
    /\ User(p) /\ canon
    /\ Deliver(ibuf, ready)
    /\ UNCHANGED <<canon, obuf, stop, owaiter, reqlen, pc, left, then, cnt, fault,
                   typed, given, late, ishare, oshare>>
    /\ junk' = FALSE

\* VERASE, after "\b \b" has been put out.
KeyErase(p) ==
    /\ User(p) /\ canon
    /\ Output(p, 3, <<"erase", 0>>, ibuf, typed, ready)
    /\ UNCHANGED <<canon, stop, reqlen, cnt, given, ishare>>
    /\ junk' = FALSE

\* VKILL in canonical mode, and in any mode the flush in tsig (VINTR, VQUIT,
\* VSUSP): tty_buf_kill empties the whole buffer.
KeyKill(p) ==
    /\ User(p)
    /\ ibuf' = <<>>
    /\ UNCHANGED <<canon, obuf, stop, iwaiter, owaiter, reqlen, pc, ready, left, then, cnt,
                   fault, typed, given, late, ishare, oshare>>
    /\ junk' = FALSE

\* VSTOP
KeyStop(p) ==
    /\ User(p)
    /\ stop' = TRUE
    /\ UNCHANGED <<canon, ibuf, obuf, iwaiter, owaiter, reqlen, pc, ready, left, then, cnt,
                   fault, typed, given, late, ishare, oshare>>
    /\ junk' = FALSE

\* Bug: the blocked writer is not woken.
KeyStartNoWake(p) ==
    /\ User(p)
    /\ stop' = FALSE
    /\ obuf' = 0
    /\ UNCHANGED <<canon, ibuf, iwaiter, owaiter, reqlen, pc, ready, left, then, cnt,
                   fault, typed, given, late, ishare, oshare>>
    /\ junk' = FALSE

\* VSTART: tstop hands obuf.tail characters of obuf to the device (obuf.tail
\* is never advanced) and empties obuf.
KeyStart(p) ==
    /\ User(p)
    /\ stop' = FALSE
    /\ obuf' = 0
    /\ ready' = Wake(owaiter, ready)
    /\ owaiter' = None
    /\ UNCHANGED <<canon, ibuf, iwaiter, reqlen, pc, left, then, cnt,
                   fault, typed, given, late, ishare, oshare>>
    /\ junk' = FALSE

-----------------------------------------------------------------------------
(***************************************************************************)
(* tty_fetch: take characters up to the one that is marked, or n of them;  *)
(* block when the buffer runs empty before.                                *)
(***************************************************************************)
Ends(k, n) == k = n \/ ibuf[k].end

\* The loop.  sh says that somebody else is asleep in a read.
Fetch(p, n, sh) ==
    \/ \E k \in 1 .. Len(ibuf) :
         /\ Ends(k, n) /\ \A j \in 1 .. k - 1 : ~Ends(j, n)
         /\ Take(k)
         /\ pc' = [pc EXCEPT ![p] = "user"]
         /\ left' = [left EXCEPT ![p] = 0]
         /\ UNCHANGED <<iwaiter, ready, fault, ishare>>
    \/ /\ \A k \in 1 .. Len(ibuf) : ~Ends(k, n)
       /\ Take(Len(ibuf))
       /\ pc' = [pc EXCEPT ![p] = "read"]
       /\ left' = [left EXCEPT ![p] = n - Len(ibuf)]
       /\ iwaiter' = p
       /\ Block(p, ready)
       /\ ishare' = (ishare \/ sh)

Read(p, n) ==
    /\ User(p) /\ p # Idle
    /\ canon
    /\ Fetch(p, n, \E q \in Proc \ {p} : pc[q] = "read")
    /\ UNCHANGED <<canon, obuf, stop, owaiter, reqlen, then, cnt, typed, late, oshare>>
    /\ junk' = FALSE

\* task_block returns.  tty_buf_getc fails on an empty buffer; its -1 counts
\* as an end flag, and the read returns one character more than it got.
ReadResume(p) ==
    /\ fault = "no" /\ ready[p] /\ pc[p] = "read"
    /\ junk' = (ibuf = <<>>)
    /\ \/ /\ ibuf = <<>>
          /\ pc' = [pc EXCEPT ![p] = "user"]
          /\ left' = [left EXCEPT ![p] = 0]
          /\ UNCHANGED <<ibuf, given, iwaiter, ready, fault, ishare>>
       \/ /\ ibuf # <<>>
          /\ Fetch(p, left[p], \E q \in Proc \ {p} : pc[q] = "read")
    /\ UNCHANGED <<canon, obuf, stop, owaiter, reqlen, then, cnt, typed, late, oshare>>

\* The loop of tty_fetch_nc when c characters have been read and r are asked.
FetchRaw(p, c, r) ==
    LET k == Min(r, Len(ibuf)) IN
    /\ Take(k)
    /\ reqlen' = r - k
    /\ \/ /\ k = r \/ c + k >= VMIN
          /\ pc' = [pc EXCEPT ![p] = "user"]
          /\ cnt' = [cnt EXCEPT ![p] = 0]
          /\ UNCHANGED <<ready, fault>>
       \/ /\ k < r /\ c + k < VMIN
          /\ pc' = [pc EXCEPT ![p] = "raw"]
          /\ cnt' = [cnt EXCEPT ![p] = c + k]
          /\ Block(p, ready)
    /\ UNCHANGED <<canon, obuf, stop, iwaiter, owaiter, left, then, typed, late, ishare, oshare>>

ReadRaw(p, n) ==
    /\ User(p) /\ p # Idle
    /\ ~canon
    /\ FetchRaw(p, 0, n)
    /\ junk' = FALSE

ReadRawResume(p) ==
    /\ fault = "no" /\ ready[p] /\ pc[p] = "raw"
    /\ FetchRaw(p, cnt[p], reqlen)
    /\ junk' = FALSE

\* tty_ioctl, TCSETS: set or clear ICANON.
Tcsets(p) ==
    /\ User(p) /\ p # Idle
    /\ canon' = ~canon
    /\ UNCHANGED <<ibuf, obuf, stop, iwaiter, owaiter, reqlen, pc, ready, left, then, cnt,
                   fault, typed, given, late, ishare, oshare>>
    /\ junk' = FALSE

-----------------------------------------------------------------------------
\* tty_register; reqlen is not assigned there: 0 and MaxLen stand for what it
\* may hold.
Init ==
    /\ canon = TRUE
    /\ ibuf = <<>> /\ obuf = 0
    /\ stop = FALSE
    /\ iwaiter = None /\ owaiter = None
    /\ reqlen \in {0, MaxLen}
    /\ pc = [p \in Proc |-> "user"]
    /\ ready = [p \in Proc |-> TRUE]
    /\ left = [p \in Proc |-> 0]
    /\ then = [p \in Proc |-> NoMore]
    /\ cnt = [p \in Proc |-> 0]
    /\ fault = "no"
    /\ typed = 0 /\ given = {} /\ late = {} /\ junk = FALSE
    /\ ishare = FALSE /\ oshare = FALSE

Next == \E p \in Proc :
    \/ \E n \in 1 .. MaxWrite : Write(p, n)
    \/ OutputResume(p)
    \/ \E e \in {1, 2} : KeyChar(p, e)
    \/ KeyNewline(p)
    \/ KeyEof(p)
    \/ KeyErase(p)
    \/ KeyKill(p)
    \/ KeyStop(p)
    \/ KeyStart(p)
    \/ \E n \in 1 .. MaxLen : Read(p, n)
    \/ ReadResume(p)
    \/ \E n \in 1 .. MaxLen : ReadRaw(p, n)
    \/ ReadRawResume(p)
    \/ Tcsets(p)

Spec == Init /\ [][Next]_vars

-----------------------------------------------------------------------------
Numbers(b) == {b[i].num : i \in 1 .. Len(b)}

\* No character is handed over twice, and readers are given the characters in
\* the order they were typed, whoever reads and in whichever mode, with one
\* exception: tty_feed echoes a newline before it puts it into the buffer, and
\* one whose echo blocked comes behind what was typed meanwhile.
InOrder ==
    /\ Numbers(ibuf) \cup given \subseteq 1 .. typed
    /\ Numbers(ibuf) \cap given = {}
    /\ \A i \in 1 .. Len(ibuf) : ibuf[i].num \notin late => \A g \in given : g < ibuf[i].num
    /\ \A i, j \in 1 .. Len(ibuf) : i < j =>
           /\ ibuf[i].num # ibuf[j].num
           /\ ibuf[j].num \notin late => ibuf[i].num < ibuf[j].num

\* No line is slept on: as long as no two processes have slept in a read of
\* this terminal at once, a process asleep in tty_fetch is the one that
\* tdeliver will wake, and no complete line is waiting for it.
NoSleepOnLine ==
    \A p \in Proc : fault = "no" /\ pc[p] = "read" /\ ~ready[p] /\ ~ishare =>
        /\ iwaiter = p
        /\ \A i \in 1 .. Len(ibuf) : ~ibuf[i].end

\* Output that is not stopped holds nobody up: as long as no two processes
\* have been blocked in tputc at once, the one that is will be woken by the
\* next VSTART and output is stopped.
NoSleepWhileFlowing ==
    \A p \in Proc : pc[p] = "out" /\ ~ready[p] /\ ~oshare => owaiter = p /\ stop

Delivered == {ibuf[i].num : i \in {j \in 1 .. Len(ibuf) : \E m \in j .. Len(ibuf) : ibuf[m].end}}

\* A line that has been delivered is not edited any more: its characters leave
\* the buffer only into a reader or when the whole buffer is flushed.
DeliveredSurvives ==
    [][\/ Delivered \subseteq Numbers(ibuf') \cup given'
       \/ \E p \in Proc : KeyKill(p)]_vars

\* The kernel runs out of tasks (task_block goes on in the task it blocked)
\* only because an echo put the idle task to sleep: while output is stopped
\* and the buffer for it is full, or for ever, when a second process blocked
\* in tputc and took its place in owaiter.
EchoHang ==
    fault = "hung" => pc[Idle] = "out" /\ (oshare \/ (stop /\ obuf = Cap))

\* tty.c on VEOF: "sends EOF only if pressed at the start of an empty line
\* (makes read() return 0)".  No read returns a character that was not typed.
EofReadsZero == ~junk

\* tty.c on VMIN > 0, VTIME = 0: "Blocking read. Waits until at least VMIN
\* bytes are available."  A process asleep in a raw read has fewer.
RawWaitsForVmin ==
    \A p \in Proc : fault = "no" /\ pc[p] = "raw" /\ ~ready[p] => cnt[p] + Len(ibuf) < VMIN
=============================================================================
