# TLA+ verification of TextOS

TextOS is a UEFI-booted x64 operating system. This directory holds TLA+ modules
that model the parts of its kernel where several activities meet, TLC
configurations that check them on small instances, and TLAPS proofs that hold
for every value of the constants. Paths below are relative to
`src/src/kernel/`.

## The system

One processor runs everything. Processes enter the kernel through `syscall` or
interrupt gates with interrupts masked; `__task_switch` leaves the interrupt
flag alone, so kernel code is disturbed only where it calls `task_schedule`
itself (to block, to yield, to exit). Interrupts (local APIC timer, keyboard,
serial line, network card) arrive in user mode and in the idle loop. Code that
runs with interrupts enabled protects itself with `UNINTR_AREA`. This is what
fixes the size of a step in every module: a step is a stretch of code from one
such point to the next.

| part | state | operations | how it interacts | what makes it correct |
|---|---|---|---|---|
| processes and scheduler (`task.c`, `task.s`, `apic.c`) | table of tasks, state, parent, awaited child, slice, `_curr` | fork, exit, wait, yield, block, unblock, tick | everybody blocks through it; drivers unblock by pid | one runner, nobody starved, only ended children are freed, the ended stay ended |
| signals (`signal.c`) | pending set, mask, handlers, frames on the user stack | kill, sigaction, sigprocmask, sigreturn | writes the state of other tasks | a signal does not break a wait; handlers nest |
| locks (`lock.c`) | value, list of waiters, holder, count | acquire, release, up, down | block and unblock | mutual exclusion, no lost wake-up, the assertions hold |
| pipes (`fs/pipe.c`, `klib/fifo.c`) | ring, one waiter per side | read, write, close | lock, block and unblock | a bounded FIFO, nobody sleeps on work |
| terminals (`dev/tty/`) | input and output buffer, one waiter per side, mode | keys from interrupts, read, write, ioctl | interrupts run on top of processes | order, whole lines, no lost wake-up |
| timers (`ktimer.c`) | list of timers | start, kill, fire, check | callbacks from the tick | a timer fires once, unless killed |
| TCP (`net/socket/tcp.c`) | connection state, sequence numbers, queues, waiters | socket calls, segments in and out, timers | interrupts, timers, block_as | streams in order, acknowledged means received, nobody sleeps on work |
| UDP, raw, ARP, IP, ICMP | port lists, queues, pending packets | socket calls, packets | as TCP | a datagram reaches its socket |
| memory (`mm/`) | free ranges, heap blocks with boundary tags, page tables | allocate, free, map | called by everybody | blocks disjoint, nothing lost |
| files (`file.c`, `fs/`) | descriptor tables, reference counts, node tree, mounts; on disk: maps, inodes, entries, zones | open, close, dup, read, write, mount | pipes, devices, buffers | counts match references; a crash shares and loses nothing |
| block buffers, IDE (`dev/disk/`) | cache, two levels of locks | bread, bwrite, brelse | locks | no deadlock, one copy of a block |
| loading, boot, console, platform, library, `lai` | | | | sequential, hardware or third-party |

What is hard: wake-ups are by pid and may come late; waiter slots hold one pid;
an interrupt handler can block the process it interrupted; `SIGSTOP` overwrites
whatever state a task had; several fields are never initialised; counters wrap.
`PROJECT.json` lists each such hazard at its line.

## Modules

**Task** models `task.c` with the tick of `apic.c`. `stat`, `ppid`, `waitpid` and
`slice` (the field `curr`) are the fields of `task_t`, `curr` is `_curr`; `kpc` says
where a task goes on when it is switched in (user mode, inside `task_wait`, inside
`block_as` of a socket, after `task_exit`), and `reg` that a driver still holds its pid.
`Schedule` is `task_schedule` with the cyclic scan of `_getnext`; every system call that
gives up the processor ends in it. `SysWait` and `WaitResume`, `SysBlock` and
`BlockResume` are the two halves of a call that blocks. NULL dereferences, failed
assertions, panics and running on after `task_exit` set `fault` and end the behaviour.
`waitpid` of a new process is a choice between -1 and 0 because `task_fork` does not
assign it. SIGSTOP and SIGCONT (`signal.c`) are actions on any process; the history
variable `stops` counts SIGSTOPs. No other signal ends or stops a process: `sig_term`
and `sig_core`, the default actions that should, are empty, and `SysExit` is the `exit`
call only. `task_sleep` has no caller and is left out.

**Lock** models `lock.c` with one step per masked section and per unprotected access:
the callers may be preempted between them. A task that sleeps in `sema_down` is made
ready by `sema_up` only; that SIGSTOP and SIGCONT also make a blocked task ready is the
subject of Task. **Mutex** is its abstract specification; the refinement maps `inside`
to the tasks between taking and giving back the semaphore.

**Pipe** models `pipe.c` and `fifo.c`. Counters are taken modulo `WRAP` (the range of
`size_t`); bytes carry cyclic labels so that order and loss can be seen. **Channel** is
its abstract specification, a bounded FIFO; the refinement maps `q` to the content of
the ring.

**Tty** models `tty.c` and `tty_buffer.c`; **MCTty** adds the symmetry of its two
processes and a view in which histories that no step and no property can tell apart are
the same. A key is an interrupt that runs on top of a process in user mode or of the
idle task; if its echo has to block (output stopped, buffer full) that process blocks in
the middle of `tty_feed` and finishes the key later (`left`, `then`). Characters are
numbered when they are typed. `tty_feed` echoes a newline before it puts it into the
buffer, so one whose echo blocked comes behind characters typed meanwhile; `late`
remembers such newlines, and `given` which characters were read. Settings are those of
`tty_register`, of which only ICANON changes. A key is one character; keys that send
several are several steps. `ishare` and `oshare` remember that two processes slept on
the same side at once, which the single slots `iwaiter` and `owaiter` do not support.

**Tcp** models `net/socket/tcp.c` with the two timers of a connection (`ktimer.c`) on
two hosts that both run this kernel: `a` has one socket, `b` has one that connects or
listens and the children `tcp_rx_listen` creates. `tcb` is the `tcp_t` of every socket:
state, sequence numbers modulo `SEQ`, the queues `snd_que`, `una_que` and `buf_que`, the
two waiters and the delayed acknowledgement. The network is a set of segments, from
which a segment may be taken at any time, again (duplication, bounded by `work`) or
never (loss). Each state of `sock_rx_tcp` has its operator; `tcp_rx_listen` and
`tcp_rx_rcvd`, which touch two sockets, are actions of their own, with their failing
branches. No segment carries PSH, so the loop of `tcp_recvmsg` does not end when the
request is full: with text left, or with the next text that comes, it takes 40 bytes of
text for headers, and returns if they look like a PSH, sleeps if an mbuf ends there, or
runs into memory that is not mapped (`Tears`). The socket is then in `torn`, for good,
as its mbuf no longer starts at a header. `tcp_accept` may fail to make a descriptor
(the child goes back into the queue) or find an address length it does not like (the
child is lost), and several processes may be in it: a second one that goes to sleep is
`crowd`, unless the first still is in the slot, when the assertion in `block_as` stops
the host. A woken acceptor pops without looking again; `list_popback` of an empty queue
returns the listening `tcp_t` itself, so nothing is taken that is not there. A socket
has one reader at a time. `halted` holds the hosts stopped by that assertion or by a
fault in `tcp_recvmsg`. `sent` and `got` are history variables for the two streams.
`una_que` is a set (the number of each mbuf tells its place) and `buf_que` its text.

**Signal** models `signal.c` as a process sees it: `task` holds pending set, mask,
`sigcurr`, actions, parent, process group and the stack of frames that `__handle_signal`
pushes and `sigreturn` pops. A system call ends in `__handle_signal`, so the two are one
step. `killpg` and `killResume` are the two halves of `kill(0, SIGSTOP)`, which stops
its own caller inside the loop over the group. `setpgid` moves the caller or a child of
it into the group of some process, or is refused: its tests of session and `did_exec`
are a choice. `base` (mask set outside handlers) and `open` (the handled signal may come
again) are history. **MCSignal** gives it two processes, two signals besides SIGCONT,
and handlers with and without SA_NODEFER and SA_RESETHAND.

**Mem** models `mm/heap.c` and `pmm_allocpages` of `mm/pmm.c` together, because the
nodes of the page list are blocks of the heap: `malloc` may extend the heap, which takes
pages, which may free a node, which merges blocks. Header and footer words are kept as
the code writes them, in units of 8 bytes; words that belong to owners are forgotten
after each step. If the free inside `malloc` merges the block `malloc` stands on, what
follows is read from stale words; this is `swallowed` and ends the behaviour.
`_extend_heap` takes pages twice: for the heap, and inside `vmap_map` for a page table
when the heap comes to the first page such a table maps (`TABLE`, `Tables`). It does not
look at the result: when no range is long enough it maps the physical pages from 0 on,
which `low` records, and goes on. That is without consequence while those pages have no
other use; once two heap pages, or a heap page and a page of the list, are the same
memory the behaviour ends (`aliased`). With no range left at all `pmm_allocpages` reads
a node at address 0, which is `nomem` and ends it too. The free ranges are given by
address and length, in order, as `__pmm_pre` builds them. **MCMem** gives it two ranges
with a hole between them and two unused pages below.

**Minix** models `fs/phy/minix.c` over `dev/disk/buffer.c`: one step per disk write, in
the order of the code, and `Crash` between any two. `imap`, `zmap`, `dino`, `dent`,
`data` are on disk; `node` and `op` are in memory. Faults are modelled where the code
has them: a full directory (endless recursion), the inode past the end of the table, a
write beyond the end of a file, `minix_truncate` (division by the new length).
`minix_ifree` clears the bit the code clears. `write` asks for no kind, so directories
other than the root are written like files; and `minix_mknod` leaves the device number
in `zone[0]`. The node it makes has the driver's operations, but the inode read after
the next mount has those of minix, and block 0 of that "file" is the block the number
names: `WriteForeign` overwrites it, whoever owns it, and `lost` says that it was a
block outside the files (a map, the inodes, the root directory), from where on nothing
is followed. Nobody writes the root directory as a file.

**Files** models descriptors (`file.c`), `fork_fd`, and the node cache of `fs/vrt.c`
over a file system whose close releases its node (FAT32, procfs). `file_t`s count
descriptors, nodes count nothing: `shared` remembers whether a node was ever in use by
two parties, `Gone` is a pointer to a released node, and touching one ends the
behaviour. `F_DUPFD` puts a `file_t` fresh from `malloc` into the table and calls
`dup2`, which closes it: depending on what the memory held, nothing happens, a released
node is touched, or a cached node is released under its users. The last two set `stale`.
**MCFiles** gives it a directory with a file and a file in the root.

**TaskProofs** (with Lock), **SignalProofs**, **MinixProofs**, **PipeProofs**,
**TtyProofs**, **FilesProofs**, **MemProofs** and **TcpProofs** hold the proofs, each
about the module it is named after.

Operators introduced by a comment "Bug:" are wrong variants of the operator that follows
them. They are used by no specification: each is put in the place of the right one to
see that a property notices.

## Runs

| run | checks | result |
|---|---|---|
| `task` (`Task.cfg`) | type, `CurrRuns`, `NoOtherRunner`, `ReapsDeadChild`, `SchedInv`, `DeadStaysDead`, `Progress` | hold |
| `task_uninterrupt` (`TaskUninterrupt.cfg`) | `WaitUninterrupted` | violated |
| `lock` (`Lock.cfg`) | type, `AssertsHold`, `NoLostWakeup`, `LockInv`, `Exclusion` (refinement), `SomebodyEnters`, no deadlock | hold |
| `pipe` (`Pipe.cfg`) | type, `StreamIntact`, `NoSleepOnWork`, `AssertMeansSharing`, `IsChannel` (refinement), `PipeMoves` | hold |
| `tty` (`MCTty.cfg`) | type, `InOrder`, `NoSleepOnLine`, `NoSleepWhileFlowing`, `EchoHang`, `DeliveredSurvives` | hold |
| `tcp` (`Tcp.cfg`) | type, `StreamIntact`, `AckedIsReceived`, `EndIsLast`, `NoSleepOnWork`, `ConnectPending` | hold |
| `signal` (`MCSignal.cfg`) | type, `FramesNest`, `NoReentry` | hold |
| `mem` (`MCMem.cfg`) | `HeapTiled`, `PagesAccounted` | hold |
| `minix` (`Minix.cfg`) | `OwnedOnce`, `Durable` | hold |
| `files` (`MCFiles.cfg`) | `RefersCounted`, `FreedMeansSharing` | hold |
| `tty_eof` (`TtyEof.cfg`) | `EofReadsZero` | violated |
| `tty_raw` (`TtyRaw.cfg`) | `RawWaitsForVmin` | violated |

The three violations are places where the code does something else than its own
comment says:

* `task.c:468` marks `wait4` as "uninterrupt", but SIGSTOP followed by SIGCONT
  gets the parent out of `task_block`, and `task_wait` frees a living child.
* `tty.c:269` says that VEOF on an empty line makes `read()` return 0; the
  woken `tty_fetch` does not notice that the buffer is empty and returns one
  uninitialised character.
* `tty.c:58` ticks off the raw read that waits for VMIN bytes; `tty_fetch_nc`
  does not register, and `tty_feed` counts down `reqlen` instead of VMIN.

What the runs of the second group show:

* `tcp`: although there is no retransmission, what is delivered is a prefix of
  what was sent, without gaps or repetitions, on every socket where no request was
  full with text left or coming (`torn`: there text is lost, although the comment at
  `tcp.c:366` says that the rest is processed next time); nobody sleeps on text or,
  as long as one process at a time sleeps in `accept`, on a connection; a byte leaves the queues of the
  sender only when the other end has taken it; a FIN, whose sequence number
  nobody looks at, is never believed before the data in front of it (it leaves
  only once nothing is unacknowledged); an attempt to connect always has a segment
  under way that leads on.
* `tty`: characters reach the readers in the order of typing, whoever reads and in
  whichever mode, apart from newlines whose echo blocked; none is handed over twice.
* `signal`: handlers nest and unwind over fork, masks and groups; the panic in
  `sigreturn` is unreachable for handlers that return through their restorer.
* `mem`: boundary tags stay consistent through the mutual recursion of heap and
  page list, also when `pmm_allocpages` returns NULL and page 0 becomes heap. They do
  not after `swallowed`, and nothing is claimed once memory is `aliased` or the list is
  empty; the run reaches all three.
* `minix`: the order of the disk writes is right: a crash can leak inodes and
  zones but never shares or loses one that a name leads to. What a returned write has
  written stays, except for a block that somebody overwrites through the number of a
  device whose inode was mounted again.
* `files`: counts of `file_t` are exact; released nodes are touched only if a
  node was shared, which the code does not count, or if `F_DUPFD` closed a `file_t` that
  nobody had filled in.

Deadlock is checked for Lock. In the other modules the kernel may halt (`fault`),
which is an end of the behaviour.

### Bounds

* Task: four slots are the idle task, init and two more, enough for two children
  that end before their parent runs, for a grandchild whose parent is gone and
  for a full table; `TASK_TICKS = 1` makes both branches of the slice happen;
  one SIGSTOP is enough for every effect a stop can have on one task, and the
  properties about runs without signals cover all runs up to the first.
* Lock: an owner, two sleepers and a newcomer; depth 2 covers both branches of
  `lock_release`.
* Pipe: a ring of three bytes, requests of up to four, counters that wrap after
  four rounds, two processes at each end.
* Tty: buffers of two characters, an erase echo of three (so that an echo can
  block on an empty buffer), two processes and the idle task, reads of one or two
  characters, writes of one (the echoes of two and three cover output that blocks
  half-way). Two characters
  are enough for a newline that is overtaken; once they fill the buffer a third may be
  typed, which is dropped, or finds room if its echo blocked until then.
* Tcp: one socket and one child suffice for both roles, for accepted, refused and
  simultaneous opens and for a second SYN at a listener that has none left; two
  writes or duplications reorder text, FIN and acknowledgements, and a further process
  that crowds into `accept` is counted with them; `SEQ = 16` with
  `ISS = 0` keeps the run below the wrap of the sequence numbers, past which the
  comparisons that are not modular (`tcp_rx_data`, `tcp_x_ack`) stop the stream.
* Signal: five calls of kill, sigaction, sigprocmask and setpgid (returns and forks come
  on top) are enough for three nested handlers and a mask changed in one of them.
* Mem: pages of six units, so that a block can end at, before and beyond a page;
  a range of one page that the first extension uses up and one of two pages; a table
  that maps three pages, so that one is needed on the way; requests of half a page and
  of more than one, so that a request for two pages can find only single ones and get
  page 0, twice even; `Cap` bounds the heap to five pages and a half.
* Minix: device numbers that are 0, a zone of the files or a block outside them; three
  names for two entries in the directory, four zones for files of
  two blocks and directories of one, two crashes: a full map, a full directory and
  a crash during what follows a crash all happen.
* Files: two descriptors and two `file_t`s, two processes; descriptors that ended
  processes never close are limited to one per `file_t`.

### Fairness

* Task: the timer is periodic and a tick that arrives while interrupts are masked
  stays pending, so `Tick` is strongly fair; a task inside the kernel goes on by
  itself. Nothing is assumed of processes or devices.
* Lock: a ready task is scheduled (`Progress` of Task), and callers release what
  they acquired.
* Pipe: a process that was made ready is scheduled. Nobody is assumed to call
  `read` or `write`.
* Tty, Tcp, Signal, Mem, Minix, Files: safety only. In Tcp nothing is sent again,
  so no liveness follows from a fair network; `ConnectPending` states what can be
  said.

## Proofs

Assumed of the constants: at least two slots and a natural slice (Task); a
positive depth, and that the NULL holder is not a task (Lock); pids and signals
are positive numbers (Signal); there is an inode, a zone and room for a block in
a file, which stays within the direct zones (Minix); the range of `size_t` is a
multiple of the ring and more than twice as large, readers and writers are different
processes and "no waiter" is none of them (Pipe); a buffer holds a character besides
its gap, the idle task is a process and "no waiter" is not (Tty); there are finitely
many processes, the first one among them, and the nodes form a tree under the root
(Files); free ranges are in order and not empty, and their nodes fit in the first
page of the heap, and no request to `malloc` is longer than what one page table maps
(Mem); sequence numbers are modulo an even number, initial ones and
the lengths of writes are what they should be, and children are not the first sockets
(Tcp). These are the named ASSUMEs of the modules.

`TaskProofs`: `TypeCorrect` and `NoOtherRunnerHolds` are inductive as they
stand, given what `Schedule` does (lemmas `ScheduleType`, `ScheduleNoOther`).
`CurrRuns`, `ReapsDeadChild` and `DeadStaysDead` are not: that the current task
runs needs that the idle task can always be chosen, that a waiting parent finds
an ended child needs that wake-ups reach only tasks that wait for them. `SchedInv`
collects this (one runner; idle ready; the state of a task matches the place
where it is in the kernel; a blocked waiter waits for its own child, a woken one
has been told of an ended one) and is proved inductive as long as no SIGSTOP has
been sent; the three properties follow.

`TaskProofs`, first part: `LockInv` says that the value of the semaphore tells whether the
lock is owned, that there is one owner, which `holder` and `hrepeat` describe,
and that the list holds blocked tasks, each once. From it follow `AssertsHold`
and the refinement of Mutex; `NoLostWakeup` is proved on top of it.

`SignalProofs`: `NoReentry` says that no two frames have the same signal unless
the outer one was open. To keep it one must know that the signal of every frame is
masked, not only now but in every mask that an inner frame will restore (`Masked`),
and that a frame's own saved mask does not hold its signal (`WasOpen`). `SigInv`
adds `NestsIn`; it speaks of each process on its own, so each operation has a
lemma about one task record.

`MinixProofs`: `Inv` says what belongs together between any two disk writes.
`BitInv`: the bits of the inode map are an initial segment, so the bit that
`minix_ifree` clears by mistake was clear. `NameInv`: an inode has one name, and
one without a name is empty. `ZoneInv`: the zones of inodes on disk, in memory and
under construction are marked, each occurs once, and different files have
different ones; a new zone comes from outside the map. `DiskInv` and `OpenInv`:
every zone of a file holds its block, or what was written through a device number,
apart from the block about to be written, and memory extends the disk. A device number
takes the first slot of `zone[]`, so the nth zone of a file is block n or n + 1 (`Base`),
and a write through it touches `data` only: who owns a zone does not change. `NewInv` says how
far the inode under construction is. `DoneInv` ties this to returned writes. There is one
lemma per action; `OwnedOnce` and `Durable` follow.

`PipeProofs`: `PipeInv` joins the properties of the run with `WaitInv` (a process
with bytes left to move is the one its side's slot names). The two counters wrap, so
everything goes through what `Count` and `Content` are after `fifo_read` and
`fifo_write` (`CountIs`, `ReadContent` and their like): the fill is the difference
modulo `WRAP`, and positions modulo the ring agree because the ring divides `WRAP`.
From this follow `StreamIntact`, the wake-ups and the refinement of Channel: each
pass of `pipe_write` or `pipe_read` is a `Put` or a `Take` of several bytes.

`TtyProofs`: `TtyInv` joins the properties of the run with `SleepInv`: who sleeps is
inside `tty.c`, the idle task only in `tputc`; a process in `tty_fetch` still wants
characters; one asleep in `tputc`, alone there, sleeps on a full buffer. `LateInv` is
what `InOrder` needs of newlines whose echo blocks: their numbers are in `late`, neither
in the buffer nor given out, and different. An interrupt
may run on top of any process and finish later, so the lemmas follow what actions have
in common rather than the actions: output with what comes after it (`OutputStep`),
`tty_fetch` and its raw form (`FetchStep`, `FetchRawStep`), and steps that only wake
(`QuietStep`); `ActionStep` goes through the actions. The proof of the type invariant
corrected the bound of `cnt`: raw readers share `reqlen`, and only VMIN bounds it.
`DeliveredSurvives` is proved as an action property along with it.

`FilesProofs`: `RefersCounted` compares a number with the size of a set of
descriptors; opening, closing and duplicating add or remove one element, fork and exit
add or remove a whole table, done by lemmas about cardinalities. `FreedMeansSharing`
needs `SharedInv` (a `file_t` open at or above what another party uses has been
recorded in `shared`) and `GoneInv` (a pointer to a released node implies `shared` or
`stale`). "Above" is stated
without recursion, as what every set closed under `Up` contains.

`MemProofs`: `MemInv` says, until memory is `aliased`, that the list is in order and
accounts for all pages (`PagesInv`), that no assertion failed and the heap with the word
that ends it lies in mapped pages (`RoomInv`), and, until `swallowed`, that the heap is
`Tiled` by `Blocks`, without two free neighbours, with `live` and the nodes, which are
disjoint, as the blocks in use (`HeapInv`). Disjointness is needed to see that `free` of
a block is not that of a node. A NULL from `pmm_allocpages` needs no case of its own:
`PmmIs` says what a call leaves true of the record it works on (`Accounted`, and a tiled
heap), whether it found a range or not, and `mallocExtends` uses it twice, for the pages
and for the table (`TakePages`).
`Walk` is a recursive function: that it has a value is shown by giving one
(`StepExists`), and that on a tiled heap it returns the blocks, by a least
counterexample (`WalkIs`). `Put`, `MergeNext`, `MergePrev`,
`free`, `Place`, `Extend` and `Tags` have a lemma each that leads from a tiled heap to
a tiled heap; the proof for `mallocExtends` composes them and needs that the block `malloc`
stands on is not behind the new free block (`CurrIs`). After `swallowed` it remains
proved that no assertion failed and that the heap lies in mapped pages; of a heap whose
pages have two uses nothing is said.

`TcpProofs`: `TypeCorrect` is inductive as it stands; every handler has a lemma that
it yields a `tcp_t` and segments. `NoSleepOnWork` needs `SleepInv`, which adds that
children have nobody in connect or accept, that only `b` listens, and that a socket
that neither connects nor listens has no process asleep. What the handlers have in
common is `Calm`: none puts anybody to sleep, and one that adds text wakes the reader.
`CopyIs` and `AcceptIs` say what all ways through `tcp_recvmsg` and `tcp_accept` have in
common: text leaves `buf_que` from the front, all of it if the process sleeps; children
leave the queue oldest first, and only an ESTABLISHED one is opened. What happens to the
text of a `torn` socket does not matter to the other properties, which ask only how much
left the queue.

`StreamIntact`, `AckedIsReceived` and `EndIsLast` are proved for states with
`NumbersApart` (theorems `StreamsAreIntact`, `AckedWasReceived`, `FinComesLast`). This is
what TCP asks of its initial numbers, and the code does not ensure it (`__ktick` and a
constant, compared with `<` in `tcp_rx_data`): no connection has used up the numbers
below `SEQ`, and the numbers of two connections of a host do not overlap. It is true of
every state of the run `tcp` (0 + 2 + 3 < 16, and host b has one connection), and once
it fails it stays false, as bytes are only added; there is no other assumption about
the network, the writes, the closing or the number of children. The inductive invariant
is `StreamInv`, with `Numbered` and `SleepInv`:

* of one socket (`EndOK`): snd_que and una_que hold the bytes written in order, numbered
  from the initial number; what was sent ends at snd_nxt, including at most two FINs
  (`tcp_rx_established` may send one and then put CLOSE_WAIT over FIN_WAIT1, where the
  next acknowledgement sends another); flags, state and the process in connect agree
  (`Phase`);
* of two (`Stream`): the one waits for a number between the first and snd_nxt of the
  other (`To`), has taken the bytes before it and no other, and what it has not taken
  the other still keeps; if it believes in a FIN, the other has shut down and it has
  everything;
* of the connections (`Sides`, `Links`): a socket past its handshake has an other end
  that waits for its numbers in turn, and host b has either its own connection or
  children;
* of every segment under way (`SegOK`): a SYN, an acknowledgement, text or a FIN says
  something its sender could say now or once said and which the receiver can still
  believe; a reset carries a number that was acknowledged (`Known`). This is what makes
  delay, reordering and duplication harmless.

A change of one socket is reduced to `Fits` (`PutGood`, `PutSame`): what is to show of
the socket, of it and each socket of the other host, and that all segments stay sound
because numbers, queues and history only grow (`Grown`). Each stage of a handler
(acknowledging, sending, finishing, taking) and each handler has a lemma from `Good` to
`Good`, and each action one more. `Waiting`, about the accept queue, is needed because
`tcp_accept` opens a child without looking at it, and `NumbersBack` because the
hypothesis speaks of the state after the step.

`ConnectPending` (theorem `ConnectsArePending`) is proved without a condition on the
numbers. Its inductive invariant is `HandInv`, with `SleepInv`:

* `Hand` accounts for the handshake: a socket that connects is listed, its timer is
  dead and it has sent nothing but its SYN (`Young`); a SYN under way has the first
  number of its sender, and a SYN-ACK also the number after the other's (`Opens`); a
  socket that has heard nothing has acknowledged nothing and nobody has a connection
  to it (`Quiet`); there are children only while b listens;
* `Pend` is the property itself with the step before it: a sleeper has an answer under
  way that wakes it (`Wakes`), or its SYN is under way and no socket of the other host
  has answered it (`Unanswered`).

A call that changes one socket is reduced to what it leaves alone (`Polite`, `Steady`,
with `HandPut` and `PendPut`) and a delivery to `HandRx` or, without a socket,
`HandRefused`. `SentComes` lists what can come of a segment in SYN_SENT, and
`FindSleeper` says that `find_tcb` finds the sleeper and nobody else. A halted host is
excluded, as in the property, and a lost segment is one that is never delivered: the
theorem says that an answer is under way, not that it arrives.

Only model-checked:

* the liveness properties (`Progress`, `SomebodyEnters`, `PipeMoves`): liveness under
  fairness is beyond the prover;
* that the model of a call terminates (the recursions of Minix and Mem are modelled
  by what they return).

## Not modelled

Components with status `not_modelled` in `PROJECT.json`, with the reason there:
vendored code (the ACPI interpreter, headers of third parties), user programs and
their C library, drawing, boot, and hardware tables; together they are most of the
repository's lines. Within the modelled parts:

* processes: user and group ids, sessions beyond the refusals of `setpgid`, execve;
* signals: SIGKILL, which makes `kill` panic, and the layout of the user stack;
* terminals: timed raw input, flow control towards the device (IXOFF), the group
  signal sent by ^C, processes that end while they wait on a pipe or a terminal.
  Output that was collected while the terminal was stopped is dropped by `tstop`
  (it passes `obuf.tail`, which stays 0, as the length); Tty follows the code in
  this and counts these characters only;
* TCP: addresses and ports beyond one per host, window fields (written, never
  read), SHUT_RD (a flag nobody reads), two readers of one socket, what is in the
  bytes that `tcp_recvmsg` takes for headers;
* memory: `realloc` (only the ACPI interpreter calls it), `pmm_freepages` and
  `pmm_allochard` (boot only), page tables beyond the page each of them takes, and what
  happens once memory has two uses;
* locks: SIGSTOP and SIGCONT sent to a task that sleeps in `sema_down` (it would go
  on without `sema_up` and insert its node twice). In the default build
  (`CONFIG_IDE_USE_INTR` is 0) nobody gives up the processor while it holds the lock of
  a buffer;
* files: offsets, contents, permissions, mounts, directory reading; FAT32's own
  structures; minix reading, indirect zones, the last bit of the zone map, `mknod`
  of the name of a directory, writes to the root directory itself;
* the block cache and its two levels of locks.

## Plan

Done: Task, Lock, Pipe, Tty, Tcp, Signal, Mem, Minix, Files, and proofs of the safety
properties of all of them. Left, in this order:

1. `Buffer` composed with Lock: the two levels of locks of the block cache.
2. Cluster chains of FAT32, and mount points.
3. ARP with its queue of waiting packets.
