---------------------------------- MODULE Tcp ----------------------------------
(***************************************************************************)
(* TCP (net/socket/tcp.c) with its two timers (ktimer.c), on two hosts that *)
(* run this kernel.  Host "a" has one socket, "a"; host "b" has the socket  *)
(* "b", which connects or listens, and the children its listening creates.  *)
(* The network keeps a set of segments: it delays, reorders, duplicates and *)
(* (by never delivering) loses them.  A system call runs with interrupts    *)
(* masked, so it is one step up to the point where it blocks; a segment is  *)
(* handled in the interrupt of the network card, which is one step.         *)
(*                                                                         *)
(* One port per host; PSH is left out because no code sets it; SHUT_RD and  *)
(* the window fields are written and never read.  makeseg computes the last *)
(* mbuf from &snd_que.prev, the address of the list head and not of the     *)
(* mbuf; its dlen then overlays snd_iss and snd_una, which exceeds the mss, *)
(* so a write never joins an older mbuf and always gets one of its own.     *)
(***************************************************************************)
EXTENDS Integers, Sequences

CONSTANTS
    Kid,        \* the tcp_t that tcp_rx_listen may allocate
    ISS,        \* what __ktick ^ 0x20250403 may yield
    SEQ,        \* sequence numbers are modulo this (2^32 in the code)
    Backlogs,   \* backlogs passed to listen
    WriteSizes, \* lengths of writes
    MaxWork,    \* bound on writes, duplicated segments and crowding processes
    Len0        \* length passed to recvmsg

Main == {"a", "b"}
Tcb  == Main \cup Kid
SeqNr == 0..(SEQ - 1)

ASSUME TcpAssumption ==
    /\ Kid \cap Main = {}
    /\ SEQ \in Nat \ {0} /\ SEQ % 2 = 0 /\ ISS \subseteq SeqNr
    /\ MaxWork \in Nat /\ Len0 \in Nat \ {0}
    /\ WriteSizes \subseteq Nat \ {0} /\ Backlogs \subseteq Nat

VARIABLES
    tcb,     \* the tcp_t of every socket
    net,     \* segments in flight
    work,    \* how many of them so far
    acpt,    \* the accept queue of "b", oldest first
    backlog, backcnt,
    sent,    \* bytes written to each socket (a history variable)
    got,     \* bytes recvmsg took out of each socket (a history variable)
    halted,  \* hosts stopped by an assertion or by a fault in tcp_recvmsg
    torn,    \* sockets of which recvmsg has taken text for headers
    crowd    \* two processes have slept in accept at the same time

vars == <<tcb, net, work, acpt, backlog, backcnt, sent, got, halted, torn, crowd>>

Host(t) == IF t = "a" THEN "a" ELSE "b"
Other(h) == IF h = "a" THEN "b" ELSE "a"
Add(x, n) == (x + n) % SEQ
Sub(x, n) == (x - n) % SEQ
\* TCP_SEQ_LT and TCP_SEQ_LE: the sign of the difference as a signed number
SeqLT(x, y) == Sub(x, y) >= SEQ \div 2
SeqLE(x, y) == x = y \/ SeqLT(x, y)

State == {"CLOSED", "SYN_SENT", "SYN_RCVD", "LISTEN", "ESTABLISHED", "CLOSE_WAIT",
          "LAST_ACK", "FIN_WAIT1", "FIN_WAIT2", "CLOSING", "TIME_WAIT"}

\* a segment: flags are S(yn), A(ck), R(st), F(in)
Seg(h, seq, ack, fl, data) ==
    [from |-> h, seq |-> seq, ack |-> ack, fl |-> fl, data |-> data]
SegLen(s) == Len(s.data) + (IF "S" \in s.fl THEN 1 ELSE 0) + (IF "F" \in s.fl THEN 1 ELSE 0)

\* tcp_socket.  rd and cn are the processes inside recvmsg and inside connect or
\* accept: not there, asleep in block_as, or woken.  wait is tmr_wait.  snd is the
\* sequence of mbufs of snd_que, unaq the set of those of una_que with their numbers,
\* buf the text of the mbufs of buf_que.
tcp_socket ==
    [state |-> "CLOSED", rport |-> FALSE, listed |-> TRUE, shut |-> FALSE, err |-> FALSE,
     iss |-> 0, una |-> 0, nxt |-> 0, rcv |-> 0, snd |-> <<>>, unaq |-> {}, buf |-> <<>>,
     dly |-> FALSE, wait |-> "dead", rd |-> "idle", cn |-> "idle", rem |-> 0, open |-> FALSE]

Init ==
    /\ tcb = [t \in Tcb |-> [tcp_socket EXCEPT !.listed = t \in Main]]
    /\ net = {} /\ work = 0 /\ acpt = <<>> /\ backlog = 0 /\ backcnt = 0
    /\ sent = [t \in Tcb |-> 0] /\ got = [t \in Tcb |-> <<>>]
    /\ halted = {} /\ torn = {} /\ crowd = FALSE

-----------------------------------------------------------------------------
(* What the code sends.  Each operator yields the new tcp_t and the segments. *)

Unblk(pc) == IF pc = "wait" THEN "run" ELSE pc
Done(pc) == IF pc = "run" THEN "idle" ELSE pc

WakeSyn(r) == [r EXCEPT !.cn = Unblk(@)]

tcp_exit_with(r) == [r EXCEPT !.err = TRUE, !.rd = Unblk(@), !.cn = Unblk(@)]

\* the fields of a SYN of our own, and of the answer to one
tcp_tx_setup(r, iss) ==
    [r EXCEPT !.state = "SYN_SENT", !.iss = iss, !.una = iss, !.nxt = Add(iss, 1)]
tcp_tx_agree(r, iss) ==
    [r EXCEPT !.state = "SYN_RCVD", !.iss = iss, !.una = iss, !.nxt = Add(iss, 1)]

tcp_tx_ack(h, r) ==
    IF r.state = "SYN_RCVD" THEN Seg(h, r.iss, r.rcv, {"S", "A"}, <<>>)
                            ELSE Seg(h, r.nxt, r.rcv, {"A"}, <<>>)

tcp_tx_reset(s) ==
    IF "A" \in s.fl THEN Seg(Other(s.from), s.ack, 0, {"R"}, <<>>)
    ELSE Seg(Other(s.from), 0, Add(s.seq, SegLen(s)), {"R", "A"}, <<>>)

\* tcp_tx_seg for the first mbuf of snd_que, which moves to una_que
tcp_tx_seg(h, r) ==
    IF r.snd = <<>> THEN [r |-> r, out |-> {}]
    ELSE [r |-> [r EXCEPT !.snd = Tail(@), !.unaq = @ \cup {[id |-> r.nxt, data |-> Head(r.snd)]},
                          !.nxt = Add(@, Len(Head(r.snd)))],
          out |-> {Seg(h, r.nxt, r.rcv, {"A"}, Head(r.snd))}]

FinState(st) == CASE st = "ESTABLISHED" -> "FIN_WAIT1" [] st = "CLOSE_WAIT" -> "LAST_ACK" [] OTHER -> st

\* Bug: does not wait until everything is acknowledged
tcp_tx_fin_early(h, x) ==
    IF ~x.r.shut \/ x.r.snd # <<>> THEN x
    ELSE [r |-> [x.r EXCEPT !.state = FinState(@), !.nxt = Add(@, 1)],
          out |-> x.out \cup {Seg(h, x.r.nxt, x.r.rcv, {"A", "F"}, <<>>)}]

\* the second half of tcp_do_xmit with tcp_tx_fin
tcp_tx_fin(h, x) ==
    IF ~x.r.shut \/ x.r.snd # <<>> \/ x.r.unaq # {} THEN x
    ELSE [r |-> [x.r EXCEPT !.state = FinState(@), !.nxt = Add(@, 1)],
          out |-> x.out \cup {Seg(h, x.r.nxt, x.r.rcv, {"A", "F"}, <<>>)}]

\* Nagle: while more than one number is unacknowledged nothing is sent (an
\* unsigned comparison); otherwise one mbuf per call.
tcp_do_xmit(h, r) ==
    IF r.una < Sub(r.nxt, 1) THEN [r |-> r, out |-> {}]
    ELSE tcp_tx_fin(h, tcp_tx_seg(h, [r EXCEPT !.dly = FALSE]))

\* Bug: empties una_que
tcp_x_ack_all(h, r, s) ==
    IF "A" \notin s.fl \/ SeqLE(s.ack, r.una) THEN [r |-> r, out |-> {}]
    ELSE IF SeqLT(r.nxt, s.ack) THEN [r |-> r, out |-> {tcp_tx_ack(h, r)}]
    ELSE tcp_do_xmit(h, [r EXCEPT !.una = s.ack, !.unaq = {}])

\* una_que keeps what starts at the acknowledged number or later
tcp_x_ack(h, r, s) ==
    IF "A" \notin s.fl \/ SeqLE(s.ack, r.una) THEN [r |-> r, out |-> {}]
    ELSE IF SeqLT(r.nxt, s.ack) THEN [r |-> r, out |-> {tcp_tx_ack(h, r)}]
    ELSE tcp_do_xmit(h, [r EXCEPT !.una = s.ack, !.unaq = {m \in @ : m.id >= s.ack}])

\* Bug: the reader is not woken
TakenNoWake(x, s) == LET r == [x.r EXCEPT !.dly = TRUE, !.rcv = Add(@, SegLen(s))] IN
    IF s.data = <<>> THEN r ELSE [r EXCEPT !.buf = @ \o s.data]

\* the segment x.r waits for; a FIN leaves nothing in buf_que
Taken(x, s) == LET r == [x.r EXCEPT !.dly = TRUE, !.rcv = Add(@, SegLen(s))] IN
    IF s.data = <<>> THEN r ELSE [r EXCEPT !.buf = @ \o s.data, !.rd = Unblk(@)]

\* Bug: an old segment is taken again
tcp_rx_data_old(h, x, s) ==
    IF x.r.rcv < s.seq THEN [x EXCEPT !.out = @ \cup {tcp_tx_ack(h, x.r)}]
    ELSE IF SegLen(s) = 0 THEN x ELSE [x EXCEPT !.r = Taken(x, s)]

\* tcp_rx_data: only the segment that starts at rcv_nxt is taken
tcp_rx_data(h, x, s) ==
    IF x.r.rcv < s.seq THEN [x EXCEPT !.out = @ \cup {tcp_tx_ack(h, x.r)}]
    ELSE IF x.r.rcv > s.seq \/ SegLen(s) = 0 THEN x
    ELSE [x EXCEPT !.r = Taken(x, s)]

-----------------------------------------------------------------------------
(* The handlers of a segment, by state: new tcp_t and answers.               *)

Same(r) == [r |-> r, out |-> {}]

\* Bug: a SYN that crosses ours is not answered
tcp_rx_sent_silent(h, r, s) ==
    IF "A" \in s.fl /\ s.ack # r.nxt THEN [r |-> r, out |-> {tcp_tx_reset(s)}]
    ELSE IF "R" \in s.fl
         THEN Same(IF "A" \in s.fl THEN [tcp_exit_with(r) EXCEPT !.state = "CLOSED"] ELSE r)
    ELSE IF s.fl = {"S"} THEN Same([r EXCEPT !.state = "SYN_RCVD", !.rcv = Add(s.seq, 1)])
    ELSE Same(r)

\* a RST does not end the function, but no RST carries a SYN
tcp_rx_sent(h, r, s) ==
    IF "A" \in s.fl /\ s.ack # r.nxt THEN [r |-> r, out |-> {tcp_tx_reset(s)}]
    ELSE IF "R" \in s.fl
         THEN Same(IF "A" \in s.fl THEN [tcp_exit_with(r) EXCEPT !.state = "CLOSED"] ELSE r)
    ELSE IF "S" \notin s.fl THEN Same(r)
    ELSE LET una == IF "A" \in s.fl THEN s.ack ELSE r.una
             r1 == [r EXCEPT !.rcv = Add(s.seq, 1), !.una = una]
             r2 == IF SeqLT(r.iss, una) THEN WakeSyn([r1 EXCEPT !.state = "ESTABLISHED"])
                                        ELSE [r1 EXCEPT !.state = "SYN_RCVD"]
         IN  [r |-> r2, out |-> {tcp_tx_ack(h, r2)}]

tcp_rx_established(h, r, s) ==
    IF "R" \in s.fl THEN Same(tcp_exit_with(r))
    ELSE IF "S" \in s.fl THEN [r |-> r, out |-> {tcp_tx_ack(h, r)}]
    ELSE LET x == tcp_rx_data(h, tcp_x_ack(h, r, s), s) IN
         IF "F" \in s.fl THEN [x EXCEPT !.r.state = "CLOSE_WAIT"] ELSE x

tcp_rx_closewait(h, r, s) ==
    LET r1 == IF "R" \in s.fl THEN tcp_exit_with(r) ELSE r IN
    IF "S" \in s.fl THEN [r |-> r1, out |-> {tcp_tx_ack(h, r1)}] ELSE tcp_x_ack(h, r1, s)

tcp_release(r) == [r EXCEPT !.listed = FALSE]

tcp_rx_lastack(h, r, s) ==
    LET r1 == IF "R" \in s.fl THEN [tcp_release(r) EXCEPT !.state = "CLOSED"] ELSE r IN
    IF "S" \in s.fl THEN [r |-> r1, out |-> {tcp_tx_ack(h, r1)}]
    ELSE Same(IF "A" \in s.fl THEN [r1 EXCEPT !.state = "CLOSED"] ELSE r1)

tcp_rx_finwait(h, r, s) ==
    IF "R" \in s.fl THEN Same(tcp_exit_with(r))
    ELSE IF "S" \in s.fl THEN [r |-> r, out |-> {tcp_tx_ack(h, r)}]
    ELSE LET acked == "A" \in s.fl /\ s.ack = r.nxt /\ r.state = "FIN_WAIT1"
             x == tcp_rx_data(h, Same(IF acked THEN [r EXCEPT !.state = "FIN_WAIT2"] ELSE r), s)
         IN  IF "F" \notin s.fl THEN x
             ELSE [x EXCEPT !.r.state = IF @ = "FIN_WAIT1" THEN "CLOSING" ELSE "TIME_WAIT"]

\* ktimer on tmr_wait; a timer that is not dead is only given a new time
tcp_do_timewait(r) == [r EXCEPT !.wait = IF @ = "dead" THEN "armed" ELSE @]

tcp_rx_closing(h, r, s) ==
    LET r1 == IF "R" \in s.fl THEN [tcp_release(r) EXCEPT !.state = "CLOSED"] ELSE r IN
    IF "S" \in s.fl THEN [r |-> r1, out |-> {tcp_tx_ack(h, r1)}]
    ELSE Same(IF "A" \in s.fl THEN tcp_do_timewait([r1 EXCEPT !.state = "TIME_WAIT"]) ELSE r1)

tcp_rx_timewait(h, r, s) ==
    LET r1 == IF "R" \in s.fl THEN [tcp_release(r) EXCEPT !.state = "CLOSED"] ELSE r IN
    IF "S" \in s.fl THEN [r |-> r1, out |-> {tcp_tx_ack(h, r1)}]
    ELSE IF "A" \in s.fl THEN [r |-> tcp_do_timewait(r1), out |-> {tcp_tx_ack(h, r1)}]
    ELSE Same(IF "F" \in s.fl THEN tcp_do_timewait(r1) ELSE r1)

-----------------------------------------------------------------------------
(* Receiving a segment.                                                      *)

\* the kid of list_common, else the socket itself if connected or listening
find_tcb(s) ==
    LET h == Other(s.from)
        kids == {k \in Kid : tcb[k].listed} IN
    IF h = "b" /\ kids # {} THEN kids
    ELSE {t \in {h} : tcb[t].listed /\ (tcb[t].rport \/ tcb[t].state = "LISTEN")}

\* the network hands over s and may keep a copy; the host answers with out
Carry(s, out) ==
    \/ net' = (net \ {s}) \cup out /\ UNCHANGED work
    \/ work < MaxWork /\ work' = work + 1 /\ net' = net \cup out

Rx(s, t) == s \in net /\ Other(s.from) \notin halted /\ t \in find_tcb(s)

tcp_rx(h, r, s) ==
    CASE r.state = "SYN_SENT" -> tcp_rx_sent(h, r, s)
      [] r.state = "ESTABLISHED" -> tcp_rx_established(h, r, s)
      [] r.state = "CLOSE_WAIT" -> tcp_rx_closewait(h, r, s)
      [] r.state = "LAST_ACK" -> tcp_rx_lastack(h, r, s)
      [] r.state \in {"FIN_WAIT1", "FIN_WAIT2"} -> tcp_rx_finwait(h, r, s)
      [] r.state = "CLOSING" -> tcp_rx_closing(h, r, s)
      [] r.state = "TIME_WAIT" -> tcp_rx_timewait(h, r, s)
      [] OTHER -> [r |-> r, out |-> {tcp_tx_reset(s)}]

sock_rx_tcp(s) ==
    \E t \in Tcb :
        /\ Rx(s, t) /\ tcb[t].state \notin {"LISTEN", "SYN_RCVD"}
        /\ LET x == tcp_rx(Host(t), tcb[t], s) IN
           tcb' = [tcb EXCEPT ![t] = x.r] /\ Carry(s, x.out)
        /\ UNCHANGED <<acpt, backlog, backcnt, sent, got, halted, torn, crowd>>

RxNobody(s) ==
    /\ s \in net /\ Other(s.from) \notin halted /\ find_tcb(s) = {}
    /\ Carry(s, {tcp_tx_reset(s)})
    /\ UNCHANGED <<tcb, acpt, backlog, backcnt, sent, got, halted, torn, crowd>>

\* tcp_rx_rcvd, a reset or a second SYN: the child is taken out of the lists,
\* while the end of a simultaneous open only notes a reset
tcp_rx_rcvd_fails(s) ==
    \E t \in Tcb :
        /\ Rx(s, t) /\ tcb[t].state = "SYN_RCVD"
        /\ "R" \in s.fl \/ ("S" \in s.fl /\ t \in Kid)
        /\ tcb' = [tcb EXCEPT ![t] = IF t \in Kid THEN tcp_release(@) ELSE tcp_exit_with(@)]
        /\ Carry(s, {})
        /\ UNCHANGED <<acpt, backlog, backcnt, sent, got, halted, torn, crowd>>

\* tcp_rx_rcvd, the acknowledgement of our SYN; snd_una stays and the text of
\* the segment is not looked at.  A child goes to the accept queue.
tcp_rx_rcvd(s) ==
    \E t \in Tcb :
        /\ Rx(s, t) /\ tcb[t].state = "SYN_RCVD"
        /\ "R" \notin s.fl /\ ("S" \notin s.fl \/ t \notin Kid)
        /\ IF "A" \in s.fl /\ SeqLT(tcb[t].una, s.ack) /\ SeqLE(s.ack, tcb[t].nxt)
           THEN /\ tcb' = IF t \in Kid
                          THEN [tcb EXCEPT ![t] = [@ EXCEPT !.state = "ESTABLISHED"], !["b"] = WakeSyn(@)]
                          ELSE [tcb EXCEPT ![t] = WakeSyn([@ EXCEPT !.state = "ESTABLISHED"])]
                /\ acpt' = IF t \in Kid THEN Append(acpt, t) ELSE acpt
                /\ Carry(s, {})
           ELSE /\ Carry(s, IF "A" \in s.fl THEN {tcp_tx_reset(s)} ELSE {})
                /\ UNCHANGED <<tcb, acpt>>
        /\ UNCHANGED <<backlog, backcnt, sent, got, halted, torn, crowd>>

\* A SYN at a listening socket makes a child in any case; the test of the
\* backlog decides whether it is counted or also answered by a reset.  tmr_wait
\* of the child is not initialised.
tcp_rx_listen(s) ==
    \E k \in Kid, iss \in ISS, w \in {"dead", "stuck"} :
        /\ Rx(s, "b") /\ tcb["b"].state = "LISTEN" /\ s.fl = {"S"}
        /\ ~tcb[k].listed /\ tcb[k].state = "CLOSED" /\ ~tcb[k].rport
        /\ LET r == [tcp_tx_agree(tcp_socket, iss) EXCEPT !.rport = TRUE, !.rcv = Add(s.seq, 1), !.wait = w]
               full == backcnt + 1 # backlog IN
           /\ tcb' = [tcb EXCEPT ![k] = r]
           /\ backcnt' = IF full THEN backcnt ELSE backcnt + 1
           /\ Carry(s, {tcp_tx_ack("b", r)} \cup IF full THEN {tcp_tx_reset(s)} ELSE {})
        /\ UNCHANGED <<acpt, backlog, sent, got, halted, torn, crowd>>

tcp_rx_listen_refuses(s) ==
    /\ Rx(s, "b") /\ tcb["b"].state = "LISTEN" /\ s.fl \cap {"R", "A"} # {}
    /\ Carry(s, IF "R" \in s.fl THEN {} ELSE {tcp_tx_reset(s)})
    /\ UNCHANGED <<tcb, acpt, backlog, backcnt, sent, got, halted, torn, crowd>>

-----------------------------------------------------------------------------
(* The timers.  ktimer_check runs in the tick and fires what has expired.    *)

tcp_tmr_dly(t) ==
    /\ Host(t) \notin halted /\ tcb[t].dly
    /\ tcb' = [tcb EXCEPT ![t] = [@ EXCEPT !.dly = FALSE]]
    /\ net' = net \cup {tcp_tx_ack(Host(t), tcb[t])}
    /\ UNCHANGED <<work, acpt, backlog, backcnt, sent, got, halted, torn, crowd>>

\* list_remove keeps the pointers of what it removes: when a child is released a
\* second time, the children inserted since then fall out of list_common too.
tcp_tmr_timewait(t) ==
    /\ Host(t) \notin halted /\ tcb[t].wait = "armed"
    /\ tcb' = [u \in Tcb |->
                 IF u = t THEN tcp_release([tcb[t] EXCEPT !.wait = "dead"])
                 ELSE IF {t, u} \subseteq Kid /\ ~tcb[t].listed THEN tcp_release(tcb[u])
                 ELSE tcb[u]]
    /\ UNCHANGED <<net, work, acpt, backlog, backcnt, sent, got, halted, torn, crowd>>

-----------------------------------------------------------------------------
(* The system calls.  Processes use a socket after connect or accept.        *)

tcp_connect(t) ==
    \E iss \in ISS :
        /\ t \in Main /\ Host(t) \notin halted
        /\ tcb[t].state = "CLOSED" /\ ~tcb[t].rport /\ tcb[t].cn = "idle"
        /\ tcb' = [tcb EXCEPT ![t] = [tcp_tx_setup(@, iss) EXCEPT !.rport = TRUE, !.cn = "wait"]]
        /\ net' = net \cup {Seg(t, iss, 0, {"S"}, <<>>)}
        /\ UNCHANGED <<work, acpt, backlog, backcnt, sent, got, halted, torn, crowd>>

ConnectReturn(t) ==
    /\ Host(t) \notin halted /\ tcb[t].cn = "run" /\ tcb[t].rport
    /\ tcb' = [tcb EXCEPT ![t] = [@ EXCEPT !.cn = "idle", !.open = ~tcb[t].err]]
    /\ UNCHANGED <<net, work, acpt, backlog, backcnt, sent, got, halted, torn, crowd>>

tcp_listen ==
    /\ "b" \notin halted /\ tcb["b"].state = "CLOSED" /\ ~tcb["b"].rport
    /\ \E n \in Backlogs : backlog' = n
    /\ tcb' = [tcb EXCEPT !["b"] = [@ EXCEPT !.state = "LISTEN"]]
    /\ UNCHANGED <<net, work, acpt, backcnt, sent, got, halted, torn, crowd>>

\* tcp_accept finds no child that is still ESTABLISHED, throws away those in the queue
\* and sleeps; list_popback of an empty queue yields the listening tcp_t itself, which is
\* not ESTABLISHED either.  block_as asserts that no other process is registered; one
\* that was woken and has not run yet no longer is.  In a crowd cn stands for all of
\* them: it stays "run", and the one that sleeps may be met by the assertion.
AcceptSleeps ==
    /\ acpt' = <<>> /\ UNCHANGED backcnt
    /\ \/ /\ tcb["b"].cn \in {"idle", "run"} /\ tcb' = [tcb EXCEPT !["b"] = [@ EXCEPT !.cn = "wait"]]
          /\ UNCHANGED <<work, halted, crowd>>
       \/ /\ work < MaxWork /\ work' = work + 1 /\ UNCHANGED tcb
          /\ \/ tcb["b"].cn = "run" /\ crowd' = TRUE /\ UNCHANGED halted
             \/ (tcb["b"].cn = "wait" \/ crowd) /\ halted' = halted \cup {"b"} /\ UNCHANGED crowd

\* The child at the place at is the oldest one to be had.  It is opened; or it is lost when
\* one of addr and len is missing, or put back when there is no descriptor for it.  The
\* caller is the process that was woken, or another one.
AcceptTakes(at) ==
    /\ \E cn \in {tcb["b"].cn, Done(tcb["b"].cn)} :
        \/ /\ tcb' = [tcb EXCEPT !["b"] = [@ EXCEPT !.cn = cn], ![acpt[at]] = [@ EXCEPT !.open = TRUE]]
           /\ acpt' = SubSeq(acpt, at + 1, Len(acpt)) /\ backcnt' = backcnt - 1
        \/ /\ tcb' = [tcb EXCEPT !["b"] = [@ EXCEPT !.cn = cn]] /\ UNCHANGED backcnt
           /\ acpt' \in {SubSeq(acpt, at + 1, Len(acpt)), SubSeq(acpt, at, Len(acpt))}
    /\ UNCHANGED <<work, halted, crowd>>

tcp_accept ==
    LET ready == {i \in DOMAIN acpt : tcb[acpt[i]].state = "ESTABLISHED"} IN
    /\ "b" \notin halted /\ tcb["b"].state = "LISTEN"
    /\ \/ ready = {} /\ AcceptSleeps
       \/ \E at \in ready : (\A i \in ready : at <= i) /\ AcceptTakes(at)
    /\ UNCHANGED <<net, backlog, sent, got, torn>>

\* the bytes of a stream are numbered by their position
tcp_sendmsg(t) ==
    \E n \in WriteSizes :
        /\ Host(t) \notin halted /\ tcb[t].open /\ work < MaxWork
        /\ LET m == [i \in 1..n |-> sent[t] + i]
               x == tcp_do_xmit(Host(t), [tcb[t] EXCEPT !.snd = Append(@, m)]) IN
           tcb' = [tcb EXCEPT ![t] = x.r] /\ net' = net \cup x.out
        /\ sent' = [sent EXCEPT ![t] = @ + n] /\ work' = work + 1
        /\ UNCHANGED <<acpt, backlog, backcnt, got, halted, torn, crowd>>

\* n bytes of text leave buf_que, left of the request is not yet filled
Read(t, n, left, pc) ==
    LET all == tcb[t].buf IN
    /\ got' = [got EXCEPT ![t] = @ \o SubSeq(all, 1, n)]
    /\ tcb' = [tcb EXCEPT ![t] = [@ EXCEPT !.rem = left, !.rd = pc, !.buf = SubSeq(all, n + 1, Len(all))]]

\* With the request full and text left, or with an mbuf where that has happened, the loop
\* takes the next 40 bytes of text for headers, over and over: until one of them looks
\* like a PSH and it returns; until an mbuf ends exactly there and is freed, and it sleeps;
\* or until it reads memory that is not mapped.
Tears(t, n, rem) ==
    /\ torn' = torn \cup {t}
    /\ \/ Read(t, n, 0, "idle") /\ UNCHANGED halted
       \/ (\E left \in 0..rem : Read(t, Len(tcb[t].buf), left, "wait")) /\ UNCHANGED halted
       \/ Read(t, n, 0, "wait") /\ halted' = halted \cup {Host(t)}
    /\ UNCHANGED <<net, work, acpt, backlog, backcnt, sent, crowd>>

\* The loop of tcp_recvmsg from where it finds something to where it sleeps again: no
\* segment has PSH, so it returns only with an error or when it is misled
Copied(t, rem, n) ==
    IF n < Len(tcb[t].buf) THEN Tears(t, n, rem - n)
    ELSE Read(t, n, rem - n, "wait") /\ UNCHANGED <<net, work, acpt, backlog, backcnt, sent, halted, torn, crowd>>

\* Bug: copies more than was asked for
CopyAll(t, rem) == Copied(t, rem, Len(tcb[t].buf))

Copy(t, rem) ==
    IF t \in torn /\ tcb[t].buf # <<>> THEN Tears(t, 0, rem)
    ELSE Copied(t, rem, IF Len(tcb[t].buf) < rem THEN Len(tcb[t].buf) ELSE rem)

RecvError(t) ==
    /\ tcb' = [tcb EXCEPT ![t] = [@ EXCEPT !.rd = "idle", !.rem = 0]]
    /\ UNCHANGED <<net, work, acpt, backlog, backcnt, sent, got, halted, torn, crowd>>

tcp_recvmsg(t) ==
    /\ Host(t) \notin halted /\ tcb[t].open /\ tcb[t].rd = "idle"
    /\ IF tcb[t].buf # <<>> /\ tcb[t].err THEN RecvError(t) ELSE Copy(t, Len0)

RecvResume(t) ==
    /\ Host(t) \notin halted /\ tcb[t].rd = "run"
    /\ IF tcb[t].err THEN RecvError(t) ELSE Copy(t, tcb[t].rem)

\* close of the last descriptor calls socket_close, which calls tcp_shutdown; the
\* reference count that socket_makefd leaves uninitialised decides whether it does
tcp_shutdown(t) ==
    \E done \in BOOLEAN :
        /\ Host(t) \notin halted /\ tcb[t].open /\ tcb[t].rd = "idle"
        /\ tcb' = [tcb EXCEPT ![t] = [@ EXCEPT !.open = FALSE, !.shut = done]]
        /\ UNCHANGED <<net, work, acpt, backlog, backcnt, sent, got, halted, torn, crowd>>

-----------------------------------------------------------------------------

Deliver == \E s \in net :
    \/ sock_rx_tcp(s) \/ RxNobody(s) \/ tcp_rx_rcvd(s) \/ tcp_rx_rcvd_fails(s)
    \/ tcp_rx_listen(s) \/ tcp_rx_listen_refuses(s)
Timer(t) == tcp_tmr_dly(t) \/ tcp_tmr_timewait(t)
Resume(t) == RecvResume(t) \/ ConnectReturn(t) \/ (t = "b" /\ tcb["b"].cn = "run" /\ tcp_accept)
Call(t) == tcp_connect(t) \/ tcp_sendmsg(t) \/ tcp_recvmsg(t) \/ tcp_shutdown(t)

Next == Deliver \/ tcp_listen \/ tcp_accept
        \/ \E t \in Tcb : Timer(t) \/ Resume(t) \/ Call(t)

\* what a connection attempt exchanges: no text, nothing beyond the two SYNs
Handshake(s) == /\ s.data = <<>> /\ "F" \notin s.fl
                /\ \E i \in ISS : s.seq \in {0, i, Add(i, 1)}
                /\ s.ack = 0 \/ \E i \in ISS : s.ack = Add(i, 1)

Spec == Init /\ [][Next]_vars

-----------------------------------------------------------------------------

Mbuf == Seq(Nat) \ {<<>>}
TcbType ==
    [state : State, rport : BOOLEAN, listed : BOOLEAN, shut : BOOLEAN, err : BOOLEAN,
     iss : SeqNr, una : SeqNr, nxt : SeqNr, rcv : SeqNr, snd : Seq(Mbuf),
     unaq : SUBSET [id : SeqNr, data : Mbuf], buf : Seq(Nat), dly : BOOLEAN,
     wait : {"dead", "armed", "stuck"}, rd : {"idle", "wait", "run"},
     cn : {"idle", "wait", "run"}, rem : 0..Len0, open : BOOLEAN]
SegType == [from : Main, seq : SeqNr, ack : SeqNr, fl : SUBSET {"S", "A", "R", "F"}, data : Seq(Nat)]

\* Every field has a value of its C type, no queue of mbufs holds an empty one, and
\* recvmsg never copies more than it was asked for (rem).
TypeOK ==
    /\ tcb \in [Tcb -> TcbType] /\ net \subseteq SegType
    /\ work \in 0..MaxWork /\ acpt \in Seq(Kid)
    /\ backlog \in Backlogs \cup {0} /\ backcnt \in Int
    /\ sent \in [Tcb -> Nat] /\ got \in [Tcb -> Seq(Nat)]
    /\ halted \subseteq Main /\ torn \subseteq Tcb /\ crowd \in BOOLEAN

Received(t) == got[t] \o tcb[t].buf
Peers(t) == {u \in Tcb : Host(u) # Host(t) /\ tcb[u].rport}

\* Whatever the network does, the bytes a process gets and those still in buf_que
\* (tcp_rx_data, tcp_recvmsg) are the first ones some process on the other host
\* wrote: none missing, none twice, in order.  This lasts until a request is full while
\* text is left or comes: the loop of tcp_recvmsg then loses text, although the comment
\* before it says that what is left is processed next time.
StreamIntact ==
    \A t \in Tcb \ torn : Received(t) # <<>> =>
        \E u \in Peers(t) : Len(Received(t)) <= sent[u]
                            /\ Received(t) = [i \in 1..Len(Received(t)) |-> i]

\* una_que and snd_que (tcp_x_ack, tcp_do_xmit): a byte leaves them only when the
\* other end has taken it, and no end has taken more than was sent.
Queued(r, n) ==
    \/ \E i \in DOMAIN r.snd : \E j \in DOMAIN r.snd[i] : r.snd[i][j] = n
    \/ \E m \in r.unaq : \E j \in DOMAIN m.data : m.data[j] = n
AckedIsReceived ==
    \A t \in Tcb : sent[t] > 0 =>
        \E u \in Peers(t) : /\ \A n \in 1..sent[t] : Queued(tcb[t], n) \/ n <= Len(Received(u))
                            /\ Sub(tcb[u].rcv, tcb[t].iss) <= Sub(tcb[t].nxt, tcb[t].iss)

\* A FIN is believed without looking at its sequence number (tcp_rx_established,
\* tcp_rx_finwait); still an end in a state that says the other has finished has
\* received all that was written there.
PeerDone == {"CLOSE_WAIT", "LAST_ACK", "CLOSING", "TIME_WAIT"}
EndIsLast ==
    \A t \in Tcb : tcb[t].state \in PeerDone =>
        \E u \in Peers(t) : tcb[u].shut /\ Len(Received(t)) = sent[u]

\* block_as is entered and left at the right time: nobody sleeps in recvmsg while
\* there is text, in accept while a connection waits in the queue (with one process at
\* a time asleep there, as block_as asks), or in connect when the connection is there
\* or has failed.
NoSleepOnWork ==
    \A t \in Tcb : Host(t) \notin halted =>
        /\ tcb[t].rd = "wait" => tcb[t].buf = <<>>
        /\ tcb[t].cn = "wait" =>
              IF tcb[t].rport THEN tcb[t].state \in {"SYN_SENT", "SYN_RCVD"} /\ ~tcb[t].err
                              ELSE crowd \/ acpt = <<>>

\* While a process sleeps in tcp_connect a segment that can end its sleep, or lead
\* to one, is under way: accepted, refused and simultaneous opens all come to an end
\* when the network delivers, although nothing is sent again.
ConnectPending == \A t \in Main :
    tcb[t].cn = "wait" /\ tcb[t].rport /\ halted = {} => \E s \in net : Handshake(s)

================================================================================
