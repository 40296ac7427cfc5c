------------------------------- MODULE TcpProofs -------------------------------
(***************************************************************************)
(* Proofs about tcp.c, for any number of children, writes and segments, any *)
(* initial numbers and any modulus: types, that nobody sleeps on work, that *)
(* the streams of bytes arrive as they were sent, and that whoever sleeps   *)
(* in connect has an answer or a SYN under way.                             *)
(***************************************************************************)
EXTENDS Tcp, SequenceTheorems, TLAPS

-----------------------------------------------------------------------------
(* Types.                                                                    *)

\* what a handler yields: the new tcp_t and the segments it sends
Reply == [r : TcbType, out : SUBSET SegType]

\* Sums and differences of sequence numbers are sequence numbers.
LEMMA SeqNrOps ==
    ASSUME NEW x \in Int, NEW n \in Int
    PROVE  Add(x, n) \in SeqNr /\ Sub(x, n) \in SeqNr /\ SeqNr \subseteq Nat /\ 0 \in SeqNr
<1> SEQ \in Nat \ {0}
  BY TcpAssumption
<1> DEFINE y == x + n
           z == x - n
<1>1. y % SEQ \in SeqNr /\ z % SEQ \in SeqNr
  BY DEF SeqNr
<1> QED BY <1>1 DEF Add, Sub, SeqNr

\* A sequence number is a natural number below SEQ.
LEMMA SeqNrInt ==
    ASSUME NEW x \in SeqNr
    PROVE  x \in Int /\ x \in Nat /\ 0 <= x /\ x < SEQ
BY TcpAssumption DEF SeqNr

\* The number after a sequence number is one.
LEMMA SeqNrNext ==
    ASSUME NEW x \in SeqNr
    PROVE  Add(x, 1) \in SeqNr
<1>1. x \in Int /\ 1 \in Int
  BY SeqNrInt
<1> QED BY <1>1, SeqNrOps, Zenon

\* The fields of a tcp_t, one by one, for the leaves that need them.
LEMMA TcbFields ==
    ASSUME NEW r \in TcbType
    PROVE  /\ r.state \in State /\ r.rport \in BOOLEAN /\ r.shut \in BOOLEAN
           /\ r.iss \in SeqNr /\ r.una \in SeqNr /\ r.nxt \in SeqNr /\ r.rcv \in SeqNr
           /\ r.iss \in Int /\ r.una \in Int /\ r.nxt \in Int /\ r.rcv \in Int
           /\ r.snd \in Seq(Mbuf) /\ r.unaq \in SUBSET [id : SeqNr, data : Mbuf]
           /\ r.buf \in Seq(Nat)
BY SeqNrInt DEF TcbType

\* The fields of a segment, one by one.
LEMMA SegFields ==
    ASSUME NEW s \in SegType
    PROVE  /\ s.from \in Main /\ s.seq \in SeqNr /\ s.ack \in SeqNr
           /\ s.seq \in Int /\ s.ack \in Int
           /\ s.fl \in SUBSET {"S", "A", "R", "F"} /\ s.data \in Seq(Nat)
BY SeqNrInt DEF SegType

\* A change of state alone keeps the type.
LEMMA SetState ==
    ASSUME NEW r \in TcbType, NEW st \in State
    PROVE  [r EXCEPT !.state = st] \in TcbType
BY DEF TcbType

\* A segment built from values of the right types is one.
LEMMA SegOfType ==
    ASSUME NEW h \in Main, NEW seq \in SeqNr, NEW ack \in SeqNr,
           NEW fl \in SUBSET {"S", "A", "R", "F"}, NEW data \in Seq(Nat)
    PROVE  Seg(h, seq, ack, fl, data) \in SegType
BY DEF Seg, SegType

\* TRY_UNBLK yields a place a process can be at.
LEMMA UnblkType ==
    ASSUME NEW pc \in {"idle", "wait", "run"}
    PROVE  Unblk(pc) \in {"idle", "wait", "run"}
BY DEF Unblk

\* Waking the process in connect or accept keeps the type.
LEMMA WakeType ==
    ASSUME NEW r \in TcbType
    PROVE  WakeSyn(r) \in TcbType
BY UnblkType DEF WakeSyn, TcbType

\* tcp_exit_with keeps the type.
LEMMA ExitType ==
    ASSUME NEW r \in TcbType
    PROVE  tcp_exit_with(r) \in TcbType
BY UnblkType DEF tcp_exit_with, TcbType

\* tcp_tx_setup and tcp_tx_agree keep the type.
LEMMA SetupType ==
    ASSUME NEW r \in TcbType, NEW iss \in ISS
    PROVE  tcp_tx_setup(r, iss) \in TcbType /\ tcp_tx_agree(r, iss) \in TcbType
<1>1. iss \in SeqNr /\ iss \in Int
  BY TcpAssumption, SeqNrOps DEF SeqNr
<1>2. Add(iss, 1) \in SeqNr
  BY <1>1, SeqNrOps
<1> QED BY <1>1, <1>2 DEF tcp_tx_setup, tcp_tx_agree, TcbType, State

\* What tcp_tx_ack sends is a segment.
LEMMA TxAckType ==
    ASSUME NEW h \in Main, NEW r \in TcbType
    PROVE  tcp_tx_ack(h, r) \in SegType
<1>1. <<>> \in Seq(Nat)
  OBVIOUS
<1> QED BY <1>1, SegOfType, TcbFields DEF tcp_tx_ack

\* The other host of a host is one.
LEMMA OtherType ==
    ASSUME NEW h \in Main
    PROVE  Other(h) \in Main /\ Other(h) # h /\ Other(Other(h)) = h
BY DEF Other, Main

\* The length of a segment is a natural number.
LEMMA SegLenType ==
    ASSUME NEW s \in SegType
    PROVE  SegLen(s) \in Nat
<1>1. Len(s.data) \in Nat
  BY SegFields
<1>2. \A b \in BOOLEAN : (IF b THEN 1 ELSE 0) \in {0, 1}
  OBVIOUS
<1> DEFINE p == IF "S" \in s.fl THEN 1 ELSE 0
           q == IF "F" \in s.fl THEN 1 ELSE 0
<1>3. p \in {0, 1} /\ q \in {0, 1}
  BY <1>2
<1> HIDE DEF p, q
<1>4. Len(s.data) + p + q \in Nat
  BY <1>1, <1>3
<1> QED BY <1>4 DEF SegLen, p, q

\* What tcp_tx_reset sends is a segment.
LEMMA TxResetType ==
    ASSUME NEW s \in SegType
    PROVE  tcp_tx_reset(s) \in SegType
<1>1. Other(s.from) \in Main /\ s.ack \in SeqNr /\ s.seq \in Int /\ 0 \in SeqNr
  BY OtherType, SeqNrOps, SegFields
<1>2. Add(s.seq, SegLen(s)) \in SeqNr
  <2>1. SegLen(s) \in Int
    BY SegLenType
  <2> QED BY <1>1, <2>1, SeqNrOps
<1>3. <<>> \in Seq(Nat)
  OBVIOUS
<1> QED BY <1>1, <1>2, <1>3, SegOfType DEF tcp_tx_reset

\* tcp_tx_seg keeps the type and sends segments.
LEMMA TxSegType ==
    ASSUME NEW h \in Main, NEW r \in TcbType
    PROVE  tcp_tx_seg(h, r) \in Reply
<1>1. CASE r.snd = <<>>
  BY <1>1 DEF tcp_tx_seg, Reply
<1>2. CASE r.snd # <<>>
  <2>1. Head(r.snd) \in Mbuf /\ Tail(r.snd) \in Seq(Mbuf) /\ Head(r.snd) \in Seq(Nat)
    BY <1>2 DEF TcbType, Mbuf
  <2>2. Add(r.nxt, Len(Head(r.snd))) \in SeqNr
    <3>1. Len(Head(r.snd)) \in Int /\ r.nxt \in Int
      BY <2>1, TcbFields
    <3> QED BY <3>1, SeqNrOps
  <2>3. [id |-> r.nxt, data |-> Head(r.snd)] \in [id : SeqNr, data : Mbuf]
    BY <2>1 DEF TcbType
  <2>4. Seg(h, r.nxt, r.rcv, {"A"}, Head(r.snd)) \in SegType
    BY <2>1, SegOfType DEF TcbType
  <2>5. [r EXCEPT !.snd = Tail(@), !.unaq = @ \cup {[id |-> r.nxt, data |-> Head(r.snd)]},
                  !.nxt = Add(@, Len(Head(r.snd)))] \in TcbType
    BY <2>1, <2>2, <2>3 DEF TcbType
  <2> QED BY <1>2, <2>4, <2>5 DEF tcp_tx_seg, Reply
<1> QED BY <1>1, <1>2

\* tcp_tx_fin keeps the type and sends segments.
LEMMA TxFinType ==
    ASSUME NEW h \in Main, NEW x \in Reply
    PROVE  tcp_tx_fin(h, x) \in Reply
<1>1. x.r \in TcbType /\ x.out \subseteq SegType
  BY DEF Reply
<1>2. Add(x.r.nxt, 1) \in SeqNr /\ FinState(x.r.state) \in State
  <2>1. x.r.nxt \in SeqNr /\ x.r.state \in State
    BY <1>1, TcbFields
  <2>2. Add(x.r.nxt, 1) \in SeqNr
    BY <2>1, SeqNrNext
  <2>3. FinState(x.r.state) \in State
    BY <2>1 DEF FinState, State
  <2> QED BY <2>2, <2>3, Zenon
<1>3. Seg(h, x.r.nxt, x.r.rcv, {"A", "F"}, <<>>) \in SegType
  <2>1. <<>> \in Seq(Nat)
    OBVIOUS
  <2> QED BY <1>1, <2>1, SegOfType, TcbFields
<1>4. [x.r EXCEPT !.state = FinState(@), !.nxt = Add(@, 1)] \in TcbType
  BY <1>1, <1>2 DEF TcbType
<1> QED BY <1>1, <1>3, <1>4 DEF tcp_tx_fin, Reply

\* tcp_do_xmit keeps the type and sends segments.
LEMMA XmitType ==
    ASSUME NEW h \in Main, NEW r \in TcbType
    PROVE  tcp_do_xmit(h, r) \in Reply
<1>1. [r EXCEPT !.dly = FALSE] \in TcbType
  BY DEF TcbType
<1>2. tcp_tx_fin(h, tcp_tx_seg(h, [r EXCEPT !.dly = FALSE])) \in Reply
  BY <1>1, TxSegType, TxFinType
<1>3. [r |-> r, out |-> {}] \in Reply
  BY DEF Reply
<1> QED BY <1>2, <1>3 DEF tcp_do_xmit

\* tcp_x_ack keeps the type and sends segments.
LEMMA XAckType ==
    ASSUME NEW h \in Main, NEW r \in TcbType, NEW s \in SegType
    PROVE  tcp_x_ack(h, r, s) \in Reply
<1>1. [r |-> r, out |-> {}] \in Reply /\ [r |-> r, out |-> {tcp_tx_ack(h, r)}] \in Reply
  BY TxAckType DEF Reply
<1>2. [r EXCEPT !.una = s.ack, !.unaq = {m \in @ : m.id >= s.ack}] \in TcbType
  BY DEF TcbType, SegType
<1> QED BY <1>1, <1>2, XmitType DEF tcp_x_ack

\* Taking a segment keeps the type.
LEMMA TakenType ==
    ASSUME NEW x \in Reply, NEW s \in SegType
    PROVE  Taken(x, s) \in TcbType
<1>1. x.r \in TcbType
  BY DEF Reply
<1>2. Add(x.r.rcv, SegLen(s)) \in SeqNr
  <2>1. x.r.rcv \in Int /\ SegLen(s) \in Int
    BY <1>1, TcbFields, SegLenType
  <2> QED BY <2>1, SeqNrOps
<1>3. x.r.buf \o s.data \in Seq(Nat)
  BY <1>1 DEF TcbType, SegType
<1> QED BY <1>1, <1>2, <1>3, UnblkType DEF Taken, TcbType

\* tcp_rx_data keeps the type and sends segments.
LEMMA RxDataType ==
    ASSUME NEW h \in Main, NEW x \in Reply, NEW s \in SegType
    PROVE  tcp_rx_data(h, x, s) \in Reply
<1>1. x.r \in TcbType /\ x.out \subseteq SegType /\ x = [r |-> x.r, out |-> x.out]
  BY DEF Reply
<1> QED BY <1>1, TakenType, TxAckType DEF tcp_rx_data, Reply

\* tcp_rx_sent keeps the type and sends segments.
LEMMA RxSentType ==
    ASSUME NEW h \in Main, NEW r \in TcbType, NEW s \in SegType
    PROVE  tcp_rx_sent(h, r, s) \in Reply
<1>1. [tcp_exit_with(r) EXCEPT !.state = "CLOSED"] \in TcbType
  BY ExitType, SetState DEF State
<1> DEFINE una == IF "A" \in s.fl THEN s.ack ELSE r.una
           r1 == [r EXCEPT !.rcv = Add(s.seq, 1), !.una = una]
           r2 == IF SeqLT(r.iss, una) THEN WakeSyn([r1 EXCEPT !.state = "ESTABLISHED"])
                                      ELSE [r1 EXCEPT !.state = "SYN_RCVD"]
<1>2. r1 \in TcbType
  <2>1. Add(s.seq, 1) \in SeqNr /\ una \in SeqNr
    <3>1. Add(s.seq, 1) \in SeqNr
      BY SeqNrNext, SegFields
    <3>2. una \in SeqNr
      BY SegFields, TcbFields
    <3> QED BY <3>1, <3>2
  <2> QED BY <2>1 DEF TcbType
<1>3. r2 \in TcbType
  <2> HIDE DEF r1
  <2> QED BY <1>2, WakeType, SetState DEF State
<1>4. [r |-> r2, out |-> {tcp_tx_ack(h, r2)}] \in Reply
  BY <1>3, TxAckType DEF Reply
<1>5. [r |-> r, out |-> {tcp_tx_reset(s)}] \in Reply
  BY TxResetType DEF Reply
<1> HIDE DEF r2
<1>6. \A r3 \in TcbType : Same(r3) \in Reply
  BY DEF Reply, Same
<1> QED BY <1>1, <1>4, <1>5, <1>6 DEF tcp_rx_sent, r2

\* tcp_rx_established keeps the type and sends segments.
LEMMA RxEstablishedType ==
    ASSUME NEW h \in Main, NEW r \in TcbType, NEW s \in SegType
    PROVE  tcp_rx_established(h, r, s) \in Reply
<1> DEFINE x == tcp_rx_data(h, tcp_x_ack(h, r, s), s)
<1>1. x \in Reply
  BY XAckType, RxDataType
<1> HIDE DEF x
<1>2. [x EXCEPT !.r.state = "CLOSE_WAIT"] \in Reply
  BY <1>1 DEF Reply, TcbType, State
<1>3. Same(tcp_exit_with(r)) \in Reply /\ [r |-> r, out |-> {tcp_tx_ack(h, r)}] \in Reply
  BY ExitType, TxAckType DEF Same, Reply
<1> QED BY <1>1, <1>2, <1>3 DEF tcp_rx_established, x

\* tcp_rx_closewait keeps the type and sends segments.
LEMMA RxClosewaitType ==
    ASSUME NEW h \in Main, NEW r \in TcbType, NEW s \in SegType
    PROVE  tcp_rx_closewait(h, r, s) \in Reply
<1> DEFINE r1 == IF "R" \in s.fl THEN tcp_exit_with(r) ELSE r
<1>1. r1 \in TcbType
  BY ExitType
<1> HIDE DEF r1
<1>2. [r |-> r1, out |-> {tcp_tx_ack(h, r1)}] \in Reply /\ tcp_x_ack(h, r1, s) \in Reply
  BY <1>1, TxAckType, XAckType DEF Reply
<1> QED BY <1>2 DEF tcp_rx_closewait, r1

\* tcp_release and the start of the TIME_WAIT timer keep the type.
LEMMA ReleaseType ==
    ASSUME NEW r \in TcbType
    PROVE  /\ tcp_release(r) \in TcbType /\ [tcp_release(r) EXCEPT !.state = "CLOSED"] \in TcbType
           /\ [r EXCEPT !.state = "CLOSED"] \in TcbType
           /\ [r EXCEPT !.state = "TIME_WAIT"] \in TcbType /\ tcp_do_timewait(r) \in TcbType
<1>1. \A st \in {"CLOSED", "TIME_WAIT"} : \A z \in TcbType : [z EXCEPT !.state = st] \in TcbType
  BY SetState DEF State
<1>2. tcp_release(r) \in TcbType
  BY DEF tcp_release, TcbType
<1>3. tcp_do_timewait(r) \in TcbType
  <2> DEFINE w == IF r.wait = "dead" THEN "armed" ELSE r.wait
  <2>1. w \in {"dead", "armed", "stuck"} /\ tcp_do_timewait(r) = [r EXCEPT !.wait = w]
    BY DEF tcp_do_timewait, TcbType
  <2> HIDE DEF w
  <2> QED BY <2>1 DEF TcbType
<1> QED BY <1>1, <1>2, <1>3

\* The handlers of LAST_ACK, CLOSING and TIME_WAIT keep the type.
LEMMA RxEndType ==
    ASSUME NEW h \in Main, NEW r \in TcbType, NEW s \in SegType
    PROVE  /\ tcp_rx_lastack(h, r, s) \in Reply
           /\ tcp_rx_closing(h, r, s) \in Reply
           /\ tcp_rx_timewait(h, r, s) \in Reply
<1> DEFINE r1 == IF "R" \in s.fl THEN [tcp_release(r) EXCEPT !.state = "CLOSED"] ELSE r
<1>1. r1 \in TcbType
  BY ReleaseType
<1> HIDE DEF r1
<1>2. /\ [r |-> r1, out |-> {tcp_tx_ack(h, r1)}] \in Reply
      /\ [r |-> tcp_do_timewait(r1), out |-> {tcp_tx_ack(h, r1)}] \in Reply
  BY <1>1, TxAckType, ReleaseType DEF Reply
<1>3. \A r3 \in TcbType : Same(r3) \in Reply
  BY DEF Reply, Same
<1>4. tcp_rx_lastack(h, r, s) \in Reply
  BY <1>1, <1>2, <1>3, ReleaseType DEF tcp_rx_lastack, r1
<1>5. tcp_rx_closing(h, r, s) \in Reply
  BY <1>1, <1>2, <1>3, ReleaseType DEF tcp_rx_closing, r1
<1>6. tcp_rx_timewait(h, r, s) \in Reply
  BY <1>1, <1>2, <1>3, ReleaseType DEF tcp_rx_timewait, r1
<1> QED BY <1>4, <1>5, <1>6

\* tcp_rx_finwait keeps the type and sends segments.
LEMMA RxFinwaitType ==
    ASSUME NEW h \in Main, NEW r \in TcbType, NEW s \in SegType
    PROVE  tcp_rx_finwait(h, r, s) \in Reply
<1> DEFINE acked == "A" \in s.fl /\ s.ack = r.nxt /\ r.state = "FIN_WAIT1"
           r1 == IF acked THEN [r EXCEPT !.state = "FIN_WAIT2"] ELSE r
           x == tcp_rx_data(h, Same(r1), s)
<1>1. r1 \in TcbType
  BY SetState DEF State
<1>2. x \in Reply
  <2> HIDE DEF r1
  <2>1. Same(r1) \in Reply
    BY <1>1 DEF Same, Reply
  <2> QED BY <2>1, RxDataType
<1> HIDE DEF x
<1>3. [x EXCEPT !.r.state = IF @ = "FIN_WAIT1" THEN "CLOSING" ELSE "TIME_WAIT"] \in Reply
  <2> DEFINE st == IF x.r.state = "FIN_WAIT1" THEN "CLOSING" ELSE "TIME_WAIT"
  <2>1. st \in State
    BY DEF State
  <2> HIDE DEF st
  <2>2. [x EXCEPT !.r.state = st] = [x EXCEPT !.r = [x.r EXCEPT !.state = st]]
    BY <1>2 DEF Reply
  <2>3. [x.r EXCEPT !.state = st] \in TcbType
    BY <1>2, <2>1, SetState DEF Reply
  <2>4. [x EXCEPT !.r.state = st] \in Reply
    BY <1>2, <2>2, <2>3 DEF Reply
  <2> QED BY <1>2, <2>4 DEF st, Reply
<1>4. Same(tcp_exit_with(r)) \in Reply /\ [r |-> r, out |-> {tcp_tx_ack(h, r)}] \in Reply
  BY ExitType, TxAckType DEF Same, Reply
<1> QED BY <1>2, <1>3, <1>4 DEF tcp_rx_finwait, x

\* Whatever the state, the handler of a segment keeps the type.
LEMMA RxType ==
    ASSUME NEW h \in Main, NEW r \in TcbType, NEW s \in SegType
    PROVE  tcp_rx(h, r, s) \in Reply
<1>1. [r |-> r, out |-> {tcp_tx_reset(s)}] \in Reply
  BY TxResetType DEF Reply
<1> QED BY <1>1, RxSentType, RxEstablishedType, RxClosewaitType, RxEndType, RxFinwaitType DEF tcp_rx

\* Every socket is on one of the two hosts.
LEMMA HostType ==
    ASSUME NEW t \in Tcb
    PROVE  Host(t) \in Main
BY DEF Host, Main

\* A new socket has the type.
LEMMA SocketType == tcp_socket \in TcbType
<1>1. 0 \in SeqNr /\ 0 \in 0..Len0
  BY SeqNrOps, TcpAssumption
<1>2. <<>> \in Seq(Mbuf) /\ <<>> \in Seq(Nat)
  OBVIOUS
<1> QED BY <1>1, <1>2 DEF tcp_socket, TcbType, State

\* The types hold at the start.
LEMMA InitType == Init => TypeOK
<1> SUFFICES ASSUME Init PROVE TypeOK
  OBVIOUS
<1>1. \A t \in Tcb : [tcp_socket EXCEPT !.listed = t \in Main] \in TcbType
  <2>1. \A t : (t \in Main) \in BOOLEAN
    OBVIOUS
  <2>2. \A c \in BOOLEAN : [tcp_socket EXCEPT !.listed = c] \in TcbType
    BY SocketType DEF TcbType
  <2> QED BY <2>1, <2>2, Zenon
<1>2. tcb \in [Tcb -> TcbType]
  BY <1>1 DEF Init
<1>3. work \in 0..MaxWork /\ acpt \in Seq(Kid) /\ backlog \in Backlogs \cup {0} /\ backcnt \in Int
  BY TcpAssumption DEF Init
<1>4. sent \in [Tcb -> Nat] /\ got \in [Tcb -> Seq(Nat)]
  BY DEF Init
<1> QED BY <1>2, <1>3, <1>4 DEF Init, TypeOK

\* The network carries segments only.
LEMMA CarryType ==
    ASSUME TypeOK, NEW s, NEW out \in SUBSET SegType, Carry(s, out)
    PROVE  net' \subseteq SegType /\ work' \in 0..MaxWork
<1>1. work' \in 0..MaxWork
  BY TcpAssumption DEF TypeOK, Carry
<1> QED BY <1>1 DEF TypeOK, Carry

\* Changing one tcp_t to another keeps the type of the table.
LEMMA PutType ==
    ASSUME NEW f \in [Tcb -> TcbType], NEW t \in Tcb, NEW r \in TcbType
    PROVE  [f EXCEPT ![t] = r] \in [Tcb -> TcbType]
OBVIOUS

\* A received segment keeps the types.
LEMMA SockRxType ==
    ASSUME TypeOK, NEW s \in net, sock_rx_tcp(s)
    PROVE  TypeOK'
<1> PICK t \in Tcb : /\ tcb' = [tcb EXCEPT ![t] = tcp_rx(Host(t), tcb[t], s).r]
                     /\ Carry(s, tcp_rx(Host(t), tcb[t], s).out)
  BY DEF sock_rx_tcp
<1>1. s \in SegType /\ tcb[t] \in TcbType
  BY DEF TypeOK
<1>2. tcp_rx(Host(t), tcb[t], s) \in Reply
  BY <1>1, RxType, HostType
<1>3. tcb' \in [Tcb -> TcbType]
  BY <1>2, PutType DEF TypeOK, Reply
<1>4. net' \subseteq SegType /\ work' \in 0..MaxWork
  BY <1>2, CarryType DEF Reply
<1> QED BY <1>3, <1>4 DEF sock_rx_tcp, TypeOK

\* So does one nobody waits for,
LEMMA RxNobodyType ==
    ASSUME TypeOK, NEW s \in net, RxNobody(s)
    PROVE  TypeOK'
<1>1. tcp_tx_reset(s) \in SegType
  BY TxResetType DEF TypeOK
<1>2. net' \subseteq SegType /\ work' \in 0..MaxWork
  BY <1>1, CarryType DEF RxNobody
<1> QED BY <1>2 DEF RxNobody, TypeOK

\* a reset in SYN_RCVD,
LEMMA RcvdFailsType ==
    ASSUME TypeOK, NEW s \in net, tcp_rx_rcvd_fails(s)
    PROVE  TypeOK'
<1> PICK t \in Tcb : tcb' = [tcb EXCEPT ![t] = IF t \in Kid THEN tcp_release(@) ELSE tcp_exit_with(@)]
  BY DEF tcp_rx_rcvd_fails
<1>1. tcb' \in [Tcb -> TcbType]
  BY ReleaseType, ExitType, PutType DEF TypeOK
<1>2. net' \subseteq SegType /\ work' \in 0..MaxWork
  BY CarryType DEF tcp_rx_rcvd_fails
<1> QED BY <1>1, <1>2 DEF tcp_rx_rcvd_fails, TypeOK

\* the acknowledgement of a SYN,
LEMMA RcvdType ==
    ASSUME TypeOK, NEW s \in net, tcp_rx_rcvd(s)
    PROVE  TypeOK'
<1> PICK t \in Tcb :
        IF "A" \in s.fl /\ SeqLT(tcb[t].una, s.ack) /\ SeqLE(s.ack, tcb[t].nxt)
        THEN /\ tcb' = IF t \in Kid
                       THEN [tcb EXCEPT ![t] = [@ EXCEPT !.state = "ESTABLISHED"], !["b"] = WakeSyn(@)]
                       ELSE [tcb EXCEPT ![t] = WakeSyn([@ EXCEPT !.state = "ESTABLISHED"])]
             /\ acpt' = IF t \in Kid THEN Append(acpt, t) ELSE acpt
             /\ Carry(s, {})
        ELSE /\ Carry(s, IF "A" \in s.fl THEN {tcp_tx_reset(s)} ELSE {})
             /\ UNCHANGED <<tcb, acpt>>
  BY DEF tcp_rx_rcvd
<1>1. acpt' \in Seq(Kid)
  <2>1. acpt \in Seq(Kid) /\ (t \in Kid => Append(acpt, t) \in Seq(Kid))
    BY DEF TypeOK
  <2> QED BY <2>1
<1>2. net' \subseteq SegType /\ work' \in 0..MaxWork
  <2>1. s \in SegType
    BY DEF TypeOK
  <2> QED BY <2>1, CarryType, TxResetType
<1>3. tcb' \in [Tcb -> TcbType]
  <2>1. \A r \in TcbType : [r EXCEPT !.state = "ESTABLISHED"] \in TcbType
    BY SetState DEF State
  <2>2. "b" \in Tcb /\ tcb \in [Tcb -> TcbType]
    BY DEF Tcb, Main, TypeOK
  <2>3. \A r1, r2 \in TcbType : [tcb EXCEPT ![t] = r1, !["b"] = r2] \in [Tcb -> TcbType]
    BY <2>2
  <2>4. t \in Kid => t # "b"
    BY TcpAssumption DEF Main
  <2> DEFINE r1 == [tcb[t] EXCEPT !.state = "ESTABLISHED"]
  <2>5. r1 \in TcbType /\ WakeSyn(r1) \in TcbType /\ WakeSyn(tcb["b"]) \in TcbType
    BY <2>1, <2>2, WakeType
  <2> QED BY <2>2, <2>3, <2>4, <2>5, PutType
<1> QED BY <1>1, <1>2, <1>3 DEF tcp_rx_rcvd, TypeOK

\* a SYN at a listening socket
LEMMA ListenType ==
    ASSUME TypeOK, NEW s \in net, tcp_rx_listen(s)
    PROVE  TypeOK'
<1> PICK k \in Kid, iss \in ISS, w \in {"dead", "stuck"} :
      LET r == [tcp_tx_agree(tcp_socket, iss) EXCEPT !.rport = TRUE, !.rcv = Add(s.seq, 1), !.wait = w]
          full == backcnt + 1 # backlog IN
      /\ tcb' = [tcb EXCEPT ![k] = r]
      /\ backcnt' = IF full THEN backcnt ELSE backcnt + 1
      /\ Carry(s, {tcp_tx_ack("b", r)} \cup IF full THEN {tcp_tx_reset(s)} ELSE {})
  BY DEF tcp_rx_listen
<1> DEFINE r == [tcp_tx_agree(tcp_socket, iss) EXCEPT !.rport = TRUE, !.rcv = Add(s.seq, 1), !.wait = w]
           full == backcnt + 1 # backlog
<1>1. s \in SegType
  BY DEF TypeOK
<1>2. r \in TcbType
  <2>1. Add(s.seq, 1) \in SeqNr
    BY <1>1, SegFields, SeqNrNext
  <2>2. tcp_tx_agree(tcp_socket, iss) \in TcbType
    BY SocketType, SetupType
  <2> QED BY <2>1, <2>2 DEF TcbType
<1>3. backcnt' \in Int
  BY DEF TypeOK
<1>4. "b" \in Main /\ k \in Tcb
  BY DEF Main, Tcb
<1> HIDE DEF r, full
<1>5. tcb' \in [Tcb -> TcbType]
  BY <1>2, <1>4, PutType DEF TypeOK, r
<1>6. {tcp_tx_ack("b", r)} \cup (IF full THEN {tcp_tx_reset(s)} ELSE {}) \in SUBSET SegType
  BY <1>1, <1>2, <1>4, TxAckType, TxResetType
<1>7. Carry(s, {tcp_tx_ack("b", r)} \cup (IF full THEN {tcp_tx_reset(s)} ELSE {}))
  BY DEF r, full
<1>8. net' \subseteq SegType /\ work' \in 0..MaxWork
  BY <1>6, <1>7, CarryType
<1> QED BY <1>3, <1>5, <1>8 DEF tcp_rx_listen, TypeOK

\* and one it refuses.
LEMMA RefuseType ==
    ASSUME TypeOK, NEW s \in net, tcp_rx_listen_refuses(s)
    PROVE  TypeOK'
<1>1. tcp_tx_reset(s) \in SegType
  BY TxResetType DEF TypeOK
<1>2. net' \subseteq SegType /\ work' \in 0..MaxWork
  BY <1>1, CarryType DEF tcp_rx_listen_refuses
<1> QED BY <1>2 DEF tcp_rx_listen_refuses, TypeOK

\* The timers keep the types.
LEMMA TimerType ==
    ASSUME TypeOK, NEW t \in Tcb, Timer(t)
    PROVE  TypeOK'
<1>0. tcb[t] \in TcbType
  BY DEF TypeOK
<1>1. CASE tcp_tmr_dly(t)
  <2>1. [tcb[t] EXCEPT !.dly = FALSE] \in TcbType
    BY <1>0 DEF TcbType
  <2>2. tcb' \in [Tcb -> TcbType]
    BY <1>1, <2>1, PutType DEF TypeOK, tcp_tmr_dly
  <2>3. tcp_tx_ack(Host(t), tcb[t]) \in SegType
    BY <1>0, HostType, TxAckType
  <2> QED BY <1>1, <2>2, <2>3 DEF TypeOK, tcp_tmr_dly
<1>2. CASE tcp_tmr_timewait(t)
  <2>1. [tcb[t] EXCEPT !.wait = "dead"] \in TcbType
    BY <1>0 DEF TcbType
  <2>2. tcb' \in [Tcb -> TcbType]
    BY <1>2, <2>1, ReleaseType DEF TypeOK, tcp_tmr_timewait
  <2> QED BY <1>2, <2>2 DEF TypeOK, tcp_tmr_timewait
<1> QED BY <1>1, <1>2 DEF Timer

\* What tcp_recvmsg does: it takes text out of buf_que, all of it if it sleeps, and copies
\* no more than it was asked for,
LEMMA CopyIs ==
    ASSUME TypeOK, NEW t \in Tcb, NEW rem \in 0..Len0, Copy(t, rem)
    PROVE  /\ \E n \in 0..Len(tcb[t].buf), left \in 0..Len0, pc \in {"idle", "wait"} :
                 Read(t, n, left, pc) /\ (pc = "wait" => n = Len(tcb[t].buf) \/ Host(t) \in halted')
           /\ halted \subseteq halted' /\ halted' \subseteq Main /\ torn' \subseteq Tcb
           /\ UNCHANGED <<net, work, acpt, backlog, backcnt, sent, crowd>>
<1> DEFINE all == tcb[t].buf
           P == /\ \E n \in 0..Len(all), left \in 0..Len0, pc \in {"idle", "wait"} :
                      Read(t, n, left, pc) /\ (pc = "wait" => n = Len(all) \/ Host(t) \in halted')
                /\ halted \subseteq halted' /\ halted' \subseteq Main /\ torn' \subseteq Tcb
                /\ UNCHANGED <<net, work, acpt, backlog, backcnt, sent, crowd>>
<1>0. Len(all) \in Nat /\ Len0 \in Nat /\ rem \in Nat /\ halted \subseteq Main /\ torn \subseteq Tcb /\ Host(t) \in Main
  BY HostType, TcpAssumption DEF TypeOK, TcbType
<1>1. ASSUME NEW n \in 0..Len(all), NEW j \in 0..Len0, Tears(t, n, j) PROVE P
  <2>0. UNCHANGED <<net, work, acpt, backlog, backcnt, sent, crowd>> /\ torn' \subseteq Tcb
    BY <1>0, <1>1 DEF Tears
  <2>1. CASE Read(t, n, 0, "idle") /\ UNCHANGED halted
    BY <1>0, <2>0, <2>1
  <2>2. CASE (\E left \in 0..j : Read(t, Len(all), left, "wait")) /\ UNCHANGED halted
    <3>1. PICK left \in 0..j : Read(t, Len(all), left, "wait")
      BY <2>2
    <3>2. left \in 0..Len0 /\ Len(all) \in 0..Len(all)
      BY <1>0
    <3> QED BY <1>0, <2>0, <2>2, <3>1, <3>2
  <2>3. CASE Read(t, n, 0, "wait") /\ halted' = halted \cup {Host(t)}
    BY <1>0, <2>0, <2>3
  <2> QED BY <1>1, <2>1, <2>2, <2>3 DEF Tears
<1>2. ASSUME NEW n \in 0..Len(all), n <= rem, Copied(t, rem, n) PROVE P
  <2>1. rem - n \in 0..Len0
    BY <1>0, <1>2
  <2>2. CASE n < Len(all)
    BY <1>1, <1>2, <2>1, <2>2 DEF Copied
  <2>3. CASE ~(n < Len(all))
    <3>1. /\ Read(t, n, rem - n, "wait") /\ n = Len(all)
          /\ UNCHANGED <<net, work, acpt, backlog, backcnt, sent, halted, torn, crowd>>
      BY <1>0, <1>2, <2>3 DEF Copied
    <3> QED BY <1>0, <2>1, <3>1
  <2> QED BY <2>2, <2>3
<1>3. CASE t \in torn /\ all # <<>>
  BY <1>0, <1>1, <1>3 DEF Copy
<1>4. CASE ~(t \in torn /\ all # <<>>)
  <2> DEFINE n == IF Len(all) < rem THEN Len(all) ELSE rem
  <2>1. n \in 0..Len(all) /\ n <= rem /\ Copied(t, rem, n)
    BY <1>0, <1>4 DEF Copy
  <2> HIDE DEF n
  <2> QED BY <1>2, <2>1
<1> QED BY <1>3, <1>4

\* and keeps the types.
LEMMA CopyType ==
    ASSUME TypeOK, NEW t \in Tcb, NEW rem \in 0..Len0, Copy(t, rem)
    PROVE  TypeOK'
<1> DEFINE all == tcb[t].buf
<1>0. tcb[t] \in TcbType /\ all \in Seq(Nat) /\ Len(all) \in Nat /\ got[t] \in Seq(Nat)
  BY DEF TypeOK, TcbType
<1>1. PICK n \in 0..Len(all), left \in 0..Len0, pc \in {"idle", "wait"} : Read(t, n, left, pc)
  BY CopyIs
<1>2. SubSeq(all, 1, n) \in Seq(Nat) /\ SubSeq(all, n + 1, Len(all)) \in Seq(Nat)
  <2>1. 1 \in 1..Len(all)+1 /\ n + 1 \in 1..Len(all)+1 /\ Len(all) \in 0..Len(all)
    BY <1>0
  <2> HIDE DEF all
  <2> QED BY <1>0, <2>1, SubSeqProperties
<1>3. [tcb[t] EXCEPT !.rem = left, !.rd = pc, !.buf = SubSeq(all, n + 1, Len(all))] \in TcbType
  BY <1>0, <1>2 DEF TcbType
<1>4. tcb' \in [Tcb -> TcbType]
  BY <1>1, <1>3, PutType DEF TypeOK, Read
<1>5. got[t] \o SubSeq(all, 1, n) \in Seq(Nat)
  BY <1>0, <1>2
<1>6. got' \in [Tcb -> Seq(Nat)]
  BY <1>1, <1>5 DEF TypeOK, Read
<1> QED BY <1>4, <1>6, CopyIs DEF TypeOK

\* So does its way out with an error,
LEMMA RecvErrorType ==
    ASSUME TypeOK, NEW t \in Tcb, RecvError(t)
    PROVE  TypeOK'
<1>1. tcb[t] \in TcbType /\ 0 \in 0..Len0
  BY TcpAssumption DEF TypeOK
<1>2. [tcb[t] EXCEPT !.rd = "idle", !.rem = 0] \in TcbType
  BY <1>1 DEF TcbType
<1>3. tcb' \in [Tcb -> TcbType]
  BY <1>2, PutType DEF TypeOK, RecvError
<1> QED BY <1>3 DEF TypeOK, RecvError

\* its continuation after a sleep,
LEMMA RecvResumeType ==
    ASSUME TypeOK, NEW t \in Tcb, RecvResume(t) \/ tcp_recvmsg(t)
    PROVE  TypeOK'
<1>1. Len0 \in 0..Len0 /\ tcb[t].rem \in 0..Len0
  BY TcpAssumption DEF TypeOK, TcbType
<1> QED BY <1>1, CopyType, RecvErrorType DEF RecvResume, tcp_recvmsg

\* connect,
LEMMA ConnectType ==
    ASSUME TypeOK, NEW t \in Tcb, tcp_connect(t)
    PROVE  TypeOK'
<1> PICK iss \in ISS :
      /\ tcb' = [tcb EXCEPT ![t] = [tcp_tx_setup(@, iss) EXCEPT !.rport = TRUE, !.cn = "wait"]]
      /\ net' = net \cup {Seg(t, iss, 0, {"S"}, <<>>)}
  BY DEF tcp_connect
<1>1. tcb[t] \in TcbType /\ t \in Main /\ iss \in SeqNr /\ 0 \in SeqNr /\ <<>> \in Seq(Nat)
  <2>1. 0 \in SeqNr
    BY SeqNrOps
  <2>2. iss \in SeqNr /\ t \in Main
    BY TcpAssumption DEF tcp_connect
  <2>3. tcb[t] \in TcbType /\ <<>> \in Seq(Nat)
    BY DEF TypeOK
  <2> QED BY <2>1, <2>2, <2>3
<1>2. [tcp_tx_setup(tcb[t], iss) EXCEPT !.rport = TRUE, !.cn = "wait"] \in TcbType
  <2>1. tcp_tx_setup(tcb[t], iss) \in TcbType
    BY <1>1, SetupType
  <2> QED BY <2>1 DEF TcbType
<1>3. tcb' \in [Tcb -> TcbType]
  BY <1>2, PutType DEF TypeOK
<1>4. net' \subseteq SegType
  <2>1. Seg(t, iss, 0, {"S"}, <<>>) \in SegType
    BY <1>1, SegOfType
  <2> QED BY <2>1 DEF TypeOK
<1> QED BY <1>3, <1>4 DEF TypeOK, tcp_connect

\* sendmsg, which makes an mbuf of what is written,
LEMMA SendmsgType ==
    ASSUME TypeOK, NEW t \in Tcb, tcp_sendmsg(t)
    PROVE  TypeOK'
<1> PICK n \in WriteSizes :
      /\ LET m == [i \in 1..n |-> sent[t] + i]
             x == tcp_do_xmit(Host(t), [tcb[t] EXCEPT !.snd = Append(@, m)]) IN
         tcb' = [tcb EXCEPT ![t] = x.r] /\ net' = net \cup x.out
      /\ sent' = [sent EXCEPT ![t] = @ + n]
  BY DEF tcp_sendmsg
<1> DEFINE m == [i \in 1..n |-> sent[t] + i]
           r == [tcb[t] EXCEPT !.snd = Append(@, m)]
           x == tcp_do_xmit(Host(t), r)
<1>1. tcb[t] \in TcbType /\ sent[t] \in Nat /\ n \in Nat /\ n # 0
  BY TcpAssumption DEF TypeOK
<1>2. m \in Mbuf
  <2>1. m \in Seq(Nat) /\ Len(m) = n
    BY <1>1
  <2>2. m # <<>>
    BY <1>1, <2>1
  <2> QED BY <2>1, <2>2 DEF Mbuf
<1> HIDE DEF m
<1>3. r \in TcbType
  <2>1. Append(tcb[t].snd, m) \in Seq(Mbuf)
    BY <1>1, <1>2 DEF TcbType
  <2> QED BY <1>1, <2>1 DEF TcbType
<1> HIDE DEF r
<1>4. x \in Reply
  BY <1>3, HostType, XmitType
<1>5. x.r \in TcbType /\ x.out \subseteq SegType
  BY <1>4 DEF Reply
<1> HIDE DEF x
<1>6. tcb' = [tcb EXCEPT ![t] = x.r] /\ net' = net \cup x.out
  BY DEF x, r, m
<1>7. tcb' \in [Tcb -> TcbType] /\ net' \subseteq SegType
  BY <1>5, <1>6, PutType DEF TypeOK
<1>8. sent' \in [Tcb -> Nat]
  BY <1>1 DEF TypeOK
<1>9. work' \in 0..MaxWork
  BY TcpAssumption DEF TypeOK, tcp_sendmsg
<1> QED BY <1>7, <1>8, <1>9 DEF TypeOK, tcp_sendmsg

\* the return of connect and shutdown,
LEMMA LocalCallType ==
    ASSUME TypeOK, NEW t \in Tcb, ConnectReturn(t) \/ tcp_shutdown(t)
    PROVE  TypeOK'
<1>1. tcb[t] \in TcbType /\ (~tcb[t].err) \in BOOLEAN
  BY DEF TypeOK
<1>2. \A c \in BOOLEAN : /\ [tcb[t] EXCEPT !.cn = "idle", !.open = c] \in TcbType
                         /\ [tcb[t] EXCEPT !.open = FALSE, !.shut = c] \in TcbType
  BY <1>1 DEF TcbType
<1>3. tcb' \in [Tcb -> TcbType]
  BY <1>1, <1>2, PutType DEF TypeOK, ConnectReturn, tcp_shutdown
<1> QED BY <1>3 DEF TypeOK, ConnectReturn, tcp_shutdown

\* listen
LEMMA TcpListenType ==
    ASSUME TypeOK, tcp_listen
    PROVE  TypeOK'
<1>1. "b" \in Tcb /\ tcb["b"] \in TcbType
  BY DEF TypeOK, Tcb, Main
<1>2. [tcb["b"] EXCEPT !.state = "LISTEN"] \in TcbType
  BY <1>1, SetState DEF State
<1>3. tcb' \in [Tcb -> TcbType]
  BY <1>1, <1>2, PutType DEF TypeOK, tcp_listen
<1> QED BY <1>3 DEF TypeOK, tcp_listen

\* and accept, which leaves the children as they are or opens one.
AcceptKeeps(c) == tcb' = [tcb EXCEPT !["b"] = [tcb["b"] EXCEPT !.cn = c]]
AcceptOpens(c, at) ==
    /\ tcb[acpt[at]].state = "ESTABLISHED"
    /\ tcb' = [tcb EXCEPT !["b"] = [tcb["b"] EXCEPT !.cn = c], ![acpt[at]] = [@ EXCEPT !.open = TRUE]]

\* What accept does: it takes children out of the queue, the oldest first, and may open the
\* last that it takes.
LEMMA AcceptIs ==
    ASSUME TypeOK, tcp_accept
    PROVE  /\ tcb["b"].state = "LISTEN" /\ halted \subseteq halted' /\ halted' \subseteq Main
           /\ UNCHANGED <<net, backlog, sent, got, torn>>
           /\ work' \in 0..MaxWork /\ crowd' \in BOOLEAN /\ backcnt' \in Int
           /\ \E c \in {"idle", "wait", "run"}, i \in 1..(Len(acpt) + 1) :
                 /\ acpt' = SubSeq(acpt, i, Len(acpt))
                 /\ c = "wait" => acpt' = <<>> \/ (tcb["b"].cn = "wait" /\ acpt # <<>>)
                 /\ AcceptKeeps(c) \/ \E at \in DOMAIN acpt : at < i /\ AcceptOpens(c, at)
<1> DEFINE ready == {i \in DOMAIN acpt : tcb[acpt[i]].state = "ESTABLISHED"}
           P == \E c \in {"idle", "wait", "run"}, i \in 1..(Len(acpt) + 1) :
                 /\ acpt' = SubSeq(acpt, i, Len(acpt))
                 /\ c = "wait" => acpt' = <<>> \/ (tcb["b"].cn = "wait" /\ acpt # <<>>)
                 /\ AcceptKeeps(c) \/ \E at \in DOMAIN acpt : at < i /\ AcceptOpens(c, at)
<1>0. /\ "b" \in Tcb /\ "b" \in Main /\ tcb \in [Tcb -> TcbType] /\ tcb["b"] \in TcbType /\ acpt \in Seq(Kid)
      /\ Len(acpt) \in Nat /\ DOMAIN acpt = 1..Len(acpt) /\ tcb["b"].cn \in {"idle", "wait", "run"}
      /\ halted \subseteq Main /\ crowd \in BOOLEAN /\ backcnt \in Int
      /\ work \in 0..MaxWork /\ MaxWork \in Nat
  BY TcpAssumption DEF TypeOK, TcbType, Tcb, Main
<1>1. /\ tcb["b"].state = "LISTEN" /\ UNCHANGED <<net, backlog, sent, got, torn>>
      /\ (ready = {} /\ AcceptSleeps) \/ (\E at \in ready : AcceptTakes(at))
  BY DEF tcp_accept
<1>2. CASE AcceptSleeps
  <2>1. acpt' = SubSeq(acpt, Len(acpt) + 1, Len(acpt)) /\ Len(acpt) + 1 \in 1..(Len(acpt) + 1) /\ acpt' = <<>>
    BY <1>0, <1>2, SubSeqEmpty DEF AcceptSleeps
  <2>2. \E c \in {"idle", "wait", "run"} : AcceptKeeps(c)
    <3>1. tcb = [tcb EXCEPT !["b"] = [tcb["b"] EXCEPT !.cn = tcb["b"].cn]]
      BY <1>0 DEF TcbType
    <3> QED BY <1>0, <1>2, <3>1 DEF AcceptSleeps, AcceptKeeps
  <2>3. P
    BY <2>1, <2>2
  <2>4. halted \subseteq halted' /\ halted' \subseteq Main /\ crowd' \in BOOLEAN /\ backcnt' \in Int
    BY <1>0, <1>2 DEF AcceptSleeps
  <2>5. work' \in 0..MaxWork
    BY <1>0, <1>2 DEF AcceptSleeps
  <2> QED BY <1>1, <2>3, <2>4, <2>5
<1>3. ASSUME NEW at \in ready, AcceptTakes(at) PROVE P /\ UNCHANGED <<work, halted, crowd>> /\ backcnt' \in Int
  <2>1. PICK c \in {tcb["b"].cn, Done(tcb["b"].cn)} :
          \/ /\ tcb' = [tcb EXCEPT !["b"] = [@ EXCEPT !.cn = c], ![acpt[at]] = [@ EXCEPT !.open = TRUE]]
             /\ acpt' = SubSeq(acpt, at + 1, Len(acpt)) /\ backcnt' = backcnt - 1
          \/ /\ tcb' = [tcb EXCEPT !["b"] = [@ EXCEPT !.cn = c]] /\ UNCHANGED backcnt
             /\ acpt' \in {SubSeq(acpt, at + 1, Len(acpt)), SubSeq(acpt, at, Len(acpt))}
    BY <1>3 DEF AcceptTakes
  <2>2. c \in {"idle", "wait", "run"} /\ (c = "wait" => tcb["b"].cn = "wait")
    BY <1>0 DEF Done
  <2>3. at \in DOMAIN acpt /\ at \in 1..(Len(acpt) + 1) /\ at + 1 \in 1..(Len(acpt) + 1) /\ at < at + 1 /\ acpt # <<>>
        /\ tcb[acpt[at]].state = "ESTABLISHED"
    BY <1>0
  <2>4. CASE /\ tcb' = [tcb EXCEPT !["b"] = [@ EXCEPT !.cn = c], ![acpt[at]] = [@ EXCEPT !.open = TRUE]]
             /\ acpt' = SubSeq(acpt, at + 1, Len(acpt)) /\ backcnt' = backcnt - 1
    <3>1. AcceptOpens(c, at)
      BY <2>3, <2>4 DEF AcceptOpens
    <3>2. UNCHANGED <<work, halted, crowd>> /\ backcnt' \in Int
      BY <1>0, <1>3, <2>4 DEF AcceptTakes
    <3>3. acpt' = SubSeq(acpt, at + 1, Len(acpt))
      BY <2>4
    <3>4. \E i \in 1..(Len(acpt) + 1) : /\ acpt' = SubSeq(acpt, i, Len(acpt))
                                       /\ \E j \in DOMAIN acpt : j < i /\ AcceptOpens(c, j)
      BY <2>3, <3>1, <3>3
    <3> QED BY <2>2, <2>3, <3>2, <3>4
  <2>5. CASE /\ tcb' = [tcb EXCEPT !["b"] = [@ EXCEPT !.cn = c]] /\ UNCHANGED backcnt
             /\ acpt' \in {SubSeq(acpt, at + 1, Len(acpt)), SubSeq(acpt, at, Len(acpt))}
    <3>1. AcceptKeeps(c)
      BY <2>5 DEF AcceptKeeps
    <3>2. \E i \in 1..(Len(acpt) + 1) : acpt' = SubSeq(acpt, i, Len(acpt))
      BY <2>3, <2>5
    <3> QED BY <1>0, <1>3, <2>2, <2>3, <2>5, <3>1, <3>2 DEF AcceptTakes
  <2> QED BY <2>1, <2>4, <2>5
<1> HIDE DEF P
<1>4. CASE \E at \in ready : AcceptTakes(at)
  <2>1. P /\ UNCHANGED <<work, halted, crowd>> /\ backcnt' \in Int
    BY <1>3, <1>4
  <2> QED BY <1>0, <1>1, <2>1 DEF P
<1> QED BY <1>1, <1>2, <1>4

\* The types under accept.
LEMMA AcceptType ==
    ASSUME TypeOK, tcp_accept
    PROVE  TypeOK'
<1>1. "b" \in Tcb /\ tcb \in [Tcb -> TcbType] /\ acpt \in Seq(Kid)
  BY DEF TypeOK, Tcb, Main
<1>2. PICK c \in {"idle", "wait", "run"}, i \in 1..(Len(acpt) + 1) :
        /\ acpt' = SubSeq(acpt, i, Len(acpt))
        /\ AcceptKeeps(c) \/ \E at \in DOMAIN acpt : at < i /\ AcceptOpens(c, at)
  BY AcceptIs
<1>3. \A r \in TcbType : [r EXCEPT !.cn = c] \in TcbType /\ [r EXCEPT !.open = TRUE] \in TcbType
  BY DEF TcbType
<1>4. acpt' \in Seq(Kid)
  <2>1. Len(acpt) \in Nat /\ Len(acpt) \in 0..Len(acpt)
    BY <1>1
  <2> QED BY <1>1, <1>2, <2>1, SubSeqProperties
<1>5. CASE AcceptKeeps(c)
  <2>1. tcb' \in [Tcb -> TcbType]
    BY <1>1, <1>3, <1>5, PutType DEF AcceptKeeps
  <2> QED BY <1>4, <2>1, AcceptIs DEF TypeOK
<1>6. ASSUME NEW at \in DOMAIN acpt, AcceptOpens(c, at) PROVE TypeOK'
  <2>1. acpt[at] \in Kid
    BY <1>1
  <2>2. acpt[at] \in Tcb /\ acpt[at] # "b"
    BY <2>1, TcpAssumption DEF Tcb, Main
  <2>3. tcb' \in [Tcb -> TcbType]
    BY <1>1, <1>3, <1>6, <2>2 DEF AcceptOpens
  <2> QED BY <1>4, <2>3, AcceptIs DEF TypeOK
<1> QED BY <1>2, <1>5, <1>6

\* Every step keeps the types.
LEMMA NextType == TypeOK /\ [Next]_vars => TypeOK'
<1> SUFFICES ASSUME TypeOK, [Next]_vars PROVE TypeOK'
  OBVIOUS
<1>1. CASE Deliver
  BY <1>1, SockRxType, RxNobodyType, RcvdType, RcvdFailsType, ListenType, RefuseType DEF Deliver
<1>2. CASE tcp_listen \/ tcp_accept
  BY <1>2, TcpListenType, AcceptType
<1>3. ASSUME NEW t \in Tcb, Timer(t) \/ Resume(t) \/ Call(t)
      PROVE  TypeOK'
  BY <1>3, TimerType, RecvResumeType, LocalCallType, AcceptType, ConnectType, SendmsgType DEF Resume, Call
<1>4. CASE UNCHANGED vars
  BY <1>4 DEF TypeOK, vars
<1> QED BY <1>1, <1>2, <1>3, <1>4 DEF Next

\* Every field of every connection keeps its type, whatever the two hosts and the
\* network between them do: numbers stay numbers, no queue gets an empty mbuf, and
\* recvmsg copies no more than was asked for (tcp.c, all handlers and calls).
THEOREM TypeCorrect == Spec => []TypeOK
BY InitType, NextType, PTL DEF Spec

-----------------------------------------------------------------------------
(* Who sleeps.                                                               *)

\* what the handlers of segments do to the sleepers of a socket
Calm(r, r2) ==
    /\ r2.rport = r.rport /\ r2.iss = r.iss /\ r2.open = r.open /\ r2.shut = r.shut
    /\ r2.rd = "wait" => r.rd = "wait" /\ r2.buf = r.buf
    /\ r2.cn = r.cn \/ r2.cn = Unblk(r.cn)
    /\ r2.state = "LISTEN" => r.state = "LISTEN"
    /\ r2.state = "SYN_SENT" => r.state = "SYN_SENT"
    /\ r2.state = "SYN_RCVD" => r.state \in {"SYN_SENT", "SYN_RCVD"}

\* Calm steps compose.
LEMMA CalmTrans ==
    ASSUME NEW r1 \in TcbType, NEW r2 \in TcbType, NEW r3 \in TcbType, Calm(r1, r2), Calm(r2, r3)
    PROVE  Calm(r1, r3)
BY DEF Calm, Unblk

\* The small changes of a tcp_t are calm.
LEMMA CalmSmall ==
    ASSUME NEW r \in TcbType
    PROVE  /\ Calm(r, r) /\ Calm(r, tcp_exit_with(r)) /\ Calm(r, tcp_release(r))
           /\ Calm(r, tcp_do_timewait(r)) /\ Calm(r, [r EXCEPT !.dly = FALSE])
           /\ \A st \in State \ {"LISTEN", "SYN_SENT", "SYN_RCVD"} : Calm(r, [r EXCEPT !.state = st])
<1>1. Calm(r, r)
  BY DEF Calm
<1>2. Calm(r, tcp_exit_with(r))
  BY DEF Calm, tcp_exit_with, TcbType, Unblk
<1>3. Calm(r, tcp_release(r)) /\ Calm(r, tcp_do_timewait(r)) /\ Calm(r, [r EXCEPT !.dly = FALSE])
  BY DEF Calm, tcp_release, tcp_do_timewait, TcbType
<1>4. \A st \in State \ {"LISTEN", "SYN_SENT", "SYN_RCVD"} : Calm(r, [r EXCEPT !.state = st])
  BY DEF Calm, TcbType
<1> QED BY <1>1, <1>2, <1>3, <1>4

\* Sending is calm,
LEMMA CalmXmit ==
    ASSUME NEW h \in Main, NEW r \in TcbType
    PROVE  Calm(r, tcp_do_xmit(h, r).r)
<1> DEFINE r1 == [r EXCEPT !.dly = FALSE]
           x == tcp_tx_seg(h, r1)
           y == tcp_tx_fin(h, x)
<1>1. r1 \in TcbType /\ Calm(r, r1)
  BY CalmSmall DEF TcbType
<1> HIDE DEF r1
<1>2. x \in Reply /\ x.r \in TcbType
  BY <1>1, TxSegType DEF Reply
<1>3. Calm(r1, x.r)
  BY <1>1 DEF Calm, tcp_tx_seg, TcbType
<1> HIDE DEF x
<1>4. y \in Reply /\ y.r \in TcbType
  BY <1>2, TxFinType DEF Reply
<1>5. Calm(x.r, y.r)
  <2>1. y.r = x.r \/ y.r = [x.r EXCEPT !.state = FinState(@), !.nxt = Add(@, 1)]
    BY DEF tcp_tx_fin
  <2>2. /\ FinState(x.r.state) = "LISTEN" => x.r.state = "LISTEN"
        /\ FinState(x.r.state) = "SYN_SENT" => x.r.state = "SYN_SENT"
        /\ FinState(x.r.state) = "SYN_RCVD" => x.r.state = "SYN_RCVD"
    BY DEF FinState
  <2>3. CASE y.r = x.r
    BY <1>2, <2>3, CalmSmall
  <2>4. CASE y.r = [x.r EXCEPT !.state = FinState(@), !.nxt = Add(@, 1)]
    <3> DEFINE q == x.r
               st == FinState(q.state)
               z == [q EXCEPT !.state = st, !.nxt = Add(@, 1)]
    <3>1. q \in TcbType /\ y.r = z
      BY <1>2, <2>4
    <3> HIDE DEF q, st
    <3>2. /\ z.rport = q.rport /\ z.iss = q.iss /\ z.open = q.open /\ z.shut = q.shut /\ z.rd = q.rd /\ z.buf = q.buf
          /\ z.cn = q.cn /\ z.state = st
      BY <3>1 DEF TcbType
    <3> HIDE DEF z
    <3>3. Calm(q, z)
      BY <2>2, <3>2 DEF Calm, st, q
    <3> QED BY <3>1, <3>3 DEF q
  <2> QED BY <2>1, <2>3, <2>4
<1> HIDE DEF y
<1>6. Calm(r, y.r)
  BY <1>1, <1>2, <1>3, <1>4, <1>5, CalmTrans
<1> QED BY <1>6, CalmSmall DEF tcp_do_xmit, y, x, r1

\* so is an acknowledgement,
LEMMA CalmXAck ==
    ASSUME NEW h \in Main, NEW r \in TcbType, NEW s \in SegType
    PROVE  Calm(r, tcp_x_ack(h, r, s).r)
<1> DEFINE r1 == [r EXCEPT !.una = s.ack, !.unaq = {m \in @ : m.id >= s.ack}]
<1>1. r1 \in TcbType /\ Calm(r, r1)
  BY DEF TcbType, Calm, SegType
<1> HIDE DEF r1
<1>2. tcp_do_xmit(h, r1).r \in TcbType
  BY <1>1, XmitType DEF Reply
<1>3. Calm(r, tcp_do_xmit(h, r1).r)
  BY <1>1, <1>2, CalmXmit, CalmTrans
<1> QED BY <1>3, CalmSmall DEF tcp_x_ack, r1

\* text, which wakes its reader,
LEMMA CalmRxData ==
    ASSUME NEW h \in Main, NEW x \in Reply, NEW s \in SegType
    PROVE  Calm(x.r, tcp_rx_data(h, x, s).r)
<1>1. x.r \in TcbType /\ x = [r |-> x.r, out |-> x.out]
  BY DEF Reply
<1>2. Calm(x.r, Taken(x, s))
  BY <1>1 DEF Calm, Taken, TcbType, Unblk
<1> QED BY <1>1, <1>2, CalmSmall DEF tcp_rx_data

\* and the handlers of every state.
LEMMA CalmEstablished ==
    ASSUME NEW h \in Main, NEW r \in TcbType, NEW s \in SegType
    PROVE  Calm(r, tcp_rx_established(h, r, s).r)
<1> DEFINE y == tcp_x_ack(h, r, s)
           x == tcp_rx_data(h, y, s)
<1>1. y \in Reply /\ y.r \in TcbType /\ Calm(r, y.r)
  BY XAckType, CalmXAck DEF Reply
<1> HIDE DEF y
<1>2. x \in Reply /\ x.r \in TcbType /\ Calm(y.r, x.r)
  BY <1>1, RxDataType, CalmRxData DEF Reply
<1> HIDE DEF x
<1>3. Calm(r, x.r)
  BY <1>1, <1>2, CalmTrans
<1>4. [x EXCEPT !.r.state = "CLOSE_WAIT"].r = [x.r EXCEPT !.state = "CLOSE_WAIT"]
  BY <1>2 DEF Reply
<1>5. [x.r EXCEPT !.state = "CLOSE_WAIT"] \in TcbType
  BY <1>2, SetState DEF State
<1>6. Calm(x.r, [x.r EXCEPT !.state = "CLOSE_WAIT"])
  BY <1>2, CalmSmall DEF State
<1>7. Calm(r, [x.r EXCEPT !.state = "CLOSE_WAIT"])
  BY <1>2, <1>3, <1>5, <1>6, CalmTrans
<1>8. Same(tcp_exit_with(r)).r = tcp_exit_with(r)
  BY DEF Same
<1> QED BY <1>3, <1>4, <1>7, <1>8, CalmSmall DEF tcp_rx_established, x, y

\* The states after our FIN.
LEMMA CalmFinwait ==
    ASSUME NEW h \in Main, NEW r \in TcbType, NEW s \in SegType
    PROVE  Calm(r, tcp_rx_finwait(h, r, s).r)
<1> DEFINE acked == "A" \in s.fl /\ s.ack = r.nxt /\ r.state = "FIN_WAIT1"
           r1 == IF acked THEN [r EXCEPT !.state = "FIN_WAIT2"] ELSE r
           x == tcp_rx_data(h, Same(r1), s)
           st == IF x.r.state = "FIN_WAIT1" THEN "CLOSING" ELSE "TIME_WAIT"
<1>1. r1 \in TcbType /\ Calm(r, r1)
  BY SetState, CalmSmall DEF State
<1> HIDE DEF r1
<1>2. Same(r1) \in Reply /\ Same(r1).r = r1
  BY <1>1 DEF Same, Reply
<1>3. x \in Reply /\ x.r \in TcbType /\ Calm(r1, x.r)
  BY <1>2, RxDataType, CalmRxData DEF Reply
<1> HIDE DEF x
<1>4. Calm(r, x.r)
  BY <1>1, <1>3, CalmTrans
<1>5. st \in State \ {"LISTEN", "SYN_SENT", "SYN_RCVD"}
  BY DEF State
<1>6. [x EXCEPT !.r.state = IF @ = "FIN_WAIT1" THEN "CLOSING" ELSE "TIME_WAIT"].r = [x.r EXCEPT !.state = st]
  BY <1>3 DEF Reply
<1> HIDE DEF st
<1>7. [x.r EXCEPT !.state = st] \in TcbType /\ Calm(x.r, [x.r EXCEPT !.state = st])
  BY <1>3, <1>5, SetState, CalmSmall
<1>8. Calm(r, [x.r EXCEPT !.state = st])
  BY <1>3, <1>4, <1>7, CalmTrans
<1>9. Same(tcp_exit_with(r)).r = tcp_exit_with(r)
  BY DEF Same
<1> QED BY <1>4, <1>6, <1>8, <1>9, CalmSmall DEF tcp_rx_finwait, x, r1

\* The state after the FIN of the other end.
LEMMA CalmClosewait ==
    ASSUME NEW h \in Main, NEW r \in TcbType, NEW s \in SegType
    PROVE  Calm(r, tcp_rx_closewait(h, r, s).r)
<1> DEFINE r1 == IF "R" \in s.fl THEN tcp_exit_with(r) ELSE r
<1>1. r1 \in TcbType /\ Calm(r, r1)
  BY ExitType, CalmSmall
<1> HIDE DEF r1
<1>2. tcp_x_ack(h, r1, s).r \in TcbType /\ Calm(r1, tcp_x_ack(h, r1, s).r)
  BY <1>1, XAckType, CalmXAck DEF Reply
<1>3. Calm(r, tcp_x_ack(h, r1, s).r)
  BY <1>1, <1>2, CalmTrans
<1> QED BY <1>1, <1>3 DEF tcp_rx_closewait, r1

\* The last states.
LEMMA CalmEnd ==
    ASSUME NEW h \in Main, NEW r \in TcbType, NEW s \in SegType
    PROVE  /\ Calm(r, tcp_rx_lastack(h, r, s).r)
           /\ Calm(r, tcp_rx_closing(h, r, s).r)
           /\ Calm(r, tcp_rx_timewait(h, r, s).r)
<1> DEFINE r1 == IF "R" \in s.fl THEN [tcp_release(r) EXCEPT !.state = "CLOSED"] ELSE r
<1>1. Calm(r, [tcp_release(r) EXCEPT !.state = "CLOSED"])
  <2>1. tcp_release(r) \in TcbType /\ Calm(r, tcp_release(r))
    BY ReleaseType, CalmSmall
  <2>2. "CLOSED" \in State \ {"LISTEN", "SYN_SENT", "SYN_RCVD"}
    BY DEF State
  <2>3. Calm(tcp_release(r), [tcp_release(r) EXCEPT !.state = "CLOSED"])
    BY <2>1, <2>2, CalmSmall
  <2> QED BY <2>1, <2>3, ReleaseType, CalmTrans
<1>2. r1 \in TcbType /\ Calm(r, r1)
  BY <1>1, ReleaseType, CalmSmall
<1> HIDE DEF r1
<1> DEFINE c == [r1 EXCEPT !.state = "CLOSED"]
           w == [r1 EXCEPT !.state = "TIME_WAIT"]
<1>3. c \in TcbType /\ w \in TcbType /\ Calm(r1, c) /\ Calm(r1, w)
  BY <1>2, SetState, CalmSmall DEF State
<1>4. Calm(r, c) /\ Calm(r, w)
  BY <1>2, <1>3, CalmTrans
<1> HIDE DEF c, w
<1>5. Calm(r, tcp_do_timewait(w)) /\ Calm(r, tcp_do_timewait(r1))
  BY <1>2, <1>3, <1>4, ReleaseType, CalmSmall, CalmTrans
<1>6. \A q : Same(q).r = q
  BY DEF Same
<1>7. Calm(r, tcp_rx_lastack(h, r, s).r)
  BY <1>2, <1>4, <1>6 DEF tcp_rx_lastack, r1, c
<1>8. Calm(r, tcp_rx_closing(h, r, s).r)
  BY <1>2, <1>5, <1>6 DEF tcp_rx_closing, r1, w
<1>9. Calm(r, tcp_rx_timewait(h, r, s).r)
  BY <1>2, <1>5, <1>6 DEF tcp_rx_timewait, r1
<1> QED BY <1>7, <1>8, <1>9

\* SYN_SENT: connect is woken when it ends.
LEMMA CalmSent ==
    ASSUME NEW h \in Main, NEW r \in TcbType, NEW s \in SegType, r.state = "SYN_SENT"
    PROVE  LET r2 == tcp_rx_sent(h, r, s).r IN
           /\ Calm(r, r2)
           /\ r2.cn = "wait" => r2.err = r.err /\ r2.state \in {"SYN_SENT", "SYN_RCVD"}
<1> DEFINE una == IF "A" \in s.fl THEN s.ack ELSE r.una
           r1 == [r EXCEPT !.rcv = Add(s.seq, 1), !.una = una]
           r3 == IF SeqLT(r.iss, una) THEN WakeSyn([r1 EXCEPT !.state = "ESTABLISHED"])
                                      ELSE [r1 EXCEPT !.state = "SYN_RCVD"]
           r4 == [tcp_exit_with(r) EXCEPT !.state = "CLOSED"]
<1> DEFINE P(q) == Calm(r, q) /\ (q.cn = "wait" => q.err = r.err /\ q.state \in {"SYN_SENT", "SYN_RCVD"})
<1>1. P(r)
  BY CalmSmall
<1>2. P(r4)
  BY DEF Calm, tcp_exit_with, TcbType, Unblk
<1>3. P(r3)
  BY DEF Calm, WakeSyn, TcbType, Unblk
<1>4. \A q : Same(q).r = q
  BY DEF Same
<1> HIDE DEF P
<1>5. P(tcp_rx_sent(h, r, s).r)
  BY <1>1, <1>2, <1>3, <1>4 DEF tcp_rx_sent
<1> QED BY <1>5 DEF P

\* Handling a segment is calm.
LEMMA CalmRx ==
    ASSUME NEW h \in Main, NEW r \in TcbType, NEW s \in SegType
    PROVE  LET r2 == tcp_rx(h, r, s).r IN
           /\ Calm(r, r2)
           /\ r.state \in {"CLOSED", "LISTEN", "SYN_RCVD"} => r2 = r
           /\ r.state = "SYN_SENT" /\ r2.cn = "wait" => r2.err = r.err /\ r2.state \in {"SYN_SENT", "SYN_RCVD"}
<1>1. Calm(r, tcp_rx(h, r, s).r)
  BY CalmSmall, CalmSent, CalmEstablished, CalmClosewait, CalmEnd, CalmFinwait DEF tcp_rx
<1>2. r.state \in {"CLOSED", "LISTEN", "SYN_RCVD"} => tcp_rx(h, r, s).r = r
  BY DEF tcp_rx
<1>3. r.state = "SYN_SENT" => tcp_rx(h, r, s) = tcp_rx_sent(h, r, s)
  BY DEF tcp_rx
<1> QED BY <1>1, <1>2, <1>3, CalmSent

\* one socket t with the tcp_t r
Sleeper(t, r) ==
    /\ t \in Kid => r.cn = "idle"
    /\ r.state = "LISTEN" => ~r.rport /\ t = "b"
    /\ ~r.rport => ~r.err /\ r.state \in {"CLOSED", "LISTEN"} /\ (r.cn # "idle" => r.state = "LISTEN")
    /\ r.rport /\ r.cn = "wait" => r.state \in {"SYN_SENT", "SYN_RCVD"} /\ ~r.err

\* The inductive invariant: what each sleeping process waits for is not there yet.
SleepInv ==
    /\ \A t \in Tcb : Sleeper(t, tcb[t])
    /\ \A t \in Tcb : Host(t) \notin halted /\ tcb[t].rd = "wait" => tcb[t].buf = <<>>
    /\ tcb["b"].state = "LISTEN" /\ tcb["b"].cn = "wait" => acpt = <<>>

\* The inductive invariant implies the property.
LEMMA SleepInvIsEnough == SleepInv => NoSleepOnWork
BY DEF SleepInv, NoSleepOnWork, Sleeper

\* A calm change keeps what the invariant says of the socket.
LEMMA SleeperCalm ==
    ASSUME NEW t \in Tcb, NEW r \in TcbType, NEW r2 \in TcbType, Sleeper(t, r), Calm(r, r2),
           r.state \in {"CLOSED", "LISTEN", "SYN_RCVD"} => r2 = r,
           r.state = "SYN_SENT" /\ r2.cn = "wait" => r2.err = r.err /\ r2.state \in {"SYN_SENT", "SYN_RCVD"}
    PROVE  Sleeper(t, r2)
<1>1. CASE r.state \in {"CLOSED", "LISTEN", "SYN_RCVD"}
  BY <1>1
<1>2. CASE r.state \notin {"CLOSED", "LISTEN", "SYN_RCVD"}
  <2>1. r.rport /\ r2.rport
    BY <1>2 DEF Sleeper, Calm
  <2>2. t \in Kid => r2.cn = "idle"
    BY DEF Sleeper, Calm, Unblk
  <2>3. r2.state # "LISTEN"
    BY <1>2 DEF Calm
  <2>4. r2.cn = "wait" => r.cn = "wait"
    BY DEF Calm, Unblk
  <2>5. r2.cn = "wait" => r2.state \in {"SYN_SENT", "SYN_RCVD"} /\ ~r2.err
    BY <1>2, <2>1, <2>4 DEF Sleeper
  <2> QED BY <2>1, <2>2, <2>3, <2>5 DEF Sleeper
<1> QED BY <1>1, <1>2

\* a step that changes the tcp_t of one socket
LEMMA SleepPut ==
    ASSUME TypeOK, SleepInv, NEW t \in Tcb, NEW r \in TcbType, tcb' = [tcb EXCEPT ![t] = r],
           halted' = halted, acpt' = acpt, Sleeper(t, r),
           r.rd = "wait" => tcb[t].rd = "wait" /\ r.buf = tcb[t].buf,
           t = "b" /\ r.state = "LISTEN" /\ r.cn = "wait" => acpt = <<>>
    PROVE  SleepInv'
<1>1. \A u \in Tcb : tcb'[u] = IF u = t THEN r ELSE tcb[u]
  BY DEF TypeOK
<1>2. \A u \in Tcb : Sleeper(u, tcb'[u])
  BY <1>1 DEF SleepInv
<1>3. \A u \in Tcb : Host(u) \notin halted' /\ tcb'[u].rd = "wait" => tcb'[u].buf = <<>>
  BY <1>1 DEF SleepInv
<1>4. tcb'["b"].state = "LISTEN" /\ tcb'["b"].cn = "wait" => acpt' = <<>>
  <2>1. "b" \in Tcb
    BY DEF Tcb, Main
  <2> QED BY <1>1, <2>1 DEF SleepInv
<1> QED BY <1>2, <1>3, <1>4 DEF SleepInv

\* Nobody sleeps at the start.
LEMMA SleepInit == Init => SleepInv
<1> SUFFICES ASSUME Init PROVE SleepInv
  OBVIOUS
<1>1. \A t \in Tcb : tcb[t].state = "CLOSED" /\ ~tcb[t].rport /\ ~tcb[t].err /\ tcb[t].cn = "idle" /\ tcb[t].rd = "idle"
  BY DEF Init, tcp_socket
<1>2. "b" \in Tcb
  BY DEF Tcb, Main
<1> QED BY <1>1, <1>2 DEF SleepInv, Sleeper

\* The invariant depends on sockets, accept queue and halted hosts only.
LEMMA SleepSame ==
    ASSUME SleepInv, UNCHANGED <<tcb, acpt, halted>>
    PROVE  SleepInv'
BY DEF SleepInv, Sleeper

\* Handling a segment keeps the invariant,
LEMMA SleepSockRx ==
    ASSUME TypeOK, SleepInv, NEW s \in net, sock_rx_tcp(s)
    PROVE  SleepInv'
<1> PICK t \in Tcb : tcb' = [tcb EXCEPT ![t] = tcp_rx(Host(t), tcb[t], s).r]
  BY DEF sock_rx_tcp
<1> DEFINE r == tcb[t]
           r2 == tcp_rx(Host(t), r, s).r
<1>1. s \in SegType /\ r \in TcbType /\ Host(t) \in Main
  BY HostType DEF TypeOK
<1>2. r2 \in TcbType
  BY <1>1, RxType DEF Reply
<1>3. /\ Calm(r, r2)
      /\ r.state \in {"CLOSED", "LISTEN", "SYN_RCVD"} => r2 = r
      /\ r.state = "SYN_SENT" /\ r2.cn = "wait" => r2.err = r.err /\ r2.state \in {"SYN_SENT", "SYN_RCVD"}
  BY <1>1, CalmRx
<1>4. tcb' = [tcb EXCEPT ![t] = r2]
  OBVIOUS
<1> HIDE DEF r2
<1>5. Sleeper(t, r2)
  <2>1. Sleeper(t, r)
    BY DEF SleepInv
  <2> QED BY <1>1, <1>2, <1>3, <2>1, SleeperCalm
<1>6. r2.rd = "wait" => tcb[t].rd = "wait" /\ r2.buf = tcb[t].buf
  BY <1>3 DEF Calm
<1>7. t = "b" /\ r2.state = "LISTEN" /\ r2.cn = "wait" => acpt = <<>>
  <2>1. r2.state = "LISTEN" => r2 = r
    BY <1>3 DEF Calm
  <2> QED BY <2>1 DEF SleepInv
<1> QED BY <1>2, <1>4, <1>5, <1>6, <1>7, SleepPut DEF sock_rx_tcp

\* so does a reset in SYN_RCVD,
LEMMA SleepRcvdFails ==
    ASSUME TypeOK, SleepInv, NEW s \in net, tcp_rx_rcvd_fails(s)
    PROVE  SleepInv'
<1> PICK t \in Tcb : /\ tcb[t].state = "SYN_RCVD"
                     /\ tcb' = [tcb EXCEPT ![t] = IF t \in Kid THEN tcp_release(@) ELSE tcp_exit_with(@)]
  BY DEF tcp_rx_rcvd_fails
<1> DEFINE r == IF t \in Kid THEN tcp_release(tcb[t]) ELSE tcp_exit_with(tcb[t])
<1>1. tcb[t] \in TcbType /\ r \in TcbType
  BY ReleaseType, ExitType DEF TypeOK
<1>2. Sleeper(t, tcb[t]) /\ tcb[t].rport
  BY DEF SleepInv, Sleeper
<1>3. Sleeper(t, r) /\ (r.rd = "wait" => tcb[t].rd = "wait" /\ r.buf = tcb[t].buf) /\ r.state = "SYN_RCVD"
  <2>1. CASE t \in Kid
    BY <1>1, <1>2, <2>1 DEF Sleeper, tcp_release, TcbType
  <2>2. CASE t \notin Kid
    BY <1>1, <1>2, <2>2 DEF Sleeper, tcp_exit_with, TcbType, Unblk
  <2> QED BY <2>1, <2>2
<1>4. tcb' = [tcb EXCEPT ![t] = r]
  OBVIOUS
<1> HIDE DEF r
<1> QED BY <1>1, <1>3, <1>4, SleepPut DEF tcp_rx_rcvd_fails

\* the acknowledgement of a SYN, which wakes connect or accept,
LEMMA SleepRcvd ==
    ASSUME TypeOK, SleepInv, NEW s \in net, tcp_rx_rcvd(s)
    PROVE  SleepInv'
<1> PICK t \in Tcb :
        /\ tcb[t].state = "SYN_RCVD"
        /\ IF "A" \in s.fl /\ SeqLT(tcb[t].una, s.ack) /\ SeqLE(s.ack, tcb[t].nxt)
           THEN /\ tcb' = IF t \in Kid
                          THEN [tcb EXCEPT ![t] = [@ EXCEPT !.state = "ESTABLISHED"], !["b"] = WakeSyn(@)]
                          ELSE [tcb EXCEPT ![t] = WakeSyn([@ EXCEPT !.state = "ESTABLISHED"])]
                /\ acpt' = IF t \in Kid THEN Append(acpt, t) ELSE acpt
           ELSE UNCHANGED <<tcb, acpt>>
        /\ halted' = halted
  BY DEF tcp_rx_rcvd
<1> DEFINE r == [tcb[t] EXCEPT !.state = "ESTABLISHED"]
<1>0. "b" \in Tcb /\ tcb["b"] \in TcbType /\ tcb[t] \in TcbType /\ r \in TcbType
  BY SetState DEF Tcb, Main, TypeOK, State
<1>1. Sleeper(t, tcb[t]) /\ Sleeper("b", tcb["b"]) /\ tcb[t].rport
  BY <1>0 DEF SleepInv, Sleeper
<1>2. /\ r.state = "ESTABLISHED" /\ r.rport /\ r.cn = tcb[t].cn /\ r.err = tcb[t].err
      /\ r.rd = tcb[t].rd /\ r.buf = tcb[t].buf
  BY <1>0, <1>1 DEF TcbType
<1> HIDE DEF r
<1>3. CASE UNCHANGED <<tcb, acpt>>
  BY <1>3, SleepSame
<1>4. CASE /\ t \in Kid /\ tcb' = [tcb EXCEPT ![t] = r, !["b"] = WakeSyn(@)]
  <2>1. t # "b"
    BY <1>4, TcpAssumption DEF Main
  <2>2. \A u \in Tcb : tcb'[u] = IF u = "b" THEN WakeSyn(tcb["b"]) ELSE IF u = t THEN r ELSE tcb[u]
    BY <1>4, <2>1, <1>0 DEF TypeOK
  <2>3. /\ Sleeper("b", WakeSyn(tcb["b"])) /\ WakeSyn(tcb["b"]).cn # "wait"
        /\ WakeSyn(tcb["b"]).rd = tcb["b"].rd /\ WakeSyn(tcb["b"]).buf = tcb["b"].buf
    BY <1>0, <1>1, TcpAssumption DEF Sleeper, WakeSyn, Unblk, TcbType, Main
  <2>4. Sleeper(t, r)
    BY <1>1, <1>2, <1>4 DEF Sleeper
  <2>5. \A u \in Tcb : Sleeper(u, tcb'[u])
    BY <2>2, <2>3, <2>4 DEF SleepInv
  <2>6. \A u \in Tcb : Host(u) \notin halted' /\ tcb'[u].rd = "wait" => tcb'[u].buf = <<>>
    BY <2>2, <2>3, <1>2 DEF SleepInv
  <2> QED BY <1>0, <2>2, <2>3, <2>5, <2>6 DEF SleepInv
<1>5. CASE t \notin Kid /\ tcb' = [tcb EXCEPT ![t] = WakeSyn(r)] /\ acpt' = acpt
  <2>1. WakeSyn(r) \in TcbType
    BY <1>0, WakeType
  <2>2. /\ WakeSyn(r).state = "ESTABLISHED" /\ WakeSyn(r).rport /\ WakeSyn(r).cn # "wait"
        /\ WakeSyn(r).rd = r.rd /\ WakeSyn(r).buf = r.buf
    BY <1>0, <1>2 DEF WakeSyn, Unblk, TcbType
  <2>3. Sleeper(t, WakeSyn(r))
    BY <1>5, <2>2 DEF Sleeper
  <2> QED BY <1>2, <1>5, <2>1, <2>2, <2>3, SleepPut
<1> QED BY <1>3, <1>4, <1>5 DEF r

\* a new child,
LEMMA SleepListen ==
    ASSUME TypeOK, SleepInv, NEW s \in net, tcp_rx_listen(s)
    PROVE  SleepInv'
<1> PICK k \in Kid, iss \in ISS, w \in {"dead", "stuck"} :
      tcb' = [tcb EXCEPT ![k] =
                [tcp_tx_agree(tcp_socket, iss) EXCEPT !.rport = TRUE, !.rcv = Add(s.seq, 1), !.wait = w]]
  BY DEF tcp_rx_listen
<1> DEFINE r == [tcp_tx_agree(tcp_socket, iss) EXCEPT !.rport = TRUE, !.rcv = Add(s.seq, 1), !.wait = w]
<1>1. r \in TcbType
  <2>1. Add(s.seq, 1) \in SeqNr
    BY SegFields, SeqNrNext DEF TypeOK
  <2>2. tcp_tx_agree(tcp_socket, iss) \in TcbType
    BY SocketType, SetupType
  <2> QED BY <2>1, <2>2 DEF TcbType
<1>2. r.state = "SYN_RCVD" /\ r.rport /\ r.cn = "idle" /\ r.rd = "idle"
  BY DEF tcp_tx_agree, tcp_socket
<1>3. Sleeper(k, r)
  BY <1>2 DEF Sleeper
<1>4. k \in Tcb /\ tcb' = [tcb EXCEPT ![k] = r]
  BY DEF Tcb
<1> HIDE DEF r
<1> QED BY <1>1, <1>2, <1>3, <1>4, SleepPut DEF tcp_rx_listen

\* a timer,
LEMMA SleepTimer ==
    ASSUME TypeOK, SleepInv, NEW t \in Tcb, Timer(t)
    PROVE  SleepInv'
<1>0. tcb[t] \in TcbType /\ Sleeper(t, tcb[t])
  BY DEF TypeOK, SleepInv
<1>1. CASE tcp_tmr_dly(t)
  <2> DEFINE r == [tcb[t] EXCEPT !.dly = FALSE]
  <2>1. r \in TcbType
    BY <1>0 DEF TcbType
  <2>2. /\ r.state = tcb[t].state /\ r.rport = tcb[t].rport /\ r.cn = tcb[t].cn /\ r.err = tcb[t].err
        /\ r.rd = tcb[t].rd /\ r.buf = tcb[t].buf
    BY <1>0 DEF TcbType
  <2>3. tcb' = [tcb EXCEPT ![t] = r]
    BY <1>1 DEF tcp_tmr_dly
  <2> HIDE DEF r
  <2>4. Sleeper(t, r)
    BY <1>0, <2>2 DEF Sleeper
  <2>5. t = "b" /\ r.state = "LISTEN" /\ r.cn = "wait" => acpt = <<>>
    BY <2>2 DEF SleepInv
  <2> QED BY <1>1, <2>1, <2>2, <2>3, <2>4, <2>5, SleepPut DEF tcp_tmr_dly
<1>2. CASE tcp_tmr_timewait(t)
  <2>1. \A u \in Tcb : /\ tcb'[u].state = tcb[u].state /\ tcb'[u].rport = tcb[u].rport
                       /\ tcb'[u].cn = tcb[u].cn /\ tcb'[u].err = tcb[u].err
                       /\ tcb'[u].rd = tcb[u].rd /\ tcb'[u].buf = tcb[u].buf
    BY <1>2, SMTT(30) DEF TypeOK, tcp_tmr_timewait, tcp_release, TcbType
  <2>2. \A u \in Tcb : Sleeper(u, tcb'[u])
    BY <2>1 DEF SleepInv, Sleeper
  <2>3. "b" \in Tcb /\ UNCHANGED <<acpt, halted>>
    BY <1>2 DEF Tcb, Main, tcp_tmr_timewait
  <2> QED BY <2>1, <2>2, <2>3 DEF SleepInv
<1> QED BY <1>1, <1>2 DEF Timer

\* and recvmsg, which sleeps only after it took all there was.
LEMMA SleepCopy ==
    ASSUME TypeOK, SleepInv, NEW t \in Tcb, NEW rem \in 0..Len0, Copy(t, rem)
    PROVE  SleepInv'
<1> DEFINE all == tcb[t].buf
<1>1. PICK n \in 0..Len(all), left \in 0..Len0, pc \in {"idle", "wait"} :
        Read(t, n, left, pc) /\ (pc = "wait" => n = Len(all) \/ Host(t) \in halted')
  BY CopyIs
<1> DEFINE r == [tcb[t] EXCEPT !.rem = left, !.rd = pc, !.buf = SubSeq(all, n + 1, Len(all))]
<1>0. tcb[t] \in TcbType /\ all \in Seq(Nat) /\ Len(all) \in Nat
  BY DEF TypeOK, TcbType
<1>2. /\ r.state = tcb[t].state /\ r.rport = tcb[t].rport /\ r.cn = tcb[t].cn /\ r.err = tcb[t].err
      /\ r.buf = SubSeq(all, n + 1, Len(all)) /\ r.rd = pc
  BY <1>0 DEF TcbType
<1>3. \A u \in Tcb : tcb'[u] = IF u = t THEN r ELSE tcb[u]
  BY <1>1 DEF TypeOK, Read
<1> HIDE DEF r
<1>4. \A u \in Tcb : Sleeper(u, tcb'[u])
  BY <1>2, <1>3 DEF SleepInv, Sleeper
<1>5. n = Len(all) => SubSeq(all, n + 1, Len(all)) = <<>>
  BY <1>0, SubSeqEmpty
<1>6. halted \subseteq halted' /\ acpt' = acpt
  BY CopyIs
<1>7. \A u \in Tcb : Host(u) \notin halted' /\ tcb'[u].rd = "wait" => tcb'[u].buf = <<>>
  BY <1>1, <1>2, <1>3, <1>5, <1>6 DEF SleepInv
<1>8. "b" \in Tcb
  BY DEF Tcb, Main
<1> QED BY <1>2, <1>3, <1>4, <1>6, <1>7, <1>8 DEF SleepInv

\* Sending changes neither the reader nor what it may read.
LEMMA XmitKeeps ==
    ASSUME NEW h \in Main, NEW r \in TcbType
    PROVE  LET r2 == tcp_do_xmit(h, r).r IN
           /\ r2.rport = r.rport /\ r2.err = r.err /\ r2.cn = r.cn /\ r2.rd = r.rd /\ r2.buf = r.buf
           /\ r2.state = r.state \/ r2.state = FinState(r.state)
<1> DEFINE P(q, r2) == /\ r2.rport = q.rport /\ r2.err = q.err /\ r2.cn = q.cn /\ r2.rd = q.rd
                       /\ r2.buf = q.buf
           r1 == [r EXCEPT !.dly = FALSE]
           x == tcp_tx_seg(h, r1)
           y == tcp_tx_fin(h, x)
<1>1. r1 \in TcbType /\ P(r, r1) /\ r1.state = r.state
  BY DEF TcbType
<1> HIDE DEF r1
<1>2. x \in Reply /\ x.r \in TcbType
  BY <1>1, TxSegType DEF Reply
<1>3. P(r1, x.r) /\ x.r.state = r1.state
  BY <1>1 DEF tcp_tx_seg, TcbType
<1> HIDE DEF x
<1>4. P(x.r, y.r) /\ (y.r.state = x.r.state \/ y.r.state = FinState(x.r.state))
  <2>1. y.r = x.r \/ y.r = [x.r EXCEPT !.state = FinState(@), !.nxt = Add(@, 1)]
    BY DEF tcp_tx_fin
  <2> QED BY <1>2, <2>1 DEF TcbType
<1> HIDE DEF y
<1>5. P(r, y.r) /\ (y.r.state = r.state \/ y.r.state = FinState(r.state))
  BY <1>1, <1>3, <1>4
<1> QED BY <1>5 DEF tcp_do_xmit, y, x, r1

\* Writing keeps the invariant.
LEMMA SleepSendmsg ==
    ASSUME TypeOK, SleepInv, NEW t \in Tcb, tcp_sendmsg(t)
    PROVE  SleepInv'
<1> PICK n \in WriteSizes :
      LET m == [i \in 1..n |-> sent[t] + i]
          x == tcp_do_xmit(Host(t), [tcb[t] EXCEPT !.snd = Append(@, m)]) IN
      tcb' = [tcb EXCEPT ![t] = x.r]
  BY DEF tcp_sendmsg
<1> DEFINE m == [i \in 1..n |-> sent[t] + i]
           r == [tcb[t] EXCEPT !.snd = Append(@, m)]
           r2 == tcp_do_xmit(Host(t), r).r
<1>1. tcb[t] \in TcbType /\ sent[t] \in Nat /\ n \in Nat /\ n # 0 /\ Sleeper(t, tcb[t])
  BY TcpAssumption DEF TypeOK, SleepInv
<1>2. m \in Mbuf
  <2>1. m \in Seq(Nat) /\ Len(m) = n
    BY <1>1
  <2>2. m # <<>>
    BY <1>1, <2>1
  <2> QED BY <2>1, <2>2 DEF Mbuf
<1> HIDE DEF m
<1>3. r \in TcbType
  <2>1. Append(tcb[t].snd, m) \in Seq(Mbuf)
    BY <1>1, <1>2 DEF TcbType
  <2> QED BY <1>1, <2>1 DEF TcbType
<1>4. /\ r.state = tcb[t].state /\ r.rport = tcb[t].rport /\ r.cn = tcb[t].cn /\ r.err = tcb[t].err
      /\ r.rd = tcb[t].rd /\ r.buf = tcb[t].buf
  BY <1>1 DEF TcbType
<1> HIDE DEF r
<1>5. /\ r2.rport = r.rport /\ r2.err = r.err /\ r2.cn = r.cn /\ r2.rd = r.rd /\ r2.buf = r.buf
      /\ r2.state = r.state \/ r2.state = FinState(r.state)
  BY <1>3, HostType, XmitKeeps
<1>6. r2 \in TcbType
  BY <1>3, HostType, XmitType DEF Reply
<1>7. tcb' = [tcb EXCEPT ![t] = r2]
  BY DEF r, m
<1> HIDE DEF r2
<1>8. /\ r.state \in {"CLOSED", "LISTEN", "SYN_SENT", "SYN_RCVD"} => r2.state = r.state
      /\ r2.state = "LISTEN" => r.state = "LISTEN"
  BY <1>5 DEF FinState
<1>9. Sleeper(t, r2) /\ (t = "b" /\ r2.state = "LISTEN" /\ r2.cn = "wait" => acpt = <<>>)
  BY <1>1, <1>4, <1>5, <1>8 DEF Sleeper, SleepInv
<1> QED BY <1>4, <1>5, <1>6, <1>7, <1>9, SleepPut DEF tcp_sendmsg

\* accept sleeps only when no child in the queue is ready, and empties it.
LEMMA SleepAccept ==
    ASSUME TypeOK, SleepInv, tcp_accept
    PROVE  SleepInv'
<1>0. /\ "b" \in Tcb /\ tcb["b"] \in TcbType /\ tcb["b"].state = "LISTEN" /\ Sleeper("b", tcb["b"])
      /\ "b" \notin Kid /\ halted \subseteq halted'
  BY AcceptIs, TcpAssumption DEF TypeOK, Tcb, Main, SleepInv
<1>1. PICK c \in {"idle", "wait", "run"}, i \in 1..(Len(acpt) + 1) :
        /\ c = "wait" => acpt' = <<>> \/ (tcb["b"].cn = "wait" /\ acpt # <<>>)
        /\ AcceptKeeps(c) \/ \E at \in DOMAIN acpt : at < i /\ AcceptOpens(c, at)
  BY AcceptIs
<1>2. c = "wait" => acpt' = <<>>
  BY <1>0, <1>1 DEF SleepInv
<1> DEFINE r == [tcb["b"] EXCEPT !.cn = c]
<1>3. /\ r.state = "LISTEN" /\ r.rport = tcb["b"].rport /\ r.err = tcb["b"].err
      /\ r.rd = tcb["b"].rd /\ r.buf = tcb["b"].buf /\ r.cn = c
  BY <1>0 DEF TcbType
<1>4. Sleeper("b", r)
  BY <1>0, <1>3 DEF Sleeper
<1>5. CASE AcceptKeeps(c)
  <2>1. \A u \in Tcb : tcb'[u] = IF u = "b" THEN r ELSE tcb[u]
    BY <1>5 DEF TypeOK, AcceptKeeps
  <2> HIDE DEF r
  <2> QED BY <1>0, <1>2, <1>3, <1>4, <2>1 DEF SleepInv
<1>6. ASSUME NEW at \in DOMAIN acpt, AcceptOpens(c, at) PROVE SleepInv'
  <2>1. acpt[at] \in Kid /\ acpt[at] # "b" /\ acpt[at] \in Tcb
    BY <1>0 DEF TypeOK, Tcb
  <2> DEFINE k == acpt[at]
             q == [tcb[k] EXCEPT !.open = TRUE]
  <2>2. /\ q.state = tcb[k].state /\ q.rport = tcb[k].rport /\ q.err = tcb[k].err
        /\ q.rd = tcb[k].rd /\ q.buf = tcb[k].buf /\ q.cn = tcb[k].cn
    BY <2>1 DEF TypeOK, TcbType
  <2>3. \A u \in Tcb : tcb'[u] = IF u = k THEN q ELSE IF u = "b" THEN r ELSE tcb[u]
    BY <1>6, <2>1, <1>0 DEF TypeOK, AcceptOpens
  <2> HIDE DEF k, q, r
  <2>4. Sleeper(k, q)
    BY <2>1, <2>2 DEF SleepInv, Sleeper, k
  <2>5. tcb'["b"].cn = c
    BY <1>0, <1>3, <2>1, <2>3 DEF k
  <2>6. \A u \in Tcb : Sleeper(u, tcb'[u])
    BY <1>4, <2>3, <2>4 DEF SleepInv
  <2>7. \A u \in Tcb : Host(u) \notin halted' /\ tcb'[u].rd = "wait" => tcb'[u].buf = <<>>
    BY <1>0, <1>3, <2>2, <2>3 DEF SleepInv
  <2> QED BY <1>2, <2>5, <2>6, <2>7 DEF SleepInv
<1> QED BY <1>1, <1>5, <1>6

\* The socket that starts to listen has nobody asleep.
LEMMA SleepTcpListen ==
    ASSUME TypeOK, SleepInv, tcp_listen
    PROVE  SleepInv'
<1>0. "b" \in Tcb /\ tcb["b"] \in TcbType /\ Sleeper("b", tcb["b"])
  BY DEF TypeOK, Tcb, Main, SleepInv
<1> DEFINE r == [tcb["b"] EXCEPT !.state = "LISTEN"]
<1>1. r \in TcbType
  BY <1>0, SetState DEF State
<1>2. /\ r.state = "LISTEN" /\ r.rport = tcb["b"].rport /\ r.err = tcb["b"].err
      /\ r.rd = tcb["b"].rd /\ r.buf = tcb["b"].buf /\ r.cn = tcb["b"].cn
  BY <1>0 DEF TcbType
<1>3. tcb' = [tcb EXCEPT !["b"] = r] /\ tcb["b"].state = "CLOSED" /\ ~tcb["b"].rport
  BY DEF tcp_listen
<1> HIDE DEF r
<1>4. Sleeper("b", r) /\ r.cn = "idle"
  BY <1>0, <1>2, <1>3 DEF Sleeper
<1> QED BY <1>0, <1>1, <1>2, <1>3, <1>4, SleepPut DEF tcp_listen

\* The calls of a process keep the invariant.
LEMMA SleepCall ==
    ASSUME TypeOK, SleepInv, NEW t \in Tcb, Resume(t) \/ Call(t), ~(t = "b" /\ tcp_accept)
    PROVE  SleepInv'
<1>0. tcb[t] \in TcbType /\ Sleeper(t, tcb[t])
  BY DEF TypeOK, SleepInv
<1>1. CASE RecvResume(t) \/ tcp_recvmsg(t)
  <2>1. Len0 \in 0..Len0 /\ tcb[t].rem \in 0..Len0
    BY <1>0, TcpAssumption DEF TcbType
  <2>2. ASSUME RecvError(t) PROVE SleepInv'
    <3> DEFINE r == [tcb[t] EXCEPT !.rd = "idle", !.rem = 0]
    <3>1. r \in TcbType
      <4>1. 0 \in 0..Len0
        BY TcpAssumption
      <4> QED BY <1>0, <4>1 DEF TcbType
    <3>2. /\ r.state = tcb[t].state /\ r.rport = tcb[t].rport /\ r.cn = tcb[t].cn /\ r.err = tcb[t].err
          /\ r.rd = "idle"
      BY <1>0 DEF TcbType
    <3>3. tcb' = [tcb EXCEPT ![t] = r]
      BY <2>2 DEF RecvError
    <3> HIDE DEF r
    <3>4. Sleeper(t, r) /\ (t = "b" /\ r.state = "LISTEN" /\ r.cn = "wait" => acpt = <<>>)
      BY <1>0, <3>2 DEF Sleeper, SleepInv
    <3> QED BY <2>2, <3>1, <3>2, <3>3, <3>4, SleepPut DEF RecvError
  <2> QED BY <1>1, <2>1, <2>2, SleepCopy DEF RecvResume, tcp_recvmsg
<1>2. CASE ConnectReturn(t)
  <2> DEFINE r == [tcb[t] EXCEPT !.cn = "idle", !.open = ~tcb[t].err]
  <2>1. r \in TcbType
    <3>1. (~tcb[t].err) \in BOOLEAN
      OBVIOUS
    <3> QED BY <1>0, <3>1 DEF TcbType
  <2>2. /\ r.state = tcb[t].state /\ r.rport = tcb[t].rport /\ r.cn = "idle" /\ r.err = tcb[t].err
        /\ r.rd = tcb[t].rd /\ r.buf = tcb[t].buf
    BY <1>0 DEF TcbType
  <2>3. tcb' = [tcb EXCEPT ![t] = r]
    BY <1>2 DEF ConnectReturn
  <2> HIDE DEF r
  <2>4. Sleeper(t, r)
    BY <1>0, <2>2 DEF Sleeper
  <2> QED BY <1>2, <2>1, <2>2, <2>3, <2>4, SleepPut DEF ConnectReturn
<1>3. CASE tcp_connect(t)
  <2> PICK iss \in ISS :
        tcb' = [tcb EXCEPT ![t] = [tcp_tx_setup(@, iss) EXCEPT !.rport = TRUE, !.cn = "wait"]]
    BY <1>3 DEF tcp_connect
  <2> DEFINE r == [tcp_tx_setup(tcb[t], iss) EXCEPT !.rport = TRUE, !.cn = "wait"]
  <2>1. r \in TcbType
    <3>1. tcp_tx_setup(tcb[t], iss) \in TcbType
      BY <1>0, SetupType
    <3> QED BY <3>1 DEF TcbType
  <2>2. /\ r.state = "SYN_SENT" /\ r.rport /\ r.err = tcb[t].err /\ r.rd = tcb[t].rd /\ r.buf = tcb[t].buf
    BY <1>0 DEF TcbType, tcp_tx_setup
  <2>3. tcb' = [tcb EXCEPT ![t] = r] /\ ~tcb[t].rport /\ t \in Main
    BY <1>3 DEF tcp_connect
  <2> HIDE DEF r
  <2>4. Sleeper(t, r)
    <3>1. t \notin Kid
      BY <2>3, TcpAssumption
    <3> QED BY <1>0, <2>2, <2>3, <3>1 DEF Sleeper
  <2> QED BY <1>3, <2>1, <2>2, <2>3, <2>4, SleepPut DEF tcp_connect
<1>4. CASE tcp_shutdown(t)
  <2> PICK done \in BOOLEAN : tcb' = [tcb EXCEPT ![t] = [@ EXCEPT !.open = FALSE, !.shut = done]]
    BY <1>4 DEF tcp_shutdown
  <2> DEFINE r == [tcb[t] EXCEPT !.open = FALSE, !.shut = done]
  <2>1. r \in TcbType
    BY <1>0 DEF TcbType
  <2>2. /\ r.state = tcb[t].state /\ r.rport = tcb[t].rport /\ r.cn = tcb[t].cn /\ r.err = tcb[t].err
        /\ r.rd = tcb[t].rd /\ r.buf = tcb[t].buf
    BY <1>0 DEF TcbType
  <2>3. tcb' = [tcb EXCEPT ![t] = r]
    OBVIOUS
  <2> HIDE DEF r
  <2>4. Sleeper(t, r) /\ (t = "b" /\ r.state = "LISTEN" /\ r.cn = "wait" => acpt = <<>>)
    BY <1>0, <2>2 DEF Sleeper, SleepInv
  <2> QED BY <1>4, <2>1, <2>2, <2>3, <2>4, SleepPut DEF tcp_shutdown
<1> QED BY <1>1, <1>2, <1>3, <1>4, SleepSendmsg DEF Resume, Call

\* Every step keeps the invariant.
LEMMA SleepNext == TypeOK /\ SleepInv /\ [Next]_vars => SleepInv'
<1> SUFFICES ASSUME TypeOK, SleepInv, [Next]_vars PROVE SleepInv'
  OBVIOUS
<1>1. CASE Deliver
  <2> PICK s \in net : \/ sock_rx_tcp(s) \/ RxNobody(s) \/ tcp_rx_rcvd(s) \/ tcp_rx_rcvd_fails(s)
                       \/ tcp_rx_listen(s) \/ tcp_rx_listen_refuses(s)
    BY <1>1 DEF Deliver
  <2>1. RxNobody(s) \/ tcp_rx_listen_refuses(s) => UNCHANGED <<tcb, acpt, halted>>
    BY DEF RxNobody, tcp_rx_listen_refuses
  <2> QED BY <2>1, SleepSockRx, SleepRcvd, SleepRcvdFails, SleepListen, SleepSame
<1>2. CASE tcp_listen \/ tcp_accept
  BY <1>2, SleepTcpListen, SleepAccept
<1>3. ASSUME NEW t \in Tcb, Timer(t) \/ Resume(t) \/ Call(t)
      PROVE  SleepInv'
  BY <1>3, SleepTimer, SleepCall, SleepAccept
<1>4. CASE UNCHANGED vars
  BY <1>4, SleepSame DEF vars
<1> QED BY <1>1, <1>2, <1>3, <1>4 DEF Next

\* Nobody sleeps in recvmsg with text there, in accept with a connection in the
\* queue (before two processes sleep there at once) or in connect when it has ended
\* (block_as and TRY_UNBLK), for any number of children, writes and segments.
THEOREM SleepersHaveNoWork == Spec => []NoSleepOnWork
<1>1. TypeOK /\ SleepInv /\ [Next]_vars => (TypeOK /\ SleepInv)'
  BY NextType, SleepNext
<1>2. Init => TypeOK /\ SleepInv
  BY InitType, SleepInit
<1> QED BY <1>1, <1>2, SleepInvIsEnough, PTL DEF Spec

-----------------------------------------------------------------------------
(* The streams.  T, N, S and V stand for tcb, net, sent and what every socket *)
(* has received, so that a handler can be followed through its stages.       *)

Sync == {"ESTABLISHED", "CLOSE_WAIT", "LAST_ACK", "FIN_WAIT1", "FIN_WAIT2", "CLOSING", "TIME_WAIT"}
RcvOpen == {"SYN_RCVD", "ESTABLISHED", "FIN_WAIT1", "FIN_WAIT2"}
Live(r) == r.state \in Sync \/ r.shut

\* What TCP asks of its initial sequence numbers: no connection has used up the
\* numbers, and those of two connections of a host do not overlap.
Room(T, S) == \A t \in Tcb : T[t].iss + S[t] + 3 < SEQ /\ S[t] + 3 < SEQ \div 2
Apart(T, S) == \A t, u \in Tcb :
    t # u /\ Host(t) = Host(u) /\ T[t].rport /\ T[u].rport =>
        T[t].iss + S[t] + 3 < T[u].iss \/ T[u].iss + S[u] + 3 < T[t].iss
NumbersApart == Room(tcb, sent) /\ Apart(tcb, sent)

\* r waits for a number of q; the two ends of a connection wait for one another
To(r, q) == r.rport /\ q.rport /\ q.iss + 1 <= r.rcv /\ r.rcv <= q.nxt
Link(T, t, u) == Host(t) # Host(u) /\ To(T[t], T[u])
Pair(T, t, u) == Link(T, t, u) /\ Link(T, u, t)

\* the bytes numbered from b
Run(q, b) == \A i \in 1..Len(q) : q[i] = b + (i - 1)

\* which sockets of host b there are
Sides(T) ==
    /\ T["a"].state # "LISTEN"
    /\ T["b"].rport => T["b"].state # "LISTEN"
    /\ \A k \in Kid : T[k].rport => T["b"].state = "LISTEN" /\ ~T["b"].rport
    /\ \A k \in Kid : T[k].state # "SYN_SENT"
    /\ T["a"].state = "SYN_RCVD" => T["b"].rport

\* how far one socket has come
Phase(r) ==
    /\ ~r.rport => /\ r.state \in {"CLOSED", "LISTEN"} /\ ~r.open /\ ~r.shut
                   /\ r.snd = <<>> /\ r.unaq = {} /\ r.iss = 0
    /\ ~Live(r) /\ r.state # "SYN_RCVD" => r.rcv = 0
    /\ ~Live(r) => r.una = r.iss /\ ~r.dly /\ ~r.open
    /\ r.state \in {"SYN_RCVD", "SYN_SENT"} => ~r.shut
    /\ r.open => ~r.shut /\ r.state \in {"ESTABLISHED", "CLOSE_WAIT"}
    /\ r.state \in Sync \ {"ESTABLISHED", "CLOSE_WAIT"} => r.shut
    /\ r.rport /\ r.cn # "idle" => ~r.open /\ ~r.shut
    /\ r.rport /\ r.cn = "run" /\ ~r.err => r.state \in {"ESTABLISHED", "CLOSE_WAIT"}

\* the mbufs of snd_que, one after the other up to byte n
SndQue(r, n) ==
    /\ \A i \in 1..Len(r.snd) : Run(r.snd[i], r.snd[i][1]) /\ r.snd[i][1] + Len(r.snd[i]) <= n + 1
    /\ \A i \in 1..(Len(r.snd) - 1) : r.snd[i + 1][1] = r.snd[i][1] + Len(r.snd[i])
    /\ r.snd # <<>> => r.snd[1][1] = r.nxt - r.iss
                       /\ r.snd[Len(r.snd)][1] + Len(r.snd[Len(r.snd)]) = n + 1
\* the mbufs of una_que
UnaQue(r) ==
    \A m \in r.unaq : r.iss + 1 <= m.id /\ m.id + Len(m.data) <= r.nxt /\ Run(m.data, m.id - r.iss)
\* what snd_nxt is once everything has been sent; one or two FINs may follow
Finished(r, n) ==
    \/ r.nxt = r.iss + 1 + n
    \/ r.nxt = r.iss + 2 + n /\ r.shut /\ r.unaq = {} /\ r.state # "ESTABLISHED"
    \/ r.nxt = r.iss + 3 + n /\ r.shut /\ r.unaq = {} /\ r.state \in {"LAST_ACK", "CLOSED"}
Chain(r, n) ==
    /\ r.iss <= r.una /\ r.una <= r.nxt /\ r.iss + 1 <= r.nxt /\ UnaQue(r) /\ SndQue(r, n)
    /\ r.snd = <<>> => Finished(r, n)
Idle(r, n, v) == n = 0 /\ v = <<>> /\ r.snd = <<>> /\ r.unaq = {} /\ r.nxt = r.iss + 1

EndOK(r, n, v) ==
    /\ Phase(r)
    /\ r.rport => Chain(r, n)
    /\ r.rport /\ ~Live(r) => Idle(r, n, v)
    /\ ~r.rport => n = 0 /\ v = <<>>
Ends(T, S, V) == \A t \in Tcb : EndOK(T[t], S[t], V[t])
Links(T) == \A t \in Tcb :
    /\ T[t].state = "SYN_RCVD" => \E u \in Tcb : Link(T, t, u)
    /\ Live(T[t]) => \E u \in Tcb : Pair(T, t, u)

\* what r, with v received, has taken of the stream of q, which has n bytes
Taking(r, v, q, n) ==
    /\ Run(v, 1) /\ Len(v) <= n
    /\ r.state \in RcvOpen => r.rcv = q.iss + 1 + Len(v)
    /\ (q.shut /\ Len(v) = n) \/ r.rcv - q.iss - 1 <= Len(v)
    /\ r.state \in PeerDone => q.shut /\ Len(v) = n
    /\ \A m \in q.unaq : r.rcv <= m.id \/ m.id + Len(m.data) <= r.rcv
\* what q no longer keeps has been received
Kept(q, n, v) == \A i \in 1..n : Queued(q, i) \/ i <= Len(v)
\* the two streams between r (n bytes written, v received) and q (k and w)
Stream(r, n, v, q, k, w) ==
    /\ To(r, q) => Taking(r, v, q, k)
    /\ To(q, r) => Taking(q, w, r, n)
    /\ To(r, q) /\ To(q, r) => Kept(q, k, v) /\ Kept(r, n, w)
Streams(T, S, V) == \A t, u \in Tcb :
    Host(t) # Host(u) => Stream(T[t], S[t], V[t], T[u], S[u], V[u])

Acks(T, u, x) == \E t \in Tcb : Link(T, u, t) /\ T[t].iss + 1 <= x /\ x <= T[u].rcv
Syn(T, u, s) == u \in Main /\ s.fl = {"S"} /\ s.data = <<>> /\ s.seq = T[u].iss
SynAck(T, u, s) == s.fl = {"S", "A"} /\ s.data = <<>> /\ s.seq = T[u].iss /\ Acks(T, u, s.ack)
Ack(T, u, s) == s.fl = {"A"} /\ s.data = <<>> /\ Acks(T, u, s.ack)
\* an mbuf of una_que is the text of s, or lies on one side of it
Beside(m, s) ==
    \/ s.seq + Len(s.data) <= m.id \/ m.id + Len(m.data) <= s.seq
    \/ s.seq = m.id /\ Len(m.data) = Len(s.data)
\* an old or a new segment with text: part of the stream, and one of the mbufs
Text(T, S, u, s) ==
    /\ s.fl = {"A"} /\ s.data # <<>> /\ Acks(T, u, s.ack) /\ Live(T[u])
    /\ Run(s.data, s.seq - T[u].iss) /\ T[u].iss + 1 <= s.seq
    /\ s.seq + Len(s.data) <= T[u].nxt /\ s.seq + Len(s.data) <= T[u].iss + 1 + S[u]
    /\ \A m \in T[u].unaq : Beside(m, s)
Fin(T, S, V, u, s) ==
    /\ s.fl = {"A", "F"} /\ s.data = <<>> /\ Acks(T, u, s.ack) /\ T[u].shut
    /\ T[u].iss + 1 + S[u] <= s.seq /\ s.seq < T[u].nxt
    /\ \A t \in Tcb : Pair(T, t, u) => Len(V[t]) = S[u]
\* a number that was, or may still be, acknowledged to t
Known(T, t, x) ==
    /\ T[t].rport /\ T[t].iss + 1 <= x
    /\ (t \in Main /\ x = T[t].iss + 1) \/ \E u \in Tcb : Link(T, u, t) /\ x <= T[u].rcv
Rst(T, s) ==
    /\ s.data = <<>>
    /\ \/ s.fl = {"R"} /\ \E t \in Tcb : Host(t) = s.from /\ Known(T, t, s.seq)
       \/ s.fl = {"R", "A"} /\ \E t \in Tcb : Host(t) # s.from /\ Known(T, t, s.ack)
Sound(T, S, V, u, s) ==
    \/ Syn(T, u, s) \/ SynAck(T, u, s) \/ Ack(T, u, s) \/ Text(T, S, u, s) \/ Fin(T, S, V, u, s)
SegOK(T, S, V, s) ==
    Rst(T, s) \/ \E u \in Tcb : Host(u) = s.from /\ T[u].rport /\ Sound(T, S, V, u, s)

Typed(T, N, S, V) ==
    T \in [Tcb -> TcbType] /\ N \subseteq SegType /\ S \in [Tcb -> Nat] /\ V \in [Tcb -> Seq(Nat)]
Good(T, N, S, V) ==
    /\ Typed(T, N, S, V) /\ Room(T, S) /\ Apart(T, S)
    /\ Sides(T) /\ Ends(T, S, V) /\ Links(T) /\ Streams(T, S, V)
    /\ \A s \in N : SegOK(T, S, V, s)

\* the children: those in the accept queue have not been opened yet
Waiting ==
    /\ \A i \in 1..Len(acpt) : LET r == tcb[acpt[i]] IN
          r.state # "SYN_RCVD" /\ r.rport /\ ~r.open /\ ~r.shut
    /\ \A i, j \in 1..Len(acpt) : acpt[i] = acpt[j] => i = j
Taken0 == [t \in Tcb |-> Received(t)]
Numbered == \A t \in Tcb : ~tcb[t].rport => tcb[t].iss = 0
StreamInv == NumbersApart => Good(tcb, net, sent, Taken0) /\ Waiting

-----------------------------------------------------------------------------
(* Sequence numbers and links.                                               *)

\* snd_nxt lies behind the initial number, at most the bytes written and two FINs.
Spans(T, S) == \A u \in Tcb : T[u].rport =>
    T[u].iss + 1 <= T[u].nxt /\ T[u].nxt <= T[u].iss + S[u] + 3

\* snd_nxt of one socket is at most the bytes written and two FINs behind its start.
LEMMA SpanOf ==
    ASSUME NEW r \in TcbType, NEW n \in Nat, NEW v, EndOK(r, n, v), r.rport
    PROVE  r.iss + 1 <= r.nxt /\ r.nxt <= r.iss + n + 3
<1>1. r.iss \in Int /\ r.nxt \in Int /\ r.snd \in Seq(Mbuf)
  BY TcbFields, SeqNrInt
<1>2. Chain(r, n) /\ r.iss + 1 <= r.nxt
  BY DEF EndOK, Chain
<1>3. CASE r.snd = <<>>
  BY <1>1, <1>2, <1>3 DEF Chain, Finished
<1>4. CASE r.snd # <<>>
  <2>1. 1 \in 1..Len(r.snd) /\ r.snd[1] \in Mbuf
    BY <1>1, <1>4
  <2>2. Len(r.snd[1]) \in Nat /\ r.snd[1][1] \in Nat
    BY <2>1 DEF Mbuf
  <2>3. r.snd[1][1] = r.nxt - r.iss /\ r.snd[1][1] + Len(r.snd[1]) <= n + 1
    BY <1>2, <1>4, <2>1 DEF Chain, SndQue
  <2> DEFINE x == r.snd[1][1]
             l == Len(r.snd[1])
  <2>4. x \in Nat /\ l \in Nat /\ x = r.nxt - r.iss /\ x + l <= n + 1
    BY <2>2, <2>3
  <2> HIDE DEF x, l
  <2> QED BY <1>1, <1>2, <2>4, SMTT(30)
<1> QED BY <1>3, <1>4

\* What Good says of one socket.
LEMMA GoodAt ==
    ASSUME NEW T, NEW N, NEW S, NEW V, Good(T, N, S, V), NEW t \in Tcb
    PROVE  /\ T[t] \in TcbType /\ S[t] \in Nat /\ V[t] \in Seq(Nat) /\ EndOK(T[t], S[t], V[t])
           /\ Phase(T[t]) /\ T[t].iss + S[t] + 3 < SEQ /\ S[t] + 3 < SEQ \div 2
BY DEF Good, Typed, Ends, EndOK, Room

\* So it is for every socket.
LEMMA GoodSpans ==
    ASSUME NEW T, NEW N, NEW S, NEW V, Good(T, N, S, V)
    PROVE  Spans(T, S)
BY GoodAt, SpanOf DEF Spans

\* A socket waits for a number of one other only.
LEMMA LinkUnique ==
    ASSUME NEW T \in [Tcb -> TcbType], NEW S \in [Tcb -> Nat], Apart(T, S), Spans(T, S),
           NEW t \in Tcb, NEW u \in Tcb, NEW v \in Tcb, Link(T, t, u), Link(T, t, v)
    PROVE  u = v
<1>1. /\ T[t].rcv \in Int /\ T[u].iss \in Int /\ T[v].iss \in Int /\ T[u].nxt \in Int /\ T[v].nxt \in Int
      /\ S[u] \in Nat /\ S[v] \in Nat
  BY TcbFields, SeqNrInt
<1>2. Host(u) = Host(v)
  BY DEF Link, Host
<1> QED BY <1>1, <1>2 DEF Apart, Spans, Link, To

\* A number right behind the initial one belongs to one connection of a host.
LEMMA FirstUnique ==
    ASSUME NEW T \in [Tcb -> TcbType], NEW S \in [Tcb -> Nat], Apart(T, S), Spans(T, S),
           NEW t \in Tcb, NEW u \in Tcb, NEW v \in Tcb, Link(T, t, u), Host(u) = Host(v), T[v].rport,
           NEW x \in Int, x = T[v].iss + 1, T[u].iss + 1 <= x, x <= T[t].rcv
    PROVE  u = v
<1>1. /\ T[t].rcv \in Int /\ T[u].iss \in Int /\ T[v].iss \in Int /\ T[u].nxt \in Int /\ T[v].nxt \in Int
      /\ S[u] \in Nat /\ S[v] \in Nat
  BY TcbFields, SeqNrInt
<1> QED BY <1>1 DEF Apart, Spans, Link, To

\* A socket that is not live and has no number to wait for has not got one.
LEMMA Linked ==
    ASSUME NEW T, NEW N, NEW S, NEW V, Good(T, N, S, V), NEW t \in Tcb, T[t].rcv # 0
    PROVE  \E u \in Tcb : Link(T, t, u)
<1>1. Live(T[t]) \/ T[t].state = "SYN_RCVD"
  BY GoodAt DEF Phase
<1> QED BY <1>1 DEF Good, Links, Pair

\* Host a has one socket, so two live ones on different hosts are the two ends.
LEMMA LivePartner ==
    ASSUME NEW T, NEW N, NEW S, NEW V, Good(T, N, S, V), NEW t \in Tcb, NEW u \in Tcb,
           Live(T[t]), Live(T[u]), Host(t) # Host(u)
    PROVE  Pair(T, t, u)
<1>1. (\E x \in Tcb : Pair(T, t, x)) /\ (\E x \in Tcb : Pair(T, u, x))
  BY DEF Good, Links
<1>2. t = "a" \/ u = "a"
  BY DEF Host
<1> QED BY <1>1, <1>2 DEF Pair, Link, Host

\* One that is not live waits for the first number.
LEMMA NotLiveRcv ==
    ASSUME NEW T, NEW N, NEW S, NEW V, Good(T, N, S, V), NEW u \in Tcb, NEW t \in Tcb,
           Link(T, u, t), ~Live(T[u])
    PROVE  T[u].rcv = T[t].iss + 1 /\ T[u].state = "SYN_RCVD"
<1>1. T[u].rcv \in Int /\ T[t].iss \in Int /\ 0 <= T[t].iss
  BY GoodAt, TcbFields, SeqNrInt
<1>2. T[u].state = "SYN_RCVD"
  BY <1>1, GoodAt DEF Link, To, Phase
<1>3. V[u] = <<>>
  BY GoodAt DEF EndOK, Idle, Link, To
<1>4. Taking(T[u], V[u], T[t], S[t])
  BY DEF Good, Streams, Stream, Link
<1> QED BY <1>1, <1>2, <1>3, <1>4 DEF Taking, RcvOpen

\* What a segment may acknowledge to a live socket has been received by its other end.
LEMMA AckFor ==
    ASSUME NEW T, NEW N, NEW S, NEW V, Good(T, N, S, V), NEW t \in Tcb, NEW u \in Tcb, NEW w \in Tcb,
           Live(T[t]), Host(w) = Host(t), Link(T, u, w), NEW x \in Int, T[w].iss + 1 <= x, x <= T[u].rcv
    PROVE  /\ w = t /\ T[t].iss + 1 <= x /\ x <= T[t].nxt
           /\ x = T[t].iss + 1 \/ (Pair(T, t, u) /\ x <= T[u].rcv)
<1>0. /\ T[u].rcv \in Int /\ T[t].iss \in Int /\ T[t].nxt \in Int
  BY GoodAt, TcbFields, SeqNrInt
<1>1. PICK y \in Tcb : Pair(T, t, y)
  BY DEF Good, Links
<1>2. w = t
  <2>1. CASE t = "a"
    BY <2>1 DEF Host
  <2>2. CASE t # "a"
    <3>1. u = "a" /\ y = "a"
      BY <1>1, <2>2 DEF Pair, Link, Host
    <3>2. Apart(T, S) /\ T \in [Tcb -> TcbType] /\ S \in [Tcb -> Nat]
      BY DEF Good, Typed
    <3> QED BY <1>1, <3>1, <3>2, LinkUnique, GoodSpans DEF Pair
  <2> QED BY <2>1, <2>2
<1>3. T[t].iss + 1 <= x /\ x <= T[t].nxt
  BY <1>0, <1>2 DEF Link, To
<1>4. CASE Live(T[u])
  BY <1>2, <1>3, <1>4, LivePartner DEF Link
<1>5. CASE ~Live(T[u])
  BY <1>0, <1>2, <1>3, <1>5, NotLiveRcv
<1> QED BY <1>2, <1>3, <1>4, <1>5

-----------------------------------------------------------------------------
(* One socket changes: what is to show.                                      *)

\* what a step may do to one socket as far as segments under way are concerned
Grown(r, n, v, r2, n2, v2) ==
    /\ r.rport => r2.rport /\ r2.iss = r.iss /\ r.nxt <= r2.nxt
    /\ r.rcv <= r2.rcv /\ n <= n2 /\ Len(v) <= Len(v2)
    /\ Live(r) => Live(r2)
    /\ r.shut => r2.shut /\ n2 = n
    /\ \A m \in r2.unaq : m \in r.unaq \/ r.nxt <= m.id
\* the same of all sockets, and that who waits for a number of another still does
Grow(T, S, V, T2, S2, V2) == \A u \in Tcb : Grown(T[u], S[u], V[u], T2[u], S2[u], V2[u])
LinksStay(T, T2) == \A t, u \in Tcb : Link(T, t, u) => Link(T2, t, u)

\* What is known of an acknowledged number stays known.
LEMMA AcksGrow ==
    ASSUME NEW T \in [Tcb -> TcbType], NEW S, NEW V, NEW T2 \in [Tcb -> TcbType], NEW S2, NEW V2,
           Grow(T, S, V, T2, S2, V2), LinksStay(T, T2), NEW u \in Tcb, NEW x \in Int
    PROVE  (Acks(T, u, x) => Acks(T2, u, x)) /\ (Known(T, u, x) => Known(T2, u, x))
<1>1. \A y \in Tcb : T[y].rcv \in Int /\ T2[y].rcv \in Int /\ T[y].rcv <= T2[y].rcv
  BY TcbFields, SeqNrInt DEF Grow, Grown
<1>2. \A y \in Tcb : T[y].rport => T2[y].rport /\ T2[y].iss = T[y].iss
  BY DEF Grow, Grown
<1>3. Acks(T, u, x) => Acks(T2, u, x)
  <2> SUFFICES ASSUME NEW t \in Tcb, Link(T, u, t), T[t].iss + 1 <= x, x <= T[u].rcv
               PROVE  Acks(T2, u, x)
    BY DEF Acks
  <2>1. Link(T2, u, t) /\ T2[t].iss = T[t].iss
    BY <1>2 DEF LinksStay, Link, To
  <2>2. x <= T2[u].rcv
    BY <1>1
  <2> QED BY <2>1, <2>2 DEF Acks
<1>4. Known(T, u, x) => Known(T2, u, x)
  <2> SUFFICES ASSUME Known(T, u, x) PROVE Known(T2, u, x)
    OBVIOUS
  <2>1. T2[u].rport /\ T2[u].iss = T[u].iss /\ T[u].iss + 1 <= x
    BY <1>2 DEF Known
  <2>2. CASE u \in Main /\ x = T[u].iss + 1
    BY <2>1, <2>2 DEF Known
  <2>3. CASE \E y \in Tcb : Link(T, y, u) /\ x <= T[y].rcv
    <3>1. PICK y \in Tcb : Link(T, y, u) /\ x <= T[y].rcv
      BY <2>3
    <3>2. Link(T2, y, u) /\ x <= T2[y].rcv
      BY <1>1, <3>1 DEF LinksStay
    <3> QED BY <2>1, <3>2 DEF Known
  <2> QED BY <2>2, <2>3 DEF Known
<1> QED BY <1>3, <1>4

\* A segment under way stays what it was.
LEMMA SegGrow ==
    ASSUME NEW T \in [Tcb -> TcbType], NEW S \in [Tcb -> Nat], NEW V \in [Tcb -> Seq(Nat)],
           NEW T2 \in [Tcb -> TcbType], NEW S2 \in [Tcb -> Nat], NEW V2 \in [Tcb -> Seq(Nat)],
           Grow(T, S, V, T2, S2, V2), LinksStay(T, T2), Links(T), Apart(T2, S2), Spans(T2, S2),
           Streams(T2, S2, V2), NEW s \in SegType, SegOK(T, S, V, s)
    PROVE  SegOK(T2, S2, V2, s)
<1>0. s.seq \in Int /\ s.ack \in Int /\ s.data \in Seq(Nat) /\ Len(s.data) \in Nat
  BY SegFields
<1>1. CASE Rst(T, s)
  <2>1. Rst(T2, s)
    BY <1>0, <1>1, AcksGrow DEF Rst
  <2> QED BY <2>1 DEF SegOK
<1>2. CASE \E u \in Tcb : Host(u) = s.from /\ T[u].rport /\ Sound(T, S, V, u, s)
  <2>0. PICK u \in Tcb : Host(u) = s.from /\ T[u].rport /\ Sound(T, S, V, u, s)
    BY <1>2
  <2>1. /\ T[u].iss \in Int /\ T[u].nxt \in Int /\ T2[u].nxt \in Int /\ S[u] \in Nat /\ S2[u] \in Nat
    BY TcbFields, SeqNrInt
  <2>2. /\ T2[u].rport /\ T2[u].iss = T[u].iss /\ T[u].nxt <= T2[u].nxt /\ S[u] <= S2[u]
        /\ Live(T[u]) => Live(T2[u])
        /\ T[u].shut => T2[u].shut /\ S2[u] = S[u]
        /\ \A m \in T2[u].unaq : m \in T[u].unaq \/ T[u].nxt <= m.id
    BY <2>0 DEF Grow, Grown
  <2>3. Acks(T, u, s.ack) => Acks(T2, u, s.ack)
    BY <1>0, AcksGrow
  <2>4. CASE Syn(T, u, s) \/ SynAck(T, u, s) \/ Ack(T, u, s)
    BY <2>0, <2>2, <2>3, <2>4 DEF Syn, SynAck, Ack, SegOK, Sound
  <2>5. CASE Text(T, S, u, s)
    <3>1. \A m \in T2[u].unaq : Beside(m, s)
      <4> TAKE m \in T2[u].unaq
      <4>1. CASE m \in T[u].unaq
        BY <2>5, <4>1 DEF Text
      <4>2. CASE T[u].nxt <= m.id
        <5>1. m.id \in Int
          BY TcbFields, SeqNrInt
        <5>2. s.seq + Len(s.data) <= T[u].nxt
          BY <2>5 DEF Text
        <5> QED BY <1>0, <2>1, <4>2, <5>1, <5>2 DEF Beside
      <4> QED BY <2>2, <4>1, <4>2
    <3>2. s.seq + Len(s.data) <= T2[u].nxt /\ s.seq + Len(s.data) <= T2[u].iss + 1 + S2[u]
      <4>1. s.seq + Len(s.data) <= T[u].nxt /\ s.seq + Len(s.data) <= T[u].iss + 1 + S[u]
        BY <2>5 DEF Text
      <4>2. \A x, y, z \in Int : x <= y /\ y <= z => x <= z
        OBVIOUS
      <4>3. /\ s.seq + Len(s.data) \in Int /\ T[u].iss + 1 + S[u] \in Int /\ T2[u].iss + 1 + S2[u] \in Int
            /\ T[u].iss + 1 + S[u] <= T2[u].iss + 1 + S2[u]
        <5>1. T2[u].iss \in Int /\ T2[u].iss = T[u].iss /\ S[u] <= S2[u]
          BY <2>1, <2>2
        <5> QED BY <1>0, <2>1, <5>1, SMTT(30)
      <4>4. T[u].nxt <= T2[u].nxt
        BY <2>2
      <4> QED BY <2>1, <4>1, <4>2, <4>3, <4>4
    <3>3. Text(T2, S2, u, s)
      BY <2>2, <2>3, <2>5, <3>1, <3>2 DEF Text
    <3> QED BY <2>0, <2>2, <3>3 DEF SegOK, Sound
  <2>6. CASE Fin(T, S, V, u, s)
    <3>1. T[u].shut /\ T2[u].shut /\ S2[u] = S[u]
      BY <2>2, <2>6 DEF Fin
    <3>2. ASSUME NEW t \in Tcb, Pair(T2, t, u)
          PROVE  Len(V2[t]) = S2[u]
      <4>1. PICK x \in Tcb : Pair(T, u, x)
        BY <3>1 DEF Links, Live
      <4>2. x = t
        BY <3>2, <4>1, LinkUnique DEF Pair, LinksStay
      <4>3. Len(V[t]) = S[u]
        BY <2>6, <4>1, <4>2 DEF Fin, Pair
      <4>4. Len(V[t]) <= Len(V2[t])
        BY DEF Grow, Grown
      <4>5. Len(V2[t]) <= S2[u]
        BY <3>2 DEF Streams, Stream, Pair, Link, Taking
      <4>6. Len(V2[t]) \in Nat /\ Len(V[t]) \in Nat
        OBVIOUS
      <4> QED BY <3>1, <4>3, <4>4, <4>5, <4>6
    <3>3. T2[u].iss + 1 + S2[u] <= s.seq /\ s.seq < T2[u].nxt
      BY <1>0, <2>1, <2>2, <2>6, <3>1 DEF Fin
    <3>4. Fin(T2, S2, V2, u, s)
      BY <2>3, <2>6, <3>1, <3>2, <3>3 DEF Fin
    <3> QED BY <2>0, <2>2, <3>4 DEF SegOK, Sound
  <2> QED BY <2>0, <2>4, <2>5, <2>6 DEF Sound
<1> QED BY <1>1, <1>2 DEF SegOK

\* What is to show when socket t becomes r, with n bytes written and v received: something
\* about it alone, about it and one socket of the other host, and that it has a partner if
\* it is to have one.
Fits(T, S, V, t, r, n, v) ==
    /\ EndOK(r, n, v) /\ Grown(T[t], S[t], V[t], r, n, v)
    /\ \A u \in Tcb : Host(u) # Host(t) =>
          /\ To(T[t], T[u]) => To(r, T[u])
          /\ To(T[u], T[t]) => To(T[u], r)
          /\ Stream(r, n, v, T[u], S[u], V[u])
    /\ r.state = "SYN_RCVD" => \E u \in Tcb : Host(u) # Host(t) /\ To(r, T[u])
    /\ Live(r) => \E u \in Tcb : Host(u) # Host(t) /\ To(r, T[u]) /\ To(T[u], r)

\* One socket changes.
LEMMA PutGood ==
    ASSUME NEW T, NEW N, NEW S, NEW V, Good(T, N, S, V), NEW t \in Tcb,
           NEW r \in TcbType, NEW n \in Nat, NEW v \in Seq(Nat),
           NEW T2, NEW S2, NEW V2, T2 = [T EXCEPT ![t] = r], S2 = [S EXCEPT ![t] = n],
           V2 = [V EXCEPT ![t] = v], Room(T2, S2), Apart(T2, S2), Sides(T2), Fits(T, S, V, t, r, n, v)
    PROVE  Good(T2, N, S2, V2)
<1> USE DEF Fits
<1>0. Typed(T, N, S, V)
  BY DEF Good
<1>1. /\ T2[t] = r /\ S2[t] = n /\ V2[t] = v
      /\ \A u \in Tcb : u # t => T2[u] = T[u] /\ S2[u] = S[u] /\ V2[u] = V[u]
      /\ \A u \in Tcb : Host(u) # Host(t) => T2[u] = T[u] /\ S2[u] = S[u] /\ V2[u] = V[u]
  BY <1>0 DEF Typed
<1>2. Typed(T2, N, S2, V2)
  BY <1>0 DEF Typed
<1>3. Ends(T2, S2, V2)
  BY <1>1 DEF Ends, Good
<1>4. LinksStay(T, T2)
  <2> SUFFICES ASSUME NEW x \in Tcb, NEW y \in Tcb, Link(T, x, y) PROVE Link(T2, x, y)
    BY DEF LinksStay
  <2>1. Host(x) # Host(y) /\ To(T[x], T[y])
    BY DEF Link
  <2>2. CASE x = t
    BY <1>1, <2>1, <2>2 DEF Link
  <2>3. CASE y = t
    BY <1>1, <2>1, <2>3 DEF Link
  <2>4. CASE x # t /\ y # t
    BY <1>1, <2>1, <2>4 DEF Link
  <2> QED BY <2>2, <2>3, <2>4
<1>5. Links(T2)
  <2> SUFFICES ASSUME NEW x \in Tcb
               PROVE  /\ T2[x].state = "SYN_RCVD" => \E u \in Tcb : Link(T2, x, u)
                      /\ Live(T2[x]) => \E u \in Tcb : Pair(T2, x, u)
    BY DEF Links
  <2>1. CASE x = t
    BY <1>1, <2>1 DEF Link, Pair
  <2>2. CASE x # t
    BY <1>1, <1>4, <2>2 DEF Good, Links, LinksStay, Pair
  <2> QED BY <2>1, <2>2
<1>6. Streams(T2, S2, V2)
  <2> SUFFICES ASSUME NEW x \in Tcb, NEW y \in Tcb, Host(x) # Host(y)
               PROVE  Stream(T2[x], S2[x], V2[x], T2[y], S2[y], V2[y])
    BY DEF Streams
  <2>1. CASE x = t
    BY <1>1, <2>1
  <2>2. CASE y = t
    <3>1. Stream(r, n, v, T[x], S[x], V[x])
      BY <2>2
    <3>2. Stream(T[x], S[x], V[x], r, n, v)
      BY <3>1, Zenon DEF Stream
    <3> QED BY <1>1, <2>2, <3>2
  <2>3. CASE x # t /\ y # t
    BY <1>1, <2>3 DEF Good, Streams
  <2> QED BY <2>1, <2>2, <2>3
<1>7. Grow(T, S, V, T2, S2, V2)
  <2>1. \A u \in Tcb : Grown(T[u], S[u], V[u], T[u], S[u], V[u])
    <3> TAKE u \in Tcb
    <3>1. T[u].rcv \in Int /\ T[u].nxt \in Int /\ S[u] \in Int /\ Len(V[u]) \in Int
      BY <1>0, TcbFields, SeqNrInt DEF Typed
    <3> QED BY <3>1 DEF Grown
  <2> QED BY <1>1, <2>1 DEF Grow
<1>8. Spans(T2, S2)
  BY <1>2, <1>3, SpanOf DEF Spans, Ends, Typed
<1>9. \A s \in N : SegOK(T2, S2, V2, s)
  <2>1. N \subseteq SegType
    BY <1>0 DEF Typed
  <2> TAKE s \in N
  <2> QED BY <1>0, <1>2, <1>4, <1>6, <1>7, <1>8, <2>1, SegGrow DEF Good, Typed
<1> QED BY <1>2, <1>3, <1>5, <1>6, <1>9 DEF Good

\* More segments that are sound, or fewer segments.
LEMMA NetGood ==
    ASSUME NEW T, NEW N, NEW S, NEW V, Good(T, N, S, V), NEW N2 \in SUBSET SegType,
           \A s \in N2 : s \in N \/ SegOK(T, S, V, s)
    PROVE  Good(T, N2, S, V)
BY DEF Good, Typed

\* Room and Apart depend on ports, initial numbers and bytes written.
LEMMA SameNumbers ==
    ASSUME NEW T, NEW S, NEW T2, Room(T, S), Apart(T, S),
           \A u \in Tcb : T2[u].rport = T[u].rport /\ T2[u].iss = T[u].iss
    PROVE  Room(T2, S) /\ Apart(T2, S)
BY DEF Room, Apart

\* r2 has the numbers and queues of r
Core(r, r2) ==
    /\ r2.rport = r.rport /\ r2.iss = r.iss /\ r2.una = r.una /\ r2.nxt = r.nxt /\ r2.rcv = r.rcv
    /\ r2.snd = r.snd /\ r2.unaq = r.unaq
\* only state and flags move
Moves(r, r2) ==
    /\ Core(r, r2) /\ Phase(r2)
    /\ r.shut => r2.shut
    /\ Live(r) => Live(r2)
    /\ r2.state = "SYN_RCVD" => r.state = "SYN_RCVD"
    /\ r2.state \in RcvOpen => r.state \in RcvOpen
    /\ r2.state \in PeerDone => r.state \in PeerDone
    /\ r2.state = "ESTABLISHED" => r.state \in {"ESTABLISHED", "SYN_RCVD"}
    /\ r.state \in {"LAST_ACK", "CLOSED"} => r2.state \in {"LAST_ACK", "CLOSED"} \/ ~r2.shut

\* Such a move keeps what is said of one socket,
LEMMA MovesEnd ==
    ASSUME NEW r \in TcbType, NEW r2 \in TcbType, NEW n \in Nat, NEW v, Moves(r, r2), EndOK(r, n, v)
    PROVE  EndOK(r2, n, v)
<1>1. Core(r, r2)
  BY DEF Moves
<1>2. SndQue(r, n) => SndQue(r2, n)
  BY <1>1 DEF Core, SndQue
<1>3. UnaQue(r) => UnaQue(r2)
  BY <1>1 DEF Core, UnaQue
<1>4. Finished(r, n) => Finished(r2, n)
  <2>1. r.shut => r.state \notin {"SYN_RCVD", "SYN_SENT"}
    BY DEF EndOK, Phase
  <2> QED BY <1>1, <2>1 DEF Core, Finished, Moves
<1>5. Chain(r, n) => Chain(r2, n)
  BY <1>1, <1>2, <1>3, <1>4 DEF Chain, Core
<1>6. Idle(r, n, v) => Idle(r2, n, v)
  BY <1>1 DEF Core, Idle
<1> QED BY <1>1, <1>5, <1>6 DEF EndOK, Moves, Core

\* for which number it waits and who waits for its numbers,
LEMMA MovesTo ==
    ASSUME NEW r, NEW r2, NEW q, NEW q2, Core(r, r2), Core(q, q2)
    PROVE  To(r2, q2) <=> To(r, q)
BY DEF Core, To

\* what one end has taken of the stream of the other,
LEMMA MovesTaking ==
    ASSUME NEW r, NEW r2, NEW q, NEW q2, NEW v, NEW n, Moves(r, r2), Moves(q, q2), Taking(r, v, q, n)
    PROVE  Taking(r2, v, q2, n)
BY DEF Moves, Core, Taking

\* what is kept until it has been received,
LEMMA MovesKept ==
    ASSUME NEW r, NEW r2, NEW n, NEW v, Core(r, r2), Kept(r, n, v)
    PROVE  Kept(r2, n, v)
BY DEF Core, Kept, Queued

\* and so the two streams of a connection.
LEMMA MovesStream ==
    ASSUME NEW r, NEW r2, NEW q, NEW q2, NEW n, NEW v, NEW k, NEW w, Moves(r, r2), Moves(q, q2),
           Stream(r, n, v, q, k, w)
    PROVE  Stream(r2, n, v, q2, k, w)
<1>1. Core(r, r2) /\ Core(q, q2)
  BY DEF Moves
<1> QED BY <1>1, MovesTo, MovesTaking, MovesKept, Zenon DEF Stream

\* Sockets move on without touching numbers and queues.
LEMMA QuietGood ==
    ASSUME NEW T, NEW N, NEW S, NEW V, Good(T, N, S, V), NEW T2 \in [Tcb -> TcbType],
           \A u \in Tcb : Moves(T[u], T2[u]), Sides(T2),
           \A t \in Tcb : Live(T2[t]) => Live(T[t]) \/ \E u \in Tcb : Pair(T, t, u)
    PROVE  Good(T2, N, S, V)
<1>0. T \in [Tcb -> TcbType] /\ S \in [Tcb -> Nat] /\ V \in [Tcb -> Seq(Nat)] /\ N \subseteq SegType
  BY DEF Good, Typed
<1>1. \A u \in Tcb : Core(T[u], T2[u])
  BY DEF Moves
<1>2. Room(T2, S) /\ Apart(T2, S)
  BY <1>1, SameNumbers DEF Good, Core
<1>3. Ends(T2, S, V)
  BY <1>0, MovesEnd DEF Ends, Good
<1>4. \A t, u \in Tcb : (Link(T2, t, u) <=> Link(T, t, u)) /\ (Pair(T2, t, u) <=> Pair(T, t, u))
  BY <1>1, MovesTo DEF Link, Pair
<1>5. Links(T2)
  <2> SUFFICES ASSUME NEW x \in Tcb
               PROVE  /\ T2[x].state = "SYN_RCVD" => \E u \in Tcb : Link(T2, x, u)
                      /\ Live(T2[x]) => \E u \in Tcb : Pair(T2, x, u)
    BY DEF Links
  <2>1. T2[x].state = "SYN_RCVD" => T[x].state = "SYN_RCVD"
    BY DEF Moves
  <2> QED BY <1>4, <2>1 DEF Good, Links
<1>6. Streams(T2, S, V)
  BY MovesStream DEF Streams, Good
<1>7. Grow(T, S, V, T2, S, V)
  <2> SUFFICES ASSUME NEW u \in Tcb PROVE Grown(T[u], S[u], V[u], T2[u], S[u], V[u])
    BY DEF Grow
  <2>1. T[u].rcv \in Int /\ T[u].nxt \in Int /\ S[u] \in Int /\ Len(V[u]) \in Int
    BY <1>0, TcbFields, SeqNrInt
  <2> QED BY <1>1, <2>1 DEF Grown, Moves, Core
<1>8. Spans(T2, S)
  BY <1>0, <1>3, SpanOf DEF Spans, Ends
<1>9. \A s \in N : SegOK(T2, S, V, s)
  <2>1. LinksStay(T, T2)
    BY <1>4 DEF LinksStay
  <2> TAKE s \in N
  <2> QED BY <1>0, <1>2, <1>6, <1>7, <1>8, <2>1, SegGrow DEF Good
<1> QED BY <1>0, <1>2, <1>3, <1>5, <1>6, <1>9 DEF Good, Typed

\* One socket moves on.
LEMMA QuietPut ==
    ASSUME NEW T, NEW N, NEW S, NEW V, Good(T, N, S, V), NEW t \in Tcb, NEW r \in TcbType,
           Moves(T[t], r), NEW T2, T2 = [T EXCEPT ![t] = r], Sides(T2),
           Live(r) => Live(T[t]) \/ \E u \in Tcb : Pair(T, t, u)
    PROVE  Good(T2, N, S, V)
<1>1. T \in [Tcb -> TcbType]
  BY DEF Good, Typed
<1>2. \A u \in Tcb : Moves(T[u], T[u])
  BY GoodAt DEF Moves, Core
<1>3. \A u \in Tcb : Moves(T[u], T2[u]) /\ (Live(T2[u]) => Live(T[u]) \/ \E x \in Tcb : Pair(T, u, x))
  BY <1>1, <1>2
<1> QED BY <1>1, <1>3, QuietGood

-----------------------------------------------------------------------------
(* Acknowledging, sending and finishing.                                     *)

\* Nobody who stays comes to wait for numbers of a socket that it did not wait for.
LEMMA OldLinks ==
    ASSUME NEW T, NEW N, NEW S, NEW V, Good(T, N, S, V), NEW t \in Tcb, NEW r \in TcbType, NEW n \in Nat,
           Apart([T EXCEPT ![t] = r], [S EXCEPT ![t] = n]),
           r.rport => r.iss + 1 <= r.nxt /\ r.nxt <= r.iss + n + 3,
           \A u \in Tcb : Host(u) # Host(t) /\ To(T[u], T[t]) => To(T[u], r),
           NEW u \in Tcb, Host(u) # Host(t), To(T[u], r)
    PROVE  To(T[u], T[t])
<1> DEFINE T2 == [T EXCEPT ![t] = r]
           S2 == [S EXCEPT ![t] = n]
<1>0. T \in [Tcb -> TcbType] /\ S \in [Tcb -> Nat]
  BY DEF Good, Typed
<1>1. T2 \in [Tcb -> TcbType] /\ S2 \in [Tcb -> Nat]
  BY <1>0
<1>2. T2[t] = r /\ S2[t] = n /\ (\A x \in Tcb : x # t => T2[x] = T[x] /\ S2[x] = S[x]) /\ u # t
  BY <1>0
<1>3. Apart(T2, S2)
  OBVIOUS
<1> HIDE DEF T2, S2
<1>4. Spans(T2, S2)
  BY <1>2, GoodSpans DEF Spans
<1>5. T[u].rcv # 0
  <2>1. r.iss \in Int /\ 0 <= r.iss /\ T[u].rcv \in Int
    BY <1>0, TcbFields, SeqNrInt
  <2> QED BY <2>1 DEF To
<1>6. PICK y \in Tcb : Link(T, u, y)
  BY <1>5, Linked
<1>7. Link(T2, u, t)
  BY <1>2 DEF Link
<1>8. Link(T2, u, y)
  <2>1. CASE y = t
    BY <1>7, <2>1
  <2>2. CASE y # t
    BY <1>2, <1>6, <2>2 DEF Link
  <2> QED BY <2>1, <2>2
<1>9. y = t
  BY <1>1, <1>3, <1>4, <1>7, <1>8, LinkUnique
<1> QED BY <1>6, <1>9 DEF Link

\* One socket changes, but neither its port, its initial number nor the history.
LEMMA PutSame ==
    ASSUME NEW T, NEW N, NEW S, NEW V, Good(T, N, S, V), NEW t \in Tcb, NEW r \in TcbType,
           NEW T2, T2 = [T EXCEPT ![t] = r], r.rport = T[t].rport, r.iss = T[t].iss, Sides(T2),
           Fits(T, S, V, t, r, S[t], V[t])
    PROVE  Good(T2, N, S, V)
<1>0. /\ T \in [Tcb -> TcbType] /\ S \in [Tcb -> Nat] /\ V \in [Tcb -> Seq(Nat)]
      /\ Apart(T, S) /\ Room(T, S)
  BY DEF Good, Typed
<1>1. \A u \in Tcb : T2[u].rport = T[u].rport /\ T2[u].iss = T[u].iss
  BY <1>0
<1>2. Room(T2, S) /\ Apart(T2, S)
  BY <1>0, <1>1, SameNumbers
<1>3. S = [S EXCEPT ![t] = S[t]] /\ V = [V EXCEPT ![t] = V[t]] /\ S[t] \in Nat /\ V[t] \in Seq(Nat)
  BY <1>0
<1>4. ASSUME NEW n \in Nat, NEW v \in Seq(Nat), NEW S2, NEW V2, S2 = [S EXCEPT ![t] = n],
             V2 = [V EXCEPT ![t] = v], Room(T2, S2), Apart(T2, S2), Fits(T, S, V, t, r, n, v)
      PROVE  Good(T2, N, S2, V2)
  BY <1>4, PutGood, Zenon
<1> QED BY <1>2, <1>3, <1>4, Zenon

\* An acknowledgement.  What it takes out of una_que the other end has.
Acked(r, x) == [r EXCEPT !.una = x, !.unaq = {m \in @ : m.id >= x}]

\* What tcp_x_ack changes, field by field.
LEMMA AckedFields ==
    ASSUME NEW r \in TcbType, NEW x \in SeqNr
    PROVE  /\ Acked(r, x) \in TcbType /\ Acked(r, x).una = x
           /\ Acked(r, x).unaq = {m \in r.unaq : m.id >= x}
           /\ Acked(r, x).state = r.state /\ Acked(r, x).rport = r.rport /\ Acked(r, x).shut = r.shut
           /\ Acked(r, x).iss = r.iss /\ Acked(r, x).nxt = r.nxt /\ Acked(r, x).rcv = r.rcv
           /\ Acked(r, x).snd = r.snd /\ Acked(r, x).dly = r.dly /\ Acked(r, x).open = r.open
           /\ Acked(r, x).cn = r.cn /\ Acked(r, x).err = r.err
BY DEF Acked, TcbType

\* An acknowledged number between snd_una and snd_nxt keeps the sender in order.
LEMMA AckedEnd ==
    ASSUME NEW r \in TcbType, NEW x \in SeqNr, NEW n \in Nat, NEW v, EndOK(r, n, v), Live(r), r.rport,
           r.iss + 1 <= x, x <= r.nxt
    PROVE  EndOK(Acked(r, x), n, v)
<1> DEFINE r2 == Acked(r, x)
<1>1. /\ r2.una = x /\ r2.unaq = {m \in r.unaq : m.id >= x}
      /\ r2.state = r.state /\ r2.rport = r.rport /\ r2.shut = r.shut /\ r2.iss = r.iss /\ r2.nxt = r.nxt
      /\ r2.rcv = r.rcv /\ r2.snd = r.snd /\ r2.dly = r.dly /\ r2.open = r.open /\ r2.cn = r.cn /\ r2.err = r.err
  BY AckedFields
<1>2. x \in Int /\ r.iss \in Int /\ r.nxt \in Int
  BY TcbFields, SeqNrInt
<1> HIDE DEF r2
<1>3. Phase(r2) /\ Live(r2)
  BY <1>1 DEF EndOK, Phase, Live
<1>4. UnaQue(r2) /\ SndQue(r2, n)
  BY <1>1 DEF EndOK, Chain, UnaQue, SndQue
<1>5. r2.snd = <<>> => Finished(r2, n)
  BY <1>1 DEF EndOK, Chain, Finished
<1>6. Chain(r2, n)
  BY <1>1, <1>2, <1>4, <1>5 DEF Chain, EndOK
<1> QED BY <1>1, <1>3, <1>6 DEF EndOK, r2

\* It keeps the streams, as what leaves una_que has been received.
LEMMA AckedStream ==
    ASSUME NEW r \in TcbType, NEW x \in SeqNr, NEW n \in Nat, NEW v \in Seq(Nat), EndOK(r, n, v), r.rport,
           NEW q \in TcbType, NEW k \in Nat, NEW w \in Seq(Nat), Stream(r, n, v, q, k, w),
           x = r.iss + 1 \/ (To(r, q) /\ To(q, r) => x <= q.rcv)
    PROVE  Stream(Acked(r, x), n, v, q, k, w)
<1> DEFINE r2 == Acked(r, x)
<1>1. /\ r2.unaq = {m \in r.unaq : m.id >= x}
      /\ r2.state = r.state /\ r2.rport = r.rport /\ r2.shut = r.shut /\ r2.iss = r.iss /\ r2.nxt = r.nxt
      /\ r2.rcv = r.rcv /\ r2.snd = r.snd
  BY AckedFields
<1>2. x \in Int /\ r.iss \in Int /\ r.nxt \in Int /\ q.rcv \in Int /\ Len(w) \in Nat
  BY TcbFields, SeqNrInt
<1> HIDE DEF r2
<1>3. (To(r2, q) <=> To(r, q)) /\ (To(q, r2) <=> To(q, r))
  BY <1>1 DEF To
<1>4. Taking(r, v, q, k) => Taking(r2, v, q, k)
  BY <1>1 DEF Taking
<1>5. Taking(q, w, r, n) => Taking(q, w, r2, n)
  BY <1>1 DEF Taking
<1>6. ASSUME To(r, q), To(q, r), Kept(r, n, w)
      PROVE  Kept(r2, n, w)
  <2> SUFFICES ASSUME NEW i \in 1..n, ~Queued(r2, i) PROVE i <= Len(w)
    BY DEF Kept
  <2>1. CASE Queued(r, i)
    <3>1. PICK m \in r.unaq : \E j \in DOMAIN m.data : m.data[j] = i
      BY <1>1, <2>1 DEF Queued
    <3>2. PICK j \in DOMAIN m.data : m.data[j] = i
      BY <3>1
    <3>3. m.id \in Int /\ m.data \in Seq(Nat) /\ Len(m.data) \in Nat /\ j \in 1..Len(m.data)
      <4>1. m.id \in SeqNr /\ m.data \in Mbuf
        BY TcbFields
      <4> QED BY <4>1, SeqNrInt, <3>2, SMTT(30) DEF Mbuf
    <3>4. m.id < x
      BY <1>1, <1>2, <3>2, <3>3, SMTT(30) DEF Queued
    <3>5. r.iss + 1 <= m.id /\ m.data[j] = (m.id - r.iss) + (j - 1)
      BY <3>3 DEF EndOK, Chain, UnaQue, Run
    <3>6. x <= q.rcv
      BY <1>2, <1>6, <3>3, <3>4, <3>5, SMTT(30)
    <3>7. Taking(q, w, r, n)
      BY <1>6 DEF Stream
    <3>8. m.id + Len(m.data) <= q.rcv
      <4>1. q.rcv <= m.id \/ m.id + Len(m.data) <= q.rcv
        BY <3>7 DEF Taking
      <4> QED BY <4>1, <1>2, <3>3, <3>4, <3>6
    <3>9. Len(w) = n \/ q.rcv - r.iss - 1 <= Len(w)
      BY <3>7 DEF Taking
    <3> DEFINE l == Len(m.data)
               y == m.id
               z == Len(w)
    <3>10. l \in Int /\ y \in Int /\ j <= l /\ j \in Int /\ i = (y - r.iss) + (j - 1) /\ y + l <= q.rcv
      BY <3>2, <3>3, <3>5, <3>8
    <3>11. i \in Int /\ i <= n /\ z \in Int /\ (z = n \/ q.rcv - r.iss - 1 <= z)
      BY <1>2, <3>9
    <3> HIDE DEF l, y, z
    <3>12. i <= q.rcv - r.iss - 1
      BY <1>2, <3>10, SMTT(30)
    <3>13. i <= z
      BY <1>2, <3>11, <3>12
    <3> QED BY <3>13 DEF z
  <2>2. CASE i <= Len(w)
    BY <2>2
  <2> QED BY <1>6, <2>1, <2>2 DEF Kept
<1>7. Stream(r2, n, v, q, k, w)
  BY <1>3, <1>4, <1>5, <1>6 DEF Stream
<1> QED BY <1>7 DEF r2

\* tcp_x_ack keeps everything sound when the other end has taken what is acknowledged.
LEMMA AckedGood ==
    ASSUME NEW T, NEW N, NEW S, NEW V, Good(T, N, S, V), NEW t \in Tcb, NEW u \in Tcb, NEW x \in SeqNr,
           Live(T[t]), T[t].rport, T[t].iss + 1 <= x, x <= T[t].nxt,
           x = T[t].iss + 1 \/ (Pair(T, t, u) /\ x <= T[u].rcv)
    PROVE  Good([T EXCEPT ![t] = Acked(T[t], x)], N, S, V)
<1> DEFINE r == T[t]
           r2 == Acked(r, x)
           T2 == [T EXCEPT ![t] = r2]
<1>0. /\ T \in [Tcb -> TcbType] /\ S \in [Tcb -> Nat] /\ V \in [Tcb -> Seq(Nat)]
      /\ Apart(T, S) /\ Room(T, S) /\ Sides(T) /\ Links(T) /\ Streams(T, S, V)
  BY DEF Good, Typed
<1>1. r \in TcbType /\ S[t] \in Nat /\ V[t] \in Seq(Nat) /\ EndOK(r, S[t], V[t])
  BY GoodAt
<1>2. /\ r2 \in TcbType /\ r2.unaq = {m \in r.unaq : m.id >= x}
      /\ r2.state = r.state /\ r2.rport = r.rport /\ r2.shut = r.shut /\ r2.iss = r.iss /\ r2.nxt = r.nxt
      /\ r2.rcv = r.rcv
  BY <1>1, AckedFields
<1>3. EndOK(r2, S[t], V[t])
  BY <1>1, AckedEnd
<1>4. \A y \in Tcb : Host(y) # Host(t) => Stream(r2, S[t], V[t], T[y], S[y], V[y])
  <2> SUFFICES ASSUME NEW y \in Tcb, Host(y) # Host(t) PROVE Stream(r2, S[t], V[t], T[y], S[y], V[y])
    OBVIOUS
  <2>1. Stream(r, S[t], V[t], T[y], S[y], V[y]) /\ T[y] \in TcbType /\ S[y] \in Nat /\ V[y] \in Seq(Nat)
    BY <1>0, GoodAt DEF Streams
  <2>2. x = r.iss + 1 \/ (To(r, T[y]) /\ To(T[y], r) => x <= T[y].rcv)
    <3> SUFFICES ASSUME Pair(T, t, u), x <= T[u].rcv, To(r, T[y]) PROVE x <= T[y].rcv
      OBVIOUS
    <3>1. Link(T, t, y)
      BY DEF Link
    <3>2. u = y
      BY <1>0, <3>1, LinkUnique, GoodSpans DEF Pair
    <3> QED BY <3>2
  <2> QED BY <1>1, <2>1, <2>2, AckedStream
<1>5. /\ T2 \in [Tcb -> TcbType] /\ T2[t] = r2 /\ \A y \in Tcb : y # t => T2[y] = T[y]
  BY <1>0, <1>2
<1> HIDE DEF r2
<1>7. \A y \in Tcb : (To(r2, T[y]) <=> To(r, T[y])) /\ (To(T[y], r2) <=> To(T[y], r))
  BY <1>2 DEF To
<1>8. Live(r) /\ Live(r2) /\ (r2.state = "SYN_RCVD" <=> r.state = "SYN_RCVD")
  BY <1>2 DEF Live
<1>9. Grown(r, S[t], V[t], r2, S[t], V[t])
  <2>1. r.rcv \in Int /\ r.nxt \in Int /\ S[t] \in Int /\ Len(V[t]) \in Int
    BY <1>1, TcbFields, SeqNrInt
  <2> QED BY <1>2, <1>8, <2>1 DEF Grown
<1>10. Sides(T2)
  BY <1>0, <1>2, <1>5 DEF Sides, Main, Tcb
<1>12. \E y \in Tcb : Host(y) # Host(t) /\ To(r, T[y]) /\ To(T[y], r)
  BY <1>0, <1>8 DEF Links, Pair, Link
<1>13. \A y \in Tcb : Host(y) # Host(t) =>
               /\ To(T[t], T[y]) => To(r2, T[y])
               /\ To(T[y], T[t]) => To(T[y], r2)
               /\ Stream(r2, S[t], V[t], T[y], S[y], V[y])
  BY <1>4, <1>7
<1>14. Live(r2) => \E y \in Tcb : Host(y) # Host(t) /\ To(r2, T[y]) /\ To(T[y], r2)
  BY <1>7, <1>12
<1>15. r2.state # "SYN_RCVD"
  BY <1>1, <1>2, <1>8 DEF EndOK, Phase, Live, Sync
<1>16. Fits(T, S, V, t, r2, S[t], V[t])
  BY <1>3, <1>9, <1>13, <1>14, <1>15 DEF Fits
<1>17. Good(T2, N, S, V)
  BY <1>2, <1>10, <1>16, PutSame
<1> QED BY <1>17 DEF r2

\* Below the modulus numbers add up as numbers do.
LEMMA AddPlain ==
    ASSUME NEW x \in Nat, NEW n \in Nat, x + n < SEQ
    PROVE  Add(x, n) = x + n
<1>1. SEQ \in Nat \ {0}
  BY TcpAssumption
<1> DEFINE y == x + n
<1>2. y \in Nat /\ y < SEQ
  OBVIOUS
<1> HIDE DEF y
<1>3. y % SEQ = y
  BY <1>1, <1>2
<1> QED BY <1>3 DEF Add, y

\* tcp_tx_seg: the first mbuf of snd_que is sent and moves to una_que.
Sending(r) ==
    [r EXCEPT !.snd = Tail(@), !.unaq = @ \cup {[id |-> r.nxt, data |-> Head(r.snd)]},
              !.nxt = Add(@, Len(Head(r.snd)))]

\* What tcp_tx_seg changes, field by field.
LEMMA SendingFields ==
    ASSUME NEW r \in TcbType, r.snd # <<>>
    PROVE  /\ Sending(r) \in TcbType /\ Sending(r).snd = Tail(r.snd)
           /\ Sending(r).unaq = r.unaq \cup {[id |-> r.nxt, data |-> Head(r.snd)]}
           /\ Sending(r).nxt = Add(r.nxt, Len(Head(r.snd)))
           /\ Sending(r).state = r.state /\ Sending(r).rport = r.rport /\ Sending(r).shut = r.shut
           /\ Sending(r).iss = r.iss /\ Sending(r).una = r.una /\ Sending(r).rcv = r.rcv
           /\ Sending(r).dly = r.dly /\ Sending(r).open = r.open
           /\ Sending(r).cn = r.cn /\ Sending(r).err = r.err
<1>1. tcp_tx_seg("a", r) \in Reply /\ tcp_tx_seg("a", r).r = Sending(r)
  BY TxSegType DEF tcp_tx_seg, Sending, Main
<1>2. Sending(r) \in TcbType
  BY <1>1 DEF Reply
<1> QED BY <1>2 DEF Sending, TcbType

\* the first mbuf holds the bytes from snd_nxt on
LEMMA HeadFacts ==
    ASSUME NEW r \in TcbType, NEW n \in Nat, NEW v, EndOK(r, n, v), r.rport, r.snd # <<>>,
           r.iss + n + 3 < SEQ
    PROVE  /\ Head(r.snd) \in Mbuf /\ Head(r.snd) \in Seq(Nat) /\ Len(Head(r.snd)) \in Nat \ {0}
           /\ Run(Head(r.snd), r.nxt - r.iss)
           /\ r.nxt + Len(Head(r.snd)) <= r.iss + 1 + n
           /\ Add(r.nxt, Len(Head(r.snd))) = r.nxt + Len(Head(r.snd))
<1>1. r.iss \in Int /\ r.nxt \in Nat /\ r.snd \in Seq(Mbuf)
  BY TcbFields, SeqNrInt
<1> DEFINE d == Head(r.snd)
           l == Len(d)
<1>2. 1 \in 1..Len(r.snd) /\ d = r.snd[1] /\ d \in Mbuf
  BY <1>1
<1>3. d \in Seq(Nat) /\ l \in Nat \ {0}
  BY <1>2 DEF Mbuf
<1>4. Run(d, d[1]) /\ d[1] + Len(d) <= n + 1 /\ d[1] = r.nxt - r.iss
  BY <1>2 DEF EndOK, Chain, SndQue
<1> HIDE DEF d, l
<1>5. (r.nxt - r.iss) + l <= n + 1
  BY <1>4 DEF l
<1>6. r.nxt + l <= r.iss + 1 + n /\ r.nxt + l < SEQ
  BY <1>1, <1>3, <1>5, TcpAssumption, SMTT(30)
<1>7. Add(r.nxt, l) = r.nxt + l
  BY <1>1, <1>3, <1>6, AddPlain
<1> QED BY <1>2, <1>3, <1>4, <1>6, <1>7 DEF d, l

\* The queues stay one run of bytes.
LEMMA SendingEnd ==
    ASSUME NEW r \in TcbType, NEW n \in Nat, NEW v, EndOK(r, n, v), r.rport, Live(r), r.snd # <<>>,
           r.iss + n + 3 < SEQ
    PROVE  EndOK(Sending(r), n, v)
<1> DEFINE r2 == Sending(r)
           d == Head(r.snd)
           l == Len(d)
<1>0. /\ r2.snd = Tail(r.snd) /\ r2.unaq = r.unaq \cup {[id |-> r.nxt, data |-> d]}
      /\ r2.state = r.state /\ r2.rport = r.rport /\ r2.shut = r.shut /\ r2.iss = r.iss /\ r2.una = r.una
      /\ r2.rcv = r.rcv /\ r2.dly = r.dly /\ r2.open = r.open /\ r2.cn = r.cn /\ r2.err = r.err
  BY SendingFields
<1>1. /\ d \in Mbuf /\ d \in Seq(Nat) /\ l \in Nat \ {0} /\ Run(d, r.nxt - r.iss)
      /\ r.nxt + l <= r.iss + 1 + n /\ r2.nxt = r.nxt + l
  BY HeadFacts, SendingFields
<1>2. r.iss \in Int /\ r.nxt \in Int /\ r.una \in Int /\ r.snd \in Seq(Mbuf) /\ Len(r.snd) \in Nat \ {0}
  BY TcbFields
<1>3. Chain(r, n)
  BY DEF EndOK
<1> DEFINE q == Tail(r.snd)
<1>4. /\ q \in Seq(Mbuf) /\ Len(q) = Len(r.snd) - 1 /\ \A i \in 1..Len(q) : q[i] = r.snd[i + 1]
      /\ d = r.snd[1]
  BY <1>2
<1> HIDE DEF r2
<1>5. Phase(r2) /\ Live(r2)
  BY <1>0 DEF EndOK, Phase, Live
<1>6. r2.iss <= r2.una /\ r2.una <= r2.nxt /\ r2.iss + 1 <= r2.nxt
  <2> HIDE DEF d, l
  <2> QED BY <1>0, <1>1, <1>2, <1>3, SMTT(30) DEF Chain
<1>7. UnaQue(r2)
  <2> SUFFICES ASSUME NEW m \in r2.unaq
               PROVE  r.iss + 1 <= m.id /\ m.id + Len(m.data) <= r2.nxt /\ Run(m.data, m.id - r.iss)
    BY <1>0 DEF UnaQue
  <2>1. CASE m \in r.unaq
    <3>1. m.id \in Int /\ Len(m.data) \in Nat
      <4>1. m.id \in SeqNr /\ m.data \in Mbuf
        BY <2>1, TcbFields
      <4> QED BY <4>1, SeqNrInt DEF Mbuf
    <3>2. r.iss + 1 <= m.id /\ m.id + Len(m.data) <= r.nxt /\ Run(m.data, m.id - r.iss)
      BY <1>3, <2>1 DEF Chain, UnaQue
    <3> DEFINE e == m.id + Len(m.data)
    <3>3. e \in Int /\ e <= r.nxt
      BY <3>1, <3>2
    <3> HIDE DEF e, d, l
    <3>4. e <= r2.nxt
      BY <1>1, <1>2, <3>3
    <3> QED BY <3>2, <3>4 DEF e
  <2>2. CASE m = [id |-> r.nxt, data |-> d]
    <3>1. m.id = r.nxt /\ m.data = d
      BY <2>2
    <3> QED BY <1>1, <1>2, <1>3, <3>1, SMTT(30) DEF Chain
  <2> QED BY <1>0, <2>1, <2>2
<1>8. SndQue(r2, n)
  <2>1. \A i \in 1..Len(q) : Run(q[i], q[i][1]) /\ q[i][1] + Len(q[i]) <= n + 1
    <3> TAKE i \in 1..Len(q)
    <3>1. i + 1 \in 1..Len(r.snd) /\ q[i] = r.snd[i + 1]
      BY <1>2, <1>4
    <3> QED BY <1>3, <3>1 DEF Chain, SndQue
  <2>2. \A i \in 1..(Len(q) - 1) : q[i + 1][1] = q[i][1] + Len(q[i])
    <3> TAKE i \in 1..(Len(q) - 1)
    <3>1. i + 1 \in 1..(Len(r.snd) - 1) /\ q[i] = r.snd[i + 1] /\ q[i + 1] = r.snd[(i + 1) + 1]
      BY <1>2, <1>4, SMTT(30)
    <3> QED BY <1>3, <3>1 DEF Chain, SndQue
  <2>3. ASSUME q # <<>>
        PROVE  q[1][1] = r2.nxt - r2.iss /\ q[Len(q)][1] + Len(q[Len(q)]) = n + 1
    <3>1. /\ 1 \in 1..(Len(r.snd) - 1) /\ q[1] = r.snd[1 + 1] /\ Len(q) \in 1..Len(q)
          /\ q[Len(q)] = r.snd[Len(r.snd)]
      BY <1>2, <1>4, <2>3
    <3>2. /\ r.snd[1 + 1][1] = r.snd[1][1] + Len(r.snd[1]) /\ r.snd[1][1] = r.nxt - r.iss
          /\ r.snd[Len(r.snd)][1] + Len(r.snd[Len(r.snd)]) = n + 1
      BY <1>3, <3>1 DEF Chain, SndQue
    <3>3. q[1][1] = (r.nxt - r.iss) + l
      BY <1>4, <3>1, <3>2
    <3> HIDE DEF d, l, q
    <3>4. q[1][1] = r2.nxt - r2.iss
      BY <1>0, <1>1, <1>2, <3>3
    <3> QED BY <3>1, <3>2, <3>4
  <2> QED BY <1>0, <2>1, <2>2, <2>3 DEF SndQue
<1>9. r2.snd = <<>> => Finished(r2, n)
  <2>1. ASSUME q = <<>> PROVE (r.nxt - r.iss) + l = n + 1
    <3>0. Len(q) = 0
      <4>1. \A z \in Seq(Mbuf) : z = <<>> => Len(z) = 0
        OBVIOUS
      <4> QED BY <1>4, <2>1, <4>1
    <3>1. Len(r.snd) = 1
      BY <1>2, <1>4, <3>0
    <3>2. r.snd[1][1] + Len(r.snd[1]) = n + 1 /\ r.snd[1][1] = r.nxt - r.iss
      BY <1>3, <3>1 DEF Chain, SndQue
    <3> QED BY <1>4, <3>2
  <2>2. (r.nxt - r.iss) + l = n + 1 => r.nxt + l = r.iss + 1 + n
    <3>1. l \in Int /\ r.nxt \in Int /\ r.iss \in Int
      BY <1>1, <1>2
    <3>2. \A x, y, z \in Int : (x - y) + z = n + 1 => x + z = y + 1 + n
      OBVIOUS
    <3> HIDE DEF d, l
    <3> QED BY <3>1, <3>2, Zenon
  <2>3. r2.nxt = r.nxt + l /\ r2.iss = r.iss /\ r2.snd = q
    BY <1>0, <1>1
  <2> HIDE DEF d, l, q
  <2> QED BY <2>1, <2>2, <2>3 DEF Finished
<1>10. Chain(r2, n)
  BY <1>6, <1>7, <1>8, <1>9 DEF Chain
<1>11. EndOK(r2, n, v)
  BY <1>0, <1>5, <1>10 DEF EndOK
<1> QED BY <1>11 DEF r2

\* The mbuf that is sent lies behind all that the other end waits for.
LEMMA SendingStream ==
    ASSUME NEW r \in TcbType, NEW n \in Nat, NEW v \in Seq(Nat), EndOK(r, n, v), r.rport,
           r.snd # <<>>, r.iss + n + 3 < SEQ,
           NEW q \in TcbType, NEW k \in Nat, NEW w \in Seq(Nat), Stream(r, n, v, q, k, w),
           To(q, Sending(r)) => To(q, r)
    PROVE  Stream(Sending(r), n, v, q, k, w)
<1> DEFINE r2 == Sending(r)
           d == Head(r.snd)
<1>0. /\ r2.snd = Tail(r.snd) /\ r2.unaq = r.unaq \cup {[id |-> r.nxt, data |-> d]}
      /\ r2.state = r.state /\ r2.rport = r.rport /\ r2.shut = r.shut /\ r2.iss = r.iss /\ r2.rcv = r.rcv
  BY SendingFields
<1>1. r.snd \in Seq(Mbuf)
  BY TcbFields
<1> HIDE DEF r2
<1>2. To(r2, q) <=> To(r, q)
  BY <1>0 DEF To
<1>3. Taking(r, v, q, k) => Taking(r2, v, q, k)
  BY <1>0 DEF Taking
<1>4. To(q, r) /\ Taking(q, w, r, n) => Taking(q, w, r2, n)
  <2> SUFFICES ASSUME To(q, r), Taking(q, w, r, n), NEW m \in r2.unaq
               PROVE  q.rcv <= m.id \/ m.id + Len(m.data) <= q.rcv
    BY <1>0 DEF Taking
  <2>1. CASE m \in r.unaq
    BY <2>1 DEF Taking
  <2>2. CASE m = [id |-> r.nxt, data |-> d]
    BY <2>2 DEF To
  <2> QED BY <1>0, <2>1, <2>2
<1>5. ASSUME NEW i \in 1..n, Queued(r, i)
      PROVE  Queued(r2, i)
  <2>1. CASE \E a \in DOMAIN r.snd : \E j \in DOMAIN r.snd[a] : r.snd[a][j] = i
    <3>1. PICK a \in DOMAIN r.snd : \E j \in DOMAIN r.snd[a] : r.snd[a][j] = i
      BY <2>1
    <3>2. a \in 1..Len(r.snd) /\ a \in Int /\ Len(r.snd) \in Nat
      BY <1>1
    <3>3. CASE a = 1
      <4>1. d = r.snd[a]
        BY <1>1, <3>3
      <4>2. [id |-> r.nxt, data |-> d] \in r2.unaq /\ [id |-> r.nxt, data |-> d].data = d
        BY <1>0
      <4> QED BY <3>1, <4>1, <4>2 DEF Queued
    <3>4. CASE a # 1
      <4>1. a - 1 \in 1..Len(Tail(r.snd)) /\ Tail(r.snd)[a - 1] = r.snd[a]
        BY <1>1, <3>2, <3>4
      <4>2. a - 1 \in DOMAIN r2.snd /\ r2.snd[a - 1] = r.snd[a]
        BY <1>0, <1>1, <4>1
      <4> QED BY <3>1, <4>2 DEF Queued
    <3> QED BY <3>3, <3>4
  <2>2. CASE \E m \in r.unaq : \E j \in DOMAIN m.data : m.data[j] = i
    BY <1>0, <2>2 DEF Queued
  <2> QED BY <1>5, <2>1, <2>2 DEF Queued
<1>6. Kept(r, n, w) => Kept(r2, n, w)
  BY <1>5 DEF Kept
<1>7. Stream(r2, n, v, q, k, w)
  <2>1. To(q, r2) => To(q, r)
    BY DEF r2
  <2> QED BY <1>2, <1>3, <1>4, <1>6, <2>1 DEF Stream
<1> QED BY <1>7 DEF r2

\* Which sockets there are does not change with one that is connected and stays so.
LEMMA SidesPut ==
    ASSUME NEW T \in [Tcb -> TcbType], Sides(T), NEW t \in Tcb, NEW r, r.rport, T[t].rport,
           r.state \notin {"LISTEN", "SYN_RCVD", "SYN_SENT"}
    PROVE  Sides([T EXCEPT ![t] = r])
<1> DEFINE T2 == [T EXCEPT ![t] = r]
<1>1. T2[t] = r /\ \A u \in Tcb : u # t => T2[u] = T[u]
  OBVIOUS
<1>2. "a" \in Tcb /\ "b" \in Tcb /\ Kid \subseteq Tcb /\ "a" \notin Kid /\ "b" \notin Kid
  BY TcpAssumption DEF Tcb, Main
<1> HIDE DEF T2
<1>3. Sides(T2)
  BY <1>1, <1>2 DEF Sides
<1> QED BY <1>3 DEF T2

\* A live socket goes on with what it sends.
LEMMA SendPut ==
    ASSUME NEW T, NEW N, NEW S, NEW V, Good(T, N, S, V), NEW t \in Tcb, NEW r \in TcbType, NEW r2 \in TcbType,
           r = T[t], r.rport, r2.rport, r2.iss = r.iss, r2.rcv = r.rcv, r.nxt <= r2.nxt, r2.shut = r.shut,
           Live(r), Live(r2), r2.state \notin {"LISTEN", "SYN_RCVD", "SYN_SENT"}, EndOK(r2, S[t], V[t]),
           \A m \in r2.unaq : m \in r.unaq \/ r.nxt <= m.id,
           \A u \in Tcb : Host(u) # Host(t) /\ (To(T[u], r2) => To(T[u], r)) =>
               Stream(r2, S[t], V[t], T[u], S[u], V[u])
    PROVE  Good([T EXCEPT ![t] = r2], N, S, V)
<1> DEFINE T2 == [T EXCEPT ![t] = r2]
<1>0. /\ T \in [Tcb -> TcbType] /\ S \in [Tcb -> Nat] /\ V \in [Tcb -> Seq(Nat)]
      /\ Apart(T, S) /\ Room(T, S) /\ Sides(T) /\ Links(T)
  BY DEF Good, Typed
<1>1. /\ r.rcv \in Int /\ r.nxt \in Int /\ r2.nxt \in Int /\ r.iss \in Int /\ S[t] \in Nat /\ Len(V[t]) \in Int
      /\ \A u \in Tcb : T[u].rcv \in Int
  BY <1>0, TcbFields
<1>2. \A u \in Tcb : (To(r, T[u]) <=> To(r2, T[u])) /\ (To(T[u], r) => To(T[u], r2))
  BY <1>1 DEF To
<1>3. Sides(T2)
  BY <1>0, SidesPut
<1>4. \A u \in Tcb : T2[u].rport = T[u].rport /\ T2[u].iss = T[u].iss
  BY <1>0
<1>5. Apart(T2, S) /\ S = [S EXCEPT ![t] = S[t]]
  BY <1>0, <1>4, SameNumbers
<1>6. r2.iss + 1 <= r2.nxt /\ r2.nxt <= r2.iss + S[t] + 3
  BY <1>1, SpanOf
<1>7. \A u \in Tcb : Host(u) # Host(t) => (To(T[u], r2) => To(T[u], T[t]))
  <2> SUFFICES ASSUME NEW u \in Tcb, Host(u) # Host(t), To(T[u], r2) PROVE To(T[u], T[t])
    OBVIOUS
  <2>1. Apart([T EXCEPT ![t] = r2], [S EXCEPT ![t] = S[t]])
    BY <1>5
  <2>2. \A y \in Tcb : Host(y) # Host(t) /\ To(T[y], T[t]) => To(T[y], r2)
    BY <1>2
  <2> QED BY <1>1, <1>6, <2>1, <2>2, OldLinks
<1>8. Grown(T[t], S[t], V[t], r2, S[t], V[t])
  BY <1>1 DEF Grown
<1>9. \E y \in Tcb : Host(y) # Host(t) /\ To(r2, T[y]) /\ To(T[y], r2)
  <2>1. PICK y \in Tcb : Pair(T, t, y)
    BY <1>0 DEF Links
  <2> QED BY <1>2, <2>1 DEF Pair, Link
<1>10. \A u \in Tcb : Host(u) # Host(t) =>
          /\ To(T[t], T[u]) => To(r2, T[u])
          /\ To(T[u], T[t]) => To(T[u], r2)
          /\ Stream(r2, S[t], V[t], T[u], S[u], V[u])
  BY <1>2, <1>7
<1>11. Fits(T, S, V, t, r2, S[t], V[t])
  BY <1>8, <1>9, <1>10 DEF Fits
<1> QED BY <1>3, <1>11, PutSame

\* A segment that carries the number a linked socket waits for is acknowledged soundly.
LEMMA AcksOwn ==
    ASSUME NEW T \in [Tcb -> TcbType], NEW t \in Tcb, NEW u \in Tcb, Link(T, t, u)
    PROVE  Acks(T, t, T[t].rcv)
<1>1. T[t].rcv \in Int
  BY TcbFields
<1> QED BY <1>1 DEF Acks, Link, To

\* A live socket has its other end and acknowledges what it has taken.
LEMMA LiveLinked ==
    ASSUME NEW T, NEW N, NEW S, NEW V, Good(T, N, S, V), NEW t \in Tcb, Live(T[t])
    PROVE  /\ \E u \in Tcb : Pair(T, t, u)
           /\ Acks(T, t, T[t].rcv) /\ T[t].rport
<1>1. PICK u \in Tcb : Pair(T, t, u)
  BY DEF Good, Links
<1>2. T \in [Tcb -> TcbType]
  BY DEF Good, Typed
<1> QED BY <1>1, <1>2, AcksOwn DEF Pair, Link, To

\* tcp_tx_seg keeps everything sound, its segment included.
LEMMA SendingGood ==
    ASSUME NEW T, NEW N, NEW S, NEW V, Good(T, N, S, V), NEW t \in Tcb, NEW r \in TcbType, r = T[t],
           r.state \in {"ESTABLISHED", "CLOSE_WAIT"}, r.snd # <<>>
    PROVE  Good([T EXCEPT ![t] = Sending(r)], N \cup {Seg(Host(t), r.nxt, r.rcv, {"A"}, Head(r.snd))}, S, V)
<1> DEFINE r2 == Sending(r)
           T2 == [T EXCEPT ![t] = r2]
           d == Head(r.snd)
           s == Seg(Host(t), r.nxt, r.rcv, {"A"}, d)
<1>0. Live(r) /\ r.rport /\ Acks(T, t, r.rcv)
  <2>1. Live(r)
    BY DEF Live, Sync
  <2> QED BY <2>1, LiveLinked
<1>1. /\ S[t] \in Nat /\ V[t] \in Seq(Nat) /\ EndOK(r, S[t], V[t]) /\ r.iss + S[t] + 3 < SEQ
      /\ T \in [Tcb -> TcbType] /\ N \subseteq SegType
  BY GoodAt DEF Good, Typed
<1>2. /\ r2 \in TcbType /\ r2.unaq = r.unaq \cup {[id |-> r.nxt, data |-> d]}
      /\ r2.state = r.state /\ r2.rport = r.rport /\ r2.shut = r.shut /\ r2.iss = r.iss /\ r2.rcv = r.rcv
      /\ r2.nxt = Add(r.nxt, Len(d))
  BY SendingFields
<1>3. /\ d \in Mbuf /\ d \in Seq(Nat) /\ Len(d) \in Nat \ {0} /\ Run(d, r.nxt - r.iss)
      /\ r.nxt + Len(d) <= r.iss + 1 + S[t] /\ r2.nxt = r.nxt + Len(d)
  BY <1>0, <1>1, <1>2, HeadFacts
<1>4. r.nxt \in Int /\ r.nxt \in SeqNr /\ r.rcv \in SeqNr /\ r.iss \in Int
  BY TcbFields
<1>5. EndOK(r2, S[t], V[t])
  BY <1>0, <1>1, SendingEnd
<1>6. \A u \in Tcb : Host(u) # Host(t) /\ (To(T[u], r2) => To(T[u], r)) =>
               Stream(r2, S[t], V[t], T[u], S[u], V[u])
  <2> TAKE u \in Tcb
  <2> HAVE Host(u) # Host(t) /\ (To(T[u], r2) => To(T[u], r))
  <2>1. Stream(r, S[t], V[t], T[u], S[u], V[u]) /\ T[u] \in TcbType /\ S[u] \in Nat /\ V[u] \in Seq(Nat)
    BY GoodAt DEF Good, Streams
  <2> QED BY <1>0, <1>1, <2>1, SendingStream
<1> HIDE DEF r2
<1>7. Live(r2) /\ r.nxt <= r2.nxt /\ \A m \in r2.unaq : m \in r.unaq \/ r.nxt <= m.id
  <2>1. Live(r2)
    BY <1>0, <1>2 DEF Live
  <2>2. r.nxt <= r2.nxt
    <3> DEFINE l == Len(d)
    <3>1. l \in Nat /\ r2.nxt = r.nxt + l
      BY <1>3
    <3> HIDE DEF l, d
    <3> QED BY <1>4, <3>1
  <2> QED BY <1>2, <1>4, <2>1, <2>2
<1>8. Good(T2, N, S, V)
  BY <1>0, <1>2, <1>5, <1>6, <1>7, SendPut
<1>9. s \in SegType /\ s.from = Host(t) /\ s.seq = r.nxt /\ s.ack = r.rcv /\ s.fl = {"A"} /\ s.data = d
  <2>1. Host(t) \in Main
    BY DEF Host, Main
  <2> QED BY <1>3, <1>4, <2>1, SegOfType DEF Seg
<1>10. T2[t] = r2 /\ T2 \in [Tcb -> TcbType]
  BY <1>1, <1>2
<1> HIDE DEF T2, s
<1>11. Acks(T2, t, s.ack)
  <2>1. Live(T2[t]) /\ T2[t].rcv = s.ack
    BY <1>2, <1>7, <1>9, <1>10
  <2> QED BY <1>8, <2>1, LiveLinked
<1>12. \A m \in r2.unaq : Beside(m, s)
  <2> TAKE m \in r2.unaq
  <2>1. CASE m \in r.unaq
    <3>1. m.id + Len(m.data) <= r.nxt
      BY <1>0, <1>1, <2>1 DEF EndOK, Chain, UnaQue
    <3> QED BY <1>9, <3>1 DEF Beside
  <2>2. CASE m = [id |-> r.nxt, data |-> d]
    BY <1>9, <2>2 DEF Beside
  <2> QED BY <1>2, <2>1, <2>2
<1>13. Text(T2, S, t, s)
  <2>1. s.data # <<>>
    BY <1>3, <1>9 DEF Mbuf
  <2>2. T2[t].iss + 1 <= s.seq
    BY <1>0, <1>1, <1>2, <1>9, <1>10 DEF EndOK, Chain
  <2>3. s.seq + Len(s.data) <= T2[t].nxt /\ s.seq + Len(s.data) <= T2[t].iss + 1 + S[t]
    <3> DEFINE l == Len(d)
    <3>1. l \in Nat /\ r2.nxt = r.nxt + l /\ r.nxt + l <= r.iss + 1 + S[t]
      BY <1>3
    <3>2. s.seq = r.nxt /\ Len(s.data) = l /\ T2[t].nxt = r2.nxt /\ T2[t].iss = r.iss
      BY <1>2, <1>9, <1>10
    <3> HIDE DEF l, d
    <3> QED BY <1>4, <3>1, <3>2
  <2>4. Run(s.data, s.seq - T2[t].iss)
    BY <1>2, <1>3, <1>9, <1>10
  <2> QED BY <1>7, <1>9, <1>10, <1>11, <1>12, <2>1, <2>2, <2>3, <2>4 DEF Text
<1>14. SegOK(T2, S, V, s)
  BY <1>0, <1>2, <1>9, <1>10, <1>13 DEF SegOK, Sound
<1>15. Good(T2, N \cup {s}, S, V)
  <2>1. N \cup {s} \in SUBSET SegType
    BY <1>1, <1>9
  <2> QED BY <1>8, <1>14, <2>1, NetGood
<1> QED BY <1>15 DEF T2, s, r2

\* tcp_tx_fin: a FIN leaves once everything has been acknowledged.
Finishing(r) == [r EXCEPT !.state = FinState(@), !.nxt = Add(@, 1)]

\* What tcp_tx_fin changes, field by field.
LEMMA FinishingFields ==
    ASSUME NEW r \in TcbType
    PROVE  /\ Finishing(r) \in TcbType
           /\ Finishing(r).state = FinState(r.state) /\ Finishing(r).nxt = Add(r.nxt, 1)
           /\ Finishing(r).snd = r.snd /\ Finishing(r).unaq = r.unaq
           /\ Finishing(r).rport = r.rport /\ Finishing(r).shut = r.shut
           /\ Finishing(r).iss = r.iss /\ Finishing(r).una = r.una /\ Finishing(r).rcv = r.rcv
           /\ Finishing(r).dly = r.dly /\ Finishing(r).open = r.open
           /\ Finishing(r).cn = r.cn /\ Finishing(r).err = r.err
<1>1. Add(r.nxt, 1) \in SeqNr /\ FinState(r.state) \in State
  <2>1. Add(r.nxt, 1) \in SeqNr
    BY TcbFields, SeqNrNext
  <2>2. FinState(r.state) \in State
    BY TcbFields DEF FinState, State
  <2> QED BY <2>1, <2>2, Zenon
<1>2. Finishing(r) \in TcbType
  BY <1>1 DEF Finishing, TcbType
<1> QED BY <1>2 DEF Finishing, TcbType

\* A FIN takes the number behind the last byte.
LEMMA FinishingEnd ==
    ASSUME NEW r \in TcbType, NEW n \in Nat, NEW v, EndOK(r, n, v), r.rport, r.iss + n + 3 < SEQ,
           r.state \in {"ESTABLISHED", "CLOSE_WAIT"}, r.shut, r.snd = <<>>, r.unaq = {}
    PROVE  /\ EndOK(Finishing(r), n, v) /\ Finishing(r).nxt = r.nxt + 1 /\ Live(Finishing(r))
           /\ r.iss + 1 + n <= r.nxt
           /\ r.state = "ESTABLISHED" => Finishing(r).state = "FIN_WAIT1"
           /\ r.state = "CLOSE_WAIT" => Finishing(r).state = "LAST_ACK"
<1> DEFINE r2 == Finishing(r)
<1>0. /\ r2.nxt = Add(r.nxt, 1) /\ r2.snd = <<>> /\ r2.unaq = {} /\ r2.state = FinState(r.state)
      /\ r2.rport /\ r2.shut /\ r2.iss = r.iss /\ r2.una = r.una
      /\ r2.rcv = r.rcv /\ r2.dly = r.dly /\ r2.open = r.open /\ r2.cn = r.cn /\ r2.err = r.err
  BY FinishingFields
<1>1. /\ r.state = "ESTABLISHED" => r2.state = "FIN_WAIT1"
      /\ r.state = "CLOSE_WAIT" => r2.state = "LAST_ACK"
  BY <1>0 DEF FinState
<1>2. r.iss \in Int /\ r.nxt \in Nat /\ r.una \in Int /\ SEQ \in Int
  BY TcbFields, SeqNrInt, TcpAssumption
<1>3. Chain(r, n) /\ Finished(r, n)
  BY DEF EndOK, Chain
<1>4. \/ r.nxt = r.iss + 1 + n
      \/ r.nxt = r.iss + 2 + n /\ r.state = "CLOSE_WAIT"
  BY <1>3 DEF Finished
<1>5. r2.nxt = r.nxt + 1
  <2>1. r.nxt + 1 < SEQ
    BY <1>2, <1>4
  <2> QED BY <1>0, <1>2, <2>1, AddPlain
<1> HIDE DEF r2
<1>6. Finished(r2, n)
  BY <1>0, <1>1, <1>2, <1>4, <1>5, SMTT(30) DEF Finished
<1>7. Phase(r2) /\ Live(r2)
  BY <1>0, <1>1 DEF EndOK, Phase, Live
<1>8. UnaQue(r2) /\ SndQue(r2, n)
  <2>1. UnaQue(r2)
    BY <1>0 DEF UnaQue
  <2>2. SndQue(r2, n)
    BY <1>0 DEF SndQue
  <2> QED BY <2>1, <2>2
<1>9. Chain(r2, n)
  BY <1>0, <1>2, <1>3, <1>5, <1>6, <1>8 DEF Chain
<1>10. EndOK(r2, n, v)
  BY <1>0, <1>7, <1>9 DEF EndOK
<1> QED BY <1>1, <1>2, <1>4, <1>5, <1>7, <1>10 DEF r2

\* The streams are the same, only the state says that one has ended.
LEMMA FinishingStream ==
    ASSUME NEW r \in TcbType, NEW n \in Nat, NEW v \in Seq(Nat),
           r.state \in {"ESTABLISHED", "CLOSE_WAIT"}, NEW r2 \in TcbType, r2 = Finishing(r),
           r.state = "ESTABLISHED" => r2.state = "FIN_WAIT1",
           r.state = "CLOSE_WAIT" => r2.state = "LAST_ACK",
           NEW q \in TcbType, NEW k \in Nat, NEW w \in Seq(Nat), Stream(r, n, v, q, k, w),
           To(q, r2) => To(q, r)
    PROVE  Stream(r2, n, v, q, k, w)
<1>0. /\ r2.snd = r.snd /\ r2.unaq = r.unaq
      /\ r2.rport = r.rport /\ r2.shut = r.shut /\ r2.iss = r.iss /\ r2.rcv = r.rcv
  BY FinishingFields
<1>1. To(r2, q) <=> To(r, q)
  BY <1>0 DEF To
<1>2. Taking(r, v, q, k) => Taking(r2, v, q, k)
  BY <1>0 DEF Taking, RcvOpen, PeerDone
<1>3. Taking(q, w, r, n) => Taking(q, w, r2, n)
  BY <1>0 DEF Taking
<1>4. Kept(r, n, w) => Kept(r2, n, w)
  BY <1>0 DEF Kept, Queued
<1> QED BY <1>1, <1>2, <1>3, <1>4 DEF Stream

\* An end that keeps nothing any more has sent all the other has received.
LEMMA AllReceived ==
    ASSUME NEW r, r.snd = <<>>, r.unaq = {}, NEW n \in Nat, NEW w \in Seq(Nat), Kept(r, n, w), Len(w) <= n
    PROVE  Len(w) = n
<1>1. \A i : ~Queued(r, i)
  BY DEF Queued
<1>2. n # 0 => n \in 1..n
  OBVIOUS
<1>3. n # 0 => n <= Len(w)
  BY <1>1, <1>2 DEF Kept
<1>4. Len(w) \in Nat
  OBVIOUS
<1> QED BY <1>3, <1>4

\* tcp_tx_fin keeps everything sound, its segment included.
LEMMA FinishingGood ==
    ASSUME NEW T, NEW N, NEW S, NEW V, Good(T, N, S, V), NEW t \in Tcb, NEW r \in TcbType, r = T[t],
           r.state \in {"ESTABLISHED", "CLOSE_WAIT"}, r.shut, r.snd = <<>>, r.unaq = {}
    PROVE  Good([T EXCEPT ![t] = Finishing(r)], N \cup {Seg(Host(t), r.nxt, r.rcv, {"A", "F"}, <<>>)}, S, V)
<1> DEFINE r2 == Finishing(r)
           T2 == [T EXCEPT ![t] = r2]
           s == Seg(Host(t), r.nxt, r.rcv, {"A", "F"}, <<>>)
<1>0. Live(r) /\ r.rport
  <2>1. Live(r)
    BY DEF Live, Sync
  <2> QED BY <2>1, LiveLinked
<1>1. /\ S[t] \in Nat /\ V[t] \in Seq(Nat) /\ EndOK(r, S[t], V[t]) /\ r.iss + S[t] + 3 < SEQ
      /\ T \in [Tcb -> TcbType] /\ N \subseteq SegType
  BY GoodAt DEF Good, Typed
<1>2. /\ r2 \in TcbType /\ r2.unaq = {} /\ r2.snd = <<>>
      /\ r2.rport = r.rport /\ r2.shut = r.shut /\ r2.iss = r.iss /\ r2.rcv = r.rcv
  BY FinishingFields
<1>3. /\ EndOK(r2, S[t], V[t]) /\ r2.nxt = r.nxt + 1 /\ Live(r2) /\ r.iss + 1 + S[t] <= r.nxt
      /\ r.state = "ESTABLISHED" => r2.state = "FIN_WAIT1"
      /\ r.state = "CLOSE_WAIT" => r2.state = "LAST_ACK"
  BY <1>0, <1>1, FinishingEnd
<1>4. r.nxt \in Int /\ r.nxt \in SeqNr /\ r.rcv \in SeqNr /\ r.iss \in Int
  BY TcbFields
<1>5. \A u \in Tcb : Host(u) # Host(t) /\ (To(T[u], r2) => To(T[u], r)) =>
               Stream(r2, S[t], V[t], T[u], S[u], V[u])
  <2> TAKE u \in Tcb
  <2> HAVE Host(u) # Host(t) /\ (To(T[u], r2) => To(T[u], r))
  <2>1. Stream(r, S[t], V[t], T[u], S[u], V[u]) /\ T[u] \in TcbType /\ S[u] \in Nat /\ V[u] \in Seq(Nat)
    BY GoodAt DEF Good, Streams
  <2> QED BY <1>1, <1>2, <1>3, <2>1, FinishingStream
<1> HIDE DEF r2
<1>6. r.nxt <= r2.nxt /\ r2.state \notin {"LISTEN", "SYN_RCVD", "SYN_SENT"}
  BY <1>3, <1>4
<1>7. Good(T2, N, S, V)
  BY <1>0, <1>2, <1>3, <1>5, <1>6, SendPut
<1>8. s \in SegType /\ s.from = Host(t) /\ s.seq = r.nxt /\ s.ack = r.rcv /\ s.fl = {"A", "F"} /\ s.data = <<>>
  <2>1. Host(t) \in Main /\ <<>> \in Seq(Nat)
    BY DEF Host, Main
  <2> QED BY <1>4, <2>1, SegOfType DEF Seg
<1>9. T2[t] = r2 /\ T2 \in [Tcb -> TcbType]
  BY <1>1, <1>2
<1> HIDE DEF T2, s
<1>10. Acks(T2, t, s.ack)
  <2>1. Live(T2[t]) /\ T2[t].rcv = s.ack
    BY <1>2, <1>3, <1>8, <1>9
  <2> QED BY <1>7, <2>1, LiveLinked
<1>11. ASSUME NEW x \in Tcb, Pair(T2, x, t)
       PROVE  Len(V[x]) = S[t]
  <2>1. Host(x) # Host(t) /\ To(T2[x], T2[t]) /\ To(T2[t], T2[x])
    BY <1>11 DEF Pair, Link
  <2>2. Stream(T2[x], S[x], V[x], T2[t], S[t], V[t]) /\ V[x] \in Seq(Nat)
    BY <1>7, <2>1, GoodAt DEF Good, Streams
  <2>3. Kept(T2[t], S[t], V[x]) /\ Len(V[x]) <= S[t]
    BY <2>1, <2>2 DEF Stream, Taking
  <2> QED BY <1>1, <1>2, <1>9, <2>2, <2>3, AllReceived
<1>12. Fin(T2, S, V, t, s)
  <2>1. T2[t].iss + 1 + S[t] <= s.seq /\ s.seq < T2[t].nxt
    BY <1>2, <1>3, <1>4, <1>8, <1>9
  <2> QED BY <1>2, <1>8, <1>9, <1>10, <1>11, <2>1 DEF Fin
<1>13. SegOK(T2, S, V, s)
  BY <1>0, <1>2, <1>8, <1>9, <1>12 DEF SegOK, Sound
<1>14. Good(T2, N \cup {s}, S, V)
  <2>1. N \cup {s} \in SUBSET SegType
    BY <1>1, <1>8
  <2> QED BY <1>7, <1>13, <2>1, NetGood
<1> QED BY <1>14 DEF T2, s, r2

-----------------------------------------------------------------------------
(* The handlers of a segment.                                                *)

\* The second of two changes of a socket counts.
LEMMA PutTwice ==
    ASSUME NEW T \in [Tcb -> TcbType], NEW t \in Tcb, NEW r \in TcbType, NEW r2 \in TcbType
    PROVE  /\ [[T EXCEPT ![t] = r] EXCEPT ![t] = r2] = [T EXCEPT ![t] = r2]
           /\ [T EXCEPT ![t] = r][t] = r
           /\ [T EXCEPT ![t] = T[t]] = T
OBVIOUS

\* There are two hosts.
LEMMA HostTwo ==
    ASSUME NEW t, NEW u
    PROVE  Host(t) \in Main /\ (Host(u) # Host(t) <=> Host(u) = Other(Host(t)))
BY DEF Host, Main, Other

\* What tcp_tx_ack sends is sound if there is something to acknowledge.
LEMMA TxAckGood ==
    ASSUME NEW T, NEW N, NEW S, NEW V, Good(T, N, S, V), NEW t \in Tcb,
           Live(T[t]) \/ T[t].state = "SYN_RCVD"
    PROVE  /\ SegOK(T, S, V, tcp_tx_ack(Host(t), T[t])) /\ tcp_tx_ack(Host(t), T[t]) \in SegType
           /\ Good(T, N \cup {tcp_tx_ack(Host(t), T[t])}, S, V)
<1> DEFINE r == T[t]
           s == tcp_tx_ack(Host(t), r)
<1>0. T \in [Tcb -> TcbType] /\ r \in TcbType /\ Host(t) \in Main /\ N \subseteq SegType
  BY HostTwo DEF Good, Typed
<1>1. PICK u \in Tcb : Link(T, t, u)
  BY DEF Good, Links, Pair
<1>2. Acks(T, t, r.rcv) /\ r.rport
  BY <1>0, <1>1, AcksOwn DEF Link, To
<1>3. s \in SegType
  BY <1>0, TxAckType
<1>4. ASSUME r.state = "SYN_RCVD" PROVE SegOK(T, S, V, s)
  <2>1. s.from = Host(t) /\ s.seq = r.iss /\ s.ack = r.rcv /\ s.fl = {"S", "A"} /\ s.data = <<>>
    BY <1>4 DEF tcp_tx_ack, Seg
  <2>2. SynAck(T, t, s)
    BY <1>2, <2>1 DEF SynAck
  <2>3. Sound(T, S, V, t, s)
    BY <2>2, Zenon DEF Sound
  <2> QED BY <1>2, <2>1, <2>3, Zenon DEF SegOK
<1>5. ASSUME r.state # "SYN_RCVD" PROVE SegOK(T, S, V, s)
  <2>1. s.from = Host(t) /\ s.ack = r.rcv /\ s.fl = {"A"} /\ s.data = <<>>
    BY <1>5 DEF tcp_tx_ack, Seg
  <2>2. Ack(T, t, s)
    BY <1>2, <2>1 DEF Ack
  <2>3. Sound(T, S, V, t, s)
    BY <2>2, Zenon DEF Sound
  <2> QED BY <1>2, <2>1, <2>3, Zenon DEF SegOK
<1>6. SegOK(T, S, V, s)
  BY <1>4, <1>5
<1>7. Good(T, N \cup {s}, S, V)
  <2>1. N \cup {s} \in SUBSET SegType
    BY <1>0, <1>3
  <2> HIDE DEF s
  <2> QED BY <1>6, <2>1, NetGood
<1> QED BY <1>3, <1>6, <1>7

\* What a segment acknowledges to a live socket its other end has taken.
LEMMA AckedBy ==
    ASSUME NEW T, NEW N, NEW S, NEW V, Good(T, N, S, V), NEW t \in Tcb, Live(T[t]),
           NEW s \in SegType, SegOK(T, S, V, s), "A" \in s.fl, Host(t) # s.from
    PROVE  /\ T[t].iss + 1 <= s.ack /\ s.ack <= T[t].nxt
           /\ \E u \in Tcb : s.ack = T[t].iss + 1 \/ (Pair(T, t, u) /\ s.ack <= T[u].rcv)
<1> DEFINE x == s.ack
<1>0. x \in Int /\ s.from \in Main /\ T[t].iss \in Int /\ T[t].nxt \in Int /\ T[t].rport
  BY SegFields, GoodAt, TcbFields, LiveLinked
<1>1. ASSUME NEW u \in Tcb, NEW w \in Tcb, Host(w) = Host(t), Link(T, u, w), T[w].iss + 1 <= x, x <= T[u].rcv
      PROVE  /\ T[t].iss + 1 <= x /\ x <= T[t].nxt
             /\ x = T[t].iss + 1 \/ (Pair(T, t, u) /\ x <= T[u].rcv)
  BY <1>0, <1>1, AckFor
<1>2. CASE \E u \in Tcb : Host(u) = s.from /\ Sound(T, S, V, u, s)
  <2>1. PICK u \in Tcb : Host(u) = s.from /\ Sound(T, S, V, u, s)
    BY <1>2
  <2>2. Acks(T, u, x)
    BY <2>1 DEF Sound, Syn, SynAck, Ack, Text, Fin
  <2>3. PICK w \in Tcb : Link(T, u, w) /\ T[w].iss + 1 <= x /\ x <= T[u].rcv
    BY <2>2 DEF Acks
  <2>4. Host(w) = Host(t)
    BY <2>1, <2>3 DEF Link, Host
  <2> QED BY <1>1, <2>3, <2>4
<1>3. CASE Rst(T, s)
  <2>1. PICK w \in Tcb : Host(w) # s.from /\ Known(T, w, x)
    BY <1>3 DEF Rst
  <2>2. Host(w) = Host(t)
    BY <1>0, <2>1 DEF Host, Main
  <2>3. CASE \E u \in Tcb : Link(T, u, w) /\ x <= T[u].rcv
    BY <1>1, <2>1, <2>2, <2>3 DEF Known
  <2>4. CASE w \in Main /\ x = T[w].iss + 1
    <3>1. w = t
      <4>1. t = "a" => w = "a"
        BY <2>2 DEF Host
      <4>2. t # "a" => w = "b" /\ T["b"].rport
        BY <2>1, <2>2, <2>4 DEF Host, Main, Known
      <4>3. t # "a" => t = "b"
        BY <1>0, <4>2 DEF Good, Sides, Tcb, Main
      <4> QED BY <4>1, <4>2, <4>3
    <3>2. T[t].iss + 1 <= T[t].nxt
      BY <1>0, GoodSpans DEF Spans
    <3> QED BY <1>0, <2>4, <3>1, <3>2
  <2> QED BY <2>1, <2>3, <2>4 DEF Known
<1> QED BY <1>2, <1>3 DEF SegOK

\* A socket that is or was connected, in a state past the handshake, drops or sets a flag.
LEMMA DlyGood ==
    ASSUME NEW T, NEW N, NEW S, NEW V, Good(T, N, S, V), NEW t \in Tcb, NEW r \in TcbType, r = T[t],
           r.state \in Sync
    PROVE  /\ [r EXCEPT !.dly = FALSE] \in TcbType /\ [r EXCEPT !.dly = FALSE].state = r.state
           /\ [r EXCEPT !.dly = FALSE].rcv = r.rcv /\ [r EXCEPT !.dly = FALSE].shut = r.shut
           /\ Good([T EXCEPT ![t] = [r EXCEPT !.dly = FALSE]], N, S, V)
<1> DEFINE r2 == [r EXCEPT !.dly = FALSE]
<1>1. /\ r2 \in TcbType /\ r2.dly = FALSE /\ r2.state = r.state /\ r2.shut = r.shut /\ Core(r, r2)
      /\ r2.open = r.open /\ r2.cn = r.cn /\ r2.err = r.err
  BY DEF TcbType, Core
<1>2. Live(r) /\ r.rport /\ Phase(r) /\ r.state \notin {"LISTEN", "SYN_RCVD", "SYN_SENT"}
  <2>1. Live(r) /\ r.state \notin {"LISTEN", "SYN_RCVD", "SYN_SENT"}
    BY DEF Live, Sync
  <2> QED BY <2>1, LiveLinked, GoodAt
<1> HIDE DEF r2
<1>3. Phase(r2)
  BY <1>1, <1>2 DEF Phase, Core, Live
<1>4. Moves(r, r2)
  BY <1>1, <1>3 DEF Moves, Live
<1>5. T \in [Tcb -> TcbType] /\ Sides(T) /\ r2.rport
  BY <1>1, <1>2 DEF Good, Typed, Core
<1>6. Sides([T EXCEPT ![t] = r2])
  BY <1>1, <1>2, <1>5, SidesPut
<1>7. Good([T EXCEPT ![t] = r2], N, S, V)
  BY <1>1, <1>2, <1>4, <1>6, QuietPut
<1> QED BY <1>1, <1>7 DEF r2, Core

\* tcp_do_xmit keeps everything sound.
LEMMA XmitGood ==
    ASSUME NEW T, NEW N, NEW S, NEW V, Good(T, N, S, V), NEW t \in Tcb, NEW r \in TcbType, r = T[t],
           r.state \in {"ESTABLISHED", "CLOSE_WAIT"}, NEW y \in Reply, y = tcp_do_xmit(Host(t), r)
    PROVE  /\ Good([T EXCEPT ![t] = y.r], N \cup y.out, S, V)
           /\ y.r.rcv = r.rcv
           /\ r.state = "ESTABLISHED" => y.r.state \in {"ESTABLISHED", "FIN_WAIT1"}
           /\ r.state = "CLOSE_WAIT" => y.r.state \in {"CLOSE_WAIT", "LAST_ACK"}
<1> DEFINE h == Host(t)
           r1 == [r EXCEPT !.dly = FALSE]
           x == tcp_tx_seg(h, r1)
           z == tcp_tx_fin(h, x)
<1>0. T \in [Tcb -> TcbType] /\ h \in Main
  BY HostTwo DEF Good, Typed
<1>1. CASE r.una < Sub(r.nxt, 1)
  <2>1. y.r = r /\ y.out = {}
    BY <1>1 DEF tcp_do_xmit
  <2> QED BY <1>0, <2>1, PutTwice, ZenonT(30)
<1>2. CASE ~(r.una < Sub(r.nxt, 1))
  <2>0. y = z
    BY <1>2 DEF tcp_do_xmit
  <2>1. /\ r1 \in TcbType /\ r1.state = r.state /\ r1.rcv = r.rcv /\ r1.shut = r.shut
        /\ Good([T EXCEPT ![t] = r1], N, S, V)
    <3>1. r.state \in Sync
      BY DEF Sync
    <3> QED BY <3>1, DlyGood
  <2> HIDE DEF r1
  <2>2. x \in Reply /\ x.r \in TcbType
    BY <1>0, <2>1, TxSegType DEF Reply
  <2> DEFINE T1 == [T EXCEPT ![t] = r1]
             T2 == [T EXCEPT ![t] = x.r]
  <2>3. /\ Good(T2, N \cup x.out, S, V) /\ x.r.state = r.state /\ x.r.rcv = r.rcv
    <3>1. CASE r1.snd = <<>>
      <4>1. x.r = r1 /\ x.out = {}
        BY <3>1 DEF tcp_tx_seg
      <4> QED BY <2>1, <4>1
    <3>2. CASE r1.snd # <<>>
      <4>1. x.r = Sending(r1) /\ x.out = {Seg(h, r1.nxt, r1.rcv, {"A"}, Head(r1.snd))}
        BY <3>2 DEF tcp_tx_seg, Sending
      <4>2. r1 = T1[t] /\ [T1 EXCEPT ![t] = x.r] = T2
        <5> DEFINE z1 == x.r
        <5>1. z1 \in TcbType
          BY <2>2
        <5> HIDE DEF z1
        <5>2. r1 = T1[t] /\ [T1 EXCEPT ![t] = z1] = [T EXCEPT ![t] = z1]
          BY <1>0, <2>1, <5>1
        <5> QED BY <5>2 DEF z1
      <4>3. Good([T1 EXCEPT ![t] = Sending(r1)], N \cup x.out, S, V)
        <5> HIDE DEF T1, x
        <5>1. Good(T1, N, S, V) /\ r1.state \in {"ESTABLISHED", "CLOSE_WAIT"}
          BY <2>1 DEF T1
        <5> QED BY <2>1, <3>2, <4>1, <4>2, <5>1, SendingGood
      <4>4. x.r.state = r1.state /\ x.r.rcv = r1.rcv
        BY <2>1, <3>2, <4>1, SendingFields
      <4> QED BY <2>1, <4>1, <4>2, <4>3, <4>4
    <3> QED BY <3>1, <3>2
  <2> HIDE DEF x
  <2>4. CASE ~x.r.shut \/ x.r.snd # <<>> \/ x.r.unaq # {}
    <3>1. z = x
      BY <2>4 DEF tcp_tx_fin
    <3> QED BY <2>0, <2>3, <3>1
  <2>5. CASE x.r.shut /\ x.r.snd = <<>> /\ x.r.unaq = {}
    <3>1. z.r = Finishing(x.r) /\ z.out = x.out \cup {Seg(h, x.r.nxt, x.r.rcv, {"A", "F"}, <<>>)}
      BY <2>5 DEF tcp_tx_fin, Finishing
    <3>2. Finishing(x.r) \in TcbType /\ Finishing(x.r).rcv = x.r.rcv /\ Finishing(x.r).state = FinState(x.r.state)
      BY <2>2, FinishingFields
    <3>3. x.r = T2[t] /\ [T2 EXCEPT ![t] = Finishing(x.r)] = [T EXCEPT ![t] = Finishing(x.r)]
      <4> DEFINE z1 == x.r
                 z2 == Finishing(x.r)
      <4>1. z1 \in TcbType /\ z2 \in TcbType
        BY <2>2, <3>2
      <4> HIDE DEF z1, z2
      <4>2. z1 = [T EXCEPT ![t] = z1][t] /\ [[T EXCEPT ![t] = z1] EXCEPT ![t] = z2] = [T EXCEPT ![t] = z2]
        BY <1>0, <4>1
      <4> QED BY <4>2 DEF z1, z2
    <3>4. Good([T2 EXCEPT ![t] = Finishing(x.r)],
               (N \cup x.out) \cup {Seg(h, x.r.nxt, x.r.rcv, {"A", "F"}, <<>>)}, S, V)
      <4> HIDE DEF T2
      <4>1. x.r.state \in {"ESTABLISHED", "CLOSE_WAIT"}
        BY <2>3
      <4> QED BY <2>2, <2>3, <2>5, <3>3, <4>1, FinishingGood
    <3>5. (N \cup x.out) \cup {Seg(h, x.r.nxt, x.r.rcv, {"A", "F"}, <<>>)} = N \cup z.out
      BY <3>1
    <3>6. Good([T EXCEPT ![t] = z.r], N \cup z.out, S, V)
      BY <3>1, <3>3, <3>4, <3>5
    <3> QED BY <2>0, <2>3, <3>1, <3>2, <3>6 DEF FinState
  <2> QED BY <2>4, <2>5
<1> QED BY <1>1, <1>2

\* tcp_x_ack keeps everything sound.
LEMMA XAckGood ==
    ASSUME NEW T, NEW N, NEW S, NEW V, Good(T, N, S, V), NEW t \in Tcb, NEW r \in TcbType, r = T[t],
           r.state \in {"ESTABLISHED", "CLOSE_WAIT"}, NEW s \in SegType, SegOK(T, S, V, s), Host(t) # s.from,
           NEW y \in Reply, y = tcp_x_ack(Host(t), r, s)
    PROVE  /\ Good([T EXCEPT ![t] = y.r], N \cup y.out, S, V)
           /\ y.r.rcv = r.rcv /\ y.r.buf = r.buf
           /\ r.state = "ESTABLISHED" => y.r.state \in {"ESTABLISHED", "FIN_WAIT1"}
           /\ r.state = "CLOSE_WAIT" => y.r.state \in {"CLOSE_WAIT", "LAST_ACK"}
<1>0. T \in [Tcb -> TcbType] /\ Live(r) /\ r.rport /\ Host(t) \in Main
  <2>1. Live(r)
    BY DEF Live, Sync
  <2> QED BY <2>1, LiveLinked, HostTwo DEF Good, Typed
<1>1. CASE "A" \notin s.fl \/ SeqLE(s.ack, r.una)
  <2>1. y.r = r /\ y.out = {}
    BY <1>1 DEF tcp_x_ack
  <2>2. [T EXCEPT ![t] = r] = T /\ N \cup {} = N
    BY <1>0
  <2> QED BY <2>1, <2>2
<1>2. CASE ~("A" \notin s.fl \/ SeqLE(s.ack, r.una)) /\ SeqLT(r.nxt, s.ack)
  <2>1. y.r = r /\ y.out = {tcp_tx_ack(Host(t), r)}
    BY <1>2 DEF tcp_x_ack
  <2>2. Good(T, N \cup y.out, S, V)
    BY <1>0, <2>1, TxAckGood
  <2>3. [T EXCEPT ![t] = r] = T
    BY <1>0
  <2> QED BY <2>1, <2>2, <2>3
<1>3. CASE ~("A" \notin s.fl \/ SeqLE(s.ack, r.una)) /\ ~SeqLT(r.nxt, s.ack)
  <2> DEFINE r1 == Acked(r, s.ack)
             T1 == [T EXCEPT ![t] = r1]
  <2>1. y = tcp_do_xmit(Host(t), r1)
    BY <1>3 DEF tcp_x_ack, Acked
  <2>2. s.ack \in SeqNr /\ "A" \in s.fl
    BY <1>3, SegFields
  <2>3. Good(T1, N, S, V)
    <3>1. /\ r.iss + 1 <= s.ack /\ s.ack <= r.nxt
          /\ \E u \in Tcb : s.ack = r.iss + 1 \/ (Pair(T, t, u) /\ s.ack <= T[u].rcv)
      BY <1>0, <2>2, AckedBy
    <3> QED BY <1>0, <2>2, <3>1, AckedGood
  <2>4. r1 \in TcbType /\ r1.state = r.state /\ r1.rcv = r.rcv /\ r1.buf = r.buf
    <3>1. r1.buf = r.buf
      BY DEF Acked, TcbType
    <3> QED BY <2>2, <3>1, AckedFields
  <2>5. y.r \in TcbType
    BY DEF Reply
  <2> DEFINE z == y.r
  <2> HIDE DEF r1, z
  <2>6. r1 = T1[t] /\ [T1 EXCEPT ![t] = z] = [T EXCEPT ![t] = z]
    BY <1>0, <2>4, <2>5 DEF z
  <2>7. y.r.buf = r1.buf
    BY <1>0, <2>1, <2>4, XmitKeeps
  <2> HIDE DEF T1
  <2>8. /\ Good([T1 EXCEPT ![t] = y.r], N \cup y.out, S, V) /\ y.r.rcv = r1.rcv
        /\ r1.state = "ESTABLISHED" => y.r.state \in {"ESTABLISHED", "FIN_WAIT1"}
        /\ r1.state = "CLOSE_WAIT" => y.r.state \in {"CLOSE_WAIT", "LAST_ACK"}
    <3>1. r1.state \in {"ESTABLISHED", "CLOSE_WAIT"} /\ r1 = T1[t]
      BY <2>4, <2>6
    <3> QED BY <2>1, <2>3, <2>4, <3>1, XmitGood
  <2> QED BY <2>4, <2>6, <2>7, <2>8 DEF z
<1> QED BY <1>1, <1>2, <1>3

\* A socket waits for a number of one other only.
LEMMA ToUnique ==
    ASSUME NEW T \in [Tcb -> TcbType], NEW S \in [Tcb -> Nat], Apart(T, S), Spans(T, S), NEW r \in TcbType,
           NEW u \in Tcb, NEW v \in Tcb, Host(u) = Host(v), To(r, T[u]), To(r, T[v])
    PROVE  u = v
<1>1. /\ r.rcv \in Int /\ T[u].iss \in Int /\ T[v].iss \in Int /\ T[u].nxt \in Int /\ T[v].nxt \in Int
      /\ S[u] \in Nat /\ S[v] \in Nat
  BY TcbFields, SeqNrInt
<1> QED BY <1>1 DEF Apart, Spans, To

\* A socket takes something from its other end.
LEMMA TakePut ==
    ASSUME NEW T, NEW N, NEW S, NEW V, Good(T, N, S, V), NEW t \in Tcb, NEW r \in TcbType, r = T[t], Live(r),
           NEW u \in Tcb, Pair(T, t, u), NEW r2 \in TcbType, NEW v \in Seq(Nat),
           r2.rport = r.rport, r2.iss = r.iss, r2.nxt = r.nxt, r2.shut = r.shut, r2.snd = r.snd, r2.unaq = r.unaq,
           r.rcv <= r2.rcv, r2.rcv <= T[u].nxt, Len(V[t]) <= Len(v), Live(r2),
           r2.state \notin {"LISTEN", "SYN_RCVD", "SYN_SENT"},
           EndOK(r2, S[t], v), Taking(r2, v, T[u], S[u])
    PROVE  Good([T EXCEPT ![t] = r2], N, S, [V EXCEPT ![t] = v])
<1> DEFINE T2 == [T EXCEPT ![t] = r2]
           V2 == [V EXCEPT ![t] = v]
<1>0. /\ T \in [Tcb -> TcbType] /\ S \in [Tcb -> Nat] /\ V \in [Tcb -> Seq(Nat)]
      /\ Apart(T, S) /\ Room(T, S) /\ Sides(T) /\ Streams(T, S, V) /\ Spans(T, S)
  BY GoodSpans DEF Good, Typed
<1>1. /\ r.rcv \in Int /\ r2.rcv \in Int /\ T[u].iss \in Int /\ T[u].nxt \in Int /\ r.nxt \in Int
      /\ S[t] \in Nat /\ Len(V[t]) \in Nat /\ Len(v) \in Nat
  BY <1>0, TcbFields
<1>2. Host(u) # Host(t) /\ To(r, T[u]) /\ To(T[u], r) /\ r.rport
  BY DEF Pair, Link, To
<1>3. To(r2, T[u])
  BY <1>1, <1>2 DEF To
<1>4. \A y \in Tcb : Host(y) # Host(t) => Host(y) = Host(u)
  BY <1>2 DEF Host
<1>5. \A y \in Tcb : Host(y) # Host(t) /\ (To(r, T[y]) \/ To(r2, T[y])) => y = u
  BY <1>0, <1>2, <1>3, <1>4, ToUnique
<1>6. \A y \in Tcb : To(T[y], r2) <=> To(T[y], r)
  BY DEF To
<1>7. \A y \in Tcb : \A w, n : Taking(T[y], w, r, n) => Taking(T[y], w, r2, n)
  BY DEF Taking
<1>8. Kept(T[u], S[u], V[t]) => Kept(T[u], S[u], v)
  BY <1>1 DEF Kept
<1>9. \A n, w : Kept(r, n, w) => Kept(r2, n, w)
  BY DEF Kept, Queued
<1>10. ASSUME NEW y \in Tcb, Host(y) # Host(t)
       PROVE  Stream(r2, S[t], v, T[y], S[y], V[y])
  <2>1. Stream(r, S[t], V[t], T[y], S[y], V[y])
    BY <1>0, <1>10 DEF Streams
  <2>2. CASE y = u
    BY <1>2, <1>3, <1>7, <1>8, <1>9, <2>1, <2>2, Zenon DEF Stream
  <2>3. CASE y # u
    <3>1. ~To(r2, T[y])
      BY <1>5, <1>10, <2>3
    <3> QED BY <1>6, <1>7, <2>1, <3>1, Zenon DEF Stream
  <2> QED BY <2>2, <2>3
<1>11. EndOK(r2, S[t], v) /\ Grown(r, S[t], V[t], r2, S[t], v)
  BY <1>1 DEF Grown
<1>12. Fits(T, S, V, t, r2, S[t], v)
  <2>1. \A y \in Tcb : Host(y) # Host(t) /\ To(T[t], T[y]) => To(r2, T[y])
    BY <1>3, <1>5
  <2>2. \A y \in Tcb : To(T[y], T[t]) => To(T[y], r2)
    BY <1>6
  <2>3. \E y \in Tcb : Host(y) # Host(t) /\ To(r2, T[y]) /\ To(T[y], r2)
    BY <1>2, <1>3, <1>6
  <2>4. Grown(T[t], S[t], V[t], r2, S[t], v)
    BY <1>11
  <2> QED BY <1>10, <1>11, <2>1, <2>2, <2>3, <2>4 DEF Fits
<1>13. Sides(T2)
  BY <1>0, <1>2, SidesPut
<1>14. \A y \in Tcb : T2[y].rport = T[y].rport /\ T2[y].iss = T[y].iss
  BY <1>0
<1>15. Room(T2, S) /\ Apart(T2, S)
  BY <1>0, <1>14, SameNumbers
<1>16. S = [S EXCEPT ![t] = S[t]]
  BY <1>0
<1>17. ASSUME NEW n \in Nat, NEW S2, S2 = [S EXCEPT ![t] = n], Room(T2, S2), Apart(T2, S2),
              Fits(T, S, V, t, r2, n, v)
       PROVE  Good(T2, N, S2, V2)
  BY <1>13, <1>17, PutGood, Zenon
<1> QED BY <1>1, <1>12, <1>15, <1>16, <1>17, Zenon

\* Two runs of bytes, one behind the other, are one.
LEMMA RunCat ==
    ASSUME NEW v \in Seq(Nat), NEW d \in Seq(Nat), Run(v, 1), Run(d, Len(v) + 1)
    PROVE  Run(v \o d, 1) /\ Len(v \o d) = Len(v) + Len(d) /\ v \o d \in Seq(Nat)
<1>1. Len(v) \in Nat /\ Len(d) \in Nat /\ Len(v \o d) = Len(v) + Len(d) /\ v \o d \in Seq(Nat)
  OBVIOUS
<1>2. ASSUME NEW i \in 1..Len(v \o d)
      PROVE  (v \o d)[i] = 1 + (i - 1)
  <2>1. CASE i <= Len(v)
    <3>1. i \in 1..Len(v) /\ (v \o d)[i] = v[i]
      BY <1>1, <2>1
    <3> QED BY <3>1 DEF Run
  <2>2. CASE i > Len(v)
    <3>1. i - Len(v) \in 1..Len(d) /\ (v \o d)[i] = d[i - Len(v)]
      BY <1>1, <2>2
    <3>2. d[i - Len(v)] = (Len(v) + 1) + ((i - Len(v)) - 1)
      BY <3>1 DEF Run
    <3> QED BY <1>1, <3>1, <3>2
  <2> QED BY <1>1, <2>1, <2>2
<1> QED BY <1>1, <1>2 DEF Run

\* r2 differs from r in what it has received and in state
Kin(r, r2) ==
    /\ r2.rport = r.rport /\ r2.iss = r.iss /\ r2.una = r.una /\ r2.nxt = r.nxt /\ r2.shut = r.shut
    /\ r2.snd = r.snd /\ r2.unaq = r.unaq /\ r2.open = r.open /\ r2.cn = r.cn /\ r2.err = r.err

\* A segment with text that starts at the number waited for: the text is received.
LEMMA TextGood ==
    ASSUME NEW T, NEW N, NEW S, NEW V, Good(T, N, S, V), NEW t \in Tcb, NEW r \in TcbType, r = T[t],
           r.state \in {"ESTABLISHED", "FIN_WAIT1", "FIN_WAIT2"}, NEW s \in SegType, NEW u \in Tcb,
           Host(u) # Host(t), Text(T, S, u, s), r.rcv = s.seq, NEW r2 \in TcbType,
           r2.rcv = Add(r.rcv, Len(s.data)), r2.state = r.state, Kin(r, r2)
    PROVE  Good([T EXCEPT ![t] = r2], N, S, [V EXCEPT ![t] = V[t] \o s.data])
<1> USE DEF Kin
<1> DEFINE q == T[u]
           d == s.data
           l == Len(d)
           w == V[t]
           v == w \o d
           k == Len(w)
<1>0. T \in [Tcb -> TcbType] /\ V[t] \in Seq(Nat) /\ S[u] \in Nat /\ d \in Seq(Nat) /\ S[t] \in Nat
  BY GoodAt, SegFields DEF Good, Typed
<1>1. /\ r.rcv \in Nat /\ q.iss \in Int /\ q.nxt \in Int /\ l \in Nat /\ k \in Nat /\ r2.rcv \in Int /\ q.nxt < SEQ
      /\ SEQ \in Int
  <2>1. r \in TcbType /\ q \in TcbType /\ SEQ \in Nat
    BY <1>0, TcpAssumption
  <2>2. r.rcv \in SeqNr /\ q.iss \in SeqNr /\ q.nxt \in SeqNr /\ r2.rcv \in SeqNr
    BY <2>1, TcbFields
  <2>3. l \in Nat /\ k \in Nat
    BY <1>0
  <2> QED BY <2>1, <2>2, <2>3, SeqNrInt
<1>2. Live(r) /\ Live(q) /\ Live(r2)
  BY DEF Text, Live, Sync
<1>3. Pair(T, t, u)
  BY <1>2, LivePartner
<1>4. Taking(r, w, q, S[u])
  BY <1>3 DEF Good, Streams, Stream, Pair, Link
<1>5. Run(w, 1) /\ k <= S[u] /\ r.rcv = q.iss + 1 + k
  BY <1>4 DEF Taking, RcvOpen
<1>6. /\ Run(d, r.rcv - q.iss) /\ r.rcv + l <= q.nxt /\ r.rcv + l <= q.iss + 1 + S[u]
      /\ \A m \in q.unaq : \/ r.rcv + l <= m.id \/ m.id + Len(m.data) <= r.rcv
                           \/ r.rcv = m.id /\ Len(m.data) = l
  BY DEF Text, Beside
<1>7. r.rcv - q.iss = k + 1
  <2>1. \A x, y, z \in Int : x = y + 1 + z => x - y = z + 1
    OBVIOUS
  <2> HIDE DEF q, k
  <2> QED BY <1>1, <1>5, <2>1
<1>8. Run(v, 1) /\ Len(v) = k + l /\ v \in Seq(Nat)
  BY <1>0, <1>5, <1>6, <1>7, RunCat
<1>9. r2.rcv = r.rcv + l
  <2> HIDE DEF q, k, l
  <2>1. r.rcv + l < SEQ
    BY <1>1, <1>6
  <2>2. Add(r.rcv, l) = r.rcv + l
    BY <1>1, <2>1, AddPlain
  <2> QED BY <2>2 DEF l
<1> DEFINE lv == Len(v)
<1>10. lv = k + l /\ lv \in Nat
  <2>1. lv = k + l
    BY <1>8
  <2> HIDE DEF lv, k, l
  <2> QED BY <1>1, <2>1
<1>11. r.state \in RcvOpen /\ r.state \notin PeerDone /\ r.state \notin {"LISTEN", "SYN_RCVD", "SYN_SENT"}
  BY DEF RcvOpen, PeerDone
<1>12. \A m \in q.unaq : m.id \in Int /\ Len(m.data) \in Nat
  <2> TAKE m \in q.unaq
  <2>1. m.id \in SeqNr /\ m.data \in Mbuf
    BY <1>0, TcbFields
  <2> QED BY <2>1, SeqNrInt DEF Mbuf
<1> HIDE DEF k, l, v, w, q, lv, d
<1>13. /\ lv <= S[u] /\ r2.rcv = q.iss + 1 + lv /\ r2.rcv - q.iss - 1 <= lv
       /\ r2.rcv <= q.nxt /\ r.rcv <= r2.rcv /\ k <= lv
  <2>1. k <= S[u] /\ r.rcv = q.iss + 1 + k /\ r.rcv + l <= q.nxt /\ r.rcv + l <= q.iss + 1 + S[u]
    BY <1>5, <1>6
  <2> DEFINE n == S[u]
  <2>2. n \in Nat /\ k <= n /\ r.rcv + l <= q.iss + 1 + n
    BY <1>0, <2>1
  <2> HIDE DEF n
  <2>3. /\ lv <= n /\ r2.rcv = q.iss + 1 + lv /\ r2.rcv - q.iss - 1 <= lv
        /\ r2.rcv <= q.nxt /\ r.rcv <= r2.rcv /\ k <= lv
    BY <1>1, <1>9, <1>10, <2>1, <2>2
  <2> QED BY <2>3 DEF n
<1>14. \A m \in q.unaq : r2.rcv <= m.id \/ m.id + Len(m.data) <= r2.rcv
  <2> TAKE m \in q.unaq
  <2>1. CASE r.rcv + l <= m.id
    BY <1>9, <2>1
  <2>2. CASE m.id + Len(m.data) <= r.rcv
    <3> DEFINE e == m.id + Len(m.data)
    <3>1. e \in Int /\ e <= r.rcv
      BY <1>12, <2>2
    <3> HIDE DEF e
    <3>2. e <= r2.rcv
      BY <1>1, <1>13, <3>1
    <3> QED BY <3>2 DEF e
  <2>3. CASE r.rcv = m.id /\ Len(m.data) = l
    BY <1>1, <1>9, <2>3
  <2> QED BY <1>6, <2>1, <2>2, <2>3
<1>15. Taking(r2, v, q, S[u])
  BY <1>8, <1>11, <1>13, <1>14 DEF Taking, lv
<1>16. EndOK(r2, S[t], v)
  <2>1. EndOK(r, S[t], w) /\ r.rport
    BY <1>2, GoodAt, LiveLinked DEF w
  <2>2. Phase(r2)
    BY <1>2, <1>11, <2>1 DEF EndOK, Phase, Live
  <2>3. Chain(r2, S[t])
    <3>1. UnaQue(r) => UnaQue(r2)
      BY DEF UnaQue
    <3>2. SndQue(r, S[t]) => SndQue(r2, S[t])
      BY DEF SndQue
    <3>3. Finished(r, S[t]) => Finished(r2, S[t])
      BY DEF Finished
    <3> QED BY <2>1, <3>1, <3>2, <3>3 DEF EndOK, Chain
  <2> QED BY <1>2, <2>1, <2>2, <2>3 DEF EndOK
<1>17. Good([T EXCEPT ![t] = r2], N, S, [V EXCEPT ![t] = v])
  <2>1. r2.rcv <= T[u].nxt /\ Taking(r2, v, T[u], S[u])
    BY <1>13, <1>15 DEF q
  <2>2. Len(V[t]) <= Len(v)
    BY <1>13 DEF k, w, lv
  <2> QED BY <1>2, <1>3, <1>8, <1>11, <1>13, <1>16, <2>1, <2>2, TakePut
<1> QED BY <1>17 DEF v, w, d

\* An end that has sent a FIN keeps nothing any more.
LEMMA FinSent ==
    ASSUME NEW r \in TcbType, NEW n \in Nat, NEW v, EndOK(r, n, v), r.rport, r.nxt > r.iss + 1 + n
    PROVE  r.snd = <<>> /\ r.unaq = {}
<1>1. r.iss \in Int /\ r.nxt \in Int /\ r.snd \in Seq(Mbuf)
  BY TcbFields
<1>2. CASE r.snd = <<>>
  BY <1>1, <1>2 DEF EndOK, Chain, Finished
<1>3. CASE r.snd # <<>>
  <2>1. 1 \in 1..Len(r.snd) /\ r.snd[1] \in Mbuf
    BY <1>1, <1>3
  <2>2. Len(r.snd[1]) \in Nat /\ r.snd[1][1] \in Nat
    BY <2>1 DEF Mbuf
  <2>3. r.snd[1][1] = r.nxt - r.iss /\ r.snd[1][1] + Len(r.snd[1]) <= n + 1
    BY <1>3, <2>1 DEF EndOK, Chain, SndQue
  <2> DEFINE x == r.snd[1][1]
             l == Len(r.snd[1])
  <2>4. x \in Nat /\ l \in Nat /\ x = r.nxt - r.iss /\ x + l <= n + 1
    BY <2>2, <2>3
  <2> HIDE DEF x, l
  <2>5. FALSE
    BY <1>1, <2>4
  <2> QED BY <2>5
<1> QED BY <1>2, <1>3

\* A FIN is believed.
LEMMA FinGood ==
    ASSUME NEW T, NEW N, NEW S, NEW V, Good(T, N, S, V), NEW t \in Tcb, NEW r \in TcbType, r = T[t],
           r.state \in {"ESTABLISHED", "FIN_WAIT1", "FIN_WAIT2"}, NEW s \in SegType, NEW u \in Tcb,
           Host(u) # Host(t), Fin(T, S, V, u, s), NEW r2 \in TcbType,
           r2.rcv = r.rcv \/ (r.rcv = s.seq /\ r2.rcv = Add(r.rcv, 1)),
           r2.state = "CLOSE_WAIT" \/ (r.shut /\ r2.state \in {"CLOSING", "TIME_WAIT"}), Kin(r, r2)
    PROVE  Good([T EXCEPT ![t] = r2], N, S, V)
<1> USE DEF Kin
<1> DEFINE q == T[u]
<1>0. T \in [Tcb -> TcbType] /\ V \in [Tcb -> Seq(Nat)] /\ V[t] \in Seq(Nat) /\ S[u] \in Nat /\ S[t] \in Nat
  BY GoodAt DEF Good, Typed
<1>1. /\ r.rcv \in Nat /\ q.iss \in Int /\ q.nxt \in Int /\ r2.rcv \in Int /\ q.nxt < SEQ
      /\ SEQ \in Int /\ s.seq \in Int
  <2>1. r \in TcbType /\ q \in TcbType /\ SEQ \in Nat
    BY <1>0, TcpAssumption
  <2>2. r.rcv \in SeqNr /\ q.iss \in SeqNr /\ q.nxt \in SeqNr /\ r2.rcv \in SeqNr /\ s.seq \in Int
    BY <2>1, TcbFields, SegFields
  <2> QED BY <2>1, <2>2, SeqNrInt
<1>2. Live(r) /\ Live(q) /\ Live(r2) /\ q.shut
  BY DEF Fin, Live, Sync
<1>3. Pair(T, t, u)
  BY <1>2, LivePartner
<1>4. Taking(r, V[t], q, S[u]) /\ r.rcv <= q.nxt
  BY <1>3 DEF Good, Streams, Stream, Pair, Link, To
<1>5. Len(V[t]) = S[u] /\ q.iss + 1 + S[u] <= s.seq /\ s.seq < q.nxt
  BY <1>3 DEF Fin
<1>6. q.unaq = {}
  <2>1. EndOK(q, S[u], V[u]) /\ q.rport /\ q \in TcbType
    BY <1>2, GoodAt, LiveLinked
  <2>2. q.nxt > q.iss + 1 + S[u]
    BY <1>0, <1>1, <1>5
  <2> QED BY <1>0, <2>1, <2>2, FinSent
<1> HIDE DEF q
<1>7. r.rcv <= r2.rcv /\ r2.rcv <= q.nxt
  <2>1. CASE r2.rcv = r.rcv
    BY <1>1, <1>4, <2>1
  <2>2. CASE r.rcv = s.seq /\ r2.rcv = Add(r.rcv, 1)
    <3>1. r.rcv + 1 < SEQ
      BY <1>1, <1>5, <2>2
    <3>2. Add(r.rcv, 1) = r.rcv + 1
      BY <1>1, <3>1, AddPlain
    <3> QED BY <1>1, <1>5, <2>2, <3>2
  <2> QED BY <2>1, <2>2
<1>8. r2.state \notin RcvOpen /\ r2.state \notin {"LISTEN", "SYN_RCVD", "SYN_SENT"}
  BY DEF RcvOpen
<1>9. Taking(r2, V[t], q, S[u])
  BY <1>2, <1>4, <1>5, <1>6, <1>8 DEF Taking
<1>10. EndOK(r2, S[t], V[t])
  <2>1. EndOK(r, S[t], V[t]) /\ r.rport
    BY <1>2, GoodAt, LiveLinked
  <2>2. Phase(r2)
    BY <1>2, <1>8, <2>1 DEF EndOK, Phase, Live
  <2>3. Chain(r2, S[t])
    <3>1. UnaQue(r) => UnaQue(r2)
      BY DEF UnaQue
    <3>2. SndQue(r, S[t]) => SndQue(r2, S[t])
      BY DEF SndQue
    <3>3. Finished(r, S[t]) => Finished(r2, S[t])
      BY DEF Finished
    <3> QED BY <2>1, <3>1, <3>2, <3>3 DEF EndOK, Chain
  <2> QED BY <1>2, <2>1, <2>2, <2>3 DEF EndOK
<1>11. Good([T EXCEPT ![t] = r2], N, S, [V EXCEPT ![t] = V[t]])
  <2>1. r2.rcv <= T[u].nxt /\ Taking(r2, V[t], T[u], S[u])
    BY <1>7, <1>9 DEF q
  <2>2. Len(V[t]) <= Len(V[t])
    BY <1>0
  <2>3. ASSUME NEW v \in Seq(Nat), v = V[t] PROVE Good([T EXCEPT ![t] = r2], N, S, [V EXCEPT ![t] = v])
    BY <1>2, <1>3, <1>7, <1>8, <1>10, <2>1, <2>2, <2>3, TakePut
  <2> QED BY <1>0, <2>3, Zenon
<1>12. V = [V EXCEPT ![t] = V[t]]
  BY <1>0
<1> QED BY <1>11, <1>12

\* A reset that answers a sound segment is sound.
LEMMA ResetGood ==
    ASSUME NEW T, NEW N, NEW S, NEW V, Good(T, N, S, V), NEW s \in SegType, SegOK(T, S, V, s)
    PROVE  SegOK(T, S, V, tcp_tx_reset(s)) /\ tcp_tx_reset(s) \in SegType
<1> DEFINE z == tcp_tx_reset(s)
<1>0. s.from \in Main /\ s.seq \in Int /\ s.ack \in Int /\ Other(s.from) \in Main
  BY SegFields, OtherType
<1>1. \A u \in Tcb : (Host(u) # s.from <=> Host(u) = Other(s.from)) /\ (Host(u) = s.from <=> Host(u) # Other(s.from))
  BY <1>0 DEF Host, Main, Other
<1>2. ASSUME "A" \in s.fl PROVE SegOK(T, S, V, z)
  <2>1. z.from = Other(s.from) /\ z.seq = s.ack /\ z.fl = {"R"} /\ z.data = <<>>
    BY <1>2 DEF tcp_tx_reset, Seg
  <2>2. \E t \in Tcb : Host(t) # s.from /\ Known(T, t, s.ack)
    <3>1. CASE Rst(T, s)
      BY <1>2, <3>1 DEF Rst
    <3>2. CASE \E u \in Tcb : Host(u) = s.from /\ T[u].rport /\ Sound(T, S, V, u, s)
      <4>1. PICK u \in Tcb : Host(u) = s.from /\ T[u].rport /\ Sound(T, S, V, u, s)
        BY <3>2
      <4>2. Acks(T, u, s.ack)
        BY <1>2, <4>1 DEF Sound, Syn, SynAck, Ack, Text, Fin
      <4> QED BY <4>1, <4>2 DEF Acks, Known, Link, To
    <3> QED BY <3>1, <3>2 DEF SegOK
  <2> HIDE DEF z
  <2>3. Rst(T, z)
    BY <1>1, <2>1, <2>2 DEF Rst
  <2> QED BY <2>3 DEF SegOK
<1>3. ASSUME "A" \notin s.fl PROVE SegOK(T, S, V, z)
  <2>1. z.from = Other(s.from) /\ z.ack = Add(s.seq, SegLen(s)) /\ z.fl = {"R", "A"} /\ z.data = <<>>
    BY <1>3 DEF tcp_tx_reset, Seg
  <2>2. \E t \in Tcb : Host(t) = s.from /\ Known(T, t, z.ack)
    <3>1. CASE Rst(T, s)
      <4>1. PICK t \in Tcb : Host(t) = s.from /\ Known(T, t, s.seq) /\ s.fl = {"R"} /\ s.data = <<>>
        BY <1>3, <3>1 DEF Rst
      <4>2. SegLen(s) = 0
        BY <4>1 DEF SegLen
      <4>3. Add(s.seq, 0) = s.seq
        <5>1. s.seq \in Nat /\ s.seq + 0 < SEQ /\ 0 \in Nat
          BY SegFields, SeqNrInt
        <5>2. Add(s.seq, 0) = s.seq + 0
          BY <5>1, AddPlain, Zenon
        <5> QED BY <5>1, <5>2
      <4> QED BY <2>1, <4>1, <4>2, <4>3
    <3>2. CASE \E u \in Tcb : Host(u) = s.from /\ T[u].rport /\ Sound(T, S, V, u, s)
      <4>1. PICK u \in Tcb : Host(u) = s.from /\ T[u].rport /\ Sound(T, S, V, u, s)
        BY <3>2
      <4>2. Syn(T, u, s)
        BY <1>3, <4>1 DEF Sound, SynAck, Ack, Text, Fin
      <4>3. SegLen(s) = 1
        BY <4>2 DEF SegLen, Syn
      <4>4. Add(T[u].iss, 1) = T[u].iss + 1
        <5>1. T[u].iss \in Nat /\ T[u].iss + 1 < SEQ /\ 1 \in Nat
          <6>1. T[u].iss \in SeqNr /\ S[u] \in Nat /\ T[u].iss + S[u] + 3 < SEQ /\ SEQ \in Nat
            BY GoodAt, TcbFields, TcpAssumption
          <6> QED BY <6>1, SeqNrInt
        <5> QED BY <5>1, AddPlain, Zenon
      <4>5. Known(T, u, T[u].iss + 1)
        <5>1. T[u].iss \in Int
          BY GoodAt, TcbFields
        <5> QED BY <4>1, <4>2, <5>1 DEF Known, Syn
      <4> QED BY <2>1, <4>1, <4>2, <4>3, <4>4, <4>5 DEF Syn
    <3> QED BY <3>1, <3>2 DEF SegOK
  <2> HIDE DEF z
  <2>3. Rst(T, z)
    BY <1>1, <2>1, <2>2 DEF Rst
  <2> QED BY <2>3 DEF SegOK
<1> QED BY <1>2, <1>3, TxResetType

\* Nothing about the sides changes when state and port stay.
LEMMA SidesSame ==
    ASSUME NEW T, Sides(T), NEW T2, \A u \in Tcb : T2[u].state = T[u].state /\ T2[u].rport = T[u].rport
    PROVE  Sides(T2)
<1>1. "a" \in Tcb /\ "b" \in Tcb /\ Kid \subseteq Tcb
  BY DEF Tcb, Main
<1> QED BY <1>1 DEF Sides

\* how a connection winds up without more text or a FIN
Onward(st, st2) ==
    \/ st2 = st
    \/ st = "FIN_WAIT1" /\ st2 = "FIN_WAIT2"
    \/ st = "CLOSING" /\ st2 = "TIME_WAIT"
    \/ st \in {"LAST_ACK", "CLOSING", "TIME_WAIT"} /\ st2 = "CLOSED"

\* A live socket winds up or notes an error.
LEMMA QuietLive ==
    ASSUME NEW T, NEW N, NEW S, NEW V, Good(T, N, S, V), NEW t \in Tcb, NEW r \in TcbType, r = T[t], Live(r),
           NEW r2 \in TcbType, Core(r, r2), r2.shut = r.shut, r2.open = r.open, Onward(r.state, r2.state),
           (r2.cn = r.cn /\ r2.err = r.err) \/ (r2.err /\ r2.cn = Unblk(r.cn))
    PROVE  Good([T EXCEPT ![t] = r2], N, S, V) /\ Live(r2)
<1>0. T \in [Tcb -> TcbType] /\ Sides(T) /\ r.rport /\ Phase(r)
  BY GoodAt, LiveLinked DEF Good, Typed
<1>1. Live(r2)
  BY <1>0 DEF Live, Onward, Phase, Sync
<1>2. (r2.cn # "idle" => r.cn # "idle") /\ (r2.cn = "run" /\ ~r2.err => r.cn = "run" /\ ~r.err)
  BY DEF Unblk
<1>3. r.shut => r.cn = "idle"
  BY <1>0 DEF Phase
<1>4. Phase(r2)
  BY <1>0, <1>1, <1>2, <1>3 DEF Phase, Core, Onward, Sync
<1>5. Moves(r, r2)
  BY <1>1, <1>4 DEF Moves, Onward, RcvOpen, PeerDone
<1>6. Sides([T EXCEPT ![t] = r2])
  <2>1. CASE r2.state = r.state
    <3>1. \A u \in Tcb : [T EXCEPT ![t] = r2][u].state = T[u].state /\ [T EXCEPT ![t] = r2][u].rport = T[u].rport
      BY <1>0, <2>1 DEF Core
    <3> QED BY <1>0, <3>1, SidesSame
  <2>2. CASE r2.state # r.state
    BY <1>0, <2>2, SidesPut DEF Onward, Core
  <2> QED BY <2>1, <2>2
<1>7. Good([T EXCEPT ![t] = r2], N, S, V)
  BY <1>5, <1>6, QuietPut
<1> QED BY <1>1, <1>7

\* Socket t has become r2, sent out, and received what r2 has in buf_que and t had not.
Got(T, N, S, V, t, r2, out) ==
    \E d \in Seq(Nat) : /\ r2.buf = T[t].buf \o d
                        /\ Good([T EXCEPT ![t] = r2], N \cup out, S, [V EXCEPT ![t] = V[t] \o d])

\* It has received nothing.
LEMMA GotSame ==
    ASSUME NEW T, NEW N, NEW S, NEW V \in [Tcb -> Seq(Nat)], NEW t \in Tcb, T[t] \in TcbType, NEW r2, NEW out,
           r2.buf = T[t].buf, Good([T EXCEPT ![t] = r2], N \cup out, S, V)
    PROVE  Got(T, N, S, V, t, r2, out)
<1>1. \A z \in Seq(Nat) : z \o <<>> = z
  OBVIOUS
<1>2. V[t] \in Seq(Nat) /\ T[t].buf \in Seq(Nat) /\ <<>> \in Seq(Nat)
  BY TcbFields
<1>3. V[t] \o <<>> = V[t] /\ T[t].buf \o <<>> = T[t].buf
  BY <1>1, <1>2
<1>4. [V EXCEPT ![t] = V[t] \o <<>>] = V
  BY <1>3
<1> QED BY <1>2, <1>3, <1>4 DEF Got

\* It had already become r1.
LEMMA GotTrans ==
    ASSUME NEW T \in [Tcb -> TcbType], NEW N, NEW S, NEW V, NEW t \in Tcb, NEW r1 \in TcbType, r1.buf = T[t].buf,
           NEW T1, T1 = [T EXCEPT ![t] = r1], NEW N1, NEW r2, NEW out, NEW out2,
           Got(T1, N1, S, V, t, r2, out), N1 \cup out = N \cup out2
    PROVE  Got(T, N, S, V, t, r2, out2)
<1>1. T1[t].buf = T[t].buf /\ [T1 EXCEPT ![t] = r2] = [T EXCEPT ![t] = r2]
  OBVIOUS
<1> QED BY <1>1 DEF Got

\* What a segment without SYN and RST is.
LEMMA Plain ==
    ASSUME NEW T, NEW S, NEW V, NEW s \in SegType, SegOK(T, S, V, s), "S" \notin s.fl, "R" \notin s.fl,
           NEW t \in Tcb, Host(t) # s.from
    PROVE  \E u \in Tcb : /\ Host(u) = s.from /\ Host(u) # Host(t)
                          /\ "F" \in s.fl => Fin(T, S, V, u, s)
                          /\ "F" \notin s.fl => Ack(T, u, s) \/ Text(T, S, u, s)
<1>1. ~Rst(T, s)
  BY DEF Rst
<1>2. PICK u \in Tcb : Host(u) = s.from /\ Sound(T, S, V, u, s)
  BY <1>1 DEF SegOK
<1>3. "F" \in s.fl => Fin(T, S, V, u, s)
  BY <1>2 DEF Sound, Syn, SynAck, Ack, Text
<1>4. "F" \notin s.fl => Ack(T, u, s) \/ Text(T, S, u, s)
  BY <1>2 DEF Sound, Syn, SynAck, Fin
<1> QED BY <1>2, <1>3, <1>4

\* The fields of a tcp_t that has taken a segment.
LEMMA TakenFields ==
    ASSUME NEW x \in Reply, NEW s \in SegType
    PROVE  LET r == x.r
               r2 == Taken(x, s) IN
           /\ r2 \in TcbType /\ r2.rcv = Add(r.rcv, SegLen(s))
           /\ r2.buf = IF s.data = <<>> THEN r.buf ELSE r.buf \o s.data
           /\ r2.state = r.state /\ r2.rport = r.rport /\ r2.iss = r.iss /\ r2.una = r.una /\ r2.nxt = r.nxt
           /\ r2.shut = r.shut /\ r2.snd = r.snd /\ r2.unaq = r.unaq /\ r2.open = r.open /\ r2.cn = r.cn
           /\ r2.err = r.err
<1>1. x.r \in TcbType /\ Taken(x, s) \in TcbType
  BY TakenType DEF Reply
<1> QED BY <1>1 DEF Taken, TcbType

\* tcp_rx_data for a segment without a FIN keeps everything sound.
LEMMA RxTextGood ==
    ASSUME NEW T, NEW N, NEW S, NEW V, Good(T, N, S, V), NEW t \in Tcb, NEW r \in TcbType, r = T[t],
           r.state \in {"ESTABLISHED", "FIN_WAIT1", "FIN_WAIT2"}, NEW s \in N, Host(t) # s.from,
           s.fl \cap {"S", "R", "F"} = {}, NEW x \in Reply, x.r = r, x.out \subseteq N,
           NEW y \in Reply, y = tcp_rx_data(Host(t), x, s)
    PROVE  Got(T, N, S, V, t, y.r, y.out)
<1>0. T \in [Tcb -> TcbType] /\ V \in [Tcb -> Seq(Nat)] /\ s \in SegType /\ SegOK(T, S, V, s) /\ Live(r)
  <2>1. Live(r)
    BY DEF Live, Sync
  <2> QED BY <2>1 DEF Good, Typed
<1>1. [T EXCEPT ![t] = r] = T
  BY <1>0
<1>2. CASE x.r.rcv < s.seq
  <2>1. y.r = r /\ y.out = x.out \cup {tcp_tx_ack(Host(t), r)}
    BY <1>2 DEF tcp_rx_data, Reply
  <2>2. N \cup y.out = N \cup {tcp_tx_ack(Host(t), r)}
    BY <2>1
  <2>3. Good(T, N \cup y.out, S, V)
    BY <1>0, <2>2, TxAckGood
  <2> QED BY <1>0, <1>1, <2>1, <2>3, GotSame
<1>3. CASE ~(x.r.rcv < s.seq) /\ (x.r.rcv > s.seq \/ SegLen(s) = 0)
  <2>1. y = x /\ N \cup y.out = N
    BY <1>3 DEF tcp_rx_data
  <2> QED BY <1>0, <1>1, <2>1, GotSame
<1>4. CASE ~(x.r.rcv < s.seq) /\ ~(x.r.rcv > s.seq \/ SegLen(s) = 0)
  <2>1. y.r = Taken(x, s) /\ y.out = x.out /\ N \cup y.out = N
    BY <1>4 DEF tcp_rx_data, Reply
  <2>2. r.rcv = s.seq /\ SegLen(s) # 0
    <3>1. r.rcv \in Int /\ s.seq \in Int
      BY <1>0, TcbFields, SegFields
    <3> QED BY <1>4, <3>1
  <2>3. SegLen(s) = Len(s.data)
    <3>1. Len(s.data) \in Nat
      BY <1>0, SegFields
    <3>2. "S" \notin s.fl /\ "F" \notin s.fl
      OBVIOUS
    <3> QED BY <3>1, <3>2 DEF SegLen
  <2>4. s.data # <<>> /\ s.data \in Seq(Nat)
    <3>1. \A z \in Seq(Nat) : z = <<>> => Len(z) = 0
      OBVIOUS
    <3> QED BY <1>0, <2>2, <2>3, <3>1, SegFields
  <2>5. PICK u \in Tcb : Host(u) # Host(t) /\ Text(T, S, u, s)
    BY <1>0, <2>4, Plain DEF Ack
  <2> DEFINE r2 == y.r
  <2>6. /\ r2 \in TcbType /\ r2.rcv = Add(r.rcv, Len(s.data)) /\ r2.buf = r.buf \o s.data
        /\ r2.state = r.state /\ r2.rport = r.rport /\ r2.iss = r.iss /\ r2.una = r.una /\ r2.nxt = r.nxt
        /\ r2.shut = r.shut /\ r2.snd = r.snd /\ r2.unaq = r.unaq /\ r2.open = r.open /\ r2.cn = r.cn
        /\ r2.err = r.err
    <3> DEFINE z == Taken(x, s)
    <3>1. /\ z \in TcbType /\ z.rcv = Add(x.r.rcv, SegLen(s))
          /\ z.buf = IF s.data = <<>> THEN x.r.buf ELSE x.r.buf \o s.data
          /\ z.state = x.r.state /\ z.rport = x.r.rport /\ z.iss = x.r.iss /\ z.una = x.r.una /\ z.nxt = x.r.nxt
          /\ z.shut = x.r.shut /\ z.snd = x.r.snd /\ z.unaq = x.r.unaq /\ z.open = x.r.open /\ z.cn = x.r.cn
          /\ z.err = x.r.err
      BY <1>0, TakenFields, ZenonT(30)
    <3> HIDE DEF z
    <3>2. r2 = z
      BY <2>1 DEF z
    <3>3. z.rcv = Add(r.rcv, Len(s.data)) /\ z.buf = r.buf \o s.data
      BY <2>3, <2>4, <3>1
    <3> QED BY <3>1, <3>2, <3>3
  <2> HIDE DEF r2
  <2>7. Good([T EXCEPT ![t] = r2], N, S, [V EXCEPT ![t] = V[t] \o s.data])
    <3>1. Kin(r, r2)
      BY <2>6 DEF Kin
    <3>2. r2 \in TcbType /\ r2.rcv = Add(r.rcv, Len(s.data)) /\ r2.state = r.state
      BY <2>6
    <3> QED BY <1>0, <2>2, <2>5, <3>1, <3>2, TextGood
  <2>8. Got(T, N, S, V, t, r2, y.out)
    BY <2>1, <2>4, <2>6, <2>7 DEF Got
  <2> QED BY <2>8 DEF r2
<1> QED BY <1>2, <1>3, <1>4

\* tcp_rx_data for a FIN and the change of state that follows keep everything sound.
LEMMA RxFinGood ==
    ASSUME NEW T, NEW N, NEW S, NEW V, Good(T, N, S, V), NEW t \in Tcb, NEW r \in TcbType, r = T[t],
           r.state \in {"ESTABLISHED", "FIN_WAIT1", "FIN_WAIT2"}, NEW s \in N, Host(t) # s.from,
           "S" \notin s.fl, "R" \notin s.fl, "F" \in s.fl, NEW x \in Reply, x.r = r, x.out \subseteq N,
           NEW y \in Reply, y = tcp_rx_data(Host(t), x, s), NEW st \in State,
           st = "CLOSE_WAIT" \/ (r.shut /\ st \in {"CLOSING", "TIME_WAIT"})
    PROVE  Got(T, N, S, V, t, [y.r EXCEPT !.state = st], y.out)
<1>0. T \in [Tcb -> TcbType] /\ V \in [Tcb -> Seq(Nat)] /\ s \in SegType /\ SegOK(T, S, V, s) /\ Live(r)
  <2>1. Live(r)
    BY DEF Live, Sync
  <2> QED BY <2>1 DEF Good, Typed
<1>1. PICK u \in Tcb : Host(u) # Host(t) /\ Fin(T, S, V, u, s)
  BY <1>0, Plain
<1>2. s.data = <<>> /\ SegLen(s) = 1
  BY <1>1 DEF Fin, SegLen
<1>3. r.rcv \in Int /\ s.seq \in Int
  BY <1>0, TcbFields, SegFields
<1> DEFINE q == y.r
           r2 == [q EXCEPT !.state = st]
<1>4. /\ q \in TcbType /\ (q.rcv = r.rcv \/ (r.rcv = s.seq /\ q.rcv = Add(r.rcv, 1)))
      /\ q.buf = r.buf /\ q.state = r.state /\ q.rport = r.rport /\ q.iss = r.iss /\ q.una = r.una /\ q.nxt = r.nxt
      /\ q.shut = r.shut /\ q.snd = r.snd /\ q.unaq = r.unaq /\ q.open = r.open /\ q.cn = r.cn
      /\ q.err = r.err
  <2>1. CASE x.r.rcv < s.seq
    BY <2>1 DEF tcp_rx_data, Reply
  <2>2. CASE ~(x.r.rcv < s.seq) /\ x.r.rcv > s.seq
    BY <2>2 DEF tcp_rx_data
  <2>3. CASE ~(x.r.rcv < s.seq) /\ ~(x.r.rcv > s.seq)
    <3>1. y.r = Taken(x, s) /\ r.rcv = s.seq
      BY <1>2, <1>3, <2>3 DEF tcp_rx_data, Reply
    <3> QED BY <1>0, <1>2, <3>1, TakenFields
  <2> QED BY <2>1, <2>2, <2>3
<1>5. Good(T, N \cup y.out, S, V)
  <2>1. N \cup y.out = N \/ N \cup y.out = N \cup {tcp_tx_ack(Host(t), r)}
    BY DEF tcp_rx_data, Reply
  <2>2. Good(T, N \cup {tcp_tx_ack(Host(t), r)}, S, V)
    BY <1>0, TxAckGood
  <2> QED BY <2>1, <2>2
<1> HIDE DEF q
<1>6. /\ r2 \in TcbType /\ r2.rcv = q.rcv /\ r2.state = st
      /\ r2.buf = q.buf /\ r2.rport = q.rport /\ r2.iss = q.iss /\ r2.una = q.una /\ r2.nxt = q.nxt
      /\ r2.shut = q.shut /\ r2.snd = q.snd /\ r2.unaq = q.unaq /\ r2.open = q.open /\ r2.cn = q.cn
      /\ r2.err = q.err
  BY <1>4 DEF TcbType
<1> HIDE DEF r2
<1>7. Good([T EXCEPT ![t] = r2], N \cup y.out, S, V)
  <2>1. Kin(r, r2)
    BY <1>4, <1>6 DEF Kin
  <2>2. /\ r2 \in TcbType /\ (r2.rcv = r.rcv \/ (r.rcv = s.seq /\ r2.rcv = Add(r.rcv, 1)))
        /\ (r2.state = "CLOSE_WAIT" \/ (r.shut /\ r2.state \in {"CLOSING", "TIME_WAIT"}))
    BY <1>4, <1>6
  <2> QED BY <1>0, <1>1, <1>5, <2>1, <2>2, FinGood
<1>8. Got(T, N, S, V, t, r2, y.out)
  BY <1>0, <1>4, <1>6, <1>7, GotSame
<1> QED BY <1>8 DEF r2, q

\* The fields after an error, after a release and after a change of state.
LEMMA ExitFields ==
    ASSUME NEW r \in TcbType
    PROVE  LET r2 == tcp_exit_with(r) IN
           /\ r2 \in TcbType /\ Core(r, r2) /\ r2.state = r.state /\ r2.shut = r.shut /\ r2.open = r.open
           /\ r2.buf = r.buf /\ r2.err /\ r2.cn = Unblk(r.cn) /\ r2.dly = r.dly
<1>1. tcp_exit_with(r) \in TcbType
  BY ExitType
<1> QED BY <1>1 DEF tcp_exit_with, TcbType, Core

\* r2 has the numbers, queues and flags of r
Flat(r, r2) ==
    /\ Core(r, r2) /\ r2.shut = r.shut /\ r2.open = r.open /\ r2.cn = r.cn /\ r2.err = r.err
    /\ r2.buf = r.buf /\ r2.dly = r.dly

\* A change of state, of a timer or of the lists.
LEMMA FlatSmall ==
    ASSUME NEW r \in TcbType
    PROVE  /\ \A st \in State : LET r2 == [r EXCEPT !.state = st] IN r2 \in TcbType /\ Flat(r, r2) /\ r2.state = st
           /\ tcp_release(r) \in TcbType /\ Flat(r, tcp_release(r)) /\ tcp_release(r).state = r.state
           /\ tcp_do_timewait(r) \in TcbType /\ Flat(r, tcp_do_timewait(r)) /\ tcp_do_timewait(r).state = r.state
<1>1. \A st \in State : LET r2 == [r EXCEPT !.state = st] IN r2 \in TcbType /\ Flat(r, r2) /\ r2.state = st
  BY DEF TcbType, Flat, Core
<1>2. tcp_release(r) \in TcbType /\ Flat(r, tcp_release(r)) /\ tcp_release(r).state = r.state
  <2>1. tcp_release(r) \in TcbType
    BY ReleaseType
  <2> QED BY <2>1 DEF TcbType, Flat, Core, tcp_release
<1>3. tcp_do_timewait(r) \in TcbType /\ Flat(r, tcp_do_timewait(r)) /\ tcp_do_timewait(r).state = r.state
  <2>1. tcp_do_timewait(r) \in TcbType
    BY ReleaseType
  <2>2. PICK w : tcp_do_timewait(r) = [r EXCEPT !.wait = w]
    BY Zenon DEF tcp_do_timewait
  <2> QED BY <2>1, <2>2 DEF TcbType, Flat, Core
<1> QED BY <1>1, <1>2, <1>3

\* Flat changes compose.
LEMMA FlatTrans ==
    ASSUME NEW r, NEW r1, NEW r2, Flat(r, r1), Flat(r1, r2)
    PROVE  Flat(r, r2)
BY DEF Flat, Core

\* tcp_rx_data only adds to what is sent.
LEMMA RxDataOut ==
    ASSUME NEW h, NEW x \in Reply, NEW s
    PROVE  x.out \subseteq tcp_rx_data(h, x, s).out
BY DEF tcp_rx_data, Reply

\* An error is noted by a live socket.
LEMMA ExitGood ==
    ASSUME NEW T, NEW N, NEW S, NEW V, Good(T, N, S, V), NEW t \in Tcb, NEW r \in TcbType, r = T[t], Live(r)
    PROVE  Good([T EXCEPT ![t] = tcp_exit_with(r)], N, S, V)
<1> DEFINE r2 == tcp_exit_with(r)
<1>1. /\ r2 \in TcbType /\ Core(r, r2) /\ r2.state = r.state /\ r2.shut = r.shut /\ r2.open = r.open
      /\ r2.buf = r.buf /\ r2.err /\ r2.cn = Unblk(r.cn)
  BY ExitFields, Zenon
<1> HIDE DEF r2
<1>2. Onward(r.state, r2.state)
  BY <1>1 DEF Onward
<1>3. Good([T EXCEPT ![t] = r2], N, S, V)
  BY <1>1, <1>2, QuietLive
<1> QED BY <1>3 DEF r2

\* A live socket winds up.
LEMMA FlatGood ==
    ASSUME NEW T, NEW N, NEW S, NEW V, Good(T, N, S, V), NEW t \in Tcb, NEW r \in TcbType, r = T[t], Live(r),
           NEW r2 \in TcbType, Flat(r, r2), Onward(r.state, r2.state)
    PROVE  /\ Good([T EXCEPT ![t] = r2], N, S, V) /\ Live(r2)
           /\ Got(T, N, S, V, t, r2, {}) /\ Got(T, N, S, V, t, r2, {tcp_tx_ack(Host(t), r2)})
<1>0. T \in [Tcb -> TcbType] /\ V \in [Tcb -> Seq(Nat)] /\ r2.buf = T[t].buf
  BY DEF Good, Typed, Flat
<1>1. Good([T EXCEPT ![t] = r2], N, S, V) /\ Live(r2)
  <2>1. Core(r, r2) /\ r2.shut = r.shut /\ r2.open = r.open /\ r2.cn = r.cn /\ r2.err = r.err
    BY DEF Flat
  <2> QED BY <2>1, QuietLive
<1> DEFINE T2 == [T EXCEPT ![t] = r2]
<1>2. T2[t] = r2 /\ N \cup {} = N
  BY <1>0
<1>3. Good(T2, N \cup {tcp_tx_ack(Host(t), r2)}, S, V)
  <2> HIDE DEF T2
  <2>1. Good(T2, N, S, V) /\ Live(T2[t])
    BY <1>1, <1>2 DEF T2
  <2> QED BY <1>2, <2>1, TxAckGood
<1>4. Got(T, N, S, V, t, r2, {})
  BY <1>0, <1>1, <1>2, GotSame
<1> QED BY <1>0, <1>1, <1>3, <1>4, GotSame

\* tcp_rx_established keeps everything sound.
LEMMA EstablishedGood ==
    ASSUME NEW T, NEW N, NEW S, NEW V, Good(T, N, S, V), NEW t \in Tcb, NEW r \in TcbType, r = T[t],
           r.state = "ESTABLISHED", NEW s \in N, Host(t) # s.from,
           NEW y \in Reply, y = tcp_rx_established(Host(t), r, s)
    PROVE  Got(T, N, S, V, t, y.r, y.out)
<1> DEFINE h == Host(t)
<1>0. /\ T \in [Tcb -> TcbType] /\ V \in [Tcb -> Seq(Nat)] /\ s \in SegType /\ SegOK(T, S, V, s) /\ Live(r)
      /\ h \in Main /\ Flat(r, r) /\ Onward(r.state, r.state)
  <2>1. Live(r) /\ Flat(r, r) /\ Onward(r.state, r.state)
    BY DEF Live, Sync, Flat, Core, Onward
  <2> QED BY <2>1, HostTwo DEF Good, Typed
<1>1. CASE "R" \in s.fl
  <2>1. y.r = tcp_exit_with(r) /\ y.out = {}
    BY <1>1 DEF tcp_rx_established, Same
  <2>2. tcp_exit_with(r).buf = r.buf
    BY ExitFields, Zenon
  <2>3. Good([T EXCEPT ![t] = y.r], N \cup y.out, S, V)
    <3>1. N \cup {} = N
      OBVIOUS
    <3> QED BY <1>0, <2>1, <3>1, ExitGood
  <2> QED BY <1>0, <2>1, <2>2, <2>3, GotSame
<1>2. CASE "R" \notin s.fl /\ "S" \in s.fl
  <2>1. y.r = r /\ y.out = {tcp_tx_ack(h, r)}
    BY <1>2 DEF tcp_rx_established
  <2>2. Got(T, N, S, V, t, r, {tcp_tx_ack(Host(t), r)})
    BY <1>0, FlatGood, Zenon
  <2> QED BY <2>1, <2>2
<1>4. ASSUME NEW z \in Reply, z = tcp_x_ack(Host(t), r, s)
      PROVE  /\ Good([T EXCEPT ![t] = z.r], N \cup z.out, S, V)
             /\ z.r.buf = r.buf /\ z.r.state \in {"ESTABLISHED", "FIN_WAIT1", "FIN_WAIT2"}
  <2>1. r.state \in {"ESTABLISHED", "CLOSE_WAIT"}
    OBVIOUS
  <2>2. /\ Good([T EXCEPT ![t] = z.r], N \cup z.out, S, V) /\ z.r.rcv = r.rcv /\ z.r.buf = r.buf
        /\ r.state = "ESTABLISHED" => z.r.state \in {"ESTABLISHED", "FIN_WAIT1"}
    <3>1. s \in SegType /\ SegOK(T, S, V, s) /\ z = tcp_x_ack(Host(t), T[t], s) /\ T[t] \in TcbType
      BY <1>0, <1>4
    <3>2. T[t].state \in {"ESTABLISHED", "CLOSE_WAIT"}
      BY <2>1
    <3> QED BY <3>1, <3>2, XAckGood
  <2> QED BY <2>2
<1>3. CASE "R" \notin s.fl /\ "S" \notin s.fl
  <2> DEFINE x1 == tcp_x_ack(h, r, s)
             r1 == x1.r
             x == tcp_rx_data(h, x1, s)
             T1 == [T EXCEPT ![t] = r1]
             N1 == N \cup x1.out
  <2>1. x1 \in Reply /\ x \in Reply /\ r1 \in TcbType /\ x1.out \subseteq x.out
    BY <1>0, XAckType, RxDataType, RxDataOut DEF Reply
  <2>2. Good(T1, N1, S, V) /\ r1.buf = r.buf /\ r1.state \in {"ESTABLISHED", "FIN_WAIT1", "FIN_WAIT2"}
    BY <1>4, <2>1, Zenon
  <2>3. IF "F" \in s.fl THEN y = [x EXCEPT !.r.state = "CLOSE_WAIT"] ELSE y = x
    BY <1>3 DEF tcp_rx_established
  <2>4. T1[t] = r1 /\ s \in N1 /\ x1.out \subseteq N1
    BY <1>0, <2>1
  <2>5. N1 \cup x.out = N \cup x.out
    BY <2>1
  <2>6. x1.r = r1 /\ x = tcp_rx_data(Host(t), x1, s)
    OBVIOUS
  <2> HIDE DEF x1, x, r1, N1
  <2>7. CASE "F" \notin s.fl
    <3>1. Got(T1, N1, S, V, t, x.r, x.out)
      <4> HIDE DEF T1
      <4>1. s.fl \cap {"S", "R", "F"} = {}
        BY <1>3, <2>7
      <4> QED BY <2>1, <2>2, <2>4, <2>6, <4>1, RxTextGood
    <3> QED BY <1>0, <2>1, <2>2, <2>3, <2>5, <2>7, <3>1, GotTrans
  <2>8. CASE "F" \in s.fl
    <3>1. Got(T1, N1, S, V, t, [x.r EXCEPT !.state = "CLOSE_WAIT"], x.out)
      <4> HIDE DEF T1
      <4>1. "CLOSE_WAIT" \in State
        BY DEF State
      <4> QED BY <1>3, <2>1, <2>2, <2>4, <2>6, <2>8, <4>1, RxFinGood
    <3>2. y.r = [x.r EXCEPT !.state = "CLOSE_WAIT"] /\ y.out = x.out
      BY <2>1, <2>3, <2>8 DEF Reply
    <3>3. Got(T1, N1, S, V, t, y.r, y.out)
      <4> HIDE DEF T1
      <4> QED BY <3>1, <3>2
    <3>4. N1 \cup y.out = N \cup y.out
      BY <2>5, <3>2
    <3> HIDE <3>1, <3>2
    <3> QED BY <1>0, <2>1, <2>2, <3>3, <3>4, GotTrans
  <2> QED BY <2>7, <2>8
<1> QED BY <1>1, <1>2, <1>3

\* tcp_rx_closewait keeps everything sound.
LEMMA ClosewaitGood ==
    ASSUME NEW T, NEW N, NEW S, NEW V, Good(T, N, S, V), NEW t \in Tcb, NEW r \in TcbType, r = T[t],
           r.state = "CLOSE_WAIT", NEW s \in N, Host(t) # s.from,
           NEW y \in Reply, y = tcp_rx_closewait(Host(t), r, s)
    PROVE  Got(T, N, S, V, t, y.r, y.out)
<1> DEFINE h == Host(t)
           r1 == IF "R" \in s.fl THEN tcp_exit_with(r) ELSE r
           T1 == [T EXCEPT ![t] = r1]
<1>0. /\ T \in [Tcb -> TcbType] /\ V \in [Tcb -> Seq(Nat)] /\ s \in SegType /\ Live(r) /\ h \in Main
  <2>1. Live(r)
    BY DEF Live, Sync
  <2> QED BY <2>1, HostTwo DEF Good, Typed
<1>1. r1 \in TcbType /\ r1.buf = r.buf /\ r1.state = "CLOSE_WAIT"
  BY ExitFields
<1>2. Good(T1, N, S, V)
  <2>1. [T EXCEPT ![t] = r] = T
    BY <1>0
  <2> QED BY <1>0, <2>1, ExitGood
<1>3. IF "S" \in s.fl THEN y.r = r1 /\ y.out = {tcp_tx_ack(h, r1)} ELSE y = tcp_x_ack(h, r1, s)
  BY DEF tcp_rx_closewait
<1> HIDE DEF r1
<1>4. T1[t] = r1
  BY <1>0
<1>5. Got(T1, N, S, V, t, y.r, y.out)
  <2> HIDE DEF T1
  <2>1. CASE "S" \in s.fl
    <3>1. Flat(r1, r1) /\ Onward(r1.state, r1.state) /\ Live(r1)
      BY <1>1 DEF Flat, Core, Onward, Live, Sync
    <3>2. Got(T1, N, S, V, t, r1, {tcp_tx_ack(Host(t), r1)})
      BY <1>1, <1>2, <1>4, <3>1, FlatGood, Zenon
    <3> QED BY <1>3, <2>1, <3>2
  <2>2. CASE "S" \notin s.fl
    <3>1. SegOK(T1, S, V, s) /\ y = tcp_x_ack(Host(t), r1, s)
      BY <1>2, <1>3, <2>2 DEF Good
    <3>2. Good([T1 EXCEPT ![t] = y.r], N \cup y.out, S, V) /\ y.r.buf = r1.buf
      <4>1. r1.state \in {"ESTABLISHED", "CLOSE_WAIT"}
        BY <1>1
      <4>2. s \in SegType /\ r1 \in TcbType /\ r1 = T1[t] /\ Good(T1, N, S, V)
        BY <1>0, <1>1, <1>2, <1>4 DEF T1
      <4> QED BY <3>1, <4>1, <4>2, XAckGood
    <3> QED BY <1>0, <1>1, <1>4, <3>2, GotSame
  <2> QED BY <2>1, <2>2
<1> QED BY <1>0, <1>1, <1>5, GotTrans

\* Where a reset leaves the socket in one of the last states.
LEMMA EndReset ==
    ASSUME NEW r \in TcbType, r.state \in {"LAST_ACK", "CLOSING", "TIME_WAIT"}, NEW b \in BOOLEAN
    PROVE  LET r1 == IF b THEN [tcp_release(r) EXCEPT !.state = "CLOSED"] ELSE r IN
           r1 \in TcbType /\ Flat(r, r1) /\ r1.state \in {r.state, "CLOSED"}
<1>1. tcp_release(r) \in TcbType /\ Flat(r, tcp_release(r)) /\ "CLOSED" \in State
  BY FlatSmall DEF State
<1> DEFINE q == tcp_release(r)
           r1 == [q EXCEPT !.state = "CLOSED"]
<1>2. r1 \in TcbType /\ Flat(q, r1) /\ r1.state = "CLOSED"
  <2> HIDE DEF q
  <2>1. q \in TcbType /\ "CLOSED" \in State
    BY <1>1 DEF q
  <2> QED BY <2>1, FlatSmall, Zenon
<1>3. Flat(r, r1)
  BY <1>1, <1>2, FlatTrans, Zenon
<1>4. Flat(r, r)
  BY DEF Flat, Core
<1> HIDE DEF r1, q
<1>5. (IF b THEN r1 ELSE r) \in TcbType /\ Flat(r, IF b THEN r1 ELSE r) /\ (IF b THEN r1 ELSE r).state \in {r.state, "CLOSED"}
  BY <1>2, <1>3, <1>4
<1> QED BY <1>5 DEF r1, q

\* tcp_rx_lastack, tcp_rx_closing and tcp_rx_timewait: how the socket may change and what it sends.
LEMMA EndFlat ==
    ASSUME NEW h \in Main, NEW r \in TcbType, NEW s, NEW y \in Reply,
           \/ r.state = "LAST_ACK" /\ y = tcp_rx_lastack(h, r, s)
           \/ r.state = "CLOSING" /\ y = tcp_rx_closing(h, r, s)
           \/ r.state = "TIME_WAIT" /\ y = tcp_rx_timewait(h, r, s)
    PROVE  /\ y.r \in TcbType /\ Flat(r, y.r) /\ Onward(r.state, y.r.state)
           /\ y.out = {} \/ y.out = {tcp_tx_ack(h, y.r)}
<1> DEFINE r1 == IF "R" \in s.fl THEN [tcp_release(r) EXCEPT !.state = "CLOSED"] ELSE r
<1>1. r1 \in TcbType /\ Flat(r, r1) /\ r1.state \in {r.state, "CLOSED"}
  <2>1. ("R" \in s.fl) \in BOOLEAN /\ r.state \in {"LAST_ACK", "CLOSING", "TIME_WAIT"}
    OBVIOUS
  <2> QED BY <2>1, EndReset, Zenon
<1>2. r.state = "LAST_ACK" =>
        \/ y.r = r1 /\ y.out = {tcp_tx_ack(h, r1)}
        \/ y.r = [r1 EXCEPT !.state = "CLOSED"] /\ y.out = {}
        \/ y.r = r1 /\ y.out = {}
  BY DEF tcp_rx_lastack, Same
<1>3. r.state = "CLOSING" =>
        \/ y.r = r1 /\ y.out = {tcp_tx_ack(h, r1)}
        \/ y.r = tcp_do_timewait([r1 EXCEPT !.state = "TIME_WAIT"]) /\ y.out = {}
        \/ y.r = r1 /\ y.out = {}
  BY DEF tcp_rx_closing, Same
<1>4. r.state = "TIME_WAIT" =>
        \/ y.r = r1 /\ y.out = {tcp_tx_ack(h, r1)}
        \/ y.r = tcp_do_timewait(r1) /\ y.out = {tcp_tx_ack(h, r1)}
        \/ y.r = tcp_do_timewait(r1) /\ y.out = {}
        \/ y.r = r1 /\ y.out = {}
  BY DEF tcp_rx_timewait, Same
<1> HIDE DEF r1
<1>5. r.state \in {"LAST_ACK", "CLOSING", "TIME_WAIT"} /\ y.r \in TcbType
  BY DEF Reply
<1>6. CASE y.r = r1 /\ y.out \in {{}, {tcp_tx_ack(h, r1)}}
  BY <1>1, <1>5, <1>6 DEF Onward
<1>7. CASE y.r = tcp_do_timewait(r1) /\ y.out \in {{}, {tcp_tx_ack(h, r1)}}
  <2>1. Flat(r1, y.r) /\ y.r.state = r1.state
    BY <1>1, <1>7, FlatSmall
  <2>2. tcp_tx_ack(h, r1) = tcp_tx_ack(h, y.r)
    BY <2>1 DEF tcp_tx_ack, Flat, Core
  <2>3. Flat(r, y.r)
    BY <1>1, <2>1, FlatTrans
  <2> QED BY <1>1, <1>5, <1>7, <2>1, <2>2, <2>3 DEF Onward
<1>8. CASE r.state = "LAST_ACK" /\ y.r = [r1 EXCEPT !.state = "CLOSED"] /\ y.out = {}
  <2>1. Flat(r1, y.r) /\ y.r.state = "CLOSED"
    <3>1. "CLOSED" \in State
      BY DEF State
    <3>2. LET q == [r1 EXCEPT !.state = "CLOSED"] IN q \in TcbType /\ Flat(r1, q) /\ q.state = "CLOSED"
      BY <1>1, <3>1, FlatSmall, Zenon
    <3> QED BY <1>8, <3>2
  <2>2. Flat(r, y.r)
    BY <1>1, <2>1, FlatTrans
  <2> QED BY <1>5, <1>8, <2>1, <2>2 DEF Onward
<1>9. CASE r.state = "CLOSING" /\ y.r = tcp_do_timewait([r1 EXCEPT !.state = "TIME_WAIT"]) /\ y.out = {}
  <2> DEFINE q == [r1 EXCEPT !.state = "TIME_WAIT"]
  <2>1. q \in TcbType /\ Flat(r1, q) /\ q.state = "TIME_WAIT"
    <3>1. "TIME_WAIT" \in State
      BY DEF State
    <3> QED BY <1>1, <3>1, FlatSmall, Zenon
  <2> HIDE DEF q
  <2>2. y.r = tcp_do_timewait(q)
    BY <1>9 DEF q
  <2>3. Flat(q, y.r) /\ y.r.state = "TIME_WAIT"
    BY <2>1, <2>2, FlatSmall
  <2>4. Flat(r, y.r)
    BY <1>1, <2>1, <2>3, FlatTrans
  <2> QED BY <1>5, <1>9, <2>3, <2>4 DEF Onward
<1> QED BY <1>2, <1>3, <1>4, <1>5, <1>6, <1>7, <1>8, <1>9

\* They keep everything sound.
LEMMA EndGood ==
    ASSUME NEW T, NEW N, NEW S, NEW V, Good(T, N, S, V), NEW t \in Tcb, NEW r \in TcbType, r = T[t],
           NEW s, NEW y \in Reply,
           \/ r.state = "LAST_ACK" /\ y = tcp_rx_lastack(Host(t), r, s)
           \/ r.state = "CLOSING" /\ y = tcp_rx_closing(Host(t), r, s)
           \/ r.state = "TIME_WAIT" /\ y = tcp_rx_timewait(Host(t), r, s)
    PROVE  Got(T, N, S, V, t, y.r, y.out)
<1>1. Live(r) /\ Host(t) \in Main
  BY HostTwo DEF Live, Sync
<1>2. /\ y.r \in TcbType /\ Flat(r, y.r) /\ Onward(r.state, y.r.state)
      /\ y.out = {} \/ y.out = {tcp_tx_ack(Host(t), y.r)}
  BY <1>1, EndFlat
<1>3. Got(T, N, S, V, t, y.r, {}) /\ Got(T, N, S, V, t, y.r, {tcp_tx_ack(Host(t), y.r)})
  BY <1>1, <1>2, FlatGood, Zenon
<1> QED BY <1>2, <1>3

\* tcp_rx_finwait keeps everything sound.
LEMMA FinwaitGood ==
    ASSUME NEW T, NEW N, NEW S, NEW V, Good(T, N, S, V), NEW t \in Tcb, NEW r \in TcbType, r = T[t],
           r.state \in {"FIN_WAIT1", "FIN_WAIT2"}, NEW s \in N, Host(t) # s.from,
           NEW y \in Reply, y = tcp_rx_finwait(Host(t), r, s)
    PROVE  Got(T, N, S, V, t, y.r, y.out)
<1> DEFINE h == Host(t)
<1>0. /\ T \in [Tcb -> TcbType] /\ V \in [Tcb -> Seq(Nat)] /\ s \in SegType /\ SegOK(T, S, V, s) /\ Live(r)
      /\ h \in Main /\ Flat(r, r) /\ Onward(r.state, r.state)
  <2>1. Live(r) /\ Flat(r, r) /\ Onward(r.state, r.state)
    BY DEF Live, Sync, Flat, Core, Onward
  <2> QED BY <2>1, HostTwo DEF Good, Typed
<1>1. CASE "R" \in s.fl
  <2>1. y.r = tcp_exit_with(r) /\ y.out = {}
    BY <1>1 DEF tcp_rx_finwait, Same
  <2>2. tcp_exit_with(r).buf = r.buf
    BY ExitFields, Zenon
  <2>3. Good([T EXCEPT ![t] = y.r], N \cup y.out, S, V)
    <3>1. N \cup {} = N
      OBVIOUS
    <3> QED BY <1>0, <2>1, <3>1, ExitGood
  <2> QED BY <1>0, <2>1, <2>2, <2>3, GotSame
<1>2. CASE "R" \notin s.fl /\ "S" \in s.fl
  <2>1. y.r = r /\ y.out = {tcp_tx_ack(h, r)}
    BY <1>2 DEF tcp_rx_finwait
  <2>2. Got(T, N, S, V, t, r, {tcp_tx_ack(Host(t), r)})
    BY <1>0, FlatGood, Zenon
  <2> QED BY <2>1, <2>2
<1>3. CASE "R" \notin s.fl /\ "S" \notin s.fl
  <2> DEFINE acked == "A" \in s.fl /\ s.ack = r.nxt /\ r.state = "FIN_WAIT1"
             r1 == IF acked THEN [r EXCEPT !.state = "FIN_WAIT2"] ELSE r
             x1 == Same(r1)
             x == tcp_rx_data(h, x1, s)
             T1 == [T EXCEPT ![t] = r1]
             st == IF x.r.state = "FIN_WAIT1" THEN "CLOSING" ELSE "TIME_WAIT"
  <2>1. r1 \in TcbType /\ Flat(r, r1) /\ Onward(r.state, r1.state) /\ r1.state \in {"FIN_WAIT1", "FIN_WAIT2"}
    <3>1. CASE acked
      <4>1. "FIN_WAIT2" \in State /\ r1 = [r EXCEPT !.state = "FIN_WAIT2"]
        BY <3>1 DEF State
      <4>2. r1 \in TcbType /\ Flat(r, r1) /\ r1.state = "FIN_WAIT2"
        <5> HIDE DEF r1
        <5> QED BY <4>1, FlatSmall
      <4> QED BY <3>1, <4>2 DEF Onward
    <3>2. CASE ~acked
      BY <1>0, <3>2
    <3> QED BY <3>1, <3>2
  <2>2. x1 \in Reply /\ x1.r = r1 /\ x1.out = {}
    BY <2>1 DEF Same, Reply
  <2>3. IF "F" \in s.fl THEN y = [x EXCEPT !.r.state = st] ELSE y = x
    BY <1>3 DEF tcp_rx_finwait
  <2> HIDE DEF r1, x1
  <2>4. Good(T1, N, S, V) /\ T1[t] = r1 /\ r1.buf = r.buf /\ r1.shut
    <3>1. r1.buf = r.buf /\ r1.shut = r.shut
      BY <2>1 DEF Flat
    <3>2. r.shut
      BY GoodAt DEF Phase, Sync
    <3>3. Good(T1, N, S, V)
      BY <1>0, <2>1, FlatGood
    <3> QED BY <1>0, <2>1, <3>1, <3>2, <3>3
  <2>5. x \in Reply /\ x = tcp_rx_data(Host(t), x1, s) /\ st \in State /\ st \in {"CLOSING", "TIME_WAIT"}
    BY <1>0, <2>2, RxDataType DEF State
  <2> HIDE DEF x, st
  <2>6. CASE "F" \notin s.fl
    <3>1. Got(T1, N, S, V, t, x.r, x.out)
      <4> HIDE DEF T1
      <4>1. s.fl \cap {"S", "R", "F"} = {} /\ x1.out \subseteq N /\ r1 \in TcbType
        BY <1>3, <2>1, <2>2, <2>6
      <4>2. r1.state \in {"ESTABLISHED", "FIN_WAIT1", "FIN_WAIT2"}
        BY <2>1
      <4> QED BY <2>2, <2>4, <2>5, <4>1, <4>2, RxTextGood
    <3> QED BY <1>0, <2>1, <2>3, <2>4, <2>6, <3>1, GotTrans
  <2>7. CASE "F" \in s.fl
    <3>1. Got(T1, N, S, V, t, [x.r EXCEPT !.state = st], x.out)
      <4> HIDE DEF T1
      <4>1. x1.out \subseteq N /\ r1 \in TcbType
        BY <2>1, <2>2
      <4>2. r1.state \in {"ESTABLISHED", "FIN_WAIT1", "FIN_WAIT2"}
        BY <2>1
      <4> QED BY <1>3, <2>2, <2>4, <2>5, <2>7, <4>1, <4>2, RxFinGood
    <3>2. y.r = [x.r EXCEPT !.state = st] /\ y.out = x.out
      BY <2>3, <2>5, <2>7 DEF Reply
    <3>3. Got(T1, N, S, V, t, y.r, y.out)
      <4> HIDE DEF T1
      <4> QED BY <3>1, <3>2
    <3> HIDE <3>1, <3>2
    <3> QED BY <1>0, <2>1, <2>4, <3>3, GotTrans
  <2> QED BY <2>6, <2>7
<1> QED BY <1>1, <1>2, <1>3

\* A socket whose SYN is answered or crossed waits for nothing yet, and who waits for it is
\* itself not connected.
LEMMA SentFacts ==
    ASSUME NEW T, NEW N, NEW S, NEW V, Good(T, N, S, V), NEW t \in Tcb, NEW r \in TcbType, r = T[t],
           r.state = "SYN_SENT"
    PROVE  /\ t \in Main /\ r.rport /\ ~Live(r) /\ r.rcv = 0 /\ Phase(r) /\ ~r.shut /\ ~r.open /\ ~r.dly
           /\ Idle(r, S[t], V[t]) /\ r.una = r.iss
           /\ \A y \in Tcb : ~To(r, T[y])
           /\ \A y \in Tcb : Host(y) # Host(t) /\ To(T[y], r) =>
                 ~Live(T[y]) /\ S[y] = 0 /\ V[y] = <<>>
<1>0. /\ T \in [Tcb -> TcbType] /\ S \in [Tcb -> Nat] /\ Apart(T, S) /\ Spans(T, S) /\ Sides(T) /\ Phase(r)
      /\ EndOK(r, S[t], V[t])
  BY GoodAt, GoodSpans DEF Good, Typed
<1>1. t \in Main
  BY <1>0 DEF Sides, Tcb
<1>2. r.rport /\ ~r.shut /\ ~Live(r)
  <2>1. r.rport \in BOOLEAN /\ r.shut \in BOOLEAN
    BY TcbFields
  <2> QED BY <1>0, <2>1 DEF Phase, Live, Sync
<1>3. r.rcv = 0 /\ ~r.open /\ ~r.dly /\ r.una = r.iss
  BY <1>0, <1>2 DEF Phase
<1>4. Idle(r, S[t], V[t])
  BY <1>0, <1>2 DEF EndOK
<1>5. \A y \in Tcb : ~To(r, T[y])
  <2> TAKE y \in Tcb
  <2>1. T[y].iss \in Int /\ 0 <= T[y].iss
    BY <1>0, TcbFields, SeqNrInt
  <2> QED BY <1>3, <2>1 DEF To
<1>6. ASSUME NEW y \in Tcb, Host(y) # Host(t), To(T[y], r)
      PROVE  ~Live(T[y]) /\ S[y] = 0 /\ V[y] = <<>>
  <2>1. Link(T, y, t)
    BY <1>6 DEF Link
  <2>2. ~Live(T[y])
    <3> SUFFICES ASSUME Live(T[y]) PROVE FALSE
      OBVIOUS
    <3>1. PICK x \in Tcb : Pair(T, y, x)
      BY LiveLinked
    <3>2. x = t
      BY <1>0, <2>1, <3>1, LinkUnique DEF Pair
    <3> QED BY <1>5, <3>1, <3>2 DEF Pair, Link
  <2>3. EndOK(T[y], S[y], V[y]) /\ T[y].rport
    BY <1>6, GoodAt DEF To
  <2> QED BY <2>2, <2>3 DEF EndOK, Idle
<1> QED BY <1>0, <1>1, <1>2, <1>3, <1>4, <1>5, <1>6

\* What a socket that has received nothing waits for.
LEMMA FirstTaking ==
    ASSUME NEW r \in TcbType, NEW q \in TcbType, NEW n \in Nat, NEW w, EndOK(q, n, w), q.rport,
           r.rcv = q.iss + 1, r.state \notin PeerDone
    PROVE  Taking(r, <<>>, q, n)
<1>1. q.iss \in Int /\ Len(<<>>) = 0 /\ 0 <= n /\ q.iss + 1 = q.iss + 1 + 0 /\ (q.iss + 1) - q.iss - 1 <= 0
  BY TcbFields
<1>2. Run(<<>>, 1)
  BY <1>1 DEF Run
<1>3. \A m \in q.unaq : r.rcv <= m.id
  BY DEF EndOK, Chain, UnaQue
<1> QED BY <1>1, <1>2, <1>3 DEF Taking

\* Nothing has to be kept for a stream of no bytes.
LEMMA NothingKept ==
    ASSUME NEW r, NEW w
    PROVE  Kept(r, 0, w)
BY DEF Kept

\* A socket in SYN_SENT learns the number of the other end.
LEMMA OpenGood ==
    ASSUME NEW T, NEW N, NEW S, NEW V, Good(T, N, S, V), NEW t \in Tcb, NEW r \in TcbType, r = T[t],
           r.state = "SYN_SENT", NEW u \in Tcb, Host(u) # Host(t), T[u].rport, NEW r2 \in TcbType,
           r2.rcv = T[u].iss + 1, r2.rport = r.rport, r2.iss = r.iss, r2.nxt = r.nxt, r2.snd = r.snd,
           r2.unaq = r.unaq, r2.shut = r.shut, r2.open = r.open, r2.dly = r.dly, r2.err = r.err,
           \/ r2.state = "SYN_RCVD" /\ u \in Main /\ r2.una = r.iss /\ r2.cn = r.cn
           \/ r2.state = "ESTABLISHED" /\ Link(T, u, t) /\ r2.una = r.iss + 1 /\ r2.cn = Unblk(r.cn)
    PROVE  Good([T EXCEPT ![t] = r2], N, S, V)
<1> DEFINE T2 == [T EXCEPT ![t] = r2]
           q == T[u]
<1>0. /\ T \in [Tcb -> TcbType] /\ S \in [Tcb -> Nat] /\ V \in [Tcb -> Seq(Nat)]
      /\ Apart(T, S) /\ Spans(T, S) /\ Sides(T) /\ Streams(T, S, V)
  BY GoodSpans DEF Good, Typed
<1>1. /\ t \in Main /\ r.rport /\ ~Live(r) /\ r.rcv = 0 /\ Phase(r) /\ ~r.shut /\ ~r.open /\ ~r.dly
      /\ S[t] = 0 /\ V[t] = <<>> /\ r.snd = <<>> /\ r.unaq = {} /\ r.nxt = r.iss + 1 /\ r.una = r.iss
  <2>1. t \in Main /\ r.rport /\ ~Live(r) /\ r.rcv = 0 /\ Phase(r) /\ ~r.shut /\ ~r.open /\ ~r.dly
    BY SentFacts
  <2>2. Idle(r, S[t], V[t]) /\ r.una = r.iss
    BY SentFacts
  <2> QED BY <2>1, <2>2 DEF Idle
<1>2. \A y \in Tcb : ~To(r, T[y])
  BY SentFacts
<1>3. \A y \in Tcb : Host(y) # Host(t) /\ To(T[y], r) => ~Live(T[y]) /\ S[y] = 0 /\ V[y] = <<>>
  BY SentFacts
<1>4. /\ r.iss \in Int /\ q.iss \in Int /\ q.nxt \in Int /\ 0 <= q.iss /\ q \in TcbType /\ r2.rcv \in Int
      /\ q.iss + 1 <= q.nxt /\ 0 <= r2.rcv
  BY <1>0, TcbFields, SeqNrInt DEF Spans
<1>5. To(r2, q)
  BY <1>1, <1>4 DEF To
<1>6. \A y \in Tcb : Host(y) # Host(t) /\ To(r2, T[y]) => y = u
  <2> SUFFICES ASSUME NEW y \in Tcb, Host(y) # Host(t), To(r2, T[y]) PROVE y = u
    OBVIOUS
  <2>1. Host(y) = Host(u)
    BY DEF Host
  <2> QED BY <1>0, <1>5, <2>1, ToUnique
<1>7. \A y \in Tcb : To(T[y], r2) <=> To(T[y], r)
  BY DEF To
<1>8. \A y \in Tcb : \A w, n : Taking(T[y], w, r, n) => Taking(T[y], w, r2, n)
  BY DEF Taking
<1>9. Taking(r2, <<>>, q, S[u])
  <2>1. EndOK(q, S[u], V[u]) /\ S[u] \in Nat /\ r2.state \notin PeerDone
    BY GoodAt DEF PeerDone
  <2> QED BY <1>4, <2>1, FirstTaking
<1> HIDE DEF q
<1>10. ASSUME NEW y \in Tcb, Host(y) # Host(t)
       PROVE  Stream(r2, S[t], V[t], T[y], S[y], V[y])
  <2>1. Stream(r, S[t], V[t], T[y], S[y], V[y])
    BY <1>0, <1>10 DEF Streams
  <2>2. To(r2, T[y]) => Taking(r2, V[t], T[y], S[y])
    BY <1>1, <1>6, <1>9, <1>10 DEF q
  <2>3. To(T[y], r2) => Taking(T[y], V[y], r2, S[t])
    BY <1>7, <1>8, <2>1, Zenon DEF Stream
  <2>4. To(T[y], r2) => Kept(T[y], S[y], V[t]) /\ Kept(r2, S[t], V[y])
    <3>1. To(T[y], r2) => S[y] = 0
      BY <1>3, <1>7, <1>10
    <3> QED BY <1>1, <3>1, NothingKept
  <2> QED BY <2>2, <2>3, <2>4, Zenon DEF Stream
<1>11. EndOK(r2, S[t], V[t])
  <2>1. Phase(r2)
    <3>1. CASE r2.state = "SYN_RCVD"
      <4>1. ~Live(r2) /\ r2.rport /\ r2.cn = r.cn /\ r2.una = r2.iss
        BY <1>1, <3>1 DEF Live, Sync
      <4>2. r.cn = "run" => r.err
        BY <1>1 DEF Phase
      <4> QED BY <1>1, <3>1, <4>1, <4>2 DEF Phase, Sync
    <3>2. CASE r2.state = "ESTABLISHED"
      BY <1>1, <3>2 DEF Phase, Live, Sync
    <3> QED BY <3>1, <3>2
  <2>2. Chain(r2, 0)
    <3>1. UnaQue(r2)
      BY <1>1 DEF UnaQue
    <3>2. SndQue(r2, 0)
      BY <1>1 DEF SndQue
    <3>3. Finished(r2, 0)
      BY <1>1, <1>4 DEF Finished
    <3>4. r2.iss <= r2.una /\ r2.una <= r2.nxt /\ r2.iss + 1 <= r2.nxt
      BY <1>1, <1>4
    <3> QED BY <3>1, <3>2, <3>3, <3>4 DEF Chain
  <2>3. Idle(r2, 0, <<>>)
    BY <1>1 DEF Idle
  <2> QED BY <1>1, <2>1, <2>2, <2>3 DEF EndOK
<1>12. Grown(r, S[t], V[t], r2, S[t], V[t])
  <2>1. S[t] \in Int /\ Len(V[t]) \in Int
    BY <1>0
  <2> QED BY <1>1, <1>4, <2>1 DEF Grown
<1>13. Fits(T, S, V, t, r2, S[t], V[t])
  <2>1. \A y \in Tcb : ~To(T[t], T[y]) /\ (To(T[y], T[t]) => To(T[y], r2))
    BY <1>2, <1>7
  <2>2. \E y \in Tcb : Host(y) # Host(t) /\ To(r2, T[y])
    BY <1>5 DEF q
  <2>3. Live(r2) => \E y \in Tcb : Host(y) # Host(t) /\ To(r2, T[y]) /\ To(T[y], r2)
    <3>1. Live(r2) => Link(T, u, t)
      BY <1>1 DEF Live, Sync
    <3> QED BY <1>5, <1>7, <3>1 DEF q, Link
  <2>4. Grown(T[t], S[t], V[t], r2, S[t], V[t])
    BY <1>12
  <2> QED BY <1>10, <1>11, <2>1, <2>2, <2>3, <2>4 DEF Fits
<1>14. Sides(T2)
  <2>1. T2[t] = r2 /\ \A y \in Tcb : y # t => T2[y] = T[y]
    BY <1>0
  <2>2. "a" \in Tcb /\ "b" \in Tcb /\ Kid \subseteq Tcb /\ "a" \notin Kid /\ "b" \notin Kid
    BY TcpAssumption DEF Tcb, Main
  <2>3. t = "a" /\ r2.state = "SYN_RCVD" => u = "b"
    BY DEF Main, Host
  <2>4. t = "a" \/ t = "b"
    BY <1>1 DEF Main
  <2>7. r2.state \in {"SYN_RCVD", "ESTABLISHED"} /\ r2.rport
    BY <1>1
  <2> HIDE DEF T2
  <2>5. CASE t = "a"
    <3>1. T2["a"] = r2 /\ T2["b"] = T["b"] /\ \A k \in Kid : T2[k] = T[k]
      BY <2>1, <2>2, <2>5
    <3>2. T2["a"].state = "SYN_RCVD" => T2["b"].rport
      BY <2>3, <2>5, <3>1
    <3> QED BY <1>0, <2>7, <3>1, <3>2 DEF Sides
  <2>6. CASE t = "b"
    <3>1. T2["b"] = r2 /\ T2["a"] = T["a"] /\ \A k \in Kid : T2[k] = T[k]
      BY <2>1, <2>2, <2>6
    <3>2. \A k \in Kid : ~T[k].rport
      BY <1>0, <1>1, <2>6 DEF Sides
    <3> QED BY <1>0, <2>7, <3>1, <3>2 DEF Sides
  <2> QED BY <2>4, <2>5, <2>6
<1> QED BY <1>13, <1>14, PutSame

\* Half of the numbers are neither none nor all.
LEMMA HalfSeq == SEQ \div 2 \in Nat /\ 1 <= SEQ \div 2 /\ SEQ = (SEQ \div 2) + (SEQ \div 2)
BY TcpAssumption

\* The comparisons that the handshake makes.
LEMMA SubPlain ==
    ASSUME NEW x \in SeqNr, NEW y \in SeqNr
    PROVE  (x >= y => Sub(x, y) = x - y) /\ (x < y => Sub(x, y) = (x - y) + SEQ)
<1>0. x \in Int /\ 0 <= x /\ x < SEQ /\ y \in Int /\ 0 <= y /\ y < SEQ /\ SEQ \in Nat \ {0}
  BY SeqNrInt, TcpAssumption
<1>1. \A n \in Nat \ {0} : \A z \in Int : 0 <= z /\ z < n => z % n = z /\ (z - n) % n = z
  OBVIOUS
<1>2. CASE x >= y
  <2>1. x - y \in Int /\ 0 <= x - y /\ x - y < SEQ
    BY <1>0, <1>2
  <2>2. (x - y) % SEQ = x - y
    BY <1>0, <1>1, <2>1
  <2> QED BY <1>0, <1>2, <2>2 DEF Sub
<1>3. CASE x < y
  <2> DEFINE z == (x - y) + SEQ
  <2>1. z \in Int /\ 0 <= z /\ z < SEQ /\ x - y = z - SEQ
    BY <1>0, <1>3
  <2> HIDE DEF z
  <2>2. (x - y) % SEQ = z
    BY <1>0, <1>1, <2>1
  <2> QED BY <1>0, <1>3, <2>2 DEF Sub, z
<1> QED BY <1>0, <1>2, <1>3

\* The number after x is later than x, and x is not.
LEMMA LaterByOne ==
    ASSUME NEW x \in SeqNr, x + 1 < SEQ
    PROVE  SeqLT(x, x + 1) /\ ~SeqLT(x, x) /\ x + 1 \in SeqNr /\ Add(x, 1) = x + 1
<1>0. x \in Nat /\ 0 <= x /\ SEQ \in Nat /\ SEQ \div 2 \in Nat /\ 1 <= SEQ \div 2 /\ SEQ = (SEQ \div 2) + (SEQ \div 2)
  BY SeqNrInt, TcpAssumption, HalfSeq
<1>1. x + 1 \in SeqNr
  BY <1>0 DEF SeqNr
<1>2. Sub(x, x + 1) = (x - (x + 1)) + SEQ /\ Sub(x, x) = x - x
  BY <1>0, <1>1, SubPlain
<1>3. Add(x, 1) = x + 1
  BY <1>0, AddPlain
<1> QED BY <1>0, <1>1, <1>2, <1>3 DEF SeqLT

\* The answer that acknowledges our SYN acknowledges one number.
LEMMA AckOfSyn ==
    ASSUME NEW x \in SeqNr, x + 1 < SEQ, NEW a \in SeqNr, SeqLT(x, a), SeqLE(a, x + 1)
    PROVE  a = x + 1
<1>0. /\ x \in Int /\ 0 <= x /\ a \in Int /\ 0 <= a /\ a < SEQ
      /\ SEQ \in Nat /\ SEQ \div 2 \in Nat /\ 1 <= SEQ \div 2 /\ SEQ = (SEQ \div 2) + (SEQ \div 2)
  BY SeqNrInt, TcpAssumption, HalfSeq
<1>1. x + 1 \in SeqNr
  BY LaterByOne
<1> DEFINE k == SEQ \div 2
           p == Sub(x, a)
           q == Sub(a, x + 1)
<1>2. (x >= a => p = x - a) /\ (x < a => p = (x - a) + SEQ)
  BY SubPlain
<1>3. (a >= x + 1 => q = a - (x + 1)) /\ (a < x + 1 => q = (a - (x + 1)) + SEQ)
  BY <1>1, SubPlain
<1>4. p >= k /\ (a = x + 1 \/ q >= k)
  BY DEF SeqLT, SeqLE
<1>5. k \in Nat /\ 1 <= k /\ SEQ = k + k
  BY <1>0
<1> HIDE DEF k, p, q
<1> QED BY <1>0, <1>2, <1>3, <1>4, <1>5

\* tcp_rx_sent keeps everything sound.
LEMMA SentGood ==
    ASSUME NEW T, NEW N, NEW S, NEW V, Good(T, N, S, V), NEW t \in Tcb, NEW r \in TcbType, r = T[t],
           r.state = "SYN_SENT", NEW s \in N, Host(t) # s.from,
           NEW y \in Reply, y = tcp_rx_sent(Host(t), r, s)
    PROVE  Got(T, N, S, V, t, y.r, y.out)
<1> DEFINE h == Host(t)
<1>0. /\ T \in [Tcb -> TcbType] /\ V \in [Tcb -> Seq(Nat)] /\ S \in [Tcb -> Nat] /\ N \subseteq SegType
      /\ s \in SegType /\ SegOK(T, S, V, s) /\ h \in Main /\ Sides(T)
      /\ Apart(T, S) /\ Spans(T, S) /\ [T EXCEPT ![t] = r] = T /\ N \cup {} = N
  <2>1. T \in [Tcb -> TcbType]
    BY DEF Good, Typed
  <2>2. [T EXCEPT ![t] = r] = T
    BY <2>1
  <2> QED BY <2>2, HostTwo, GoodSpans DEF Good, Typed
<1>1. /\ t \in Main /\ r.rport /\ ~Live(r) /\ r.rcv = 0 /\ Phase(r) /\ ~r.shut /\ ~r.open /\ ~r.dly
      /\ r.nxt = r.iss + 1 /\ r.una = r.iss /\ r.iss \in SeqNr /\ r.iss + 1 < SEQ /\ r.iss \in Int
  <2>1. t \in Main /\ r.rport /\ ~Live(r) /\ r.rcv = 0 /\ Phase(r) /\ ~r.shut /\ ~r.open /\ ~r.dly
    BY SentFacts
  <2>2. Idle(r, S[t], V[t]) /\ r.una = r.iss
    BY SentFacts
  <2>3. r.iss \in SeqNr /\ r.iss \in Int /\ S[t] \in Nat /\ r.iss + S[t] + 3 < SEQ /\ SEQ \in Int
    BY GoodAt, TcbFields, TcpAssumption
  <2> QED BY <2>1, <2>2, <2>3 DEF Idle
<1>2. CASE "A" \in s.fl /\ s.ack # r.nxt
  <2>1. y.r = r /\ y.out = {tcp_tx_reset(s)}
    BY <1>2 DEF tcp_rx_sent
  <2>2. Good(T, N \cup {tcp_tx_reset(s)}, S, V)
    <3>1. SegOK(T, S, V, tcp_tx_reset(s)) /\ tcp_tx_reset(s) \in SegType
      BY <1>0, ResetGood
    <3>2. N \cup {tcp_tx_reset(s)} \in SUBSET SegType
      BY <1>0, <3>1
    <3> QED BY <3>1, <3>2, NetGood
  <2> QED BY <1>0, <2>1, <2>2, GotSame
<1>3. CASE ~("A" \in s.fl /\ s.ack # r.nxt) /\ "R" \in s.fl
  <2> DEFINE e == tcp_exit_with(r)
             r2 == [e EXCEPT !.state = "CLOSED"]
  <2>1. y.r = (IF "A" \in s.fl THEN r2 ELSE r) /\ y.out = {}
    BY <1>3 DEF tcp_rx_sent, Same
  <2>2. /\ e \in TcbType /\ Core(r, e) /\ e.shut = r.shut /\ e.open = r.open /\ e.buf = r.buf /\ e.err
        /\ e.cn = Unblk(r.cn) /\ e.dly = r.dly
    BY ExitFields, Zenon
  <2> HIDE DEF e
  <2>3. r2 \in TcbType /\ Flat(e, r2) /\ r2.state = "CLOSED"
    <3>1. "CLOSED" \in State
      BY DEF State
    <3> QED BY <2>2, <3>1, FlatSmall, Zenon
  <2> HIDE DEF r2
  <2>4. /\ Core(r, r2) /\ r2.shut = r.shut /\ r2.open = r.open /\ r2.buf = r.buf /\ r2.err
        /\ r2.cn = Unblk(r.cn) /\ r2.dly = r.dly
    BY <2>2, <2>3 DEF Flat, Core
  <2>5. ~Live(r2) /\ (r2.cn # "idle" => r.cn # "idle")
    BY <1>1, <2>3, <2>4 DEF Live, Sync, Unblk
  <2>6. Phase(r2)
    BY <1>1, <2>3, <2>4, <2>5 DEF Phase, Core, Sync
  <2>7. Moves(r, r2)
    BY <1>1, <2>3, <2>4, <2>6 DEF Moves, RcvOpen, PeerDone
  <2>8. Sides([T EXCEPT ![t] = r2])
    BY <1>0, <1>1, <2>3, <2>4, SidesPut DEF Core
  <2>9. Good([T EXCEPT ![t] = r2], N, S, V)
    BY <2>3, <2>5, <2>7, <2>8, QuietPut
  <2>10. Got(T, N, S, V, t, r2, {}) /\ Got(T, N, S, V, t, r, {})
    BY <1>0, <2>4, <2>9, GotSame
  <2> QED BY <2>1, <2>10
<1>4. CASE ~("A" \in s.fl /\ s.ack # r.nxt) /\ "R" \notin s.fl /\ "S" \notin s.fl
  <2>1. y.r = r /\ y.out = {}
    BY <1>4 DEF tcp_rx_sent, Same
  <2> QED BY <1>0, <2>1, GotSame, SMTT(30)
<1>5. CASE ~("A" \in s.fl /\ s.ack # r.nxt) /\ "R" \notin s.fl /\ "S" \in s.fl
  <2> DEFINE una == IF "A" \in s.fl THEN s.ack ELSE r.una
             r1 == [r EXCEPT !.rcv = Add(s.seq, 1), !.una = una]
             r2 == IF SeqLT(r.iss, una) THEN WakeSyn([r1 EXCEPT !.state = "ESTABLISHED"])
                                        ELSE [r1 EXCEPT !.state = "SYN_RCVD"]
  <2>1. y.r = r2 /\ y.out = {tcp_tx_ack(h, r2)}
    BY <1>5 DEF tcp_rx_sent
  <2>2. PICK u \in Tcb : Host(u) = s.from /\ T[u].rport /\ (Syn(T, u, s) \/ SynAck(T, u, s))
    <3>1. ~Rst(T, s)
      BY <1>5 DEF Rst
    <3>2. PICK u \in Tcb : Host(u) = s.from /\ T[u].rport /\ Sound(T, S, V, u, s)
      BY <1>0, <3>1 DEF SegOK
    <3>3. ~Ack(T, u, s) /\ ~Text(T, S, u, s) /\ ~Fin(T, S, V, u, s)
      BY <1>5 DEF Ack, Text, Fin
    <3> QED BY <3>2, <3>3 DEF Sound
  <2>3. Add(s.seq, 1) = T[u].iss + 1
    <3>1. T[u].iss \in SeqNr /\ T[u].iss \in Int /\ S[u] \in Nat /\ T[u].iss + S[u] + 3 < SEQ /\ SEQ \in Int
      BY GoodAt, TcbFields, TcpAssumption
    <3>2. s.seq = T[u].iss
      BY <2>2 DEF Syn, SynAck
    <3>3. T[u].iss + 1 < SEQ
      BY <3>1
    <3> QED BY <3>1, <3>2, <3>3, LaterByOne
  <2>4. r2 \in TcbType
    BY <2>1 DEF Reply
  <2>5. /\ r2.rcv = T[u].iss + 1 /\ r2.una = una /\ r2.rport = r.rport /\ r2.iss = r.iss /\ r2.nxt = r.nxt
        /\ r2.snd = r.snd /\ r2.unaq = r.unaq /\ r2.shut = r.shut /\ r2.open = r.open /\ r2.dly = r.dly
        /\ r2.err = r.err /\ r2.buf = r.buf
        /\ SeqLT(r.iss, una) => r2.state = "ESTABLISHED" /\ r2.cn = Unblk(r.cn)
        /\ ~SeqLT(r.iss, una) => r2.state = "SYN_RCVD" /\ r2.cn = r.cn
    <3> HIDE DEF una
    <3>1. CASE SeqLT(r.iss, una)
      BY <2>3, <3>1 DEF WakeSyn, TcbType
    <3>2. CASE ~SeqLT(r.iss, una)
      BY <2>3, <3>2 DEF TcbType
    <3> QED BY <3>1, <3>2
  <2>6. Host(u) # Host(t)
    BY <2>2
  <2>7. \/ r2.state = "SYN_RCVD" /\ u \in Main /\ r2.una = r.iss /\ r2.cn = r.cn
        \/ r2.state = "ESTABLISHED" /\ Link(T, u, t) /\ r2.una = r.iss + 1 /\ r2.cn = Unblk(r.cn)
    <3>1. CASE Syn(T, u, s)
      <4>1. una = r.iss /\ u \in Main
        BY <1>1, <3>1 DEF Syn
      <4>2. ~SeqLT(r.iss, una)
        BY <1>1, <4>1, LaterByOne
      <4> QED BY <2>5, <4>1, <4>2
    <3>2. CASE SynAck(T, u, s)
      <4>1. una = s.ack /\ una = r.iss + 1 /\ Acks(T, u, una)
        BY <1>1, <1>5, <3>2 DEF SynAck
      <4>2. SeqLT(r.iss, una)
        BY <1>1, <4>1, LaterByOne
      <4>3. PICK w \in Tcb : Link(T, u, w) /\ T[w].iss + 1 <= una /\ una <= T[u].rcv
        BY <4>1 DEF Acks
      <4>4. Host(w) = Host(t)
        BY <2>6, <4>3 DEF Link, Host
      <4>5. w = t
        <5>1. una \in Int
          BY <1>1, <4>1
        <5> HIDE DEF una
        <5> QED BY <1>0, <1>1, <4>1, <4>3, <4>4, <5>1, FirstUnique
      <4> QED BY <2>5, <4>1, <4>2, <4>3, <4>5
    <3> QED BY <2>2, <3>1, <3>2
  <2> HIDE DEF r2
  <2>8. Good([T EXCEPT ![t] = r2], N, S, V)
    BY <2>2, <2>4, <2>5, <2>6, <2>7, OpenGood
  <2> DEFINE T2 == [T EXCEPT ![t] = r2]
  <2>9. T2[t] = r2 /\ Good(T2, N, S, V)
    BY <1>0, <2>8
  <2>10. Good(T2, N \cup {tcp_tx_ack(h, r2)}, S, V)
    <3> HIDE DEF T2
    <3>1. Live(T2[t]) \/ T2[t].state = "SYN_RCVD"
      BY <2>7, <2>9 DEF Live, Sync
    <3> QED BY <2>9, <3>1, TxAckGood
  <2> QED BY <1>0, <2>1, <2>5, <2>10, GotSame
<1> QED BY <1>2, <1>3, <1>4, <1>5

-----------------------------------------------------------------------------
(* The steps of the specification.                                           *)

\* tcp_rx keeps everything sound: one handler for each state, and a reset for the rest.
LEMMA RxGood ==
    ASSUME NEW T, NEW N, NEW S, NEW V, Good(T, N, S, V), NEW t \in Tcb, NEW r \in TcbType, r = T[t],
           NEW s \in N, Host(t) # s.from, NEW y \in Reply, y = tcp_rx(Host(t), r, s)
    PROVE  Got(T, N, S, V, t, y.r, y.out)
<1>1. CASE r.state = "SYN_SENT"
  <2>1. y = tcp_rx_sent(Host(t), r, s)
    BY <1>1 DEF tcp_rx
  <2> QED BY <1>1, <2>1, SentGood
<1>2. CASE r.state = "ESTABLISHED"
  <2>1. y = tcp_rx_established(Host(t), r, s)
    BY <1>2 DEF tcp_rx
  <2> QED BY <1>2, <2>1, EstablishedGood
<1>3. CASE r.state = "CLOSE_WAIT"
  <2>1. y = tcp_rx_closewait(Host(t), r, s)
    BY <1>3 DEF tcp_rx
  <2> QED BY <1>3, <2>1, ClosewaitGood
<1>4. CASE r.state \in {"FIN_WAIT1", "FIN_WAIT2"}
  <2>1. y = tcp_rx_finwait(Host(t), r, s)
    BY <1>4 DEF tcp_rx
  <2> QED BY <1>4, <2>1, FinwaitGood
<1>5. CASE r.state \in {"LAST_ACK", "CLOSING", "TIME_WAIT"}
  <2>1. \/ r.state = "LAST_ACK" /\ y = tcp_rx_lastack(Host(t), r, s)
        \/ r.state = "CLOSING" /\ y = tcp_rx_closing(Host(t), r, s)
        \/ r.state = "TIME_WAIT" /\ y = tcp_rx_timewait(Host(t), r, s)
    BY <1>5 DEF tcp_rx
  <2> QED BY <2>1, EndGood
<1>6. CASE r.state \in {"CLOSED", "LISTEN", "SYN_RCVD"}
  <2>0. T \in [Tcb -> TcbType] /\ N \subseteq SegType /\ V \in [Tcb -> Seq(Nat)] /\ s \in SegType /\ SegOK(T, S, V, s)
    BY DEF Good, Typed
  <2>1. y.r = r /\ y.out = {tcp_tx_reset(s)}
    BY <1>6 DEF tcp_rx
  <2>2. SegOK(T, S, V, tcp_tx_reset(s)) /\ tcp_tx_reset(s) \in SegType
    BY <2>0, ResetGood
  <2>3. N \cup {tcp_tx_reset(s)} \in SUBSET SegType
    BY <2>0, <2>2
  <2>4. Good(T, N \cup {tcp_tx_reset(s)}, S, V)
    BY <2>2, <2>3, NetGood
  <2>5. [T EXCEPT ![t] = r] = T
    BY <2>0
  <2> QED BY <2>0, <2>1, <2>4, <2>5, GotSame
<1>7. r.state \in State
  BY TcbFields
<1> QED BY <1>1, <1>2, <1>3, <1>4, <1>5, <1>6, <1>7 DEF State

\* What is carried is what was in the network and the answers.
LEMMA CarryGood ==
    ASSUME TypeOK, NEW T, NEW S, NEW V, NEW s, NEW out, Good(T, net \cup out, S, V), Carry(s, out)
    PROVE  Good(T, net', S, V)
<1>1. net' \subseteq net \cup out
  BY DEF Carry
<1>2. net' \in SUBSET SegType
  BY <1>1 DEF Good, Typed
<1> QED BY <1>1, <1>2, NetGood

\* find_tcb gives a socket of the host that the segment goes to.
LEMMA RxHost ==
    ASSUME TypeOK, NEW s \in net, NEW t, Rx(s, t)
    PROVE  t \in Tcb /\ Host(t) # s.from /\ s \in SegType
<1>1. s \in SegType /\ s.from \in Main
  BY SegFields DEF TypeOK
<1>2. Kid \cap Main = {}
  BY TcpAssumption
<1>3. CASE t \in Kid /\ Other(s.from) = "b"
  BY <1>1, <1>2, <1>3 DEF Host, Other, Main, Tcb
<1>4. CASE t = Other(s.from)
  BY <1>1, <1>2, <1>4 DEF Host, Other, Main, Tcb
<1> QED BY <1>3, <1>4, <1>1 DEF Rx, find_tcb

\* What has been received after text d was put at the end of buf_que.
LEMMA TakenGot ==
    ASSUME TypeOK, TypeOK', NEW t \in Tcb, NEW r \in TcbType, NEW d \in Seq(Nat), got' = got,
           tcb' = [tcb EXCEPT ![t] = r], r.buf = tcb[t].buf \o d
    PROVE  Taken0' = [Taken0 EXCEPT ![t] = Taken0[t] \o d]
<1>0. /\ got \in [Tcb -> Seq(Nat)] /\ tcb \in [Tcb -> TcbType] /\ tcb[t].buf \in Seq(Nat) /\ got[t] \in Seq(Nat)
  BY TcbFields DEF TypeOK
<1>1. \A g, b \in Seq(Nat) : g \o (b \o d) = (g \o b) \o d
  OBVIOUS
<1>2. got[t] \o r.buf = (got[t] \o tcb[t].buf) \o d
  BY <1>0, <1>1
<1>3. \A u \in Tcb : got'[u] \o tcb'[u].buf = IF u = t THEN (got[t] \o tcb[t].buf) \o d ELSE got[u] \o tcb[u].buf
  BY <1>0, <1>2
<1>4. Taken0' = [u \in Tcb |-> got'[u] \o tcb'[u].buf] /\ Taken0 = [u \in Tcb |-> got[u] \o tcb[u].buf]
  BY DEF Taken0, Received
<1> QED BY <1>3, <1>4

\* What has been received is the same when no byte is copied into or out of buf_que.
LEMMA TakenSame ==
    ASSUME got' = got, \A u \in Tcb : tcb'[u].buf = tcb[u].buf
    PROVE  Taken0' = Taken0
BY DEF Taken0, Received

\* sock_rx_tcp keeps everything sound.
LEMMA GoodSockRx ==
    ASSUME TypeOK, TypeOK', Good(tcb, net, sent, Taken0), NEW s \in net, sock_rx_tcp(s)
    PROVE  Good(tcb', net', sent', Taken0')
<1>1. PICK t \in Tcb :
        /\ Rx(s, t)
        /\ LET x == tcp_rx(Host(t), tcb[t], s) IN
           tcb' = [tcb EXCEPT ![t] = x.r] /\ Carry(s, x.out)
        /\ sent' = sent /\ got' = got
  BY DEF sock_rx_tcp
<1> DEFINE y == tcp_rx(Host(t), tcb[t], s)
<1>2. Host(t) # s.from /\ s \in SegType /\ tcb[t] \in TcbType /\ Host(t) \in Main
  BY <1>1, RxHost, HostType DEF TypeOK
<1>3. y \in Reply
  BY <1>2, RxType
<1>4. y = tcp_rx(Host(t), tcb[t], s) /\ tcb' = [tcb EXCEPT ![t] = y.r] /\ Carry(s, y.out)
  BY <1>1
<1> HIDE DEF y
<1>5. Got(tcb, net, sent, Taken0, t, y.r, y.out)
  BY <1>2, <1>3, <1>4, RxGood
<1>6. PICK d \in Seq(Nat) : /\ y.r.buf = tcb[t].buf \o d
                            /\ Good([tcb EXCEPT ![t] = y.r], net \cup y.out, sent,
                                    [Taken0 EXCEPT ![t] = Taken0[t] \o d])
  BY <1>5 DEF Got
<1>7. Taken0' = [Taken0 EXCEPT ![t] = Taken0[t] \o d]
  BY <1>1, <1>3, <1>4, <1>6, TakenGot DEF Reply
<1>8. Good(tcb', net \cup y.out, sent', Taken0')
  BY <1>1, <1>4, <1>6, <1>7
<1> QED BY <1>4, <1>8, CarryGood

\* A segment that nobody waits for is answered by a reset.
LEMMA GoodRefused ==
    ASSUME TypeOK, Good(tcb, net, sent, Taken0), NEW s \in net, NEW out, out \in {{}, {tcp_tx_reset(s)}},
           Carry(s, out), tcb' = tcb, sent' = sent, got' = got
    PROVE  Good(tcb', net', sent', Taken0')
<1>1. net \subseteq SegType /\ s \in SegType /\ SegOK(tcb, sent, Taken0, s)
  BY DEF Good, TypeOK
<1>2. SegOK(tcb, sent, Taken0, tcp_tx_reset(s)) /\ tcp_tx_reset(s) \in SegType
  BY <1>1, ResetGood
<1>3. net \cup out \in SUBSET SegType
  BY <1>1, <1>2
<1>4. Good(tcb, net \cup out, sent, Taken0)
  BY <1>2, <1>3, NetGood
<1>5. Good(tcb, net', sent, Taken0)
  BY <1>4, CarryGood
<1>6. Taken0' = Taken0
  BY TakenSame
<1> QED BY <1>5, <1>6

\* A step that leaves the numbers, the queues, the state and the flags of a socket alone.
LEMMA QuietSame ==
    ASSUME NEW T, NEW N, NEW S, NEW V, Good(T, N, S, V), NEW t \in Tcb, NEW r \in TcbType, r = T[t],
           NEW r2 \in TcbType, Core(r, r2), r2.state = r.state, r2.shut = r.shut, r2.open = r.open,
           r2.dly => r.dly,
           (r2.cn = r.cn /\ r2.err = r.err) \/ (r2.err /\ r2.cn = Unblk(r.cn)) \/ ~r.rport
    PROVE  Good([T EXCEPT ![t] = r2], N, S, V) /\ Moves(r, r2)
<1> DEFINE T2 == [T EXCEPT ![t] = r2]
<1>0. T \in [Tcb -> TcbType] /\ Sides(T) /\ Phase(r)
  BY GoodAt DEF Good, Typed
<1>1. Live(r2) <=> Live(r)
  BY DEF Live
<1>2. r2.cn # "idle" => r.cn # "idle" \/ ~r.rport
  BY DEF Unblk
<1>3. Phase(r2)
  <2> HIDE DEF T2
  <2>1. r2.rport = r.rport /\ r2.iss = r.iss /\ r2.una = r.una /\ r2.rcv = r.rcv /\ r2.snd = r.snd /\ r2.unaq = r.unaq
    BY DEF Core
  <2>2. ~r2.rport => /\ r2.state \in {"CLOSED", "LISTEN"} /\ ~r2.open /\ ~r2.shut
                     /\ r2.snd = <<>> /\ r2.unaq = {} /\ r2.iss = 0
    BY <1>0, <2>1 DEF Phase
  <2>3. /\ ~Live(r2) /\ r2.state # "SYN_RCVD" => r2.rcv = 0
        /\ ~Live(r2) => r2.una = r2.iss /\ ~r2.dly /\ ~r2.open
    BY <1>0, <1>1, <2>1 DEF Phase
  <2>4. /\ r2.state \in {"SYN_RCVD", "SYN_SENT"} => ~r2.shut
        /\ r2.open => ~r2.shut /\ r2.state \in {"ESTABLISHED", "CLOSE_WAIT"}
        /\ r2.state \in Sync \ {"ESTABLISHED", "CLOSE_WAIT"} => r2.shut
    BY <1>0 DEF Phase
  <2>5. r2.rport /\ r2.cn # "idle" => ~r2.open /\ ~r2.shut
    BY <1>0, <1>2, <2>1 DEF Phase
  <2>6. r2.rport /\ r2.cn = "run" /\ ~r2.err => r2.state \in {"ESTABLISHED", "CLOSE_WAIT"}
    BY <1>0, <2>1 DEF Phase
  <2> QED BY <2>2, <2>3, <2>4, <2>5, <2>6 DEF Phase
<1>4. Moves(r, r2)
  BY <1>1, <1>3 DEF Moves
<1>5. \A u \in Tcb : T2[u].state = T[u].state /\ T2[u].rport = T[u].rport
  BY <1>0 DEF Core
<1>6. Sides(T2)
  <2> HIDE DEF T2
  <2> QED BY <1>0, <1>5, SidesSame
<1>7. Good(T2, N, S, V)
  BY <1>1, <1>4, <1>6, QuietPut
<1> QED BY <1>4, <1>7

\* A socket in SYN_RCVD has sent and received nothing but SYNs.
LEMMA RcvdFacts ==
    ASSUME NEW T, NEW N, NEW S, NEW V, Good(T, N, S, V), NEW t \in Tcb, NEW r \in TcbType, r = T[t],
           r.state = "SYN_RCVD"
    PROVE  /\ r.rport /\ ~Live(r) /\ ~r.shut /\ ~r.open /\ ~r.dly /\ r.una = r.iss /\ Phase(r)
           /\ Idle(r, S[t], V[t]) /\ r.nxt = r.iss + 1 /\ r.iss \in SeqNr /\ r.iss + 1 < SEQ
           /\ \E u \in Tcb : Link(T, t, u)
<1>1. EndOK(r, S[t], V[t]) /\ Phase(r) /\ r.iss + S[t] + 3 < SEQ /\ S[t] \in Nat
  BY GoodAt
<1>2. r.rport /\ ~r.shut
  BY <1>1 DEF Phase
<1>3. ~Live(r)
  BY <1>2 DEF Live, Sync
<1>4. Idle(r, S[t], V[t]) /\ r.una = r.iss /\ ~r.open /\ ~r.dly
  BY <1>1, <1>2, <1>3 DEF EndOK, Phase
<1>5. r.nxt = r.iss + 1
  BY <1>4 DEF Idle
<1>6. r.iss \in SeqNr /\ r.iss \in Int /\ SEQ \in Int
  BY TcbFields, TcpAssumption
<1>7. r.iss + 1 < SEQ
  BY <1>1, <1>6
<1>8. \E u \in Tcb : Link(T, t, u)
  BY DEF Good, Links
<1> QED BY <1>1, <1>2, <1>3, <1>4, <1>5, <1>6, <1>7, <1>8

\* Two sockets of a host with a peer, while one of the other host is in SYN_RCVD, are the same.
LEMMA OnePeer ==
    ASSUME NEW T \in [Tcb -> TcbType], Sides(T), NEW t \in Tcb, T[t].state = "SYN_RCVD",
           NEW u \in Tcb, NEW w \in Tcb, Host(u) # Host(t), Host(w) # Host(t), T[u].rport, T[w].rport
    PROVE  u = w
<1>0. Kid \cap Main = {}
  BY TcpAssumption
<1>1. CASE Host(t) = "b"
  BY <1>1 DEF Host
<1>2. CASE Host(t) # "b"
  <2>1. t = "a" /\ T["b"].rport
    BY <1>2 DEF Host, Sides
  <2>2. u \notin Kid /\ w \notin Kid
    BY <2>1 DEF Sides
  <2> QED BY <1>0, <2>1, <2>2 DEF Host, Tcb, Main
<1> QED BY <1>1, <1>2

\* The acknowledgement of our SYN comes from the socket whose SYN we answer.
LEMMA RcvdPair ==
    ASSUME NEW T, NEW N, NEW S, NEW V, Good(T, N, S, V), NEW t \in Tcb, NEW r \in TcbType, r = T[t],
           r.state = "SYN_RCVD", NEW s \in N, Host(t) # s.from, "R" \notin s.fl, "A" \in s.fl,
           SeqLT(r.una, s.ack), SeqLE(s.ack, r.nxt)
    PROVE  \E u \in Tcb : Pair(T, t, u)
<1>0. /\ T \in [Tcb -> TcbType] /\ S \in [Tcb -> Nat] /\ s \in SegType /\ SegOK(T, S, V, s) /\ Sides(T)
      /\ Apart(T, S) /\ Spans(T, S)
  BY GoodSpans DEF Good, Typed
<1>1. /\ r.rport /\ r.una = r.iss /\ r.nxt = r.iss + 1 /\ r.iss \in SeqNr /\ r.iss + 1 < SEQ
      /\ \E u \in Tcb : Link(T, t, u)
  BY RcvdFacts
<1>2. s.ack \in SeqNr /\ s.ack \in Int
  BY <1>0, SegFields
<1>3. s.ack = r.iss + 1
  BY <1>1, <1>2, AckOfSyn
<1>4. PICK u \in Tcb : Host(u) = s.from /\ Acks(T, u, s.ack)
  <2>1. ~Rst(T, s)
    <3>1. s.fl # {"R"} /\ s.fl # {"R", "A"}
      OBVIOUS
    <3> QED BY <3>1 DEF Rst
  <2>2. PICK u \in Tcb : Host(u) = s.from /\ T[u].rport /\ Sound(T, S, V, u, s)
    BY <1>0, <2>1 DEF SegOK
  <2>3. ~Syn(T, u, s)
    BY DEF Syn
  <2> QED BY <2>2, <2>3 DEF Sound, SynAck, Ack, Text, Fin
<1>5. PICK w \in Tcb : Link(T, u, w) /\ T[w].iss + 1 <= s.ack /\ s.ack <= T[u].rcv
  BY <1>4 DEF Acks
<1>6. Host(w) = Host(t)
  BY <1>4, <1>5 DEF Link, Host
<1>7. w = t
  BY <1>0, <1>1, <1>2, <1>3, <1>5, <1>6, FirstUnique
<1>8. PICK v \in Tcb : Link(T, t, v)
  BY <1>1
<1>9. u = v
  BY <1>0, <1>4, <1>5, <1>8, OnePeer DEF Link, To
<1> QED BY <1>5, <1>7, <1>8, <1>9 DEF Pair

\* The socket that leaves SYN_RCVD for ESTABLISHED.
LEMMA OpenedGood ==
    ASSUME NEW T, NEW N, NEW S, NEW V, Good(T, N, S, V), NEW t \in Tcb, NEW r \in TcbType, r = T[t],
           r.state = "SYN_RCVD", \E u \in Tcb : Pair(T, t, u), NEW r2 \in TcbType, Core(r, r2),
           r2.state = "ESTABLISHED", r2.shut = r.shut, r2.open = r.open, r2.err = r.err, r2.dly = r.dly,
           r2.cn = r.cn \/ r2.cn = Unblk(r.cn)
    PROVE  Good([T EXCEPT ![t] = r2], N, S, V)
<1>0. T \in [Tcb -> TcbType] /\ Sides(T)
  BY DEF Good, Typed
<1>1. /\ r.rport /\ ~Live(r) /\ ~r.shut /\ ~r.open /\ ~r.dly /\ r.una = r.iss
  BY RcvdFacts
<1>2. Live(r2) /\ r2.rport
  BY <1>1 DEF Live, Sync, Core
<1>3. Phase(r2)
  BY <1>1, <1>2 DEF Phase, Sync
<1>4. Moves(r, r2)
  BY <1>1, <1>2, <1>3 DEF Moves, RcvOpen, PeerDone
<1>5. Sides([T EXCEPT ![t] = r2])
  BY <1>0, <1>1, <1>2, SidesPut
<1> QED BY <1>2, <1>4, <1>5, QuietPut

\* Waking the process in connect or accept changes cn alone, and only in TcbType.
LEMMA WakeFields ==
    ASSUME NEW r \in TcbType
    PROVE  LET r2 == WakeSyn(r) IN
           /\ r2 \in TcbType /\ Core(r, r2) /\ r2.state = r.state /\ r2.shut = r.shut /\ r2.open = r.open
           /\ r2.buf = r.buf /\ r2.err = r.err /\ r2.cn = Unblk(r.cn) /\ r2.dly = r.dly
<1> DEFINE r2 == WakeSyn(r)
<1>1. r2 \in TcbType
  BY WakeType
<1>2. /\ r2.rport = r.rport /\ r2.iss = r.iss /\ r2.una = r.una /\ r2.nxt = r.nxt /\ r2.rcv = r.rcv
      /\ r2.snd = r.snd /\ r2.unaq = r.unaq /\ r2.state = r.state /\ r2.shut = r.shut /\ r2.open = r.open
      /\ r2.buf = r.buf /\ r2.err = r.err /\ r2.cn = Unblk(r.cn) /\ r2.dly = r.dly
  BY DEF WakeSyn, TcbType
<1> HIDE DEF r2
<1>3. Core(r, r2)
  BY <1>2 DEF Core
<1>4. r2 = WakeSyn(r)
  BY DEF r2
<1> QED BY <1>1, <1>2, <1>3, <1>4

\* tcp_rx_rcvd keeps everything sound.
LEMMA GoodRcvd ==
    ASSUME TypeOK, TypeOK', Good(tcb, net, sent, Taken0), NEW s \in net, tcp_rx_rcvd(s)
    PROVE  Good(tcb', net', sent', Taken0')
<1>1. PICK t \in Tcb :
        /\ Rx(s, t) /\ tcb[t].state = "SYN_RCVD"
        /\ "R" \notin s.fl
        /\ IF "A" \in s.fl /\ SeqLT(tcb[t].una, s.ack) /\ SeqLE(s.ack, tcb[t].nxt)
           THEN /\ tcb' = IF t \in Kid
                          THEN [tcb EXCEPT ![t] = [tcb[t] EXCEPT !.state = "ESTABLISHED"], !["b"] = WakeSyn(@)]
                          ELSE [tcb EXCEPT ![t] = WakeSyn([tcb[t] EXCEPT !.state = "ESTABLISHED"])]
                /\ Carry(s, {})
           ELSE /\ Carry(s, IF "A" \in s.fl THEN {tcp_tx_reset(s)} ELSE {})
                /\ UNCHANGED tcb
        /\ sent' = sent /\ got' = got
  BY DEF tcp_rx_rcvd
<1> DEFINE r == tcb[t]
<1>2. /\ Host(t) # s.from /\ s \in SegType /\ tcb \in [Tcb -> TcbType] /\ r \in TcbType
      /\ "b" \in Tcb /\ tcb["b"] \in TcbType /\ Kid \cap Main = {} /\ "b" \in Main
  BY <1>1, RxHost, TcpAssumption DEF TypeOK, Tcb, Main
<1>3. CASE ~("A" \in s.fl /\ SeqLT(tcb[t].una, s.ack) /\ SeqLE(s.ack, tcb[t].nxt))
  <2> DEFINE out == IF "A" \in s.fl THEN {tcp_tx_reset(s)} ELSE {}
  <2>1. out \in {{}, {tcp_tx_reset(s)}} /\ Carry(s, out) /\ tcb' = tcb /\ sent' = sent /\ got' = got
    BY <1>1, <1>3
  <2> HIDE DEF out
  <2> QED BY <2>1, GoodRefused
<1>4. CASE "A" \in s.fl /\ SeqLT(tcb[t].una, s.ack) /\ SeqLE(s.ack, tcb[t].nxt)
  <2>0. r = tcb[t] /\ r.state = "SYN_RCVD" /\ "R" \notin s.fl /\ Carry(s, {}) /\ net \cup {} = net
    BY <1>1, <1>4
  <2>1. \E u \in Tcb : Pair(tcb, t, u)
    BY <1>2, <1>4, <2>0, RcvdPair
  <2> DEFINE e == [r EXCEPT !.state = "ESTABLISHED"]
  <2>2. e \in TcbType /\ Flat(r, e) /\ e.state = "ESTABLISHED"
    <3>1. "ESTABLISHED" \in State
      BY DEF State
    <3> QED BY <1>2, <3>1, FlatSmall, Zenon
  <2> HIDE DEF e
  <2>3. ASSUME NEW z \in TcbType, tcb' = [tcb EXCEPT ![t] = z], z.buf = r.buf,
               Good([tcb EXCEPT ![t] = z], net, sent, Taken0)
        PROVE  Good(tcb', net', sent', Taken0')
    <3>1. \A u \in Tcb : tcb'[u].buf = tcb[u].buf
      BY <1>2, <2>3
    <3>2. Taken0' = Taken0
      BY <1>1, <3>1, TakenSame
    <3>3. Good(tcb', net \cup {}, sent, Taken0)
      BY <2>0, <2>3
    <3>4. Good(tcb', net', sent, Taken0)
      BY <2>0, <3>3, CarryGood
    <3> QED BY <1>1, <3>2, <3>4
  <2>4. CASE t \notin Kid
    <3> DEFINE z == WakeSyn(e)
    <3>1. tcb' = [tcb EXCEPT ![t] = z]
      BY <1>1, <1>4, <2>4 DEF e
    <3>2. /\ z \in TcbType /\ Core(e, z) /\ z.state = e.state /\ z.shut = e.shut /\ z.open = e.open
          /\ z.buf = e.buf /\ z.err = e.err /\ z.cn = Unblk(e.cn) /\ z.dly = e.dly
      BY <2>2, WakeFields, Zenon
    <3> HIDE DEF z
    <3>3. /\ Core(r, z) /\ z.state = "ESTABLISHED" /\ z.shut = r.shut /\ z.open = r.open
          /\ z.buf = r.buf /\ z.err = r.err /\ z.cn = Unblk(r.cn) /\ z.dly = r.dly
      BY <2>2, <3>2 DEF Flat, Core
    <3>4. Good([tcb EXCEPT ![t] = z], net, sent, Taken0)
      BY <1>2, <2>0, <2>1, <3>2, <3>3, OpenedGood
    <3> QED BY <2>3, <3>1, <3>2, <3>3, <3>4
  <2>5. CASE t \in Kid
    <3> DEFINE T1 == [tcb EXCEPT ![t] = e]
               q == tcb["b"]
               z == WakeSyn(q)
    <3>0. t # "b"
      BY <1>2, <2>5
    <3>1. tcb' = [T1 EXCEPT !["b"] = z]
      <4>1. tcb' = [tcb EXCEPT ![t] = e, !["b"] = WakeSyn(@)]
        BY <1>1, <1>4, <2>5 DEF e
      <4> QED BY <1>2, <3>0, <4>1
    <3>2. /\ z \in TcbType /\ Core(q, z) /\ z.state = q.state /\ z.shut = q.shut /\ z.open = q.open
          /\ z.buf = q.buf /\ z.err = q.err /\ z.cn = Unblk(q.cn) /\ z.dly = q.dly
      BY <1>2, WakeFields, Zenon
    <3> HIDE DEF z
    <3>3. Good(T1, net, sent, Taken0)
      BY <1>2, <2>0, <2>1, <2>2, OpenedGood DEF Flat
    <3>4. ~q.rport
      <4>1. Sides(tcb)
        BY DEF Good
      <4>2. r.rport
        BY <1>2, <2>0, RcvdFacts
      <4> QED BY <2>5, <4>1, <4>2 DEF Sides
    <3>5. T1["b"] = q
      BY <1>2, <3>0
    <3>6. Good([T1 EXCEPT !["b"] = z], net, sent, Taken0)
      <4> HIDE DEF T1, q
      <4>1. q \in TcbType
        BY <1>2 DEF q
      <4> QED BY <1>2, <3>2, <3>3, <3>4, <3>5, <4>1, QuietSame
    <3>7. \A u \in Tcb : tcb'[u].buf = tcb[u].buf
      BY <1>2, <2>2, <3>0, <3>1, <3>2 DEF Flat
    <3>8. Taken0' = Taken0
      BY <1>1, <3>7, TakenSame
    <3>9. Good(tcb', net \cup {}, sent, Taken0)
      BY <2>0, <3>1, <3>6
    <3>10. Good(tcb', net', sent, Taken0)
      BY <2>0, <3>9, CarryGood
    <3> QED BY <1>1, <3>8, <3>10
  <2> QED BY <2>4, <2>5
<1> QED BY <1>3, <1>4

\* tcp_rx_rcvd keeps everything sound when it gives up.
LEMMA GoodRcvdFails ==
    ASSUME TypeOK, TypeOK', Good(tcb, net, sent, Taken0), NEW s \in net, tcp_rx_rcvd_fails(s)
    PROVE  Good(tcb', net', sent', Taken0')
<1>1. PICK t \in Tcb :
        /\ Rx(s, t)
        /\ tcb' = [tcb EXCEPT ![t] = IF t \in Kid THEN tcp_release(tcb[t]) ELSE tcp_exit_with(tcb[t])]
        /\ Carry(s, {})
        /\ sent' = sent /\ got' = got
  BY DEF tcp_rx_rcvd_fails
<1> DEFINE r == tcb[t]
           z == IF t \in Kid THEN tcp_release(r) ELSE tcp_exit_with(r)
<1>2. tcb \in [Tcb -> TcbType] /\ r \in TcbType /\ net \cup {} = net
  BY DEF TypeOK
<1>3. /\ z \in TcbType /\ Core(r, z) /\ z.state = r.state /\ z.shut = r.shut /\ z.open = r.open
      /\ z.buf = r.buf /\ z.dly = r.dly
      /\ (z.cn = r.cn /\ z.err = r.err) \/ (z.err /\ z.cn = Unblk(r.cn))
  <2>1. tcp_release(r) \in TcbType /\ Flat(r, tcp_release(r)) /\ tcp_release(r).state = r.state
    BY <1>2, FlatSmall
  <2>2. LET e == tcp_exit_with(r) IN
        /\ e \in TcbType /\ Core(r, e) /\ e.state = r.state /\ e.shut = r.shut /\ e.open = r.open
        /\ e.buf = r.buf /\ e.err /\ e.cn = Unblk(r.cn) /\ e.dly = r.dly
    BY <1>2, ExitFields
  <2>3. CASE t \in Kid
    <3>1. z = tcp_release(r)
      BY <2>3
    <3> HIDE DEF r, z
    <3> QED BY <2>1, <3>1 DEF Flat
  <2>4. CASE t \notin Kid
    <3>1. z = tcp_exit_with(r)
      BY <2>4
    <3> HIDE DEF r, z
    <3> QED BY <2>2, <3>1
  <2> QED BY <2>3, <2>4
<1>4. tcb' = [tcb EXCEPT ![t] = z] /\ r = tcb[t]
  BY <1>1
<1> HIDE DEF r, z
<1>5. Good([tcb EXCEPT ![t] = z], net, sent, Taken0)
  BY <1>2, <1>3, <1>4, QuietSame
<1>6. \A u \in Tcb : tcb'[u].buf = tcb[u].buf
  BY <1>2, <1>3, <1>4
<1>7. Taken0' = Taken0
  BY <1>1, <1>6, TakenSame
<1>8. Good(tcb', net \cup {}, sent, Taken0)
  BY <1>2, <1>4, <1>5
<1>9. Good(tcb', net', sent, Taken0)
  BY <1>1, <1>8, CarryGood
<1> QED BY <1>1, <1>7, <1>9

\* A step that moves the flags of a socket.
LEMMA FlagsGood ==
    ASSUME NEW T, NEW N, NEW S, NEW V, Good(T, N, S, V), NEW t \in Tcb, NEW r \in TcbType, r = T[t],
           NEW r2 \in TcbType, Core(r, r2), r2.state = r.state, r.shut => r2.shut, Phase(r2), Live(r) <=> Live(r2)
    PROVE  Good([T EXCEPT ![t] = r2], N, S, V)
<1> DEFINE T2 == [T EXCEPT ![t] = r2]
<1>0. T \in [Tcb -> TcbType] /\ Sides(T)
  BY DEF Good, Typed
<1>1. Moves(r, r2)
  BY DEF Moves
<1>2. \A u \in Tcb : T2[u].state = T[u].state /\ T2[u].rport = T[u].rport
  BY <1>0 DEF Core
<1>3. Sides(T2)
  <2> HIDE DEF T2
  <2> QED BY <1>0, <1>2, SidesSame
<1> QED BY <1>1, <1>3, QuietPut

\* One socket changes, but not what it has received.
LEMMA GoodPut ==
    ASSUME TypeOK, NEW t \in Tcb, NEW r \in TcbType, tcb' = [tcb EXCEPT ![t] = r], r.buf = tcb[t].buf,
           got' = got, sent' = sent, Good([tcb EXCEPT ![t] = r], net', sent, Taken0)
    PROVE  Good(tcb', net', sent', Taken0')
<1>1. \A u \in Tcb : tcb'[u].buf = tcb[u].buf
  BY DEF TypeOK
<1>2. Taken0' = Taken0
  BY <1>1, TakenSame
<1> QED BY <1>2

\* The delayed acknowledgement.
LEMMA GoodDly ==
    ASSUME TypeOK, Good(tcb, net, sent, Taken0), NEW t \in Tcb, tcp_tmr_dly(t)
    PROVE  Good(tcb', net', sent', Taken0')
<1> DEFINE r == tcb[t]
           z == [r EXCEPT !.dly = FALSE]
           N2 == net \cup {tcp_tx_ack(Host(t), tcb[t])}
<1>1. tcb' = [tcb EXCEPT ![t] = z] /\ net' = N2 /\ sent' = sent /\ got' = got /\ r.dly
  BY DEF tcp_tmr_dly
<1>2. r \in TcbType /\ r = tcb[t]
  BY DEF TypeOK
<1>3. z \in TcbType /\ Core(r, z) /\ z.state = r.state /\ z.shut = r.shut /\ z.open = r.open /\ ~z.dly
      /\ z.cn = r.cn /\ z.err = r.err /\ z.buf = r.buf
  BY <1>2 DEF TcbType, Core
<1>4. Live(r)
  <2>1. Phase(r)
    BY <1>2, GoodAt
  <2> QED BY <1>1, <2>1 DEF Phase
<1>5. Good(tcb, N2, sent, Taken0)
  BY <1>2, <1>4, TxAckGood
<1> HIDE DEF z, r, N2
<1>6. Good([tcb EXCEPT ![t] = z], N2, sent, Taken0)
  BY <1>2, <1>3, <1>5, QuietSame
<1> QED BY <1>1, <1>2, <1>3, <1>6, GoodPut

\* tmr_wait fires: sockets are only taken out of the lists.
LEMMA GoodTimewait ==
    ASSUME TypeOK, Good(tcb, net, sent, Taken0), NEW t \in Tcb, tcp_tmr_timewait(t)
    PROVE  Good(tcb', net', sent', Taken0')
<1>0. tcb \in [Tcb -> TcbType] /\ Sides(tcb)
  BY DEF TypeOK, Good
<1>1. /\ tcb' = [u \in Tcb |->
                 IF u = t THEN tcp_release([tcb[t] EXCEPT !.wait = "dead"])
                 ELSE IF {t, u} \subseteq Kid /\ ~tcb[t].listed THEN tcp_release(tcb[u])
                 ELSE tcb[u]]
      /\ net' = net /\ sent' = sent /\ got' = got
  BY DEF tcp_tmr_timewait
<1>2. ASSUME NEW u \in Tcb
      PROVE  /\ tcb'[u] \in TcbType /\ Moves(tcb[u], tcb'[u]) /\ tcb'[u].state = tcb[u].state
             /\ tcb'[u].rport = tcb[u].rport /\ tcb'[u].buf = tcb[u].buf /\ (Live(tcb'[u]) => Live(tcb[u]))
  <2> DEFINE r == tcb[u]
             z == tcb'[u]
  <2>1. r \in TcbType /\ r = tcb[u]
    BY <1>0
  <2>2. z = tcp_release([r EXCEPT !.wait = "dead"]) \/ z = tcp_release(r) \/ z = r
    BY <1>1
  <2> HIDE DEF z, r
  <2>3. /\ z \in TcbType /\ Core(r, z) /\ z.state = r.state /\ z.shut = r.shut /\ z.open = r.open /\ z.dly = r.dly
        /\ z.cn = r.cn /\ z.err = r.err /\ z.buf = r.buf
    BY <2>1, <2>2, ZenonT(30) DEF tcp_release, TcbType, Core
  <2>4. Moves(r, z)
    BY <2>1, <2>3, QuietSame
  <2>5. z.rport = r.rport /\ (Live(z) => Live(r))
    BY <2>3 DEF Core, Live
  <2> QED BY <2>3, <2>4, <2>5 DEF z, r
<1>3. tcb' \in [Tcb -> TcbType]
  <2>1. tcb' = [u \in Tcb |-> tcb'[u]]
    BY <1>1
  <2> QED BY <1>2, <2>1
<1>4. Sides(tcb')
  BY <1>0, <1>2, SidesSame
<1>5. Good(tcb', net, sent, Taken0)
  BY <1>2, <1>3, <1>4, QuietGood
<1>6. Taken0' = Taken0
  BY <1>1, <1>2, TakenSame
<1> QED BY <1>1, <1>5, <1>6

\* Cutting the text of buf_que in two loses nothing.
LEMMA CutSeq ==
    ASSUME NEW b \in Seq(Nat), NEW n \in 0..Len(b), NEW g \in Seq(Nat)
    PROVE  (g \o SubSeq(b, 1, n)) \o SubSeq(b, n + 1, Len(b)) = g \o b
<1> DEFINE p == SubSeq(b, 1, n)
           q == SubSeq(b, n + 1, Len(b))
<1>1. p \in Seq(Nat) /\ q \in Seq(Nat)
  OBVIOUS
<1>2. p \o q = b
  <2>0. Len(b) \in Nat /\ n \in Nat /\ n <= Len(b)
    OBVIOUS
  <2>1. 1 \in 1..(Len(b) + 1) /\ n \in (1 - 1)..Len(b) /\ Len(b) \in n..Len(b)
    BY <2>0
  <2>2. p \o q = SubSeq(b, 1, Len(b))
    BY <2>1, ConcatAdjacentSubSeq
  <2>3. SubSeq(b, 1, Len(b)) = b
    BY SubSeqFull
  <2> QED BY <2>2, <2>3
<1>3. (g \o p) \o q = g \o (p \o q)
  <2> HIDE DEF p, q
  <2>1. \A x, y, z \in Seq(Nat) : (x \o y) \o z = x \o (y \o z)
    BY SMTT(30)
  <2> QED BY <1>1, <2>1
<1> QED BY <1>2, <1>3

\* recvmsg only moves text from buf_que to the process.
LEMMA GoodCopy ==
    ASSUME TypeOK, Good(tcb, net, sent, Taken0), NEW t \in Tcb, NEW rem \in 0..Len0, Copy(t, rem), TypeOK'
    PROVE  Good(tcb', net', sent', Taken0')
<1> DEFINE b == tcb[t].buf
           r == tcb[t]
<1>0. PICK n \in 0..Len(b), left \in 0..Len0, pc \in {"idle", "wait"} : Read(t, n, left, pc)
  BY CopyIs
<1> DEFINE z == [r EXCEPT !.rem = left, !.rd = pc, !.buf = SubSeq(b, n + 1, Len(b))]
<1>1. /\ got' = [got EXCEPT ![t] = got[t] \o SubSeq(b, 1, n)] /\ tcb' = [tcb EXCEPT ![t] = z]
      /\ net' = net /\ sent' = sent
  BY <1>0, CopyIs DEF Read
<1>2. /\ r = tcb[t] /\ r \in TcbType /\ b \in Seq(Nat) /\ got[t] \in Seq(Nat) /\ b = r.buf
      /\ tcb \in [Tcb -> TcbType] /\ got \in [Tcb -> Seq(Nat)]
  BY TcbFields DEF TypeOK
<1>3. n \in 0..Len(b)
  OBVIOUS
<1> HIDE DEF b
<1>4. z = tcb'[t] /\ z \in TcbType
  BY <1>1, <1>2 DEF TypeOK
<1>5. /\ z.rport = r.rport /\ z.iss = r.iss /\ z.una = r.una /\ z.nxt = r.nxt /\ z.rcv = r.rcv
      /\ z.snd = r.snd /\ z.unaq = r.unaq /\ z.state = r.state /\ z.shut = r.shut /\ z.open = r.open
      /\ z.dly = r.dly /\ z.cn = r.cn /\ z.err = r.err /\ z.buf = SubSeq(b, n + 1, Len(b))
  BY <1>2 DEF TcbType
<1> HIDE DEF z, r
<1>6. Good([tcb EXCEPT ![t] = z], net, sent, Taken0)
  BY <1>2, <1>4, <1>5, QuietSame DEF Core
<1>7. got'[t] \o z.buf = got[t] \o r.buf
  <2>1. got'[t] = got[t] \o SubSeq(b, 1, n)
    BY <1>1, <1>2
  <2>2. (got[t] \o SubSeq(b, 1, n)) \o SubSeq(b, n + 1, Len(b)) = got[t] \o b
    BY <1>2, <1>3, CutSeq, ZenonT(30)
  <2> QED BY <1>2, <1>5, <2>1, <2>2
<1>8. \A u \in Tcb : got'[u] \o tcb'[u].buf = got[u] \o tcb[u].buf
  <2> TAKE u \in Tcb
  <2>1. CASE u = t
    BY <1>2, <1>4, <1>7, <2>1
  <2>2. CASE u # t
    BY <1>1, <1>2, <2>2
  <2> QED BY <2>1, <2>2
<1>9. Taken0' = Taken0
  BY <1>8 DEF Taken0, Received
<1> QED BY <1>1, <1>6, <1>9

\* recvmsg that ends with an error.
LEMMA GoodRecvError ==
    ASSUME TypeOK, Good(tcb, net, sent, Taken0), NEW t \in Tcb, RecvError(t)
    PROVE  Good(tcb', net', sent', Taken0')
<1> DEFINE r == tcb[t]
           z == [r EXCEPT !.rd = "idle", !.rem = 0]
<1>1. tcb' = [tcb EXCEPT ![t] = z] /\ net' = net /\ sent' = sent /\ got' = got
  BY DEF RecvError
<1>2. r \in TcbType /\ r = tcb[t] /\ 0 \in 0..Len0
  BY TcpAssumption DEF TypeOK
<1>3. z \in TcbType /\ Core(r, z) /\ z.state = r.state /\ z.shut = r.shut /\ z.open = r.open /\ z.dly = r.dly
      /\ z.cn = r.cn /\ z.err = r.err /\ z.buf = r.buf
  BY <1>2 DEF TcbType, Core
<1> HIDE DEF z, r
<1>4. Good([tcb EXCEPT ![t] = z], net, sent, Taken0)
  BY <1>2, <1>3, QuietSame
<1> QED BY <1>1, <1>2, <1>3, <1>4, GoodPut

\* recvmsg, called or woken.
LEMMA GoodRecv ==
    ASSUME TypeOK, Good(tcb, net, sent, Taken0), NEW t \in Tcb, RecvResume(t) \/ tcp_recvmsg(t), TypeOK'
    PROVE  Good(tcb', net', sent', Taken0')
<1>1. tcb[t].rem \in 0..Len0 /\ Len0 \in 0..Len0
  BY TcpAssumption DEF TypeOK, TcbType
<1> QED BY <1>1, GoodCopy, GoodRecvError DEF RecvResume, tcp_recvmsg

\* connect returns.
LEMMA GoodConnectReturn ==
    ASSUME TypeOK, Good(tcb, net, sent, Taken0), NEW t \in Tcb, ConnectReturn(t)
    PROVE  Good(tcb', net', sent', Taken0')
<1> DEFINE r == tcb[t]
           z == [r EXCEPT !.cn = "idle", !.open = ~r.err]
<1>1. tcb' = [tcb EXCEPT ![t] = z] /\ net' = net /\ sent' = sent /\ got' = got /\ r.cn = "run" /\ r.rport
  BY DEF ConnectReturn
<1>2. r \in TcbType /\ r = tcb[t]
  BY DEF TypeOK
<1>3. z \in TcbType /\ Core(r, z) /\ z.state = r.state /\ z.shut = r.shut /\ z.dly = r.dly
      /\ z.cn = "idle" /\ z.err = r.err /\ z.buf = r.buf /\ z.open = ~r.err /\ z.rport = r.rport
  BY <1>2 DEF TcbType, Core
<1>4. Phase(r)
  BY <1>2, GoodAt
<1> HIDE DEF z, r
<1>5. Live(r) <=> Live(z)
  BY <1>3 DEF Live
<1>6. ~r.open /\ ~r.shut /\ (z.open => z.state \in {"ESTABLISHED", "CLOSE_WAIT"})
  BY <1>1, <1>3, <1>4 DEF Phase
<1>7. Phase(z)
  BY <1>1, <1>3, <1>4, <1>5, <1>6 DEF Phase, Core, Live, Sync
<1>8. Good([tcb EXCEPT ![t] = z], net, sent, Taken0)
  BY <1>2, <1>3, <1>5, <1>7, FlagsGood
<1> QED BY <1>1, <1>2, <1>3, <1>8, GoodPut

\* shutdown only sets flags, and nobody writes after it.
LEMMA GoodShutdown ==
    ASSUME TypeOK, Good(tcb, net, sent, Taken0), NEW t \in Tcb, tcp_shutdown(t)
    PROVE  Good(tcb', net', sent', Taken0')
<1>0. PICK done \in BOOLEAN : tcb' = [tcb EXCEPT ![t] = [tcb[t] EXCEPT !.open = FALSE, !.shut = done]]
  BY DEF tcp_shutdown
<1> DEFINE r == tcb[t]
           z == [r EXCEPT !.open = FALSE, !.shut = done]
<1>1. tcb' = [tcb EXCEPT ![t] = z] /\ net' = net /\ sent' = sent /\ got' = got /\ r.open
  BY <1>0 DEF tcp_shutdown
<1>2. r \in TcbType /\ r = tcb[t]
  BY DEF TypeOK
<1>3. z \in TcbType /\ Core(r, z) /\ z.state = r.state /\ z.shut = done /\ z.dly = r.dly
      /\ z.cn = r.cn /\ z.err = r.err /\ z.buf = r.buf /\ ~z.open /\ z.rport = r.rport
  BY <1>2 DEF TcbType, Core
<1>4. Phase(r)
  BY <1>2, GoodAt
<1> HIDE DEF z, r
<1>5. ~r.shut /\ r.state \in {"ESTABLISHED", "CLOSE_WAIT"} /\ r.rport /\ r.cn = "idle"
  BY <1>1, <1>4 DEF Phase
<1>6. Live(r) /\ Live(z)
  BY <1>3, <1>5 DEF Live, Sync
<1>7. Phase(z)
  BY <1>3, <1>5, <1>6 DEF Phase
<1>8. Good([tcb EXCEPT ![t] = z], net, sent, Taken0)
  BY <1>2, <1>3, <1>5, <1>6, <1>7, FlagsGood
<1> QED BY <1>1, <1>2, <1>3, <1>8, GoodPut

\* listen.
LEMMA GoodTcpListen ==
    ASSUME TypeOK, Good(tcb, net, sent, Taken0), tcp_listen
    PROVE  Good(tcb', net', sent', Taken0')
<1> DEFINE r == tcb["b"]
           z == [r EXCEPT !.state = "LISTEN"]
<1>1. /\ tcb' = [tcb EXCEPT !["b"] = z] /\ net' = net /\ sent' = sent /\ got' = got
      /\ r.state = "CLOSED" /\ ~r.rport
  BY DEF tcp_listen
<1>2. /\ r \in TcbType /\ r = tcb["b"] /\ "b" \in Tcb /\ "a" \in Tcb /\ "b" # "a" /\ "LISTEN" \in State
      /\ tcb \in [Tcb -> TcbType] /\ Sides(tcb) /\ Kid \cap Main = {} /\ "b" \in Main
  BY TcpAssumption DEF TypeOK, Tcb, Main, State, Good
<1>3. z \in TcbType /\ Flat(r, z) /\ z.state = "LISTEN"
  BY <1>2, FlatSmall, Zenon
<1>4. Phase(r)
  BY <1>2, GoodAt
<1> HIDE DEF z, r
<1>5. ~Live(r) /\ ~Live(z) /\ ~r.shut /\ ~z.rport
  BY <1>1, <1>3, <1>4 DEF Live, Sync, Flat, Core, Phase
<1>6. Phase(z)
  BY <1>1, <1>3, <1>4, <1>5 DEF Phase, Flat, Core, Sync
<1>7. Moves(r, z)
  BY <1>1, <1>3, <1>5, <1>6 DEF Moves, Flat, RcvOpen, PeerDone
<1>8. Sides([tcb EXCEPT !["b"] = z])
  <2>1. \A k \in Kid : k # "b" /\ k \in Tcb
    BY <1>2 DEF Tcb
  <2>2. tcb["a"].state = "SYN_RCVD" => FALSE
    BY <1>1, <1>2 DEF Sides
  <2> QED BY <1>2, <1>3, <1>5, <2>1, <2>2 DEF Sides
<1>9. Good([tcb EXCEPT !["b"] = z], net, sent, Taken0)
  BY <1>2, <1>3, <1>5, <1>7, <1>8, QuietPut
<1> QED BY <1>1, <1>2, <1>3, <1>9, GoodPut DEF Flat

\* accept with nothing in the queue, and accept of a child.
LEMMA GoodAccept ==
    ASSUME TypeOK, Waiting, SleepInv, Good(tcb, net, sent, Taken0), tcp_accept
    PROVE  Good(tcb', net', sent', Taken0')
<1> DEFINE q == tcb["b"]
<1>0. PICK c \in {"idle", "wait", "run"}, n \in 1..(Len(acpt) + 1) :
        AcceptKeeps(c) \/ \E i \in DOMAIN acpt : i < n /\ AcceptOpens(c, i)
  BY AcceptIs
<1>1. /\ net' = net /\ sent' = sent /\ got' = got /\ q.state = "LISTEN"
      /\ \/ tcb' = [tcb EXCEPT !["b"] = [q EXCEPT !.cn = c]]
         \/ \E i \in DOMAIN acpt :
               /\ tcb[acpt[i]].state = "ESTABLISHED"
               /\ tcb' = [tcb EXCEPT !["b"] = [q EXCEPT !.cn = c], ![acpt[i]] = [@ EXCEPT !.open = TRUE]]
  BY <1>0, AcceptIs DEF AcceptKeeps, AcceptOpens
<1>2. q \in TcbType /\ q = tcb["b"] /\ "b" \in Tcb /\ tcb \in [Tcb -> TcbType] /\ Sides(tcb) /\ Kid \cap Main = {} /\ "b" \in Main
  BY TcpAssumption DEF TypeOK, Tcb, Main, Good
<1>3. ~q.rport
  BY <1>1, <1>2 DEF Sides
<1>4. LET z == [q EXCEPT !.cn = c] IN
      z \in TcbType /\ z.buf = q.buf /\ Good([tcb EXCEPT !["b"] = z], net, sent, Taken0)
  <2> DEFINE z == [q EXCEPT !.cn = c]
  <2>1. z \in TcbType /\ Core(q, z) /\ z.state = q.state /\ z.shut = q.shut /\ z.open = q.open /\ z.dly = q.dly
        /\ z.buf = q.buf
    BY <1>2 DEF TcbType, Core
  <2> HIDE DEF z, q
  <2>2. Good([tcb EXCEPT !["b"] = z], net, sent, Taken0)
    BY <1>2, <1>3, <2>1, QuietSame
  <2> QED BY <2>1, <2>2 DEF z
<1>5. CASE tcb' = [tcb EXCEPT !["b"] = [q EXCEPT !.cn = c]]
  <2> DEFINE z == [q EXCEPT !.cn = c]
  <2>1. z \in TcbType /\ z.buf = q.buf /\ Good([tcb EXCEPT !["b"] = z], net, sent, Taken0) /\ tcb' = [tcb EXCEPT !["b"] = z]
    BY <1>4, <1>5
  <2> HIDE DEF z
  <2> QED BY <1>1, <1>2, <2>1, GoodPut
<1>6. CASE \E i \in DOMAIN acpt :
               /\ tcb[acpt[i]].state = "ESTABLISHED"
               /\ tcb' = [tcb EXCEPT !["b"] = [q EXCEPT !.cn = c], ![acpt[i]] = [@ EXCEPT !.open = TRUE]]
  <2>1. PICK i \in DOMAIN acpt :
               /\ tcb[acpt[i]].state = "ESTABLISHED"
               /\ tcb' = [tcb EXCEPT !["b"] = [q EXCEPT !.cn = c], ![acpt[i]] = [@ EXCEPT !.open = TRUE]]
    BY <1>6
  <2> DEFINE k == acpt[i]
             z == [q EXCEPT !.cn = c]
             T1 == [tcb EXCEPT !["b"] = z]
             r == tcb[k]
             e == [r EXCEPT !.open = TRUE]
  <2>2. k \in Kid /\ k \in Tcb /\ k # "b" /\ i \in 1..Len(acpt)
    BY <1>2 DEF TypeOK, Tcb
  <2>3. z \in TcbType /\ z.buf = q.buf /\ Good(T1, net, sent, Taken0)
    BY <1>4
  <2>4. r.rport /\ ~r.open /\ ~r.shut /\ r.state = "ESTABLISHED" /\ r.cn = "idle" /\ r \in TcbType
    BY <1>2, <2>1, <2>2 DEF Waiting, SleepInv, Sleeper
  <2>5. tcb' = [T1 EXCEPT ![k] = e] /\ T1[k] = r
    BY <1>2, <2>1, <2>2
  <2>6. e \in TcbType /\ Core(r, e) /\ e.state = r.state /\ e.shut = r.shut /\ e.open /\ e.dly = r.dly
        /\ e.buf = r.buf /\ e.cn = r.cn /\ e.err = r.err
    BY <2>4 DEF TcbType, Core
  <2>7. \A u \in Tcb : tcb'[u].buf = tcb[u].buf
    <3> HIDE DEF z, q, e, r, k
    <3> QED BY <1>2, <2>2, <2>3, <2>5, <2>6 DEF r
  <2> HIDE DEF z, q, e, r, k, T1
  <2>8. Live(r) <=> Live(e)
    BY <2>6 DEF Live
  <2>9. Phase(r)
    BY <2>2, <2>3, <2>5, GoodAt
  <2>10. Phase(e)
    <3>1. Live(e) /\ e.rport
      BY <2>4, <2>6 DEF Live, Sync, Core
    <3> QED BY <2>4, <2>6, <3>1 DEF Phase
  <2>11. Good([T1 EXCEPT ![k] = e], net, sent, Taken0)
    BY <2>2, <2>3, <2>4, <2>5, <2>6, <2>8, <2>10, FlagsGood
  <2>12. Taken0' = Taken0
    BY <1>1, <2>7, TakenSame
  <2> QED BY <1>1, <2>5, <2>11, <2>12
<1> QED BY <1>1, <1>5, <1>6

\* r2 is r with the new mbuf d, of k bytes numbered from n + 1, at the end of snd_que
Wrote(r, r2, n, k, d) ==
    /\ r2.snd = Append(r.snd, d) /\ d \in Mbuf /\ d \in Seq(Nat) /\ Len(d) = k /\ k \in Nat \ {0} /\ Run(d, n + 1) /\ d[1] = n + 1
    /\ r2.rport = r.rport /\ r2.iss = r.iss /\ r2.una = r.una /\ r2.nxt = r.nxt /\ r2.rcv = r.rcv
    /\ r2.unaq = r.unaq /\ r2.state = r.state /\ r2.shut = r.shut /\ r2.open = r.open /\ r2.dly = r.dly
    /\ r2.cn = r.cn /\ r2.err = r.err

\* The queues after a write.
LEMMA WriteEnd ==
    ASSUME NEW r \in TcbType, NEW r2 \in TcbType, NEW n \in Nat, NEW k, NEW d, NEW v, EndOK(r, n, v), r.open,
           Wrote(r, r2, n, k, d)
    PROVE  EndOK(r2, n + k, v) /\ Live(r) /\ Live(r2) /\ r.rport /\ ~r.shut
<1>0. /\ r2.snd = Append(r.snd, d) /\ d \in Mbuf /\ Len(d) = k /\ k \in Nat \ {0} /\ Run(d, n + 1) /\ d[1] = n + 1
      /\ r2.rport = r.rport /\ r2.iss = r.iss /\ r2.una = r.una /\ r2.nxt = r.nxt /\ r2.rcv = r.rcv
      /\ r2.unaq = r.unaq /\ r2.state = r.state /\ r2.shut = r.shut /\ r2.open = r.open /\ r2.dly = r.dly
      /\ r2.cn = r.cn /\ r2.err = r.err
  BY DEF Wrote
<1>1. Phase(r) /\ ~r.shut /\ r.state \in {"ESTABLISHED", "CLOSE_WAIT"} /\ r.rport
  BY DEF EndOK, Phase
<1>2. Live(r) /\ Live(r2)
  BY <1>0, <1>1 DEF Live, Sync
<1>3. Phase(r2)
  BY <1>0, <1>1, <1>2 DEF Phase
<1>4. Chain(r, n)
  BY <1>1 DEF EndOK
<1>5. r.iss \in Int /\ r.nxt \in Int /\ r.una \in Int /\ r.snd \in Seq(Mbuf)
  BY TcbFields
<1> DEFINE q == Append(r.snd, d)
           l == Len(r.snd)
<1>6. l \in Nat /\ q \in Seq(Mbuf) /\ Len(q) = l + 1 /\ q # <<>> /\ (\A i \in 1..l : q[i] = r.snd[i]) /\ q[l + 1] = d
  BY <1>0, <1>5, SMTT(30)
<1>7. /\ \A i \in 1..l : Run(r.snd[i], r.snd[i][1]) /\ r.snd[i][1] + Len(r.snd[i]) <= n + 1
      /\ \A i \in 1..(l - 1) : r.snd[i + 1][1] = r.snd[i][1] + Len(r.snd[i])
      /\ r.snd # <<>> => r.snd[1][1] = r.nxt - r.iss /\ r.snd[l][1] + Len(r.snd[l]) = n + 1
      /\ r.snd = <<>> => r.nxt = r.iss + 1 + n
  BY <1>1, <1>4 DEF Chain, SndQue, Finished
<1>8. \A i \in 1..l : r.snd[i][1] \in Nat /\ Len(r.snd[i]) \in Nat
  <2> TAKE i \in 1..l
  <2>1. r.snd[i] \in Seq(Nat) \ {<<>>}
    BY <1>5 DEF Mbuf
  <2> QED BY <2>1
<1> HIDE DEF q
<1>9. SndQue(r2, n + k)
  <2>1. ASSUME NEW i \in 1..Len(q)
        PROVE  Run(q[i], q[i][1]) /\ q[i][1] + Len(q[i]) <= (n + k) + 1
    <3>1. CASE i \in 1..l
      <4> DEFINE b == r.snd[i][1]
                 c == Len(r.snd[i])
      <4>1. q[i] = r.snd[i] /\ Run(q[i], q[i][1]) /\ b + c <= n + 1 /\ b \in Nat /\ c \in Nat
        BY <1>6, <1>7, <1>8, <3>1
      <4> HIDE DEF b, c
      <4>2. b + c <= (n + k) + 1
        BY <1>0, <4>1
      <4> QED BY <4>1, <4>2 DEF b, c
    <3>2. CASE i = l + 1
      <4>1. q[i] = d
        BY <1>6, <3>2
      <4>2. Run(d, d[1]) /\ d[1] + Len(d) <= (n + k) + 1
        BY <1>0
      <4> QED BY <4>1, <4>2
    <3> QED BY <1>6, <3>1, <3>2
  <2>2. ASSUME NEW i \in 1..(Len(q) - 1)
        PROVE  q[i + 1][1] = q[i][1] + Len(q[i])
    <3>1. CASE i \in 1..(l - 1)
      <4>1. i \in 1..l /\ i + 1 \in 1..l
        BY <1>6, <3>1
      <4>2. q[i] = r.snd[i] /\ q[i + 1] = r.snd[i + 1]
        BY <1>6, <4>1
      <4> QED BY <1>7, <3>1, <4>2
    <3>2. CASE i = l
      <4>1. l \in 1..l /\ q[i] = r.snd[l] /\ q[i + 1] = d
        BY <1>6, <3>2
      <4>2. r.snd # <<>>
        BY <1>5, <4>1
      <4> QED BY <1>0, <1>7, <4>1, <4>2
    <3> QED BY <1>6, <3>1, <3>2
  <2>3. q[1][1] = r.nxt - r.iss
    <3>1. CASE r.snd # <<>>
      <4>1. 1 \in 1..l
        BY <1>5, <1>6, <3>1
      <4> QED BY <1>6, <1>7, <3>1, <4>1
    <3>2. CASE r.snd = <<>>
      <4>1. l = 0
        BY <3>2
      <4>2. q[1] = d
        BY <1>6, <4>1
      <4>3. n + 1 = r.nxt - r.iss
        BY <1>5, <1>7, <3>2
      <4> QED BY <1>0, <4>2, <4>3
    <3> QED BY <3>1, <3>2
  <2>4. q[Len(q)][1] + Len(q[Len(q)]) = (n + k) + 1
    <3>1. q[Len(q)] = d
      BY <1>6
    <3>2. (n + 1) + k = (n + k) + 1
      BY <1>0
    <3> QED BY <1>0, <3>1, <3>2
  <2>5. r2.snd = q /\ r2.nxt = r.nxt /\ r2.iss = r.iss
    BY <1>0 DEF q
  <2> QED BY <2>1, <2>2, <2>3, <2>4, <2>5 DEF SndQue
<1>10. UnaQue(r2) /\ r2.iss <= r2.una /\ r2.una <= r2.nxt /\ r2.iss + 1 <= r2.nxt
  BY <1>0, <1>4 DEF Chain, UnaQue
<1>11. r2.snd # <<>>
  BY <1>0, <1>6 DEF q
<1>12. Chain(r2, n + k)
  BY <1>9, <1>10, <1>11 DEF Chain
<1> QED BY <1>0, <1>1, <1>2, <1>3, <1>12 DEF EndOK

\* The streams after a write.
LEMMA WriteStream ==
    ASSUME NEW r \in TcbType, NEW r2 \in TcbType, NEW n \in Nat, NEW j, NEW d, NEW v, ~r.shut, Wrote(r, r2, n, j, d),
           NEW q \in TcbType, NEW k \in Nat, NEW w \in Seq(Nat), Stream(r, n, v, q, k, w)
    PROVE  Stream(r2, n + j, v, q, k, w)
<1>0. /\ r2.snd = Append(r.snd, d) /\ d \in Seq(Nat) /\ Len(d) = j /\ j \in Nat \ {0} /\ Run(d, n + 1) /\ d \in Mbuf
      /\ r2.rport = r.rport /\ r2.iss = r.iss /\ r2.nxt = r.nxt /\ r2.rcv = r.rcv
      /\ r2.unaq = r.unaq /\ r2.state = r.state /\ r2.shut = r.shut
  BY DEF Wrote
<1>1. (To(r2, q) <=> To(r, q)) /\ (To(q, r2) <=> To(q, r))
  BY <1>0 DEF To
<1>2. Taking(r, v, q, k) => Taking(r2, v, q, k)
  BY <1>0 DEF Taking
<1>3. Taking(q, w, r, n) => Taking(q, w, r2, n + j)
  <2>1. ASSUME Taking(q, w, r, n) PROVE Len(w) <= n + j
    <3>1. Len(w) \in Nat /\ Len(w) <= n
      BY <2>1 DEF Taking
    <3> QED BY <1>0, <3>1
  <2> QED BY <1>0, <2>1 DEF Taking
<1>4. ASSUME NEW i \in 1..(n + j), Kept(r, n, w)
      PROVE  Queued(r2, i) \/ i <= Len(w)
  <2> DEFINE l == Len(r.snd)
  <2>0. r.snd \in Seq(Mbuf) /\ l \in Nat
    BY TcbFields
  <2>1. /\ r2.snd \in Seq(Mbuf) /\ DOMAIN r2.snd = 1..(l + 1)
        /\ (\A a \in 1..l : r2.snd[a] = r.snd[a]) /\ r2.snd[l + 1] = d /\ DOMAIN r.snd = 1..l
    BY <1>0, <2>0
  <2>2. CASE i \in 1..n
    <3>1. Queued(r, i) \/ i <= Len(w)
      BY <1>4, <2>2 DEF Kept
    <3>2. ASSUME Queued(r, i) PROVE Queued(r2, i)
      <4>1. CASE \E a \in DOMAIN r.snd : \E b \in DOMAIN r.snd[a] : r.snd[a][b] = i
        <5>1. PICK a \in 1..l : \E b \in DOMAIN r.snd[a] : r.snd[a][b] = i
          BY <2>1, <4>1
        <5>2. a \in 1..(l + 1) /\ r2.snd[a] = r.snd[a]
          BY <2>0, <2>1
        <5> QED BY <2>1, <5>1, <5>2 DEF Queued
      <4>2. CASE \E m \in r.unaq : \E b \in DOMAIN m.data : m.data[b] = i
        BY <1>0, <4>2 DEF Queued
      <4> QED BY <3>2, <4>1, <4>2 DEF Queued
    <3> QED BY <3>1, <3>2
  <2>3. CASE i \notin 1..n
    <3>1. i \in Int /\ i - n \in 1..j /\ (n + 1) + ((i - n) - 1) = i
      BY <1>0, <2>3
    <3>2. d[i - n] = i /\ i - n \in DOMAIN d
      BY <1>0, <3>1 DEF Run
    <3>3. l + 1 \in DOMAIN r2.snd
      BY <2>0, <2>1
    <3> QED BY <2>1, <3>2, <3>3 DEF Queued
  <2> QED BY <2>2, <2>3
<1>5. Kept(r, n, w) => Kept(r2, n + j, w)
  BY <1>4 DEF Kept
<1> QED BY <1>1, <1>2, <1>3, <1>5 DEF Stream

\* A write keeps everything sound, while there are numbers for it.
LEMMA WriteGood ==
    ASSUME NEW T, NEW N, NEW S, NEW V, Good(T, N, S, V), NEW t \in Tcb, NEW r \in TcbType, r = T[t], r.open,
           NEW r2 \in TcbType, NEW k \in Nat, NEW d, Wrote(r, r2, S[t], k, d),
           NEW T2, T2 = [T EXCEPT ![t] = r2], NEW S2, S2 = [S EXCEPT ![t] = S[t] + k], Room(T2, S2), Apart(T2, S2)
    PROVE  Good(T2, N, S2, V)
<1> DEFINE n == S[t]
           v == V[t]
<1>0. /\ T \in [Tcb -> TcbType] /\ S \in [Tcb -> Nat] /\ V \in [Tcb -> Seq(Nat)] /\ Sides(T) /\ Links(T)
      /\ Streams(T, S, V) /\ n \in Nat /\ v \in Seq(Nat) /\ EndOK(r, n, v)
  BY GoodAt DEF Good, Typed
<1>1. EndOK(r2, n + k, v) /\ Live(r) /\ Live(r2) /\ r.rport /\ ~r.shut
  BY <1>0, WriteEnd
<1>2. /\ r2.rport = r.rport /\ r2.iss = r.iss /\ r2.nxt = r.nxt /\ r2.rcv = r.rcv
      /\ r2.unaq = r.unaq /\ r2.state = r.state /\ r2.shut = r.shut /\ r2.open
  BY DEF Wrote
<1>3. \A u \in Tcb : (To(r, T[u]) <=> To(r2, T[u])) /\ (To(T[u], r) <=> To(T[u], r2))
  BY <1>2 DEF To
<1>4. \A u \in Tcb : Host(u) # Host(t) => Stream(r2, n + k, v, T[u], S[u], V[u])
  <2> TAKE u \in Tcb
  <2> HAVE Host(u) # Host(t)
  <2>1. Stream(r, n, v, T[u], S[u], V[u])
    BY <1>0 DEF Streams
  <2> QED BY <1>0, <1>1, <2>1, WriteStream
<1>5. r2.state \notin {"LISTEN", "SYN_RCVD", "SYN_SENT"}
  <2>1. Phase(r2)
    BY <1>1 DEF EndOK
  <2> QED BY <1>2, <2>1 DEF Phase
<1>6. Sides(T2)
  BY <1>0, <1>1, <1>2, <1>5, SidesPut
<1>7. \E y \in Tcb : Host(y) # Host(t) /\ To(r2, T[y]) /\ To(T[y], r2)
  <2>1. PICK y \in Tcb : Pair(T, t, y)
    BY <1>0, <1>1 DEF Links
  <2> QED BY <1>3, <2>1 DEF Pair, Link
<1>8. Grown(r, n, v, r2, n + k, v)
  <2>1. r.nxt \in Int /\ r.rcv \in Int /\ Len(v) \in Int
    BY <1>0, TcbFields
  <2> QED BY <1>0, <1>1, <1>2, <2>1 DEF Grown
<1>9. Fits(T, S, V, t, r2, n + k, v)
  BY <1>1, <1>3, <1>4, <1>5, <1>7, <1>8 DEF Fits
<1>10. V = [V EXCEPT ![t] = v] /\ n + k \in Nat
  BY <1>0
<1> DEFINE m == n + k
<1>11. S2 = [S EXCEPT ![t] = m] /\ m \in Nat /\ Fits(T, S, V, t, r2, m, v) /\ v \in Seq(Nat)
  BY <1>0, <1>9, <1>10
<1> HIDE DEF m, n, v
<1>12. ASSUME NEW w \in Seq(Nat), NEW V2, V2 = [V EXCEPT ![t] = w], NEW i \in Nat, NEW S3, S3 = [S EXCEPT ![t] = i],
              Room(T2, S3), Apart(T2, S3), Fits(T, S, V, t, r2, i, w)
       PROVE  Good(T2, N, S3, V2)
  BY <1>6, <1>12, PutGood, Zenon
<1> QED BY <1>10, <1>11, <1>12, Zenon

\* sendmsg keeps everything sound.
LEMMA GoodSendmsg ==
    ASSUME TypeOK, TypeOK', Good(tcb, net, sent, Taken0), NumbersApart', NEW t \in Tcb, tcp_sendmsg(t)
    PROVE  Good(tcb', net', sent', Taken0')
<1>0. PICK n \in WriteSizes :
        /\ LET m == [i \in 1..n |-> sent[t] + i]
               x == tcp_do_xmit(Host(t), [tcb[t] EXCEPT !.snd = Append(@, m)]) IN
           tcb' = [tcb EXCEPT ![t] = x.r] /\ net' = net \cup x.out
        /\ sent' = [sent EXCEPT ![t] = sent[t] + n] /\ got' = got /\ tcb[t].open
  BY DEF tcp_sendmsg
<1> DEFINE r == tcb[t]
           m == [i \in 1..n |-> sent[t] + i]
           r1 == [r EXCEPT !.snd = Append(@, m)]
           y == tcp_do_xmit(Host(t), r1)
           T1 == [tcb EXCEPT ![t] = r1]
<1>1. /\ tcb \in [Tcb -> TcbType] /\ sent \in [Tcb -> Nat] /\ r \in TcbType /\ r = tcb[t] /\ sent[t] \in Nat
      /\ r.snd \in Seq(Mbuf) /\ n \in Nat \ {0} /\ n \in Nat /\ Host(t) \in Main
  BY TcbFields, HostType, TcpAssumption DEF TypeOK
<1>2. m \in Mbuf /\ m \in Seq(Nat) /\ Len(m) = n /\ Run(m, sent[t] + 1) /\ m[1] = sent[t] + 1
  <2>1. m \in Seq(Nat) /\ Len(m) = n /\ \A i \in 1..n : m[i] = sent[t] + i
    BY <1>1
  <2>2. 1 \in 1..n
    BY <1>1
  <2>3. m # <<>>
    <3>1. Len(m) # 0
      BY <1>1, <2>1
    <3> HIDE DEF m
    <3> QED BY <3>1
  <2>4. Run(m, sent[t] + 1)
    <3> SUFFICES ASSUME NEW i \in 1..n PROVE m[i] = (sent[t] + 1) + (i - 1)
      BY <2>1 DEF Run
    <3>1. m[i] = sent[t] + i /\ i \in Int
      BY <2>1
    <3> HIDE DEF m
    <3> QED BY <1>1, <3>1
  <2> HIDE DEF m
  <2> QED BY <2>1, <2>2, <2>3, <2>4 DEF Mbuf
<1>3. /\ tcb' = [tcb EXCEPT ![t] = y.r] /\ net' = net \cup y.out
      /\ sent' = [sent EXCEPT ![t] = sent[t] + n] /\ got' = got /\ r.open
  BY <1>0
<1> HIDE DEF m
<1>4. r1 \in TcbType /\ r1.buf = r.buf
  <2>1. Append(r.snd, m) \in Seq(Mbuf)
    BY <1>1, <1>2
  <2> QED BY <1>1, <2>1 DEF TcbType
<1>5. Wrote(r, r1, sent[t], n, m)
  BY <1>1, <1>2 DEF Wrote, TcbType
<1>6. r1.rport = r.rport /\ r1.iss = r.iss /\ r1.state = r.state /\ r1.open
  BY <1>3, <1>5 DEF Wrote
<1> HIDE DEF r1, r
<1>7. y \in Reply /\ y.r \in TcbType
  <2>1. y \in Reply
    BY <1>1, <1>4, XmitType
  <2> QED BY <2>1 DEF Reply
<1>8. y.r.rport = r1.rport /\ y.r.buf = r1.buf /\ y.r.iss = r1.iss
  <2>1. y.r.rport = r1.rport /\ y.r.buf = r1.buf
    BY <1>1, <1>4, XmitKeeps
  <2>2. y.r.iss = r1.iss
    BY <1>1, <1>4, CalmXmit DEF Calm
  <2> QED BY <2>1, <2>2
<1>9. y = tcp_do_xmit(Host(t), r1)
  OBVIOUS
<1> HIDE DEF y
<1>10. Room(T1, sent') /\ Apart(T1, sent')
  <2>1. Room(tcb', sent') /\ Apart(tcb', sent')
    BY DEF NumbersApart
  <2>2. \A u \in Tcb : T1[u].rport = tcb'[u].rport /\ T1[u].iss = tcb'[u].iss
    BY <1>1, <1>3, <1>6, <1>8
  <2> HIDE DEF T1
  <2> QED BY <2>1, <2>2, SameNumbers
<1>11. Good(T1, net, sent', Taken0)
  <2>1. T1 = [tcb EXCEPT ![t] = r1]
    OBVIOUS
  <2> HIDE DEF T1
  <2> QED BY <1>1, <1>3, <1>4, <1>5, <1>10, <2>1, WriteGood
<1>12. Good([T1 EXCEPT ![t] = y.r], net \cup y.out, sent', Taken0)
  <2>1. r1 = T1[t]
    BY <1>1
  <2>2. r1.state \in {"ESTABLISHED", "CLOSE_WAIT"}
    <3>1. Phase(r)
      BY <1>1, GoodAt
    <3> QED BY <1>3, <1>6, <3>1 DEF Phase
  <2> HIDE DEF T1
  <2> QED BY <1>4, <1>7, <1>9, <1>11, <2>1, <2>2, XmitGood
<1>13. [T1 EXCEPT ![t] = y.r] = tcb'
  <2>1. [[tcb EXCEPT ![t] = r1] EXCEPT ![t] = y.r] = [tcb EXCEPT ![t] = y.r]
    BY <1>1, <1>4, <1>7, PutTwice, ZenonT(30)
  <2> QED BY <1>3, <2>1
<1>14. \A u \in Tcb : tcb'[u].buf = tcb[u].buf
  BY <1>1, <1>3, <1>4, <1>8
<1>15. Taken0' = Taken0
  BY <1>3, <1>14, TakenSame
<1> QED BY <1>3, <1>12, <1>13, <1>15

\* r is what connect makes of a socket, or what a listening socket makes for a SYN from q
Fresh(r, q) ==
    /\ r.rport /\ r.una = r.iss /\ r.nxt = Add(r.iss, 1) /\ r.snd = <<>> /\ r.unaq = {}
    /\ ~r.shut /\ ~r.open /\ ~r.dly /\ r.cn # "run"
    /\ \/ r.state = "SYN_SENT" /\ r.rcv = 0
       \/ r.state = "SYN_RCVD" /\ q.rport /\ r.rcv = q.iss + 1

\* A socket without a peer has no stream and no links.
LEMMA UnusedFacts ==
    ASSUME NEW T, NEW N, NEW S, NEW V, Good(T, N, S, V), NEW t \in Tcb, NEW r \in TcbType, r = T[t],
           ~r.rport, r.state = "CLOSED"
    PROVE  /\ S[t] = 0 /\ V[t] = <<>> /\ r.rcv = 0 /\ ~Live(r) /\ ~r.shut /\ ~r.open /\ ~r.dly
           /\ r.snd = <<>> /\ r.unaq = {}
<1>1. EndOK(r, S[t], V[t]) /\ Phase(r)
  BY GoodAt
<1>2. ~r.shut
  BY <1>1 DEF Phase
<1>3. ~Live(r)
  BY <1>2 DEF Live, Sync
<1> QED BY <1>1, <1>2, <1>3 DEF EndOK, Phase

\* The state of a fresh socket.
LEMMA FreshEnd ==
    ASSUME NEW r \in TcbType, NEW q, Fresh(r, q), r.iss + 3 < SEQ
    PROVE  /\ EndOK(r, 0, <<>>) /\ ~Live(r) /\ r.nxt = r.iss + 1
           /\ r.iss + 1 <= r.nxt /\ r.nxt <= r.iss + 0 + 3
<1>1. r.iss \in Nat /\ r.iss \in Int /\ r.nxt \in Int /\ SEQ \in Int
  BY TcbFields, SeqNrInt, TcpAssumption
<1>2. r.nxt = r.iss + 1
  <2>1. r.iss + 1 < SEQ
    BY <1>1
  <2> QED BY <1>1, <2>1, AddPlain DEF Fresh
<1>3. ~Live(r)
  BY DEF Fresh, Live, Sync
<1>4. Phase(r)
  BY <1>3 DEF Fresh, Phase, Sync
<1>5. Idle(r, 0, <<>>)
  BY <1>2 DEF Fresh, Idle
<1>6. UnaQue(r)
  BY DEF Fresh, UnaQue
<1>7. SndQue(r, 0)
  <2>1. r.snd = <<>>
    BY DEF Fresh
  <2>2. Len(r.snd) = 0
    BY <2>1
  <2>3. 1..0 = {} /\ 1..(0 - 1) = {}
    OBVIOUS
  <2> QED BY <2>1, <2>2, <2>3 DEF SndQue
<1>8. Finished(r, 0)
  BY <1>1, <1>2 DEF Finished
<1>9. r.iss <= r.una /\ r.una <= r.nxt /\ r.iss + 1 <= r.nxt /\ r.nxt <= r.iss + 0 + 3
  BY <1>1, <1>2 DEF Fresh
<1>10. Chain(r, 0)
  BY <1>6, <1>7, <1>8, <1>9 DEF Chain
<1> QED BY <1>2, <1>3, <1>4, <1>5, <1>9, <1>10 DEF EndOK, Fresh

\* A socket that changes, with numbers that stay apart.
LEMMA PutNumbers ==
    ASSUME NEW T, NEW N, NEW S, NEW V, Good(T, N, S, V), NEW t \in Tcb, NEW r \in TcbType,
           NEW T2, T2 = [T EXCEPT ![t] = r], Room(T2, S), Apart(T2, S), Sides(T2),
           Fits(T, S, V, t, r, S[t], V[t])
    PROVE  Good(T2, N, S, V)
<1>1. S \in [Tcb -> Nat] /\ V \in [Tcb -> Seq(Nat)]
  BY DEF Good, Typed
<1>2. S = [S EXCEPT ![t] = S[t]] /\ V = [V EXCEPT ![t] = V[t]] /\ S[t] \in Nat /\ V[t] \in Seq(Nat)
  BY <1>1
<1>3. ASSUME NEW n \in Nat, NEW v \in Seq(Nat), NEW S2, NEW V2, S2 = [S EXCEPT ![t] = n],
             V2 = [V EXCEPT ![t] = v], Room(T2, S2), Apart(T2, S2), Fits(T, S, V, t, r, n, v)
      PROVE  Good(T2, N, S2, V2)
  BY <1>3, PutGood, Zenon
<1> QED BY <1>2, <1>3, Zenon

\* A socket that takes a peer keeps everything sound, when its numbers are free.
LEMMA FreshGood ==
    ASSUME NEW T, NEW N, NEW S, NEW V, Good(T, N, S, V), NEW t \in Tcb, NEW r \in TcbType, r = T[t],
           ~r.rport, r.state = "CLOSED", NEW x \in Tcb, NEW r2 \in TcbType, Fresh(r2, T[x]),
           r2.state = "SYN_RCVD" => \A u \in Tcb : Host(u) # Host(t) <=> u = x,
           NEW T2, T2 = [T EXCEPT ![t] = r2], Room(T2, S), Apart(T2, S), Sides(T2)
    PROVE  Good(T2, N, S, V)
<1>0. /\ T \in [Tcb -> TcbType] /\ S \in [Tcb -> Nat] /\ V \in [Tcb -> Seq(Nat)] /\ Spans(T, S)
      /\ S = [S EXCEPT ![t] = S[t]] /\ V = [V EXCEPT ![t] = V[t]]
  <2>1. T \in [Tcb -> TcbType] /\ S \in [Tcb -> Nat] /\ V \in [Tcb -> Seq(Nat)] /\ Spans(T, S)
    BY GoodSpans DEF Good, Typed
  <2> QED BY <2>1
<1>1. S[t] = 0 /\ V[t] = <<>> /\ r.rcv = 0 /\ ~Live(r) /\ ~r.shut /\ r.snd = <<>> /\ r.unaq = {}
  BY UnusedFacts
<1>2. r2.iss + 3 < SEQ
  <2>1. T2[t] = r2
    BY <1>0
  <2>2. r2.iss + S[t] + 3 < SEQ
    BY <2>1 DEF Room
  <2>3. r2.iss \in Int
    BY TcbFields
  <2> QED BY <1>1, <2>2, <2>3
<1>3. EndOK(r2, 0, <<>>) /\ ~Live(r2) /\ r2.nxt = r2.iss + 1 /\ r2.iss + 1 <= r2.nxt /\ r2.nxt <= r2.iss + 0 + 3
  BY <1>2, FreshEnd
<1>4. \A u \in Tcb : ~To(T[u], r) /\ ~To(r, T[u])
  BY DEF To
<1>5. \A u \in Tcb : Host(u) # Host(t) => ~To(T[u], r2)
  <2> SUFFICES ASSUME NEW u \in Tcb, Host(u) # Host(t), To(T[u], r2) PROVE FALSE
    OBVIOUS
  <2>1. Apart([T EXCEPT ![t] = r2], [S EXCEPT ![t] = 0])
    BY <1>0, <1>1
  <2>2. \A y \in Tcb : Host(y) # Host(t) /\ To(T[y], T[t]) => To(T[y], r2)
    BY <1>4
  <2>3. To(T[u], T[t])
    BY <1>3, <2>1, <2>2, OldLinks
  <2> QED BY <1>4, <2>3
<1>6. r2.rcv \in Int /\ 0 <= r2.rcv /\ r2.rcv \in SeqNr
  BY TcbFields, SeqNrInt
<1>7. CASE r2.state = "SYN_SENT"
  <2>1. \A u \in Tcb : ~To(r2, T[u])
    <3> SUFFICES ASSUME NEW u \in Tcb, To(r2, T[u]) PROVE FALSE
      OBVIOUS
    <3>1. T[u].iss \in Int /\ 0 <= T[u].iss
      BY <1>0, TcbFields, SeqNrInt
    <3> QED BY <1>7, <3>1 DEF Fresh, To
  <2>2. Grown(r, 0, <<>>, r2, 0, <<>>)
    BY <1>1, <1>6, <1>7 DEF Grown, Fresh
  <2>3. \A u \in Tcb : Host(u) # Host(t) => Stream(r2, 0, <<>>, T[u], S[u], V[u])
    BY <1>5, <2>1 DEF Stream
  <2>4. Fits(T, S, V, t, r2, S[t], V[t])
    BY <1>1, <1>3, <1>4, <1>7, <2>2, <2>3 DEF Fits
  <2> QED BY <1>0, <2>4, PutNumbers
<1>8. CASE r2.state = "SYN_RCVD"
  <2> DEFINE q == T[x]
  <2>0. q.rport /\ r2.rcv = q.iss + 1 /\ r2.rport /\ q \in TcbType /\ Host(x) # Host(t)
    BY <1>0, <1>8 DEF Fresh
  <2>1. To(r2, q)
    <3>1. q.iss \in Int /\ q.nxt \in Int /\ q.iss + 1 <= q.nxt
      BY <1>0, <2>0, TcbFields DEF Spans
    <3> HIDE DEF q
    <3> QED BY <2>0, <3>1 DEF To
  <2>2. Grown(r, 0, <<>>, r2, 0, <<>>)
    BY <1>1, <1>6, <1>8 DEF Grown, Fresh
  <2>3. Taking(r2, <<>>, q, S[x])
    <3>1. EndOK(q, S[x], V[x]) /\ S[x] \in Nat
      BY GoodAt
    <3>2. r2.state \notin PeerDone
      BY <1>8 DEF PeerDone
    <3> HIDE DEF q
    <3> QED BY <2>0, <3>1, <3>2, FirstTaking
  <2>4. \A u \in Tcb : Host(u) # Host(t) => Stream(r2, 0, <<>>, T[u], S[u], V[u])
    <3> SUFFICES ASSUME NEW u \in Tcb, Host(u) # Host(t) PROVE Stream(r2, 0, <<>>, T[u], S[u], V[u])
      OBVIOUS
    <3>1. u = x
      BY <1>8
    <3> QED BY <1>5, <2>3, <3>1 DEF Stream
  <2>5. Fits(T, S, V, t, r2, S[t], V[t])
    BY <1>1, <1>3, <1>4, <2>0, <2>1, <2>2, <2>4 DEF Fits
  <2> QED BY <1>0, <2>5, PutNumbers
<1> QED BY <1>7, <1>8 DEF Fresh

\* connect keeps everything sound.
LEMMA GoodConnect ==
    ASSUME TypeOK, TypeOK', Good(tcb, net, sent, Taken0), NumbersApart', NEW t \in Tcb, tcp_connect(t)
    PROVE  Good(tcb', net', sent', Taken0')
<1>0. PICK iss \in ISS :
        /\ t \in Main /\ tcb[t].state = "CLOSED" /\ ~tcb[t].rport
        /\ tcb' = [tcb EXCEPT ![t] = [tcp_tx_setup(tcb[t], iss) EXCEPT !.rport = TRUE, !.cn = "wait"]]
        /\ net' = net \cup {Seg(t, iss, 0, {"S"}, <<>>)}
        /\ sent' = sent /\ got' = got
  BY DEF tcp_connect
<1> DEFINE r == tcb[t]
           z == [tcp_tx_setup(r, iss) EXCEPT !.rport = TRUE, !.cn = "wait"]
           s == Seg(t, iss, 0, {"S"}, <<>>)
<1>1. /\ r \in TcbType /\ r = tcb[t] /\ tcb \in [Tcb -> TcbType] /\ Sides(tcb) /\ iss \in SeqNr
      /\ "a" \in Tcb /\ "b" \in Tcb /\ "a" # "b" /\ Kid \cap Main = {}
  BY TcpAssumption DEF TypeOK, Good, Tcb, Main
<1>2. tcb' = [tcb EXCEPT ![t] = z] /\ net' = net \cup {s} /\ ~r.rport /\ r.state = "CLOSED"
  BY <1>0
<1>3. z \in TcbType
  <2>1. tcp_tx_setup(r, iss) \in TcbType
    BY <1>1, SetupType
  <2> HIDE DEF r
  <2> QED BY <2>1 DEF TcbType
<1>4. /\ z.state = "SYN_SENT" /\ z.iss = iss /\ z.una = iss /\ z.nxt = Add(iss, 1) /\ z.rport /\ z.cn = "wait"
      /\ z.rcv = r.rcv /\ z.snd = r.snd /\ z.unaq = r.unaq /\ z.shut = r.shut /\ z.open = r.open /\ z.dly = r.dly
      /\ z.buf = r.buf
  BY <1>1 DEF tcp_tx_setup, TcbType
<1> HIDE DEF z, r
<1>5. /\ sent[t] = 0 /\ r.rcv = 0 /\ ~r.shut /\ ~r.open /\ ~r.dly /\ r.snd = <<>> /\ r.unaq = {}
  BY <1>1, <1>2, UnusedFacts
<1>6. Fresh(z, tcb[t])
  BY <1>4, <1>5 DEF Fresh
<1>7. Room(tcb', sent) /\ Apart(tcb', sent)
  BY <1>0 DEF NumbersApart
<1>8. Sides(tcb')
  <2>1. CASE t = "a"
    BY <1>1, <1>2, <1>4, <2>1 DEF Sides, Tcb, Main
  <2>2. CASE t = "b"
    <3>1. \A k \in Kid : tcb'[k] = tcb[k] /\ ~tcb[k].rport
      <4> TAKE k \in Kid
      <4>1. k # "b" /\ k \in Tcb
        BY <1>1 DEF Tcb, Main
      <4>2. r.state # "LISTEN"
        BY <1>2
      <4> QED BY <1>1, <1>2, <2>2, <4>1, <4>2 DEF Sides
    <3>2. tcb'["a"] = tcb["a"] /\ tcb'["b"] = z
      BY <1>1, <1>2, <2>2
    <3> QED BY <1>1, <1>4, <3>1, <3>2 DEF Sides
  <2> QED BY <1>0, <2>1, <2>2 DEF Main
<1>9. Good(tcb', net, sent, Taken0)
  BY <1>1, <1>2, <1>3, <1>4, <1>6, <1>7, <1>8, FreshGood
<1>10. SegOK(tcb', sent, Taken0, s) /\ s \in SegType
  <2>1. s \in SegType
    <3>1. 0 \in SeqNr /\ {"S"} \in SUBSET {"S", "A", "R", "F"} /\ <<>> \in Seq(Nat)
      BY SeqNrOps
    <3> QED BY <1>0, <1>1, <3>1, SegOfType
  <2>2. s.fl = {"S"} /\ s.data = <<>> /\ s.seq = iss /\ s.from = t
    BY DEF Seg
  <2>3. tcb'[t] = z
    BY <1>1, <1>2
  <2>4. Host(t) = t
    BY <1>0 DEF Main, Host
  <2> HIDE DEF s
  <2>5. Syn(tcb', t, s)
    BY <1>0, <1>4, <2>2, <2>3 DEF Syn
  <2>6. Host(t) = s.from /\ tcb'[t].rport
    BY <1>4, <2>2, <2>3, <2>4
  <2>7. Sound(tcb', sent, Taken0, t, s)
    BY <2>5 DEF Sound
  <2> QED BY <2>1, <2>6, <2>7 DEF SegOK
<1>11. net' \in SUBSET SegType
  BY DEF TypeOK
<1>12. Good(tcb', net', sent, Taken0)
  <2> HIDE DEF s
  <2>1. \A y \in net' : y \in net \/ SegOK(tcb', sent, Taken0, y)
    BY <1>2, <1>10
  <2> QED BY <1>9, <1>11, <2>1, NetGood
<1>13. \A u \in Tcb : tcb'[u].buf = tcb[u].buf
  BY <1>1, <1>2, <1>4
<1>14. Taken0' = Taken0
  BY <1>0, <1>13, TakenSame
<1> QED BY <1>0, <1>12, <1>14

\* A SYN that comes from host a is the one of its socket.
LEMMA SynFrom ==
    ASSUME NEW T, NEW S, NEW V, NEW s, SegOK(T, S, V, s), s.fl = {"S"}, s.from = "a"
    PROVE  T["a"].rport /\ s.seq = T["a"].iss
<1>0. {"S"} # {"R"} /\ {"S"} # {"R", "A"} /\ {"S"} # {"S", "A"} /\ {"S"} # {"A"} /\ {"S"} # {"A", "F"}
  OBVIOUS
<1>1. ~Rst(T, s)
  BY <1>0 DEF Rst
<1>2. PICK u \in Tcb : Host(u) = s.from /\ T[u].rport /\ Sound(T, S, V, u, s)
  BY <1>1 DEF SegOK
<1>3. Syn(T, u, s)
  BY <1>0, <1>2 DEF Sound, SynAck, Ack, Text, Fin
<1>4. u = "a"
  BY <1>2 DEF Host
<1> QED BY <1>2, <1>3, <1>4 DEF Syn

\* tcp_rx_listen keeps everything sound.
LEMMA GoodListen ==
    ASSUME TypeOK, TypeOK', Good(tcb, net, sent, Taken0), NumbersApart', NEW s \in net, tcp_rx_listen(s)
    PROVE  Good(tcb', net', sent', Taken0')
<1>0. PICK k \in Kid, iss \in ISS, w \in {"dead", "stuck"} :
        /\ Rx(s, "b") /\ tcb["b"].state = "LISTEN" /\ s.fl = {"S"} /\ tcb[k].state = "CLOSED" /\ ~tcb[k].rport
        /\ LET r == [tcp_tx_agree(tcp_socket, iss) EXCEPT !.rport = TRUE, !.rcv = Add(s.seq, 1), !.wait = w] IN
           /\ tcb' = [tcb EXCEPT ![k] = r]
           /\ \/ Carry(s, {tcp_tx_ack("b", r)} \cup {tcp_tx_reset(s)})
              \/ Carry(s, {tcp_tx_ack("b", r)} \cup {})
        /\ sent' = sent /\ got' = got
  BY DEF tcp_rx_listen
<1> DEFINE r == tcb[k]
           z == [tcp_tx_agree(tcp_socket, iss) EXCEPT !.rport = TRUE, !.rcv = Add(s.seq, 1), !.wait = w]
           all == {tcp_tx_ack("b", z)} \cup {tcp_tx_reset(s)}
<1>1. /\ k \in Tcb /\ r \in TcbType /\ r = tcb[k] /\ tcb \in [Tcb -> TcbType] /\ Sides(tcb)
      /\ "a" \in Tcb /\ "b" \in Tcb /\ "a" # "b" /\ k # "a" /\ k # "b" /\ s \in SegType /\ iss \in SeqNr
      /\ got \in [Tcb -> Seq(Nat)]
  BY TcpAssumption DEF TypeOK, Good, Tcb, Main
<1>2. /\ tcb' = [tcb EXCEPT ![k] = z] /\ ~r.rport /\ r.state = "CLOSED"
      /\ Carry(s, all) \/ Carry(s, {tcp_tx_ack("b", z)})
  <2>1. {tcp_tx_ack("b", z)} \cup {} = {tcp_tx_ack("b", z)}
    OBVIOUS
  <2> QED BY <1>0, <2>1
<1>3. z = tcb'[k] /\ z \in TcbType
  BY <1>1, <1>2 DEF TypeOK
<1>4. s.seq \in SeqNr /\ s.from \in Main /\ Host("b") # s.from
  BY <1>0, <1>1, RxHost, SegFields
<1>5. s.from = "a"
  BY <1>4 DEF Main, Host
<1>6. tcb["a"].rport /\ s.seq = tcb["a"].iss
  <2>1. SegOK(tcb, sent, Taken0, s)
    BY DEF Good
  <2> QED BY <1>0, <1>5, <2>1, SynFrom
<1>7. Add(s.seq, 1) = tcb["a"].iss + 1
  <2>1. tcb["a"].iss \in Int /\ sent["a"] \in Nat /\ tcb["a"].iss + sent["a"] + 3 < SEQ /\ SEQ \in Int
    BY <1>1, GoodAt, TcbFields, TcpAssumption
  <2>2. tcb["a"].iss + 1 < SEQ
    BY <2>1
  <2> QED BY <1>4, <1>6, <2>2, LaterByOne
<1>8. /\ z.state = "SYN_RCVD" /\ z.iss = iss /\ z.una = iss /\ z.nxt = Add(iss, 1) /\ z.rport /\ z.cn = "idle"
      /\ z.rcv = Add(s.seq, 1) /\ z.snd = <<>> /\ z.unaq = {} /\ ~z.shut /\ ~z.open /\ ~z.dly
      /\ z.buf = <<>>
  BY DEF tcp_tx_agree, tcp_socket
<1> HIDE DEF z, r
<1>9. Fresh(z, tcb["a"])
  BY <1>6, <1>7, <1>8 DEF Fresh
<1>10. Room(tcb', sent) /\ Apart(tcb', sent)
  BY <1>0 DEF NumbersApart
<1>11. Sides(tcb')
  <2>1. ~tcb["b"].rport
    BY <1>0, <1>1 DEF Sides
  <2>2. tcb'["a"] = tcb["a"] /\ tcb'["b"] = tcb["b"]
    BY <1>1, <1>2
  <2>3. \A y \in Kid : tcb'[y] = tcb[y] \/ tcb'[y] = z
    BY <1>1, <1>2 DEF Tcb
  <2>4. z.state # "SYN_SENT"
    BY <1>8
  <2> QED BY <1>0, <1>1, <2>1, <2>2, <2>3, <2>4 DEF Sides
<1>12. \A u \in Tcb : Host(u) # Host(k) <=> u = "a"
  BY <1>1 DEF Host
<1>13. Good(tcb', net, sent, Taken0)
  BY <1>1, <1>2, <1>3, <1>9, <1>10, <1>11, <1>12, FreshGood
<1>14. Host(k) = "b" /\ tcb'[k].state = "SYN_RCVD"
  BY <1>1, <1>3, <1>8 DEF Host
<1>15. SegOK(tcb', sent, Taken0, tcp_tx_ack("b", z)) /\ tcp_tx_ack("b", z) \in SegType
  BY <1>1, <1>3, <1>13, <1>14, TxAckGood
<1>16. SegOK(tcb', sent, Taken0, tcp_tx_reset(s)) /\ tcp_tx_reset(s) \in SegType
  <2>1. SegOK(tcb', sent, Taken0, s)
    BY <1>13 DEF Good
  <2> QED BY <1>1, <1>13, <2>1, ResetGood
<1>17. net' \in SUBSET SegType /\ net' \subseteq net \cup all
  BY <1>2 DEF TypeOK, Carry
<1>18. \A y \in net' : y \in net \/ SegOK(tcb', sent, Taken0, y)
  BY <1>15, <1>16, <1>17
<1>19. Good(tcb', net', sent, Taken0)
  BY <1>13, <1>17, <1>18, NetGood
<1>20. Taken0' = Taken0
  <2>0. r \in TcbType /\ r = tcb[k] /\ k \in Tcb /\ ~r.rport /\ r.state = "CLOSED"
    BY <1>1, <1>2
  <2>1. ASSUME NEW V, Good(tcb, net, sent, V) PROVE V[k] = <<>>
    BY <2>0, <2>1, UnusedFacts
  <2>2. Taken0[k] = got[k] \o r.buf /\ got[k] \in Seq(Nat) /\ r.buf \in Seq(Nat)
    BY <1>1, TcbFields DEF Taken0, Received
  <2>7. Taken0[k] = <<>>
    BY <2>1
  <2>3. \A g, b \in Seq(Nat) : g \o b = <<>> => g = <<>>
    OBVIOUS
  <2>4. got[k] = <<>>
    BY <2>2, <2>3, <2>7
  <2>5. got[k] \o z.buf = <<>>
    BY <1>8, <2>4
  <2>6. \A u \in Tcb : got'[u] \o tcb'[u].buf = got[u] \o tcb[u].buf
    BY <1>0, <1>1, <1>2, <2>2, <2>5, <2>7
  <2> QED BY <2>6 DEF Taken0, Received
<1> QED BY <1>0, <1>19, <1>20

-----------------------------------------------------------------------------
(* What stays as it is from step to step: peers, initial numbers, the accept queue.*)

\* what every step does to the peer and the first number of a socket,
Grows(r, r2) == /\ r.rport => r2.rport
                /\ r.rport \/ ~r2.rport => r2.iss = r.iss
\* and what it does to a child that nobody has accepted
Mild(t, r, r2) ==
    t \in Kid /\ r.rport /\ ~r.open /\ r.state # "SYN_SENT" =>
        ~r2.open /\ r2.shut = r.shut /\ (r2.state = "SYN_RCVD" => r.state = "SYN_RCVD")
\* the same for all sockets
GrowsAll == \A u \in Tcb : Grows(tcb[u], tcb'[u])
MildAll == \A u \in Tcb : Mild(u, tcb[u], tcb'[u])

\* A step of one socket.
LEMMA MildPut ==
    ASSUME TypeOK, NEW t \in Tcb, NEW r, tcb' = [tcb EXCEPT ![t] = r], Grows(tcb[t], r), Mild(t, tcb[t], r)
    PROVE  GrowsAll /\ MildAll
<1>1. \A u \in Tcb : tcb'[u] = IF u = t THEN r ELSE tcb[u]
  BY DEF TypeOK
<1>2. \A u \in Tcb : Grows(tcb[u], tcb[u]) /\ Mild(u, tcb[u], tcb[u])
  BY DEF Grows, Mild
<1>3. ASSUME NEW u \in Tcb PROVE Grows(tcb[u], tcb'[u]) /\ Mild(u, tcb[u], tcb'[u])
  <2>1. CASE u = t
    BY <1>1, <2>1
  <2>2. CASE u # t
    BY <1>1, <1>2, <2>2
  <2> QED BY <2>1, <2>2
<1> QED BY <1>3 DEF GrowsAll, MildAll

\* A step that keeps peers, first numbers, states and flags.
LEMMA MildSame ==
    ASSUME \A u \in Tcb : /\ tcb'[u].rport = tcb[u].rport /\ tcb'[u].iss = tcb[u].iss /\ tcb'[u].open = tcb[u].open
                          /\ tcb'[u].shut = tcb[u].shut /\ tcb'[u].state = tcb[u].state
    PROVE  GrowsAll /\ MildAll
BY DEF GrowsAll, MildAll, Grows, Mild

\* A delivery that makes no child and opens none.
LEMMA MildRx ==
    ASSUME TypeOK, NEW s \in net, sock_rx_tcp(s) \/ RxNobody(s) \/ tcp_rx_rcvd_fails(s) \/ tcp_rx_listen_refuses(s)
    PROVE  GrowsAll /\ MildAll /\ acpt' = acpt /\ sent' = sent
<1>1. CASE sock_rx_tcp(s)
  <2>1. PICK t \in Tcb : tcb' = [tcb EXCEPT ![t] = tcp_rx(Host(t), tcb[t], s).r]
    BY <1>1 DEF sock_rx_tcp
  <2>2. tcb[t] \in TcbType /\ Host(t) \in Main /\ s \in SegType
    BY HostType DEF TypeOK
  <2>3. Calm(tcb[t], tcp_rx(Host(t), tcb[t], s).r)
    BY <2>2, CalmRx
  <2>4. Grows(tcb[t], tcp_rx(Host(t), tcb[t], s).r) /\ Mild(t, tcb[t], tcp_rx(Host(t), tcb[t], s).r)
    BY <2>3 DEF Calm, Grows, Mild
  <2>5. GrowsAll /\ MildAll
    BY <2>1, <2>4, MildPut
  <2> QED BY <1>1, <2>5 DEF sock_rx_tcp
<1>2. CASE RxNobody(s) \/ tcp_rx_listen_refuses(s)
  <2>1. tcb' = tcb /\ acpt' = acpt /\ sent' = sent
    BY <1>2 DEF RxNobody, tcp_rx_listen_refuses
  <2> QED BY <2>1, MildSame
<1>3. CASE tcp_rx_rcvd_fails(s)
  <2>1. PICK t \in Tcb : tcb' = [tcb EXCEPT ![t] = IF t \in Kid THEN tcp_release(tcb[t]) ELSE tcp_exit_with(tcb[t])]
    BY <1>3 DEF tcp_rx_rcvd_fails
  <2> DEFINE r == tcb[t]
             z == IF t \in Kid THEN tcp_release(r) ELSE tcp_exit_with(r)
  <2>2. r \in TcbType
    BY DEF TypeOK
  <2>3. Calm(r, z) /\ z.state = r.state
    <3>1. Calm(r, tcp_release(r)) /\ Calm(r, tcp_exit_with(r))
      BY <2>2, CalmSmall
    <3>2. tcp_release(r).state = r.state /\ tcp_exit_with(r).state = r.state
      BY <2>2 DEF tcp_release, tcp_exit_with, TcbType
    <3> QED BY <3>1, <3>2
  <2>4. tcb' = [tcb EXCEPT ![t] = z] /\ r = tcb[t]
    BY <2>1
  <2> HIDE DEF r, z
  <2>5. Grows(r, z) /\ Mild(t, r, z)
    BY <2>3 DEF Calm, Grows, Mild
  <2>6. GrowsAll /\ MildAll
    BY <2>4, <2>5, MildPut
  <2> QED BY <1>3, <2>6 DEF tcp_rx_rcvd_fails
<1> QED BY <1>1, <1>2, <1>3

\* The end of a handshake.
LEMMA MildRcvd ==
    ASSUME TypeOK, NEW s \in net, tcp_rx_rcvd(s)
    PROVE  GrowsAll /\ MildAll /\ sent' = sent
<1>1. PICK t \in Tcb :
        \/ tcb' = tcb
        \/ /\ t \in Kid
           /\ tcb' = [tcb EXCEPT ![t] = [tcb[t] EXCEPT !.state = "ESTABLISHED"], !["b"] = WakeSyn(@)]
        \/ tcb' = [tcb EXCEPT ![t] = WakeSyn([tcb[t] EXCEPT !.state = "ESTABLISHED"])]
  BY DEF tcp_rx_rcvd
<1>2. tcb \in [Tcb -> TcbType] /\ "b" \in Tcb /\ Kid \cap Main = {} /\ "b" \in Main
  BY TcpAssumption DEF TypeOK, Tcb, Main
<1>3. sent' = sent
  BY DEF tcp_rx_rcvd
<1>4. CASE tcb' = tcb
  BY <1>3, <1>4, MildSame
<1>5. CASE t \in Kid /\ tcb' = [tcb EXCEPT ![t] = [tcb[t] EXCEPT !.state = "ESTABLISHED"], !["b"] = WakeSyn(@)]
  <2> DEFINE e == [tcb[t] EXCEPT !.state = "ESTABLISHED"]
             z == WakeSyn(tcb["b"])
  <2>0. t # "b"
    BY <1>2, <1>5
  <2>1. \A u \in Tcb : tcb'[u] = IF u = t THEN e ELSE IF u = "b" THEN z ELSE tcb[u]
    <3>1. tcb' = [tcb EXCEPT ![t] = e, !["b"] = WakeSyn(@)]
      BY <1>5
    <3> QED BY <1>2, <2>0, <3>1
  <2>2. /\ e.rport = tcb[t].rport /\ e.iss = tcb[t].iss /\ e.open = tcb[t].open /\ e.shut = tcb[t].shut
        /\ e.state = "ESTABLISHED"
    BY <1>2 DEF TcbType
  <2>3. /\ z.rport = tcb["b"].rport /\ z.iss = tcb["b"].iss /\ z.open = tcb["b"].open /\ z.shut = tcb["b"].shut
        /\ z.state = tcb["b"].state
    BY <1>2 DEF TcbType, WakeSyn
  <2> HIDE DEF e, z
  <2>4. ASSUME NEW u \in Tcb PROVE Grows(tcb[u], tcb'[u]) /\ Mild(u, tcb[u], tcb'[u])
    <3>1. CASE u = t
      <4>1. tcb'[u] = e
        BY <2>1, <3>1
      <4> QED BY <2>2, <3>1, <4>1 DEF Grows, Mild
    <3>2. CASE u = "b"
      <4>1. tcb'[u] = z
        BY <2>0, <2>1, <3>2
      <4> QED BY <2>3, <3>2, <4>1 DEF Grows, Mild
    <3>3. CASE u # t /\ u # "b"
      <4>1. tcb'[u] = tcb[u]
        BY <2>1, <3>3
      <4> QED BY <4>1 DEF Grows, Mild
    <3> QED BY <3>1, <3>2, <3>3
  <2> QED BY <1>3, <2>4 DEF GrowsAll, MildAll
<1>6. CASE tcb' = [tcb EXCEPT ![t] = WakeSyn([tcb[t] EXCEPT !.state = "ESTABLISHED"])]
  <2> DEFINE z == WakeSyn([tcb[t] EXCEPT !.state = "ESTABLISHED"])
  <2>1. /\ z.rport = tcb[t].rport /\ z.iss = tcb[t].iss /\ z.open = tcb[t].open /\ z.shut = tcb[t].shut
        /\ z.state = "ESTABLISHED"
    BY <1>2 DEF TcbType, WakeSyn
  <2>2. tcb' = [tcb EXCEPT ![t] = z]
    BY <1>6
  <2> HIDE DEF z
  <2>3. Grows(tcb[t], z) /\ Mild(t, tcb[t], z)
    BY <2>1 DEF Grows, Mild
  <2> QED BY <1>3, <2>2, <2>3, MildPut
<1> QED BY <1>1, <1>4, <1>5, <1>6

\* A new child.
LEMMA MildListen ==
    ASSUME TypeOK, NEW s \in net, tcp_rx_listen(s)
    PROVE  GrowsAll /\ MildAll /\ acpt' = acpt /\ sent' = sent
<1>1. PICK k \in Kid, iss \in ISS, w \in {"dead", "stuck"} :
        /\ ~tcb[k].rport /\ acpt' = acpt /\ sent' = sent
        /\ LET r == [tcp_tx_agree(tcp_socket, iss) EXCEPT !.rport = TRUE, !.rcv = Add(s.seq, 1), !.wait = w] IN
           tcb' = [tcb EXCEPT ![k] = r]
  BY DEF tcp_rx_listen
<1> DEFINE r == [tcp_tx_agree(tcp_socket, iss) EXCEPT !.rport = TRUE, !.rcv = Add(s.seq, 1), !.wait = w]
<1>2. r.rport /\ tcb' = [tcb EXCEPT ![k] = r] /\ k \in Tcb
  BY <1>1 DEF tcp_tx_agree, tcp_socket, Tcb
<1> HIDE DEF r
<1>3. Grows(tcb[k], r) /\ Mild(k, tcb[k], r)
  BY <1>1, <1>2 DEF Grows, Mild
<1> QED BY <1>1, <1>2, <1>3, MildPut

\* The timers.
LEMMA MildTimer ==
    ASSUME TypeOK, NEW t \in Tcb, Timer(t)
    PROVE  GrowsAll /\ MildAll /\ acpt' = acpt /\ sent' = sent
<1>0. tcb \in [Tcb -> TcbType]
  BY DEF TypeOK
<1>1. CASE tcp_tmr_dly(t)
  <2> DEFINE z == [tcb[t] EXCEPT !.dly = FALSE]
  <2>1. tcb' = [tcb EXCEPT ![t] = z] /\ acpt' = acpt /\ sent' = sent
    BY <1>1 DEF tcp_tmr_dly
  <2>2. /\ z.rport = tcb[t].rport /\ z.iss = tcb[t].iss /\ z.open = tcb[t].open /\ z.shut = tcb[t].shut
        /\ z.state = tcb[t].state
    BY <1>0 DEF TcbType
  <2> HIDE DEF z
  <2>3. Grows(tcb[t], z) /\ Mild(t, tcb[t], z)
    BY <2>2 DEF Grows, Mild
  <2> QED BY <2>1, <2>3, MildPut
<1>2. CASE tcp_tmr_timewait(t)
  <2>1. /\ tcb' = [u \in Tcb |->
                     IF u = t THEN tcp_release([tcb[t] EXCEPT !.wait = "dead"])
                     ELSE IF {t, u} \subseteq Kid /\ ~tcb[t].listed THEN tcp_release(tcb[u])
                     ELSE tcb[u]]
        /\ acpt' = acpt /\ sent' = sent
    BY <1>2 DEF tcp_tmr_timewait
  <2>2. ASSUME NEW u \in Tcb
        PROVE  /\ tcb'[u].rport = tcb[u].rport /\ tcb'[u].iss = tcb[u].iss /\ tcb'[u].open = tcb[u].open
               /\ tcb'[u].shut = tcb[u].shut /\ tcb'[u].state = tcb[u].state
    <3> DEFINE r == tcb[u]
               z == tcb'[u]
    <3>1. r \in TcbType
      BY <1>0
    <3>2. z = tcp_release([r EXCEPT !.wait = "dead"]) \/ z = tcp_release(r) \/ z = r
      BY <2>1
    <3> HIDE DEF z, r
    <3>3. /\ z.rport = r.rport /\ z.iss = r.iss /\ z.open = r.open /\ z.shut = r.shut /\ z.state = r.state
      BY <3>1, <3>2 DEF tcp_release, TcbType
    <3> QED BY <3>3 DEF z, r
  <2> QED BY <2>1, <2>2, MildSame
<1> QED BY <1>1, <1>2 DEF Timer

\* The calls on a socket.
LEMMA MildCall ==
    ASSUME TypeOK, SleepInv, NEW t \in Tcb, Call(t) \/ RecvResume(t) \/ ConnectReturn(t)
    PROVE  GrowsAll /\ MildAll /\ acpt' = acpt /\ \A u \in Tcb : sent[u] <= sent'[u]
<1>0. tcb \in [Tcb -> TcbType] /\ tcb[t] \in TcbType /\ sent \in [Tcb -> Nat] /\ Kid \cap Main = {}
  BY TcpAssumption DEF TypeOK
<1>1. sent' = sent => \A u \in Tcb : sent[u] <= sent'[u]
  BY <1>0
<1>2. CASE tcp_connect(t)
  <2>1. PICK iss \in ISS : tcb' = [tcb EXCEPT ![t] = [tcp_tx_setup(tcb[t], iss) EXCEPT !.rport = TRUE, !.cn = "wait"]]
    BY <1>2 DEF tcp_connect
  <2> DEFINE z == [tcp_tx_setup(tcb[t], iss) EXCEPT !.rport = TRUE, !.cn = "wait"]
  <2>2. z.rport /\ tcb' = [tcb EXCEPT ![t] = z]
    BY <1>0, <2>1 DEF tcp_tx_setup, TcbType
  <2>3. t \in Main /\ ~tcb[t].rport /\ acpt' = acpt /\ sent' = sent
    BY <1>2 DEF tcp_connect
  <2> HIDE DEF z
  <2>4. Grows(tcb[t], z) /\ Mild(t, tcb[t], z)
    BY <2>2, <2>3 DEF Grows, Mild
  <2> QED BY <1>1, <2>2, <2>3, <2>4, MildPut
<1>3. CASE tcp_sendmsg(t)
  <2>1. PICK n \in WriteSizes :
          /\ LET m == [i \in 1..n |-> sent[t] + i]
                 x == tcp_do_xmit(Host(t), [tcb[t] EXCEPT !.snd = Append(@, m)]) IN
             tcb' = [tcb EXCEPT ![t] = x.r]
          /\ sent' = [sent EXCEPT ![t] = sent[t] + n] /\ acpt' = acpt /\ tcb[t].open
    BY <1>3 DEF tcp_sendmsg
  <2> DEFINE m == [i \in 1..n |-> sent[t] + i]
             r == [tcb[t] EXCEPT !.snd = Append(@, m)]
             z == tcp_do_xmit(Host(t), r).r
  <2>2. tcb' = [tcb EXCEPT ![t] = z]
    BY <2>1
  <2>3. n \in Nat /\ n # 0 /\ sent[t] \in Nat
    BY <1>0, TcpAssumption
  <2>4. m \in Mbuf
    <3>1. m \in Seq(Nat) /\ Len(m) = n
      BY <2>3
    <3>2. m # <<>>
      BY <2>3, <3>1
    <3> QED BY <3>1, <3>2 DEF Mbuf
  <2> HIDE DEF m
  <2>5. r \in TcbType /\ r.rport = tcb[t].rport /\ r.iss = tcb[t].iss
    <3>1. Append(tcb[t].snd, m) \in Seq(Mbuf)
      BY <1>0, <2>4, TcbFields
    <3> QED BY <1>0, <3>1 DEF TcbType
  <2> HIDE DEF r
  <2>6. Calm(r, z)
    BY <2>5, HostType, CalmXmit
  <2> HIDE DEF z
  <2>7. Grows(tcb[t], z) /\ Mild(t, tcb[t], z)
    BY <2>1, <2>5, <2>6 DEF Calm, Grows, Mild
  <2>8. \A u \in Tcb : sent[u] <= sent'[u]
    BY <1>0, <2>1, <2>3
  <2> QED BY <2>1, <2>2, <2>7, <2>8, MildPut
<1>4. CASE RecvResume(t) \/ tcp_recvmsg(t)
  <2>0. /\ Len0 \in 0..Len0 /\ tcb[t].rem \in 0..Len0
        /\ \A j \in 0..Len0 : Copy(t, j) => acpt' = acpt /\ sent' = sent
        /\ RecvError(t) => acpt' = acpt /\ sent' = sent
    BY TcpAssumption, CopyIs DEF TypeOK, TcbType, RecvError
  <2>1. ASSUME NEW z, tcb' = [tcb EXCEPT ![t] = z], z.rport = tcb[t].rport, z.iss = tcb[t].iss,
               z.open = tcb[t].open, z.shut = tcb[t].shut, z.state = tcb[t].state
        PROVE  GrowsAll /\ MildAll
    <3>1. Grows(tcb[t], z) /\ Mild(t, tcb[t], z)
      BY <2>1 DEF Grows, Mild
    <3> QED BY <2>1, <3>1, MildPut
  <2>2. CASE RecvError(t)
    <3> DEFINE z == [tcb[t] EXCEPT !.rd = "idle", !.rem = 0]
    <3>1. tcb' = [tcb EXCEPT ![t] = z]
      BY <2>2 DEF RecvError
    <3>2. /\ z.rport = tcb[t].rport /\ z.iss = tcb[t].iss /\ z.open = tcb[t].open /\ z.shut = tcb[t].shut
          /\ z.state = tcb[t].state
      BY <1>0 DEF TcbType
    <3> HIDE DEF z
    <3>3. GrowsAll /\ MildAll
      BY <2>1, <3>1, <3>2
    <3>4. acpt' = acpt /\ sent' = sent
      BY <2>0, <2>2
    <3> QED BY <1>1, <3>3, <3>4
  <2>3. ASSUME NEW j \in 0..Len0, Copy(t, j)
        PROVE  GrowsAll /\ MildAll
    <3>0. PICK n \in 0..Len(tcb[t].buf), left \in 0..Len0, pc \in {"idle", "wait"} : Read(t, n, left, pc)
      BY <2>3, CopyIs
    <3> DEFINE all == tcb[t].buf
               z == [tcb[t] EXCEPT !.rem = left, !.rd = pc, !.buf = SubSeq(all, n + 1, Len(all))]
    <3>1. tcb' = [tcb EXCEPT ![t] = z]
      BY <3>0 DEF Read
    <3>2. /\ z.rport = tcb[t].rport /\ z.iss = tcb[t].iss /\ z.open = tcb[t].open /\ z.shut = tcb[t].shut
          /\ z.state = tcb[t].state
      BY <1>0 DEF TcbType
    <3> HIDE DEF z
    <3> QED BY <2>1, <3>1, <3>2
  <2>4. RecvError(t) \/ Copy(t, Len0) \/ Copy(t, tcb[t].rem)
    BY <1>4 DEF RecvResume, tcp_recvmsg
  <2>5. CASE Copy(t, Len0) \/ Copy(t, tcb[t].rem)
    BY <1>1, <2>0, <2>3, <2>5, Zenon
  <2> QED BY <2>2, <2>4, <2>5
<1>5. CASE ConnectReturn(t) \/ tcp_shutdown(t)
  <2>1. acpt' = acpt /\ sent' = sent /\ (tcb[t].cn = "run" \/ tcb[t].open)
    BY <1>5 DEF ConnectReturn, tcp_shutdown
  <2>2. t \in Kid => tcb[t].open
    BY <2>1 DEF SleepInv, Sleeper
  <2>3. ASSUME NEW z, tcb' = [tcb EXCEPT ![t] = z], z.rport = tcb[t].rport, z.iss = tcb[t].iss
        PROVE  GrowsAll /\ MildAll
    <3>1. Grows(tcb[t], z) /\ Mild(t, tcb[t], z)
      BY <2>2, <2>3 DEF Grows, Mild
    <3> QED BY <2>3, <3>1, MildPut
  <2>4. CASE ConnectReturn(t)
    <3> DEFINE z == [tcb[t] EXCEPT !.cn = "idle", !.open = ~tcb[t].err]
    <3>1. tcb' = [tcb EXCEPT ![t] = z]
      BY <2>4 DEF ConnectReturn
    <3>2. z.rport = tcb[t].rport /\ z.iss = tcb[t].iss
      BY <1>0 DEF TcbType
    <3> HIDE DEF z
    <3> QED BY <1>1, <2>1, <2>3, <3>1, <3>2
  <2>5. CASE tcp_shutdown(t)
    <3>1. PICK done \in BOOLEAN : tcb' = [tcb EXCEPT ![t] = [tcb[t] EXCEPT !.open = FALSE, !.shut = done]]
      BY <2>5 DEF tcp_shutdown
    <3> DEFINE z == [tcb[t] EXCEPT !.open = FALSE, !.shut = done]
    <3>2. z.rport = tcb[t].rport /\ z.iss = tcb[t].iss /\ tcb' = [tcb EXCEPT ![t] = z]
      BY <1>0, <3>1 DEF TcbType
    <3> HIDE DEF z
    <3> QED BY <1>1, <2>1, <2>3, <3>2
  <2> QED BY <1>5, <2>4, <2>5
<1> QED BY <1>2, <1>3, <1>4, <1>5 DEF Call

\* listen.
LEMMA MildTcpListen ==
    ASSUME TypeOK, tcp_listen
    PROVE  GrowsAll /\ MildAll /\ acpt' = acpt /\ sent' = sent
<1> DEFINE z == [tcb["b"] EXCEPT !.state = "LISTEN"]
<1>0. tcb["b"] \in TcbType /\ "b" \in Tcb /\ "b" \notin Kid
  BY TcpAssumption DEF TypeOK, Tcb, Main
<1>1. tcb' = [tcb EXCEPT !["b"] = z] /\ acpt' = acpt /\ sent' = sent
  BY DEF tcp_listen
<1>2. z.rport = tcb["b"].rport /\ z.iss = tcb["b"].iss
  BY <1>0 DEF TcbType
<1> HIDE DEF z
<1>3. Grows(tcb["b"], z) /\ Mild("b", tcb["b"], z)
  BY <1>0, <1>2 DEF Grows, Mild
<1> QED BY <1>0, <1>1, <1>3, MildPut

\* accept.
LEMMA GrowsAccept ==
    ASSUME TypeOK, tcp_accept
    PROVE  GrowsAll /\ sent' = sent
<1>0. tcb \in [Tcb -> TcbType] /\ "b" \in Tcb /\ acpt \in Seq(Kid) /\ Kid \subseteq Tcb /\ "b" \notin Kid
  BY TcpAssumption DEF TypeOK, Tcb, Main
<1>1. PICK c \in {"idle", "wait", "run"} :
      \/ tcb' = [tcb EXCEPT !["b"] = [tcb["b"] EXCEPT !.cn = c]]
      \/ \E i \in DOMAIN acpt :
            tcb' = [tcb EXCEPT !["b"] = [tcb["b"] EXCEPT !.cn = c], ![acpt[i]] = [@ EXCEPT !.open = TRUE]]
  BY AcceptIs DEF AcceptKeeps, AcceptOpens
<1>2. ASSUME NEW u \in Tcb PROVE tcb'[u].rport = tcb[u].rport /\ tcb'[u].iss = tcb[u].iss
  <2>1. CASE tcb' = [tcb EXCEPT !["b"] = [tcb["b"] EXCEPT !.cn = c]]
    BY <1>0, <2>1 DEF TcbType
  <2>2. CASE \E i \in DOMAIN acpt :
            tcb' = [tcb EXCEPT !["b"] = [tcb["b"] EXCEPT !.cn = c], ![acpt[i]] = [@ EXCEPT !.open = TRUE]]
    <3>1. PICK i \in DOMAIN acpt :
            tcb' = [tcb EXCEPT !["b"] = [tcb["b"] EXCEPT !.cn = c], ![acpt[i]] = [@ EXCEPT !.open = TRUE]]
      BY <2>2
    <3> DEFINE k == acpt[i]
    <3>2. k \in Kid /\ k \in Tcb /\ k # "b"
      BY <1>0
    <3>3. tcb'[u] \in {tcb[u], [tcb[u] EXCEPT !.cn = c], [tcb[u] EXCEPT !.open = TRUE]}
      <4> HIDE DEF k
      <4>1. tcb' = [tcb EXCEPT !["b"] = [tcb["b"] EXCEPT !.cn = c], ![k] = [@ EXCEPT !.open = TRUE]]
        BY <3>1 DEF k
      <4> QED BY <1>0, <3>2, <4>1
    <3> QED BY <1>0, <3>3 DEF TcbType
  <2> QED BY <1>1, <2>1, <2>2
<1> QED BY <1>2, AcceptIs DEF GrowsAll, Grows

\* A socket without a peer keeps the initial number 0.
LEMMA NumberedKept ==
    ASSUME Numbered, GrowsAll, TypeOK
    PROVE  Numbered'
<1>1. ASSUME NEW t \in Tcb, ~tcb'[t].rport PROVE tcb'[t].iss = 0
  <2>1. Grows(tcb[t], tcb'[t])
    BY DEF GrowsAll
  <2>2. ~tcb[t].rport /\ tcb'[t].iss = tcb[t].iss
    BY <1>1, <2>1 DEF Grows
  <2> QED BY <2>2 DEF Numbered
<1> QED BY <1>1 DEF Numbered

\* If the numbers are apart after a step they were before it.
LEMMA NumbersBack ==
    ASSUME TypeOK, TypeOK', Numbered, GrowsAll, \A u \in Tcb : sent[u] <= sent'[u], NumbersApart'
    PROVE  NumbersApart
<1>0. /\ \A t \in Tcb : tcb[t] \in TcbType /\ tcb'[t] \in TcbType /\ sent[t] \in Nat /\ sent'[t] \in Nat
      /\ SEQ \in Nat
  BY TcpAssumption DEF TypeOK
<1>1. ASSUME NEW t \in Tcb
      PROVE  /\ tcb[t].iss \in Nat /\ tcb'[t].iss \in Nat /\ sent[t] \in Nat /\ sent'[t] \in Nat /\ sent[t] <= sent'[t]
             /\ tcb[t].iss <= tcb'[t].iss
             /\ tcb[t].rport => tcb'[t].rport /\ tcb'[t].iss = tcb[t].iss
  <2>1. tcb[t].iss \in Nat /\ tcb'[t].iss \in Nat
    BY <1>0, TcbFields, SeqNrInt
  <2>2. Grows(tcb[t], tcb'[t])
    BY DEF GrowsAll
  <2>3. tcb[t].rport => tcb'[t].rport /\ tcb'[t].iss = tcb[t].iss
    BY <2>2 DEF Grows
  <2>4. ~tcb[t].rport => tcb[t].iss = 0
    BY DEF Numbered
  <2>5. tcb[t].iss <= tcb'[t].iss
    BY <2>1, <2>3, <2>4
  <2> QED BY <1>0, <2>1, <2>3, <2>5
<1>2. ASSUME NEW t \in Tcb PROVE tcb[t].iss + sent[t] + 3 < SEQ /\ sent[t] + 3 < SEQ \div 2
  <2>1. tcb'[t].iss + sent'[t] + 3 < SEQ /\ sent'[t] + 3 < SEQ \div 2
    BY DEF NumbersApart, Room
  <2> DEFINE h == SEQ \div 2
  <2>2. h \in Int
    BY <1>0
  <2> HIDE DEF h
  <2>3. tcb'[t].iss + sent'[t] + 3 < SEQ /\ sent'[t] + 3 < h
    BY <2>1 DEF h
  <2>4. tcb[t].iss + sent[t] + 3 < SEQ /\ sent[t] + 3 < h
    BY <1>0, <1>1, <2>2, <2>3
  <2> QED BY <2>4 DEF h
<1>3. ASSUME NEW t \in Tcb, NEW u \in Tcb, t # u, Host(t) = Host(u), tcb[t].rport, tcb[u].rport
      PROVE  tcb[t].iss + sent[t] + 3 < tcb[u].iss \/ tcb[u].iss + sent[u] + 3 < tcb[t].iss
  <2>1. tcb'[t].rport /\ tcb'[u].rport /\ tcb'[t].iss = tcb[t].iss /\ tcb'[u].iss = tcb[u].iss
    BY <1>1, <1>3
  <2>2. tcb'[t].iss + sent'[t] + 3 < tcb'[u].iss \/ tcb'[u].iss + sent'[u] + 3 < tcb'[t].iss
    BY <1>3, <2>1 DEF NumbersApart, Apart
  <2>3. sent[t] <= sent'[t] /\ sent[u] <= sent'[u] /\ sent[t] \in Nat /\ sent[u] \in Nat /\ sent'[t] \in Nat /\ sent'[u] \in Nat
        /\ tcb[t].iss \in Nat /\ tcb[u].iss \in Nat
    BY <1>1
  <2>4. tcb[t].iss + sent'[t] + 3 < tcb[u].iss \/ tcb[u].iss + sent'[u] + 3 < tcb[t].iss
    BY <2>1, <2>2
  <2> QED BY <2>3, <2>4
<1> QED BY <1>2, <1>3 DEF NumbersApart, Room, Apart

\* A step that leaves the accept queue as it is.
LEMMA WaitingKept ==
    ASSUME TypeOK, Waiting, Sides(tcb), GrowsAll, MildAll, acpt' = acpt
    PROVE  Waiting'
<1>1. ASSUME NEW i \in 1..Len(acpt)
      PROVE  /\ tcb'[acpt[i]].state # "SYN_RCVD" /\ tcb'[acpt[i]].rport
             /\ ~tcb'[acpt[i]].open /\ ~tcb'[acpt[i]].shut
  <2> DEFINE k == acpt[i]
  <2>1. k \in Kid /\ k \in Tcb
    BY DEF TypeOK, Tcb
  <2>2. tcb[k].state # "SYN_RCVD" /\ tcb[k].rport /\ ~tcb[k].open /\ ~tcb[k].shut
    BY DEF Waiting
  <2> HIDE DEF k
  <2>3. tcb[k].state # "SYN_SENT"
    BY <2>1 DEF Sides
  <2>4. Grows(tcb[k], tcb'[k]) /\ Mild(k, tcb[k], tcb'[k])
    BY <2>1 DEF GrowsAll, MildAll
  <2>5. tcb'[k].state # "SYN_RCVD" /\ tcb'[k].rport /\ ~tcb'[k].open /\ ~tcb'[k].shut
    BY <2>1, <2>2, <2>3, <2>4 DEF Grows, Mild
  <2> QED BY <2>5 DEF k
<1>2. \A i, j \in 1..Len(acpt) : acpt[i] = acpt[j] => i = j
  BY DEF Waiting
<1> QED BY <1>1, <1>2 DEF Waiting

\* A child whose handshake is over goes to the accept queue.
LEMMA WaitingRcvd ==
    ASSUME TypeOK, Waiting, Good(tcb, net, sent, Taken0), NEW s \in net, tcp_rx_rcvd(s)
    PROVE  Waiting'
<1>0. Sides(tcb) /\ GrowsAll /\ MildAll /\ acpt \in Seq(Kid) /\ tcb \in [Tcb -> TcbType]
  BY MildRcvd DEF Good, TypeOK
<1>1. CASE acpt' = acpt
  BY <1>0, <1>1, WaitingKept
<1>2. CASE acpt' # acpt
  <2>1. PICK t \in Kid : /\ tcb[t].state = "SYN_RCVD" /\ acpt' = Append(acpt, t)
                         /\ tcb' = [tcb EXCEPT ![t] = [tcb[t] EXCEPT !.state = "ESTABLISHED"], !["b"] = WakeSyn(@)]
    BY <1>2 DEF tcp_rx_rcvd
  <2>2. t \in Tcb /\ t # "b"
    BY TcpAssumption DEF Tcb, Main
  <2>3. tcb'[t].state = "ESTABLISHED"
    <3> DEFINE e == [tcb[t] EXCEPT !.state = "ESTABLISHED"]
    <3>1. e.state = "ESTABLISHED" /\ tcb' = [tcb EXCEPT ![t] = e, !["b"] = WakeSyn(@)]
      BY <1>0, <2>1, <2>2 DEF TcbType
    <3> HIDE DEF e
    <3> QED BY <1>0, <2>2, <3>1
  <2>4. tcb[t].rport /\ ~tcb[t].shut /\ ~tcb[t].open
    <3>1. ASSUME NEW V, Good(tcb, net, sent, V) PROVE tcb[t].rport /\ ~tcb[t].shut /\ ~tcb[t].open
      <4>1. tcb[t] \in TcbType
        BY <1>0, <2>2
      <4> QED BY <2>1, <2>2, <3>1, <4>1, RcvdFacts
    <3> QED BY <3>1
  <2>5. Grows(tcb[t], tcb'[t]) /\ Mild(t, tcb[t], tcb'[t])
    BY <1>0, <2>2 DEF GrowsAll, MildAll
  <2>6. tcb'[t].rport /\ ~tcb'[t].open /\ ~tcb'[t].shut
    BY <2>1, <2>4, <2>5 DEF Grows, Mild
  <2>7. \A i \in 1..Len(acpt) : acpt[i] # t
    BY <2>1 DEF Waiting
  <2>8. ASSUME NEW i \in 1..Len(acpt)
        PROVE  /\ tcb'[acpt[i]].state # "SYN_RCVD" /\ tcb'[acpt[i]].rport
               /\ ~tcb'[acpt[i]].open /\ ~tcb'[acpt[i]].shut
    <3> DEFINE k == acpt[i]
    <3>1. k \in Kid /\ k \in Tcb
      BY <1>0 DEF Tcb
    <3>2. tcb[k].state # "SYN_RCVD" /\ tcb[k].rport /\ ~tcb[k].open /\ ~tcb[k].shut
      BY DEF Waiting
    <3> HIDE DEF k
    <3>3. tcb[k].state # "SYN_SENT"
      BY <1>0, <3>1 DEF Sides
    <3>4. Grows(tcb[k], tcb'[k]) /\ Mild(k, tcb[k], tcb'[k])
      BY <1>0, <3>1 DEF GrowsAll, MildAll
    <3>5. tcb'[k].state # "SYN_RCVD" /\ tcb'[k].rport /\ ~tcb'[k].open /\ ~tcb'[k].shut
      BY <3>1, <3>2, <3>3, <3>4 DEF Grows, Mild
    <3> QED BY <3>5 DEF k
  <2>9. /\ Len(acpt') = Len(acpt) + 1 /\ acpt'[Len(acpt) + 1] = t /\ Len(acpt) \in Nat
        /\ \A i \in 1..Len(acpt) : acpt'[i] = acpt[i]
    BY <1>0, <2>1
  <2>10. \A i \in 1..Len(acpt') : i \in 1..Len(acpt) \/ i = Len(acpt) + 1
    BY <2>9
  <2>11. \A i \in 1..Len(acpt') : /\ tcb'[acpt'[i]].state # "SYN_RCVD" /\ tcb'[acpt'[i]].rport
                                  /\ ~tcb'[acpt'[i]].open /\ ~tcb'[acpt'[i]].shut
    BY <2>3, <2>6, <2>8, <2>9, <2>10
  <2>12. \A i, j \in 1..Len(acpt) : acpt[i] = acpt[j] => i = j
    BY DEF Waiting
  <2>13. \A i, j \in 1..Len(acpt') : acpt'[i] = acpt'[j] => i = j
    BY <2>7, <2>9, <2>10, <2>12
  <2> QED BY <2>11, <2>13 DEF Waiting
<1> QED BY <1>1, <1>2

\* accept opens the child that it takes out of the queue, and no other.
LEMMA WaitingAccept ==
    ASSUME TypeOK, Waiting, tcp_accept
    PROVE  Waiting'
<1>0. acpt \in Seq(Kid) /\ tcb \in [Tcb -> TcbType] /\ Kid \subseteq Tcb /\ "b" \notin Kid /\ "b" \in Tcb
  BY TcpAssumption DEF TypeOK, Tcb, Main
<1>1. PICK c \in {"idle", "wait", "run"}, n \in 1..(Len(acpt) + 1) :
        /\ acpt' = SubSeq(acpt, n, Len(acpt))
        /\ AcceptKeeps(c) \/ \E at \in DOMAIN acpt : at < n /\ AcceptOpens(c, at)
  BY AcceptIs
<1> DEFINE m == n - 1
<1>2. Len(acpt) \in Nat /\ m \in 0..Len(acpt) /\ n = m + 1
  BY <1>0
<1>3. Len(acpt') = Len(acpt) - m /\ \A i \in 1..(Len(acpt) - m) : acpt'[i] = acpt[m + i]
  BY <1>0, <1>1, <1>2
<1>4. \A i \in 1..(Len(acpt) - m) : m + i \in 1..Len(acpt) /\ \A at \in DOMAIN acpt : at < n => m + i # at
  BY <1>0, <1>2
<1>5. \A i, j \in 1..Len(acpt) : acpt[i] = acpt[j] => i = j
  BY DEF Waiting
<1>6. ASSUME NEW i \in 1..Len(acpt')
      PROVE  /\ tcb'[acpt'[i]].state # "SYN_RCVD" /\ tcb'[acpt'[i]].rport
             /\ ~tcb'[acpt'[i]].open /\ ~tcb'[acpt'[i]].shut
  <2> DEFINE k == acpt[m + i]
  <2>1. i \in 1..(Len(acpt) - m) /\ acpt'[i] = k /\ m + i \in 1..Len(acpt)
    BY <1>3, <1>4
  <2>2. k \in Kid /\ k \in Tcb /\ k # "b"
    BY <1>0, <2>1
  <2>3. tcb[k].state # "SYN_RCVD" /\ tcb[k].rport /\ ~tcb[k].open /\ ~tcb[k].shut
    BY <2>1 DEF Waiting
  <2>4. tcb'[k] = tcb[k]
    <3>1. CASE AcceptKeeps(c)
      <4> HIDE DEF k
      <4> QED BY <1>0, <2>2, <3>1 DEF AcceptKeeps
    <3>2. ASSUME NEW at \in DOMAIN acpt, at < n, AcceptOpens(c, at) PROVE tcb'[k] = tcb[k]
      <4> DEFINE d == acpt[at]
      <4>1. at \in 1..Len(acpt) /\ d \in Kid
        BY <1>0
      <4>2. k # d /\ d \in Tcb /\ d # "b"
        BY <1>0, <1>4, <1>5, <2>1, <3>2, <4>1
      <4>3. tcb' = [tcb EXCEPT !["b"] = [@ EXCEPT !.cn = c], ![d] = [@ EXCEPT !.open = TRUE]]
        BY <3>2 DEF AcceptOpens
      <4> HIDE DEF k, d
      <4> QED BY <1>0, <2>2, <4>2, <4>3
    <3> QED BY <1>1, <3>1, <3>2
  <2> QED BY <2>1, <2>3, <2>4
<1>7. ASSUME NEW i \in 1..Len(acpt'), NEW j \in 1..Len(acpt'), acpt'[i] = acpt'[j] PROVE i = j
  <2>1. acpt'[i] = acpt[m + i] /\ acpt'[j] = acpt[m + j] /\ m + i \in 1..Len(acpt) /\ m + j \in 1..Len(acpt)
    BY <1>3, <1>4
  <2>2. m + i = m + j
    BY <1>5, <1>7, <2>1
  <2> QED BY <1>2, <2>2
<1> QED BY <1>6, <1>7 DEF Waiting

-----------------------------------------------------------------------------
(* The stream invariant is inductive.                                        *)

\* The stream invariant holds at the start: no socket has a peer and nothing is sent.
LEMMA StreamInit == Init => Numbered /\ StreamInv
<1> SUFFICES ASSUME Init PROVE Numbered /\ StreamInv
  OBVIOUS
<1>0. TypeOK /\ net = {} /\ acpt = <<>>
  BY InitType DEF Init
<1>1. ASSUME NEW t \in Tcb
      PROVE  /\ tcb[t].state = "CLOSED" /\ ~tcb[t].rport /\ ~tcb[t].open /\ ~tcb[t].shut /\ ~tcb[t].dly
             /\ tcb[t].snd = <<>> /\ tcb[t].unaq = {} /\ tcb[t].iss = 0 /\ tcb[t].una = 0 /\ tcb[t].rcv = 0
             /\ tcb[t].buf = <<>> /\ sent[t] = 0 /\ got[t] = <<>>
  BY DEF Init, tcp_socket
<1>2. \A t \in Tcb : Taken0[t] = <<>>
  BY <1>1 DEF Taken0, Received
<1>3. Taken0 \in [Tcb -> Seq(Nat)]
  <2>1. Taken0 = [t \in Tcb |-> <<>>]
    BY <1>2 DEF Taken0
  <2> QED BY <2>1
<1>4. Numbered
  BY <1>1 DEF Numbered
<1>5. Typed(tcb, net, sent, Taken0)
  BY <1>0, <1>3 DEF Typed, TypeOK
<1>6. "a" \in Tcb /\ "b" \in Tcb /\ Kid \subseteq Tcb
  BY DEF Tcb, Main
<1>7. Sides(tcb)
  BY <1>1, <1>6 DEF Sides
<1>8. ASSUME NEW t \in Tcb PROVE EndOK(tcb[t], sent[t], Taken0[t]) /\ ~Live(tcb[t])
  <2>1. ~Live(tcb[t]) /\ Phase(tcb[t])
    BY <1>1 DEF Live, Phase, Sync
  <2> QED BY <1>1, <1>2, <2>1 DEF EndOK
<1>9. Ends(tcb, sent, Taken0) /\ Links(tcb)
  BY <1>1, <1>8 DEF Ends, Links
<1>10. Streams(tcb, sent, Taken0)
  BY <1>1 DEF Streams, Stream, To
<1>11. Waiting
  BY <1>0 DEF Waiting
<1> QED BY <1>0, <1>4, <1>5, <1>7, <1>9, <1>10, <1>11 DEF StreamInv, NumbersApart, Good

\* A step after which the numbers are apart, and which keeps the rest sound, keeps
\* the stream invariant.
LEMMA StreamStep ==
    ASSUME TypeOK, TypeOK', Numbered, StreamInv, GrowsAll, \A u \in Tcb : sent[u] <= sent'[u],
           NumbersApart /\ NumbersApart' /\ Good(tcb, net, sent, Taken0) /\ Waiting
             => Good(tcb', net', sent', Taken0') /\ Waiting'
    PROVE  Numbered' /\ StreamInv'
<1>1. Numbered'
  BY NumberedKept
<1>2. NumbersApart' => NumbersApart
  BY NumbersBack
<1>3. NumbersApart' => Good(tcb', net', sent', Taken0') /\ Waiting'
  BY <1>2 DEF StreamInv
<1> QED BY <1>1, <1>3 DEF StreamInv

\* The same for a step that leaves the accept queue as it is.
LEMMA StreamMild ==
    ASSUME TypeOK, TypeOK', Numbered, StreamInv, GrowsAll, MildAll, acpt' = acpt, \A u \in Tcb : sent[u] <= sent'[u],
           NumbersApart /\ NumbersApart' /\ Good(tcb, net, sent, Taken0) => Good(tcb', net', sent', Taken0')
    PROVE  Numbered' /\ StreamInv'
<1>1. ASSUME NumbersApart, NumbersApart', Good(tcb, net, sent, Taken0), Waiting
      PROVE  Good(tcb', net', sent', Taken0') /\ Waiting'
  <2>1. Sides(tcb)
    BY <1>1 DEF Good
  <2> QED BY <1>1, <2>1, WaitingKept
<1> QED BY <1>1, StreamStep

\* Every step keeps the stream invariant.
LEMMA StreamNext ==
    TypeOK /\ SleepInv /\ Numbered /\ StreamInv /\ [Next]_vars => Numbered' /\ StreamInv'
<1> SUFFICES ASSUME TypeOK, SleepInv, Numbered, StreamInv, [Next]_vars
             PROVE  Numbered' /\ StreamInv'
  OBVIOUS
<1>0. TypeOK' /\ \A t \in Tcb : sent[t] \in Nat
  BY NextType DEF TypeOK
<1>1. sent' = sent => \A u \in Tcb : sent[u] <= sent'[u]
  BY <1>0
<1>2. ASSUME NEW s \in net, sock_rx_tcp(s) \/ RxNobody(s) \/ tcp_rx_rcvd_fails(s) \/ tcp_rx_listen_refuses(s)
      PROVE  Numbered' /\ StreamInv'
  <2>1. GrowsAll /\ MildAll /\ acpt' = acpt /\ \A u \in Tcb : sent[u] <= sent'[u]
    BY <1>1, <1>2, MildRx
  <2>2. ASSUME Good(tcb, net, sent, Taken0) PROVE Good(tcb', net', sent', Taken0')
    <3>1. CASE sock_rx_tcp(s)
      BY <1>0, <2>2, <3>1, GoodSockRx
    <3>2. CASE tcp_rx_rcvd_fails(s)
      BY <1>0, <2>2, <3>2, GoodRcvdFails
    <3>3. CASE RxNobody(s)
      <4>1. Carry(s, {tcp_tx_reset(s)}) /\ tcb' = tcb /\ sent' = sent /\ got' = got
        BY <3>3 DEF RxNobody
      <4> QED BY <2>2, <4>1, GoodRefused
    <3>4. CASE tcp_rx_listen_refuses(s)
      <4>1. (Carry(s, {}) \/ Carry(s, {tcp_tx_reset(s)})) /\ tcb' = tcb /\ sent' = sent /\ got' = got
        BY <3>4 DEF tcp_rx_listen_refuses
      <4> QED BY <2>2, <4>1, GoodRefused
    <3> QED BY <1>2, <3>1, <3>2, <3>3, <3>4
  <2> QED BY <1>0, <2>1, <2>2, StreamMild
<1>3. ASSUME NEW s \in net, tcp_rx_listen(s)
      PROVE  Numbered' /\ StreamInv'
  <2>1. GrowsAll /\ MildAll /\ acpt' = acpt /\ \A u \in Tcb : sent[u] <= sent'[u]
    BY <1>1, <1>3, MildListen
  <2>2. ASSUME Good(tcb, net, sent, Taken0), NumbersApart' PROVE Good(tcb', net', sent', Taken0')
    BY <1>0, <1>3, <2>2, GoodListen
  <2> QED BY <1>0, <2>1, <2>2, StreamMild
<1>4. ASSUME NEW s \in net, tcp_rx_rcvd(s)
      PROVE  Numbered' /\ StreamInv'
  <2>1. GrowsAll /\ \A u \in Tcb : sent[u] <= sent'[u]
    BY <1>1, <1>4, MildRcvd
  <2>2. ASSUME Good(tcb, net, sent, Taken0), Waiting PROVE Good(tcb', net', sent', Taken0') /\ Waiting'
    BY <1>0, <1>4, <2>2, GoodRcvd, WaitingRcvd
  <2> QED BY <1>0, <2>1, <2>2, StreamStep
<1>5. CASE tcp_accept
  <2>1. GrowsAll /\ \A u \in Tcb : sent[u] <= sent'[u]
    BY <1>1, <1>5, GrowsAccept
  <2>2. ASSUME Good(tcb, net, sent, Taken0), Waiting PROVE Good(tcb', net', sent', Taken0') /\ Waiting'
    BY <1>5, <2>2, GoodAccept, WaitingAccept
  <2> QED BY <1>0, <2>1, <2>2, StreamStep
<1>6. CASE tcp_listen
  <2>1. GrowsAll /\ MildAll /\ acpt' = acpt /\ \A u \in Tcb : sent[u] <= sent'[u]
    BY <1>1, <1>6, MildTcpListen
  <2>2. ASSUME Good(tcb, net, sent, Taken0) PROVE Good(tcb', net', sent', Taken0')
    BY <1>6, <2>2, GoodTcpListen
  <2> QED BY <1>0, <2>1, <2>2, StreamMild
<1>7. ASSUME NEW t \in Tcb, Timer(t)
      PROVE  Numbered' /\ StreamInv'
  <2>1. GrowsAll /\ MildAll /\ acpt' = acpt /\ \A u \in Tcb : sent[u] <= sent'[u]
    BY <1>1, <1>7, MildTimer
  <2>2. ASSUME Good(tcb, net, sent, Taken0) PROVE Good(tcb', net', sent', Taken0')
    BY <1>7, <2>2, GoodDly, GoodTimewait DEF Timer
  <2> QED BY <1>0, <2>1, <2>2, StreamMild
<1>8. ASSUME NEW t \in Tcb, Call(t) \/ RecvResume(t) \/ ConnectReturn(t)
      PROVE  Numbered' /\ StreamInv'
  <2>1. GrowsAll /\ MildAll /\ acpt' = acpt /\ \A u \in Tcb : sent[u] <= sent'[u]
    BY <1>8, MildCall
  <2>2. ASSUME Good(tcb, net, sent, Taken0), NumbersApart' PROVE Good(tcb', net', sent', Taken0')
    <3>1. CASE tcp_connect(t)
      BY <1>0, <2>2, <3>1, GoodConnect
    <3>2. CASE tcp_sendmsg(t)
      BY <1>0, <2>2, <3>2, GoodSendmsg
    <3>3. CASE RecvResume(t) \/ tcp_recvmsg(t)
      BY <1>0, <2>2, <3>3, GoodRecv
    <3>4. CASE ConnectReturn(t)
      BY <2>2, <3>4, GoodConnectReturn
    <3>5. CASE tcp_shutdown(t)
      BY <2>2, <3>5, GoodShutdown
    <3> QED BY <1>8, <3>1, <3>2, <3>3, <3>4, <3>5 DEF Call
  <2> QED BY <1>0, <2>1, <2>2, StreamMild
<1>9. CASE UNCHANGED vars
  <2>1. tcb' = tcb /\ net' = net /\ sent' = sent /\ got' = got /\ acpt' = acpt
    BY <1>9 DEF vars
  <2>2. Taken0' = Taken0
    BY <2>1, TakenSame
  <2>3. GrowsAll /\ MildAll
    BY <2>1, MildSame
  <2>4. ASSUME Good(tcb, net, sent, Taken0) PROVE Good(tcb', net', sent', Taken0')
    BY <2>1, <2>2, <2>4
  <2> QED BY <1>0, <1>1, <2>1, <2>3, <2>4, StreamMild
<1>10. ASSUME NEW t \in Tcb, Resume(t)
       PROVE  Numbered' /\ StreamInv'
  BY <1>5, <1>8, <1>10 DEF Resume
<1>11. CASE Deliver
  BY <1>2, <1>3, <1>4, <1>11 DEF Deliver
<1>12. CASE Next
  BY <1>5, <1>6, <1>7, <1>8, <1>10, <1>11, <1>12 DEF Next
<1> QED BY <1>9, <1>12

-----------------------------------------------------------------------------
(* The theorems.                                                             *)

\* A live socket has a peer, and the two streams between them are in order.
LEMMA LiveStreams ==
    ASSUME NEW T, NEW N, NEW S, NEW V, Good(T, N, S, V), NEW t \in Tcb, Live(T[t])
    PROVE  \E u \in Tcb : /\ Host(u) # Host(t) /\ T[u].rport /\ To(T[t], T[u]) /\ To(T[u], T[t])
                          /\ Taking(T[t], V[t], T[u], S[u]) /\ Kept(T[t], S[t], V[u])
<1>1. PICK u \in Tcb : Pair(T, t, u)
  BY DEF Good, Links
<1>2. Host(u) # Host(t) /\ To(T[t], T[u]) /\ To(T[u], T[t])
  BY <1>1 DEF Pair, Link
<1>3. Stream(T[t], S[t], V[t], T[u], S[u], V[u])
  BY <1>2 DEF Good, Streams
<1>4. Taking(T[t], V[t], T[u], S[u]) /\ Kept(T[t], S[t], V[u])
  BY <1>2, <1>3 DEF Stream
<1> QED BY <1>2, <1>4 DEF To

\* The stream invariant gives the first property.
LEMMA GoodIntact ==
    ASSUME TypeOK, Good(tcb, net, sent, Taken0)
    PROVE  StreamIntact
<1> SUFFICES ASSUME NEW t \in Tcb, t \notin torn, Received(t) # <<>>
             PROVE  \E u \in Peers(t) : /\ Len(Received(t)) <= sent[u]
                                        /\ Received(t) = [i \in 1..Len(Received(t)) |-> i]
  BY DEF StreamIntact
<1>0. Taken0[t] = Received(t) /\ Received(t) \in Seq(Nat)
  BY TcbFields DEF Taken0, Received, TypeOK
<1>1. EndOK(tcb[t], sent[t], Taken0[t])
  BY GoodAt
<1>2. Live(tcb[t])
  BY <1>0, <1>1 DEF EndOK, Idle
<1>3. PICK u \in Tcb : Host(u) # Host(t) /\ tcb[u].rport /\ Taking(tcb[t], Taken0[t], tcb[u], sent[u])
  BY <1>2, LiveStreams
<1>4. u \in Peers(t)
  BY <1>3 DEF Peers
<1> DEFINE v == Received(t)
<1>5. v \in Seq(Nat) /\ Run(v, 1) /\ Len(v) <= sent[u]
  BY <1>0, <1>3 DEF Taking
<1> HIDE DEF v
<1>6. Len(v) \in Nat /\ \A i \in 1..Len(v) : v[i] = i
  BY <1>5 DEF Run
<1>7. v = [i \in 1..Len(v) |-> i]
  <2>1. DOMAIN v = 1..Len(v) /\ v = [i \in DOMAIN v |-> v[i]]
    BY <1>5
  <2> QED BY <1>6, <2>1
<1>8. Len(Received(t)) <= sent[u] /\ Received(t) = [i \in 1..Len(Received(t)) |-> i]
  BY <1>5, <1>7 DEF v
<1> QED BY <1>4, <1>8

\* The stream invariant gives the second property.
LEMMA GoodAcked ==
    ASSUME TypeOK, Good(tcb, net, sent, Taken0)
    PROVE  AckedIsReceived
<1> SUFFICES ASSUME NEW t \in Tcb, sent[t] > 0
             PROVE  \E u \in Peers(t) :
                       /\ \A n \in 1..sent[t] : Queued(tcb[t], n) \/ n <= Len(Received(u))
                       /\ Sub(tcb[u].rcv, tcb[t].iss) <= Sub(tcb[t].nxt, tcb[t].iss)
  BY DEF AckedIsReceived
<1>1. EndOK(tcb[t], sent[t], Taken0[t]) /\ sent[t] \in Nat
  BY GoodAt
<1>2. Live(tcb[t])
  BY <1>1 DEF EndOK, Idle
<1>3. PICK u \in Tcb : Host(u) # Host(t) /\ tcb[u].rport /\ To(tcb[u], tcb[t]) /\ Kept(tcb[t], sent[t], Taken0[u])
  BY <1>2, LiveStreams
<1>4. u \in Peers(t)
  BY <1>3 DEF Peers
<1>5. \A n \in 1..sent[t] : Queued(tcb[t], n) \/ n <= Len(Received(u))
  BY <1>3 DEF Kept, Taken0
<1>6. /\ tcb[t].iss \in SeqNr /\ tcb[t].nxt \in SeqNr /\ tcb[u].rcv \in SeqNr
  BY TcbFields DEF TypeOK
<1>7. tcb[t].iss <= tcb[u].rcv /\ tcb[u].rcv <= tcb[t].nxt
  <2>1. tcb[t].iss \in Int /\ tcb[u].rcv \in Int
    BY <1>6, SeqNrInt
  <2> QED BY <1>3, <2>1 DEF To
<1>8. /\ Sub(tcb[u].rcv, tcb[t].iss) = tcb[u].rcv - tcb[t].iss
      /\ Sub(tcb[t].nxt, tcb[t].iss) = tcb[t].nxt - tcb[t].iss
  <2>1. tcb[u].rcv \in Int /\ tcb[t].nxt \in Int /\ tcb[t].iss \in Int
    BY <1>6, SeqNrInt
  <2>2. tcb[u].rcv >= tcb[t].iss /\ tcb[t].nxt >= tcb[t].iss
    BY <1>7, <2>1
  <2> QED BY <1>6, <2>2, SubPlain
<1>9. Sub(tcb[u].rcv, tcb[t].iss) <= Sub(tcb[t].nxt, tcb[t].iss)
  BY <1>6, <1>7, <1>8, SeqNrInt
<1> QED BY <1>4, <1>5, <1>9

\* The stream invariant gives the third property.
LEMMA GoodLast ==
    ASSUME TypeOK, Good(tcb, net, sent, Taken0)
    PROVE  EndIsLast
<1> SUFFICES ASSUME NEW t \in Tcb, tcb[t].state \in PeerDone
             PROVE  \E u \in Peers(t) : tcb[u].shut /\ Len(Received(t)) = sent[u]
  BY DEF EndIsLast
<1>1. Live(tcb[t])
  BY DEF Live, PeerDone, Sync
<1>2. PICK u \in Tcb : Host(u) # Host(t) /\ tcb[u].rport /\ Taking(tcb[t], Taken0[t], tcb[u], sent[u])
  BY <1>1, LiveStreams
<1>3. u \in Peers(t)
  BY <1>2 DEF Peers
<1>4. tcb[u].shut /\ Len(Received(t)) = sent[u]
  BY <1>2 DEF Taking, Taken0
<1> QED BY <1>3, <1>4

\* The types, the sleepers and the streams together are inductive.
LEMMA StreamsAlways == Spec => [](TypeOK /\ StreamInv)
<1> DEFINE I == TypeOK /\ SleepInv /\ Numbered /\ StreamInv
<1>1. Init => I
  BY InitType, SleepInit, StreamInit
<1>2. I /\ [Next]_vars => I'
  BY NextType, SleepNext, StreamNext
<1>3. I => TypeOK /\ StreamInv
  OBVIOUS
<1> HIDE DEF I
<1> QED BY <1>1, <1>2, <1>3, PTL DEF Spec

\* tcp_rx_data, tcp_recvmsg: for any number of sockets, writes and segments and
\* whatever the network loses, repeats or reorders, what a process receives is the
\* first bytes written at the other end, as long as no connection has used up the
\* sequence numbers, those of two connections of a host do not overlap, and no request
\* of recvmsg on that socket has been full with text left or coming (torn).
THEOREM StreamsAreIntact == Spec => [](NumbersApart => StreamIntact)
<1>1. TypeOK /\ StreamInv => (NumbersApart => StreamIntact)
  BY GoodIntact DEF StreamInv
<1> QED BY <1>1, StreamsAlways, PTL

\* tcp_x_ack, tcp_do_xmit: a byte leaves the queues of its sender only when the
\* other end has it, and nobody has taken more than was sent, under the same
\* condition on the sequence numbers.
THEOREM AckedWasReceived == Spec => [](NumbersApart => AckedIsReceived)
<1>1. TypeOK /\ StreamInv => (NumbersApart => AckedIsReceived)
  BY GoodAcked DEF StreamInv
<1> QED BY <1>1, StreamsAlways, PTL

\* tcp_rx_established, tcp_rx_finwait: although the sequence number of a FIN is not
\* looked at, an end that has seen one has received all that was written at the
\* other, under the same condition on the sequence numbers.
THEOREM FinComesLast == Spec => [](NumbersApart => EndIsLast)
<1>1. TypeOK /\ StreamInv => (NumbersApart => EndIsLast)
  BY GoodLast DEF StreamInv
<1> QED BY <1>1, StreamsAlways, PTL

-----------------------------------------------------------------------------
(* A connect has its answer coming.                                          *)

\* the states of a connection that is being made, and those of a socket that has
\* answered no SYN
Opening == {"SYN_SENT", "SYN_RCVD"}
Before == {"CLOSED", "LISTEN", "SYN_SENT"}

\* a socket without a peer has nothing to do, a socket that connects is in the list that
\* find_tcb searches, and it has sent nothing but its SYN
Young(t, r) ==
    /\ IF r.rport THEN r.iss \in ISS ELSE ~r.open /\ ~r.dly /\ (t \in Kid => ~r.listed)
    /\ t \in Main /\ (~r.rport \/ r.state \in Opening) => r.listed /\ r.wait = "dead"
    /\ r.state \in Opening => /\ r.una = r.iss /\ r.nxt = Add(r.iss, 1) /\ ~r.dly /\ ~r.open
                              /\ r.cn = "run" => r.err
    /\ t \in Kid => r.state # "SYN_SENT"

\* a SYN has the first number of its sender, and its answer the one after that
Opens(T, s) == "S" \in s.fl =>
    /\ s.data = <<>> /\ s.seq \in ISS /\ (T[s.from].rport => s.seq = T[s.from].iss)
    /\ \/ s.fl = {"S"} /\ s.ack = 0 /\ T[s.from].rport
       \/ s.fl = {"S", "A"} /\ T[Other(s.from)].rport /\ s.ack = Add(T[Other(s.from)].iss, 1)

\* a socket that has heard nothing has acknowledged nothing, and nobody has a connection to it
Early(r) == r.state = "SYN_SENT" \/ (r.state = "CLOSED" /\ ~r.rport)
Quiet(T, N, t) == Early(T[t]) =>
    /\ \A s \in N : s.from = t /\ "A" \in s.fl => "R" \in s.fl
    /\ \A u \in Tcb : Host(u) # t => T[u].state \notin Sync /\ (T[u].state = "SYN_RCVD" => T[t].rport)

\* what a handshake may have come to
Hand(T, N) ==
    /\ \A t \in Tcb : Young(t, T[t])
    /\ \A k \in Kid : T[k].rport => T["b"].state = "LISTEN"
    /\ \A s \in N : Opens(T, s)
    /\ \A t \in Main : Quiet(T, N, t)

\* a segment that ends the sleep in connect of a socket with the tcp_t r
Wakes(r, s) ==
    \/ "R" \in s.fl /\ r.state = "SYN_RCVD"
    \/ "A" \in s.fl /\ s.ack = r.nxt /\ (r.state = "SYN_RCVD" \/ "S" \in s.fl \/ "R" \in s.fl)

\* who sleeps in connect has an answer under way, or its SYN is and nobody has seen it
Asleep(r) == r.cn = "wait" /\ r.rport
Answer(T, N, t) == \E s \in N : s.from # t /\ Handshake(s) /\ Wakes(T[t], s)
Asked(N, t) == \E s \in N : s.from = t /\ "S" \in s.fl
Unanswered(T, t) == \A u \in Tcb : Host(u) # t => T[u].state \in Before
Pend(T, N, t) == Asleep(T[t]) => Answer(T, N, t) \/ (Asked(N, t) /\ Unanswered(T, t))

\* The inductive invariant.
HandInv == Hand(tcb, net) /\ (halted = {} => \A t \in Main : Pend(tcb, net, t))

\* A SYN is part of a handshake.
LEMMA OpensHandshake ==
    ASSUME NEW T \in [Tcb -> TcbType], NEW N \in SUBSET SegType, Hand(T, N), NEW s \in N, "S" \in s.fl
    PROVE  Handshake(s)
<1>1. Opens(T, s) /\ s.from \in Main /\ Other(s.from) \in Tcb
  BY SegFields, OtherType DEF Hand, Tcb
<1>2. T[Other(s.from)].rport => T[Other(s.from)].iss \in ISS
  BY <1>1 DEF Hand, Young
<1>3. "F" \notin s.fl /\ s.data = <<>> /\ s.seq \in ISS
  BY <1>1 DEF Opens
<1>4. s.ack = 0 \/ \E i \in ISS : s.ack = Add(i, 1)
  BY <1>1, <1>2 DEF Opens
<1> QED BY <1>3, <1>4 DEF Handshake

\* The inductive invariant implies the property.
LEMMA HandInvIsEnough == TypeOK /\ HandInv => ConnectPending
<1> SUFFICES ASSUME TypeOK, HandInv, NEW t \in Main, tcb[t].cn = "wait", tcb[t].rport, halted = {}
             PROVE  \E s \in net : Handshake(s)
  BY DEF ConnectPending
<1>1. Answer(tcb, net, t) \/ Asked(net, t)
  BY DEF HandInv, Pend, Asleep
<1>2. CASE Answer(tcb, net, t)
  BY <1>2 DEF Answer
<1>3. CASE Asked(net, t)
  <2>1. PICK s \in net : "S" \in s.fl
    BY <1>3 DEF Asked
  <2>2. Handshake(s)
    BY <2>1, OpensHandshake DEF TypeOK, HandInv
  <2> QED BY <2>2
<1> QED BY <1>1, <1>2, <1>3

\* Fewer segments.
LEMMA HandLess ==
    ASSUME NEW T, NEW N, NEW N2, Hand(T, N), N2 \subseteq N
    PROVE  Hand(T, N2)
<1>1. ASSUME NEW t \in Main PROVE Quiet(T, N2, t)
  <2>1. Quiet(T, N, t)
    BY DEF Hand
  <2> QED BY <2>1 DEF Quiet
<1> QED BY <1>1 DEF Hand

\* a change of one socket, with what it sends, that keeps to the handshake
Polite(T, t, r, out) ==
    /\ Young(t, r)
    /\ t \in Main => /\ r.rport = T[t].rport /\ (r.rport => r.iss = T[t].iss)
                     /\ T[t].state = "LISTEN" => r.state = "LISTEN"
                     /\ Early(r) => Early(T[t])
    /\ t \in Kid /\ r.rport => T["b"].state = "LISTEN"
    /\ \A s \in out : /\ s.from = Host(t) /\ Opens(T, s)
                      /\ "A" \in s.fl /\ "R" \notin s.fl => r.rport /\ r.state # "SYN_SENT"
    /\ Early(T[Other(Host(t))]) => /\ r.state \in Sync => T[t].state \in Sync
                                   /\ r.state = "SYN_RCVD" => T[Other(Host(t))].rport

\* Such a change keeps the rules of the handshake.
LEMMA HandPut ==
    ASSUME NEW T \in [Tcb -> TcbType], NEW N \in SUBSET SegType, Hand(T, N), NEW t \in Tcb, NEW r \in TcbType,
           NEW out \in SUBSET SegType, Polite(T, t, r, out)
    PROVE  Hand([T EXCEPT ![t] = r], N \cup out)
<1> DEFINE T2 == [T EXCEPT ![t] = r]
           M == N \cup out
<1>0. Kid \cap Main = {} /\ Main \subseteq Tcb /\ Kid \subseteq Tcb /\ "b" \in Main
  BY TcpAssumption DEF Tcb, Main
<1>1. \A u \in Tcb : T2[u] = IF u = t THEN r ELSE T[u]
  OBVIOUS
<1>2. \A s \in M : s \in SegType /\ s.from \in Main /\ Other(s.from) \in Main
  BY SegFields, OtherType
<1> HIDE DEF T2, M
<1>3. ASSUME NEW u \in Tcb PROVE Young(u, T2[u])
  BY <1>1 DEF Hand, Polite
<1>4. ASSUME NEW v \in Main
      PROVE  /\ T2[v].rport = T[v].rport /\ (T2[v].rport => T2[v].iss = T[v].iss)
             /\ T[v].state = "LISTEN" => T2[v].state = "LISTEN"
             /\ Early(T2[v]) => Early(T[v])
  <2>1. CASE v = t
    <3>1. T2[v] = r
      BY <1>1, <2>1
    <3> QED BY <2>1, <3>1 DEF Polite
  <2>2. CASE v # t
    <3>1. T2[v] = T[v]
      BY <1>0, <1>1, <2>2
    <3> QED BY <3>1
  <2> QED BY <2>1, <2>2
<1>5. ASSUME NEW k \in Kid, T2[k].rport PROVE T2["b"].state = "LISTEN"
  <2>1. T["b"].state = "LISTEN"
    BY <1>0, <1>1, <1>5 DEF Hand, Polite
  <2> QED BY <1>0, <1>4, <2>1
<1>6. ASSUME NEW s \in M PROVE Opens(T2, s)
  <2>1. Opens(T, s)
    BY DEF M, Hand, Polite
  <2> QED BY <1>2, <1>4, <2>1 DEF Opens
<1>7. ASSUME NEW v \in Main, Early(T2[v]) PROVE Quiet(T2, M, v)
  <2>1. Early(T[v])
    BY <1>4, <1>7
  <2>2. /\ \A s \in N : s.from = v /\ "A" \in s.fl => "R" \in s.fl
        /\ \A u \in Tcb : Host(u) # v => T[u].state \notin Sync /\ (T[u].state = "SYN_RCVD" => T[v].rport)
    BY <2>1 DEF Hand, Quiet
  <2>3. ASSUME NEW s \in out, s.from = v, "A" \in s.fl, "R" \notin s.fl PROVE FALSE
    <3>1. v = Host(t) /\ r.rport /\ r.state # "SYN_SENT"
      BY <2>3 DEF Polite
    <3>2. CASE t \in Main
      <4>1. v = t
        BY <3>1, <3>2 DEF Host, Main
      <4>2. T2[v] = r
        BY <1>1, <4>1
      <4> QED BY <1>7, <3>1, <4>2 DEF Early
    <3>3. CASE t \in Kid
      <4>1. v = "b" /\ T["b"].state = "LISTEN"
        BY <1>0, <3>1, <3>3 DEF Host, Polite, Main
      <4> QED BY <2>1, <4>1 DEF Early
    <3> QED BY <3>2, <3>3 DEF Tcb
  <2>4. ASSUME NEW u \in Tcb, Host(u) # v
        PROVE  T2[u].state \notin Sync /\ (T2[u].state = "SYN_RCVD" => T2[v].rport)
    <3>1. T2[v].rport = T[v].rport
      BY <1>4
    <3>2. CASE u # t
      BY <1>1, <2>2, <2>4, <3>1, <3>2
    <3>3. CASE u = t
      <4>1. v = Other(Host(t)) /\ T2[u] = r
        BY <1>1, <2>4, <3>3 DEF Host, Other, Main
      <4> QED BY <2>1, <2>2, <2>4, <3>1, <3>3, <4>1 DEF Polite
    <3> QED BY <3>2, <3>3
  <2> QED BY <2>2, <2>3, <2>4 DEF Quiet, M
<1>8. \A v \in Main : Quiet(T2, M, v)
  BY <1>7 DEF Quiet
<1>9. Hand(T2, M)
  BY <1>3, <1>5, <1>6, <1>8 DEF Hand
<1> QED BY <1>9 DEF T2, M

\* what does not disturb a sleeper, nor move a socket on that has answered no SYN
Steady(r, r2) ==
    /\ Asleep(r2) => Asleep(r) /\ r2.nxt = r.nxt /\ (r2.state = r.state \/ r2.state = "SYN_RCVD")
    /\ r.state \in Before => r2.state \in Before

\* A segment that ended the sleep still does.
LEMMA WakesStill ==
    ASSUME NEW r, NEW r2, NEW s, Wakes(r, s), r2.nxt = r.nxt, r2.state = r.state \/ r2.state = "SYN_RCVD"
    PROVE  Wakes(r2, s)
BY DEF Wakes

\* Sleepers whose answers and SYNs stay in the network still have them.
LEMMA PendStay ==
    ASSUME NEW T, NEW N, NEW T2, NEW M, NEW v \in Main, Pend(T, N, v),
           Asleep(T2[v]) => /\ Asleep(T[v]) /\ T2[v].nxt = T[v].nxt
                            /\ T2[v].state = T[v].state \/ T2[v].state = "SYN_RCVD"
                            /\ \A s \in N : s.from # v /\ Wakes(T[v], s) => s \in M,
           \A s \in N : s.from = v /\ "S" \in s.fl => s \in M,
           \A u \in Tcb : Host(u) # v /\ T[u].state \in Before => T2[u].state \in Before
    PROVE  Pend(T2, M, v)
<1> SUFFICES ASSUME Asleep(T2[v])
             PROVE  Answer(T2, M, v) \/ (Asked(M, v) /\ Unanswered(T2, v))
  BY DEF Pend
<1>1. CASE Answer(T, N, v)
  <2>1. PICK s \in N : s.from # v /\ Handshake(s) /\ Wakes(T[v], s)
    BY <1>1 DEF Answer
  <2>2. s \in M /\ Wakes(T2[v], s)
    BY <2>1, WakesStill
  <2> QED BY <2>1, <2>2 DEF Answer
<1>2. CASE Asked(N, v) /\ Unanswered(T, v)
  <2>1. Asked(M, v)
    BY <1>2 DEF Asked
  <2>2. Unanswered(T2, v)
    BY <1>2 DEF Unanswered
  <2> QED BY <2>1, <2>2
<1> QED BY <1>1, <1>2 DEF Pend

\* One socket changes and nothing leaves the network.
LEMMA PendPut ==
    ASSUME NEW T \in [Tcb -> TcbType], NEW N, NEW M, NEW v \in Main, Pend(T, N, v), N \subseteq M,
           NEW t \in Tcb, NEW r, Steady(T[t], r)
    PROVE  Pend([T EXCEPT ![t] = r], M, v)
<1> DEFINE T2 == [T EXCEPT ![t] = r]
<1>1. \A u \in Tcb : T2[u] = IF u = t THEN r ELSE T[u]
  OBVIOUS
<1>2. v \in Tcb
  BY DEF Tcb
<1> HIDE DEF T2
<1>3. ASSUME NEW u \in Tcb PROVE Steady(T[u], T2[u])
  <2>1. Steady(T[u], T[u])
    BY DEF Steady
  <2> QED BY <1>1, <2>1
<1>4. Pend(T2, M, v)
  BY <1>2, <1>3, PendStay DEF Steady
<1> QED BY <1>4 DEF T2

\* A step of one socket that sends and takes nothing from the network.
LEMMA HandStep ==
    ASSUME TypeOK, HandInv, NEW t \in Tcb, NEW r \in TcbType, NEW out \in SUBSET SegType,
           tcb' = [tcb EXCEPT ![t] = r], net' = net \cup out, halted \subseteq halted',
           Polite(tcb, t, r, out), Steady(tcb[t], r)
    PROVE  HandInv'
<1>0. tcb \in [Tcb -> TcbType] /\ net \in SUBSET SegType
  BY DEF TypeOK
<1>1. Hand(tcb', net')
  BY <1>0, HandPut DEF HandInv
<1>2. ASSUME NEW v \in Main, halted' = {} PROVE Pend(tcb', net', v)
  <2>1. Pend(tcb, net, v)
    BY <1>2 DEF HandInv
  <2> QED BY <1>0, <2>1, PendPut
<1> QED BY <1>1, <1>2 DEF HandInv

\* what the system calls change besides: nothing of the handshake
Alike(r, r2) ==
    /\ r2.state = r.state /\ r2.rport = r.rport /\ r2.iss = r.iss /\ r2.una = r.una /\ r2.nxt = r.nxt
    /\ r2.dly = r.dly /\ r2.listed = r.listed /\ r2.wait = r.wait /\ r2.err = r.err /\ r2.cn = r.cn
    /\ r2.open => r.open

\* Such a change is polite and steady.
LEMMA AlikeFine ==
    ASSUME NEW T \in [Tcb -> TcbType], NEW N, Hand(T, N), NEW t \in Tcb, NEW r \in TcbType, Alike(T[t], r)
    PROVE  Polite(T, t, r, {}) /\ Steady(T[t], r)
<1> DEFINE q == T[t]
<1>1. Young(t, q) /\ q \in TcbType /\ (t \in Kid /\ q.rport => T["b"].state = "LISTEN")
  BY DEF Hand
<1>2. \A v \in Main : Quiet(T, N, v)
  BY DEF Hand
<1>3. T[Other(Host(t))] = T[Other(Host(t))] /\ Other(Host(t)) \in Main /\ Host(t) # Other(Host(t))
  BY DEF Host, Other, Main
<1>4. Quiet(T, N, Other(Host(t)))
  BY <1>2, <1>3
<1> HIDE DEF q
<1>5. Alike(q, r)
  BY DEF q
<1>6. Young(t, r) /\ (Early(r) => Early(q)) /\ Steady(q, r)
  BY <1>1, <1>5 DEF Alike, Young, Early, Steady, Asleep
<1>7. Early(T[Other(Host(t))]) => (q.state = "SYN_RCVD" => T[Other(Host(t))].rport)
  BY <1>3, <1>4 DEF Quiet, q
<1>8. Polite(T, t, r, {})
  BY <1>1, <1>5, <1>6, <1>7 DEF Polite, Alike, q
<1> QED BY <1>6, <1>8 DEF q

\* A step that makes such a change of one socket.
LEMMA HandAlike ==
    ASSUME TypeOK, HandInv, NEW t \in Tcb, NEW r \in TcbType, tcb' = [tcb EXCEPT ![t] = r], net' = net,
           halted \subseteq halted', Alike(tcb[t], r)
    PROVE  HandInv'
<1>1. Polite(tcb, t, r, {}) /\ Steady(tcb[t], r)
  BY AlikeFine DEF TypeOK, HandInv
<1>2. net' = net \cup {} /\ {} \in SUBSET SegType
  OBVIOUS
<1> QED BY <1>1, <1>2, HandStep

\* A socket that has sent or taken more than its SYN has a peer, and does not sleep.
LEMMA Settled ==
    ASSUME TypeOK, SleepInv, HandInv, NEW t \in Tcb, NEW r, r = tcb[t],
           r.dly \/ r.open \/ r.state \in Sync \/ (r.state = "CLOSED" /\ r.rport)
    PROVE  /\ r \in TcbType /\ r.rport /\ r.iss \in ISS /\ r.state \notin Opening /\ r.state # "LISTEN"
           /\ r.cn # "wait" /\ ~Early(r) /\ (t \in Kid => tcb["b"].state = "LISTEN")
<1>1. Young(t, r) /\ Sleeper(t, r) /\ (t \in Kid /\ r.rport => tcb["b"].state = "LISTEN") /\ r \in TcbType
  BY DEF HandInv, Hand, SleepInv, TypeOK
<1>2. r.state \in Sync => r.state \notin Opening /\ r.state \notin {"CLOSED", "LISTEN"}
  BY DEF Sync, Opening
<1>3. r.rport /\ r.state \notin Opening
  BY <1>1, <1>2 DEF Young, Sleeper, Opening
<1>4. r.state # "LISTEN" /\ r.cn # "wait"
  BY <1>1, <1>3 DEF Sleeper, Opening
<1> QED BY <1>1, <1>3, <1>4 DEF Early, Young, Opening

\* A change of such a socket that keeps it one, with what it sends.
LEMMA SettledFine ==
    ASSUME TypeOK, SleepInv, HandInv, NEW t \in Tcb, NEW r, r = tcb[t],
           r.dly \/ r.open \/ r.state \in Sync \/ (r.state = "CLOSED" /\ r.rport),
           NEW r2 \in TcbType, r2.rport = r.rport, r2.iss = r.iss, r2.cn = r.cn \/ r2.cn = Unblk(r.cn),
           r2.state \in Sync \cup {"CLOSED"}, r.state = "CLOSED" => r2.state = "CLOSED",
           NEW out, \A s \in out : s.from = Host(t) /\ "S" \notin s.fl
    PROVE  Polite(tcb, t, r2, out) /\ Steady(tcb[t], r2)
<1>1. /\ r \in TcbType /\ r.rport /\ r.iss \in ISS /\ r.state \notin Opening /\ r.state # "LISTEN"
      /\ r.cn # "wait" /\ ~Early(r) /\ (t \in Kid => tcb["b"].state = "LISTEN")
  BY Settled
<1>2. r2.rport /\ r2.state \notin Opening /\ r2.state # "LISTEN" /\ r2.cn # "wait"
  BY <1>1 DEF Sync, Opening, Unblk
<1>3. Young(t, r2) /\ ~Early(r2) /\ r2.state # "SYN_SENT" /\ r2.state # "SYN_RCVD"
  BY <1>1, <1>2 DEF Young, Early, Opening
<1>4. r.state = "CLOSED" \/ r.state \in Sync
  BY <1>1, TcbFields DEF State, Sync, Opening
<1>5. r2.state \in Sync => r.state \in Sync
  BY <1>4 DEF Sync
<1>6. \A s \in out : Opens(tcb, s)
  BY DEF Opens
<1>7. Polite(tcb, t, r2, out)
  BY <1>1, <1>2, <1>3, <1>5, <1>6 DEF Polite
<1>8. Steady(r, r2)
  BY <1>1, <1>2, <1>4 DEF Steady, Asleep, Before, Sync
<1> QED BY <1>7, <1>8

\* The delayed acknowledgement keeps the invariant.
LEMMA HandDly ==
    ASSUME TypeOK, SleepInv, HandInv, NEW t \in Tcb, tcp_tmr_dly(t)
    PROVE  HandInv'
<1> DEFINE r == tcb[t]
           r2 == [r EXCEPT !.dly = FALSE]
           o == tcp_tx_ack(Host(t), r)
<1>1. tcb' = [tcb EXCEPT ![t] = r2] /\ net' = net \cup {o} /\ halted' = halted /\ r.dly
  BY DEF tcp_tmr_dly
<1>2. /\ r \in TcbType /\ r.rport /\ r.iss \in ISS /\ r.state \notin Opening /\ r.state # "LISTEN"
  BY <1>1, Settled
<1>3. r2 \in TcbType /\ r2.rport = r.rport /\ r2.iss = r.iss /\ r2.cn = r.cn /\ r2.state = r.state
  BY <1>2 DEF TcbType
<1>4. o \in SegType /\ o.from = Host(t) /\ "S" \notin o.fl
  <2>1. o \in SegType
    BY <1>2, HostType, TxAckType
  <2>2. o = Seg(Host(t), r.nxt, r.rcv, {"A"}, <<>>)
    BY <1>2 DEF tcp_tx_ack, Opening
  <2> QED BY <2>1, <2>2 DEF Seg
<1>5. r.state \in Sync \cup {"CLOSED"}
  BY <1>2, TcbFields DEF State, Sync, Opening
<1> HIDE DEF r2, o
<1>6. Polite(tcb, t, r2, {o}) /\ Steady(tcb[t], r2)
  <2>1. \A s \in {o} : s.from = Host(t) /\ "S" \notin s.fl
    BY <1>4
  <2>2. r = tcb[t]
    OBVIOUS
  <2> HIDE DEF r
  <2> QED BY <1>1, <1>3, <1>5, <2>1, <2>2, SettledFine
<1>7. {o} \in SUBSET SegType /\ halted \subseteq halted'
  BY <1>1, <1>4
<1> QED BY <1>1, <1>3, <1>6, <1>7, HandStep

\* Segments of tcp_do_xmit carry no SYN.
LEMMA XmitSyn ==
    ASSUME NEW h \in Main, NEW r \in TcbType
    PROVE  \A s \in tcp_do_xmit(h, r).out : s.from = h /\ "S" \notin s.fl
<1> DEFINE r1 == [r EXCEPT !.dly = FALSE]
           x == tcp_tx_seg(h, r1)
           y == tcp_tx_fin(h, x)
<1>1. ASSUME NEW s \in x.out PROVE s.from = h /\ "S" \notin s.fl
  <2>1. s = Seg(h, r1.nxt, r1.rcv, {"A"}, Head(r1.snd))
    BY DEF tcp_tx_seg
  <2> QED BY <2>1 DEF Seg
<1> HIDE DEF r1, x
<1>2. ASSUME NEW s \in y.out PROVE s.from = h /\ "S" \notin s.fl
  <2>1. s \in x.out \/ s = Seg(h, x.r.nxt, x.r.rcv, {"A", "F"}, <<>>)
    BY DEF tcp_tx_fin
  <2>2. CASE s = Seg(h, x.r.nxt, x.r.rcv, {"A", "F"}, <<>>)
    BY <2>2 DEF Seg
  <2> QED BY <1>1, <2>1, <2>2
<1> HIDE DEF y
<1>3. tcp_do_xmit(h, r) = y \/ tcp_do_xmit(h, r) = [r |-> r, out |-> {}]
  BY DEF tcp_do_xmit, y, x, r1
<1> QED BY <1>2, <1>3

\* Writing keeps the invariant.
LEMMA HandSendmsg ==
    ASSUME TypeOK, SleepInv, HandInv, NEW t \in Tcb, tcp_sendmsg(t)
    PROVE  HandInv'
<1>1. PICK n \in WriteSizes :
        /\ LET m == [i \in 1..n |-> sent[t] + i]
               x == tcp_do_xmit(Host(t), [tcb[t] EXCEPT !.snd = Append(@, m)]) IN
           tcb' = [tcb EXCEPT ![t] = x.r] /\ net' = net \cup x.out
        /\ tcb[t].open /\ halted' = halted
  BY DEF tcp_sendmsg
<1> DEFINE m == [i \in 1..n |-> sent[t] + i]
           r == tcb[t]
           r1 == [r EXCEPT !.snd = Append(@, m)]
           x == tcp_do_xmit(Host(t), r1)
<1>2. tcb' = [tcb EXCEPT ![t] = x.r] /\ net' = net \cup x.out /\ r.open
  BY <1>1
<1>3. r \in TcbType /\ r.state \notin Opening /\ r.state # "LISTEN" /\ r.rport
  BY <1>1, Settled
<1>4. m \in Mbuf
  <2>1. n \in Nat /\ n # 0 /\ sent[t] \in Nat
    BY TcpAssumption DEF TypeOK
  <2>2. m \in Seq(Nat) /\ Len(m) = n
    BY <2>1
  <2>3. m # <<>>
    BY <2>1, <2>2
  <2> QED BY <2>2, <2>3 DEF Mbuf
<1> HIDE DEF m
<1>5. r1 \in TcbType /\ r1.rport = r.rport /\ r1.iss = r.iss /\ r1.state = r.state /\ r1.cn = r.cn
  <2>1. Append(r.snd, m) \in Seq(Mbuf)
    BY <1>3, <1>4, TcbFields
  <2> QED BY <1>3, <2>1 DEF TcbType
<1> HIDE DEF r1
<1>6. Host(t) \in Main
  BY HostType
<1>7. x \in Reply /\ x.r \in TcbType /\ x.out \in SUBSET SegType
  BY <1>5, <1>6, XmitType DEF Reply
<1>8. /\ x.r.rport = r1.rport /\ x.r.cn = r1.cn /\ (x.r.state = r1.state \/ x.r.state = FinState(r1.state))
      /\ x.r.iss = r1.iss
  BY <1>5, <1>6, XmitKeeps, CalmXmit DEF Calm
<1>9. \A s \in x.out : s.from = Host(t) /\ "S" \notin s.fl
  BY <1>5, <1>6, XmitSyn
<1>10. r.state \in Sync \cup {"CLOSED"}
  BY <1>3, TcbFields DEF State, Sync, Opening
<1>11. x.r.state \in Sync \cup {"CLOSED"} /\ (r.state = "CLOSED" => x.r.state = "CLOSED")
  BY <1>5, <1>8, <1>10 DEF FinState, Sync
<1> HIDE DEF x
<1>12. Polite(tcb, t, x.r, x.out) /\ Steady(tcb[t], x.r)
  <2>1. r = tcb[t]
    OBVIOUS
  <2> HIDE DEF r
  <2> QED BY <1>2, <1>5, <1>7, <1>8, <1>9, <1>11, <2>1, SettledFine
<1>13. halted \subseteq halted'
  BY <1>1
<1> QED BY <1>2, <1>7, <1>12, <1>13, HandStep

\* The end of TIME_WAIT keeps the invariant: the timer of a connecting socket is dead.
LEMMA HandTimewait ==
    ASSUME TypeOK, HandInv, NEW t \in Tcb, tcp_tmr_timewait(t)
    PROVE  HandInv'
<1>0. tcb \in [Tcb -> TcbType] /\ Kid \cap Main = {} /\ Main \subseteq Tcb /\ Kid \subseteq Tcb /\ "b" \in Main
  BY TcpAssumption DEF TypeOK, Tcb, Main
<1>1. /\ tcb' = [u \in Tcb |->
                   IF u = t THEN tcp_release([tcb[t] EXCEPT !.wait = "dead"])
                   ELSE IF {t, u} \subseteq Kid /\ ~tcb[t].listed THEN tcp_release(tcb[u])
                   ELSE tcb[u]]
      /\ tcb[t].wait = "armed" /\ net' = net /\ halted' = halted
  BY DEF tcp_tmr_timewait
<1>2. ASSUME NEW u \in Tcb
      PROVE  /\ tcb'[u].state = tcb[u].state /\ tcb'[u].rport = tcb[u].rport /\ tcb'[u].iss = tcb[u].iss
             /\ tcb'[u].nxt = tcb[u].nxt /\ tcb'[u].cn = tcb[u].cn /\ Young(u, tcb'[u])
  <2> DEFINE r == tcb[u]
             z == tcb'[u]
  <2>1. r \in TcbType /\ Young(u, r)
    BY <1>0 DEF HandInv, Hand
  <2>2. \/ z = tcp_release([r EXCEPT !.wait = "dead"]) /\ r.wait = "armed"
        \/ z = tcp_release(r) /\ u \in Kid
        \/ z = r
    BY <1>1
  <2> HIDE DEF r, z
  <2>3. /\ z.state = r.state /\ z.rport = r.rport /\ z.iss = r.iss /\ z.una = r.una /\ z.nxt = r.nxt
        /\ z.dly = r.dly /\ z.open = r.open /\ z.err = r.err /\ z.cn = r.cn
    BY <2>1, <2>2 DEF tcp_release, TcbType
  <2>4. z = r \/ (z.listed = FALSE /\ (u \in Kid \/ r.wait = "armed"))
    BY <2>1, <2>2 DEF tcp_release, TcbType
  <2>5. Young(u, z)
    BY <1>0, <2>1, <2>3, <2>4 DEF Young
  <2> QED BY <2>3, <2>5 DEF r, z
<1>3. \A k \in Kid : tcb'[k].rport => tcb'["b"].state = "LISTEN"
  BY <1>0, <1>2 DEF HandInv, Hand
<1>4. ASSUME NEW s \in net' PROVE Opens(tcb', s)
  <2>1. s.from \in Tcb /\ Other(s.from) \in Tcb /\ Opens(tcb, s)
    BY <1>0, <1>1, SegFields, OtherType DEF TypeOK, HandInv, Hand
  <2> QED BY <1>2, <2>1 DEF Opens
<1>5. ASSUME NEW v \in Main PROVE Quiet(tcb', net', v)
  <2>1. Quiet(tcb, net, v) /\ v \in Tcb
    BY <1>0 DEF HandInv, Hand
  <2>2. (Early(tcb'[v]) => Early(tcb[v])) /\ tcb'[v].rport = tcb[v].rport
    BY <1>2, <2>1 DEF Early
  <2> QED BY <1>1, <1>2, <2>1, <2>2 DEF Quiet
<1>6. Hand(tcb', net')
  BY <1>2, <1>3, <1>4, <1>5 DEF Hand
<1>7. ASSUME NEW v \in Main, halted' = {} PROVE Pend(tcb', net', v)
  <2>1. Pend(tcb, net, v) /\ v \in Tcb
    BY <1>0, <1>1, <1>7 DEF HandInv
  <2>2. Asleep(tcb'[v]) => Asleep(tcb[v]) /\ tcb'[v].nxt = tcb[v].nxt /\ tcb'[v].state = tcb[v].state
    BY <1>2, <2>1 DEF Asleep
  <2> QED BY <1>1, <1>2, <2>1, <2>2, PendStay
<1> QED BY <1>6, <1>7 DEF HandInv

\* Reading and closing keep the invariant.
LEMMA HandRecv ==
    ASSUME TypeOK, TypeOK', HandInv, NEW t \in Tcb, RecvResume(t) \/ tcp_recvmsg(t) \/ tcp_shutdown(t)
    PROVE  HandInv'
<1>0. tcb[t] \in TcbType
  BY DEF TypeOK
<1>1. ASSUME NEW z, z \in TcbType, tcb' = [tcb EXCEPT ![t] = z], net' = net, halted \subseteq halted', Alike(tcb[t], z)
      PROVE  HandInv'
  BY <1>1, HandAlike
<1>2. ASSUME NEW z, tcb' = [tcb EXCEPT ![t] = z] PROVE z \in TcbType
  BY <1>2 DEF TypeOK
<1>3. CASE RecvError(t)
  <2> DEFINE z == [tcb[t] EXCEPT !.rd = "idle", !.rem = 0]
  <2>1. tcb' = [tcb EXCEPT ![t] = z] /\ net' = net /\ halted \subseteq halted'
    BY <1>3 DEF RecvError
  <2>2. Alike(tcb[t], z)
    BY <1>0 DEF Alike, TcbType
  <2> HIDE DEF z
  <2> QED BY <1>1, <1>2, <2>1, <2>2
<1>4. ASSUME NEW j \in 0..Len0, Copy(t, j) PROVE HandInv'
  <2>0. PICK n \in 0..Len(tcb[t].buf), left \in 0..Len0, pc \in {"idle", "wait"} : Read(t, n, left, pc)
    BY <1>4, CopyIs
  <2> DEFINE all == tcb[t].buf
             z == [tcb[t] EXCEPT !.rem = left, !.rd = pc, !.buf = SubSeq(all, n + 1, Len(all))]
  <2>1. tcb' = [tcb EXCEPT ![t] = z] /\ net' = net /\ halted \subseteq halted'
    BY <1>4, <2>0, CopyIs DEF Read
  <2>2. Alike(tcb[t], z)
    BY <1>0 DEF Alike, TcbType
  <2> HIDE DEF z
  <2> QED BY <1>1, <1>2, <2>1, <2>2
<1>5. CASE tcp_shutdown(t)
  <2>1. PICK done \in BOOLEAN : tcb' = [tcb EXCEPT ![t] = [tcb[t] EXCEPT !.open = FALSE, !.shut = done]]
    BY <1>5 DEF tcp_shutdown
  <2> DEFINE z == [tcb[t] EXCEPT !.open = FALSE, !.shut = done]
  <2>2. tcb' = [tcb EXCEPT ![t] = z] /\ net' = net /\ halted \subseteq halted'
    BY <1>5, <2>1 DEF tcp_shutdown
  <2>3. Alike(tcb[t], z)
    BY <1>0 DEF Alike, TcbType
  <2> HIDE DEF z
  <2> QED BY <1>1, <1>2, <2>2, <2>3
<1>6. RecvError(t) \/ Copy(t, Len0) \/ Copy(t, tcb[t].rem) \/ tcp_shutdown(t)
  BY DEF RecvResume, tcp_recvmsg
<1>7. Len0 \in 0..Len0 /\ tcb[t].rem \in 0..Len0
  BY TcpAssumption DEF TypeOK, TcbType
<1> QED BY <1>3, <1>4, <1>5, <1>6, <1>7, Zenon

\* The return of connect keeps the invariant: in SYN_RCVD it returns an error.
LEMMA HandConnectReturn ==
    ASSUME TypeOK, HandInv, NEW t \in Tcb, ConnectReturn(t)
    PROVE  HandInv'
<1> DEFINE q == tcb[t]
           r == [q EXCEPT !.cn = "idle", !.open = ~tcb[t].err]
           p == [q EXCEPT !.cn = "idle"]
<1>0. q \in TcbType /\ Young(t, q) /\ tcb \in [Tcb -> TcbType]
  BY DEF TypeOK, HandInv, Hand
<1>1. tcb' = [tcb EXCEPT ![t] = r] /\ net' = net /\ halted' = halted /\ q.cn = "run" /\ q.rport
  BY DEF ConnectReturn
<1>2. /\ r \in TcbType /\ r.state = q.state /\ r.rport = q.rport /\ r.iss = q.iss /\ r.una = q.una /\ r.nxt = q.nxt
      /\ r.dly = q.dly /\ r.listed = q.listed /\ r.wait = q.wait /\ r.err = q.err /\ r.cn = "idle" /\ r.open = ~q.err
  BY <1>0 DEF TcbType
<1>3. Polite(tcb, t, q, {})
  <2>1. Alike(tcb[t], q)
    BY DEF Alike
  <2> QED BY <1>0, <2>1, AlikeFine DEF HandInv
<1>4. q = tcb[t]
  OBVIOUS
<1> HIDE DEF q, r
<1>5. Young(t, r)
  BY <1>0, <1>1, <1>2 DEF Young
<1>6. Polite(tcb, t, r, {})
  BY <1>2, <1>3, <1>5 DEF Polite, Early
<1>7. Steady(q, r)
  BY <1>2 DEF Steady, Asleep
<1>8. net' = net \cup {} /\ {} \in SUBSET SegType /\ halted \subseteq halted'
  BY <1>1
<1> QED BY <1>1, <1>2, <1>4, <1>6, <1>7, <1>8, HandStep

\* listen keeps the invariant.
LEMMA HandTcpListen ==
    ASSUME TypeOK, HandInv, tcp_listen
    PROVE  HandInv'
<1> DEFINE q == tcb["b"]
           r == [q EXCEPT !.state = "LISTEN"]
<1>0. q \in TcbType /\ "b" \in Tcb /\ "b" \in Main /\ "b" \notin Kid /\ Young("b", q)
  BY TcpAssumption DEF TypeOK, HandInv, Hand, Tcb, Main
<1>1. tcb' = [tcb EXCEPT !["b"] = r] /\ net' = net /\ halted' = halted /\ ~q.rport /\ q.state = "CLOSED"
  BY DEF tcp_listen
<1>2. /\ r \in TcbType /\ r.state = "LISTEN" /\ r.rport = q.rport /\ r.dly = q.dly /\ r.open = q.open
      /\ r.listed = q.listed /\ r.wait = q.wait
  BY <1>0 DEF TcbType, State
<1>3. q = tcb["b"]
  OBVIOUS
<1> HIDE DEF q, r
<1>4. Young("b", r)
  BY <1>0, <1>1, <1>2 DEF Young, Opening
<1>5. Polite(tcb, "b", r, {})
  BY <1>0, <1>1, <1>2, <1>3, <1>4 DEF Polite, Early, Sync
<1>6. Steady(q, r)
  BY <1>1, <1>2 DEF Steady, Asleep, Before
<1>7. net' = net \cup {} /\ {} \in SUBSET SegType /\ halted \subseteq halted'
  BY <1>1
<1> QED BY <1>0, <1>1, <1>2, <1>3, <1>5, <1>6, <1>7, HandStep

\* The process in accept comes and goes: nothing of the handshake changes.
LEMMA ListenerFine ==
    ASSUME NEW T \in [Tcb -> TcbType], NEW N, Hand(T, N), T["b"].state = "LISTEN", ~T["b"].rport,
           NEW r \in TcbType, NEW c, r = [T["b"] EXCEPT !.cn = c]
    PROVE  Polite(T, "b", r, {}) /\ Steady(T["b"], r)
<1> DEFINE q == T["b"]
<1>0. "b" \in Tcb /\ "b" \in Main /\ "b" \notin Kid /\ q = T["b"]
  BY TcpAssumption DEF Tcb, Main
<1>1. q \in TcbType /\ Young("b", q)
  BY <1>0 DEF Hand
<1>2. r = [q EXCEPT !.cn = c] /\ q.state = "LISTEN" /\ ~q.rport
  OBVIOUS
<1> HIDE DEF q
<1>3. /\ r.state = "LISTEN" /\ ~r.rport /\ r.dly = q.dly /\ r.open = q.open /\ r.listed = q.listed /\ r.wait = q.wait
  BY <1>1, <1>2 DEF TcbType
<1>4. Young("b", r)
  BY <1>0, <1>1, <1>2, <1>3 DEF Young, Opening
<1>5. Polite(T, "b", r, {})
  BY <1>0, <1>2, <1>3, <1>4 DEF Polite, Early, Sync
<1>6. Steady(q, r)
  BY <1>3 DEF Steady, Asleep, Before
<1> QED BY <1>0, <1>5, <1>6

\* A step that changes a child and the process in accept.
LEMMA HandTwo ==
    ASSUME TypeOK, SleepInv, HandInv, NEW k \in Kid, NEW r \in TcbType, Polite(tcb, k, r, {}),
           tcb["b"].state = "LISTEN", NEW z \in TcbType, NEW c, z = [tcb["b"] EXCEPT !.cn = c],
           \A u \in Tcb : tcb'[u] = IF u = k THEN r ELSE IF u = "b" THEN z ELSE tcb[u],
           tcb' \in [Tcb -> TcbType]
    PROVE  /\ Hand(tcb', net)
           /\ \A v \in Main : Pend(tcb, net, v) /\ Steady(tcb[k], r) => Pend(tcb', net, v)
<1> DEFINE T == [tcb EXCEPT ![k] = r]
<1>0. tcb \in [Tcb -> TcbType] /\ net \in SUBSET SegType /\ k \in Tcb /\ "b" \in Tcb /\ k # "b"
  BY TcpAssumption DEF TypeOK, Tcb, Main
<1>1. Hand(T, net)
  <2>1. Hand(T, net \cup {})
    BY <1>0, HandPut DEF HandInv
  <2>2. net \cup {} = net
    OBVIOUS
  <2> QED BY <2>1, <2>2
<1>2. T \in [Tcb -> TcbType] /\ T["b"] = tcb["b"] /\ tcb' = [T EXCEPT !["b"] = z]
  BY <1>0
<1> HIDE DEF T
<1>3. ~tcb["b"].rport
  BY <1>0 DEF SleepInv, Sleeper
<1>4. Polite(T, "b", z, {}) /\ Steady(T["b"], z)
  BY <1>1, <1>2, <1>3, ListenerFine
<1>5. Hand(tcb', net)
  <2>1. Hand([T EXCEPT !["b"] = z], net \cup {})
    BY <1>0, <1>1, <1>2, <1>4, HandPut
  <2>2. net \cup {} = net
    OBVIOUS
  <2> QED BY <1>2, <2>1, <2>2
<1>6. ASSUME NEW v \in Main, Pend(tcb, net, v), Steady(tcb[k], r) PROVE Pend(tcb', net, v)
  <2>1. Pend(T, net, v)
    BY <1>0, <1>6, PendPut DEF T
  <2> QED BY <1>0, <1>2, <1>4, <2>1, PendPut
<1> QED BY <1>5, <1>6

\* accept keeps the invariant.
LEMMA HandAccept ==
    ASSUME TypeOK, TypeOK', SleepInv, HandInv, tcp_accept
    PROVE  HandInv'
<1>0. /\ tcb \in [Tcb -> TcbType] /\ "b" \in Tcb /\ acpt \in Seq(Kid) /\ Kid \subseteq Tcb /\ "b" \notin Kid
      /\ tcb' \in [Tcb -> TcbType] /\ tcb["b"] \in TcbType /\ tcb["b"].state = "LISTEN" /\ net' = net /\ halted \subseteq halted'
  BY AcceptIs, TcpAssumption DEF TypeOK, Tcb, Main
<1>1. ~tcb["b"].rport
  BY <1>0 DEF SleepInv, Sleeper
<1>2. PICK c \in {"idle", "wait", "run"} :
      \/ tcb' = [tcb EXCEPT !["b"] = [tcb["b"] EXCEPT !.cn = c]]
      \/ \E i \in DOMAIN acpt :
            /\ tcb[acpt[i]].state = "ESTABLISHED"
            /\ tcb' = [tcb EXCEPT !["b"] = [tcb["b"] EXCEPT !.cn = c], ![acpt[i]] = [@ EXCEPT !.open = TRUE]]
  BY AcceptIs DEF AcceptKeeps, AcceptOpens
<1>3. CASE tcb' = [tcb EXCEPT !["b"] = [tcb["b"] EXCEPT !.cn = c]]
  <2> DEFINE r == [tcb["b"] EXCEPT !.cn = c]
  <2>1. r \in TcbType
    BY <1>0 DEF TcbType
  <2>2. Polite(tcb, "b", r, {}) /\ Steady(tcb["b"], r)
    BY <1>0, <1>1, <2>1, ListenerFine DEF HandInv
  <2>3. tcb' = [tcb EXCEPT !["b"] = r]
    BY <1>3
  <2> HIDE DEF r
  <2>4. net' = net \cup {} /\ {} \in SUBSET SegType /\ halted \subseteq halted'
    BY <1>0
  <2> QED BY <1>0, <2>1, <2>2, <2>3, <2>4, HandStep
<1>4. ASSUME NEW i \in DOMAIN acpt, tcb[acpt[i]].state = "ESTABLISHED",
             tcb' = [tcb EXCEPT !["b"] = [tcb["b"] EXCEPT !.cn = c], ![acpt[i]] = [@ EXCEPT !.open = TRUE]]
      PROVE  HandInv'
  <2> DEFINE k == acpt[i]
             q == tcb[k]
             r == [q EXCEPT !.open = TRUE]
             z == [tcb["b"] EXCEPT !.cn = c]
  <2>1. k \in Kid /\ k \in Tcb /\ k # "b" /\ q \in TcbType /\ q = tcb[k] /\ q.state = "ESTABLISHED"
    BY <1>0, <1>4
  <2>2. \A u \in Tcb : tcb'[u] = IF u = k THEN r ELSE IF u = "b" THEN z ELSE tcb[u]
    <3> HIDE DEF k
    <3>1. tcb' = [tcb EXCEPT !["b"] = [tcb["b"] EXCEPT !.cn = c], ![k] = [@ EXCEPT !.open = TRUE]]
      BY <1>4 DEF k
    <3> QED BY <1>0, <2>1, <3>1
  <2>3. z \in TcbType
    BY <1>0 DEF TcbType
  <2> HIDE DEF k, q
  <2>4. r \in TcbType /\ r.state = q.state /\ r.rport = q.rport /\ r.iss = q.iss /\ r.cn = q.cn
    BY <2>1 DEF TcbType
  <2>5. z = [tcb["b"] EXCEPT !.cn = c]
    OBVIOUS
  <2> HIDE DEF r, z
  <2>6. Polite(tcb, k, r, {}) /\ Steady(tcb[k], r)
    <3>1. q.state \in Sync /\ r.state \in Sync \cup {"CLOSED"} /\ q.state # "CLOSED"
      BY <2>1, <2>4 DEF Sync
    <3> QED BY <2>1, <2>4, <3>1, SettledFine
  <2>7. Hand(tcb', net) /\ \A v \in Main : Pend(tcb, net, v) => Pend(tcb', net, v)
    BY <1>0, <2>1, <2>2, <2>3, <2>4, <2>5, <2>6, HandTwo
  <2> QED BY <1>0, <2>7 DEF HandInv
<1> QED BY <1>2, <1>3, <1>4

\* connect keeps the invariant: its SYN is under way, and nobody has answered it.
LEMMA HandConnect ==
    ASSUME TypeOK, HandInv, NEW t \in Tcb, tcp_connect(t)
    PROVE  HandInv'
<1>1. PICK iss \in ISS :
        /\ t \in Main /\ tcb[t].state = "CLOSED" /\ ~tcb[t].rport /\ halted' = halted
        /\ tcb' = [tcb EXCEPT ![t] = [tcp_tx_setup(tcb[t], iss) EXCEPT !.rport = TRUE, !.cn = "wait"]]
        /\ net' = net \cup {Seg(t, iss, 0, {"S"}, <<>>)}
  BY DEF tcp_connect
<1> DEFINE q == tcb[t]
           r == [tcp_tx_setup(q, iss) EXCEPT !.rport = TRUE, !.cn = "wait"]
           o == Seg(t, iss, 0, {"S"}, <<>>)
<1>2. /\ tcb \in [Tcb -> TcbType] /\ net \in SUBSET SegType /\ Kid \cap Main = {} /\ Main \subseteq Tcb /\ Kid \subseteq Tcb
      /\ "b" \in Main /\ q \in TcbType /\ Young(t, q) /\ Hand(tcb, net)
  BY TcpAssumption DEF TypeOK, Tcb, Main, HandInv, Hand
<1>3. \A u \in Tcb : tcb'[u] = IF u = t THEN r ELSE tcb[u]
  BY <1>1, <1>2
<1>4. o.from = t /\ o.seq = iss /\ o.ack = 0 /\ o.fl = {"S"} /\ o.data = <<>> /\ net' = net \cup {o}
  BY <1>1 DEF Seg
<1>5. /\ r.state = "SYN_SENT" /\ r.rport /\ r.iss = iss /\ r.una = iss /\ r.nxt = Add(iss, 1) /\ r.cn = "wait"
      /\ r.dly = q.dly /\ r.open = q.open /\ r.listed = q.listed /\ r.wait = q.wait
  BY <1>2 DEF tcp_tx_setup, TcbType
<1>6. q = tcb[t] /\ Early(q) /\ ~q.rport
  BY <1>1 DEF Early
<1> HIDE DEF q, r, o
<1>7. Young(t, r)
  BY <1>1, <1>2, <1>5, <1>6 DEF Young, Opening
<1>8. ASSUME NEW u \in Tcb PROVE Young(u, tcb'[u])
  BY <1>3, <1>7 DEF HandInv, Hand
<1>9. ASSUME NEW k \in Kid, tcb'[k].rport PROVE tcb'["b"].state = "LISTEN"
  <2>1. tcb'[k] = tcb[k]
    BY <1>1, <1>2, <1>3
  <2>2. tcb["b"].state = "LISTEN"
    BY <1>2, <1>9, <2>1 DEF Hand
  <2>3. t # "b"
    BY <1>1, <2>2
  <2> QED BY <1>2, <1>3, <2>2, <2>3
<1>10. /\ \A s \in net : s.from = t /\ "A" \in s.fl => "R" \in s.fl
       /\ \A u \in Tcb : Host(u) # t => tcb[u].state \notin Sync /\ tcb[u].state # "SYN_RCVD"
  BY <1>1, <1>2, <1>6 DEF Hand, Quiet
<1>11. ASSUME NEW s \in net' PROVE Opens(tcb', s)
  <2>1. CASE s = o
    BY <1>1, <1>3, <1>4, <1>5, <2>1 DEF Opens
  <2>2. CASE s \in net /\ "S" \in s.fl
    <3>1. Opens(tcb, s) /\ s.from \in Main /\ Other(s.from) \in Main
      BY <1>2, <2>2, SegFields, OtherType DEF Hand
    <3>2. s.from # t
      <4>1. CASE s.fl = {"S"}
        BY <1>6, <2>2, <3>1, <4>1 DEF Opens
      <4>2. CASE s.fl = {"S", "A"}
        BY <1>10, <2>2, <4>2
      <4> QED BY <2>2, <3>1, <4>1, <4>2 DEF Opens
    <3>3. Other(s.from) = t /\ tcb'[s.from] = tcb[s.from]
      BY <1>1, <1>2, <1>3, <3>1, <3>2 DEF Other, Main
    <3> QED BY <1>6, <2>2, <3>1, <3>3 DEF Opens
  <2> QED BY <1>4, <2>1, <2>2 DEF Opens
<1>12. ASSUME NEW v \in Main PROVE Quiet(tcb', net', v)
  <2>1. CASE v = t
    <3>1. tcb'[v].rport
      BY <1>3, <1>5, <2>1
    <3>2. ASSUME NEW s \in net', s.from = v, "A" \in s.fl PROVE "R" \in s.fl
      BY <1>4, <1>10, <2>1, <3>2
    <3>3. ASSUME NEW u \in Tcb, Host(u) # v PROVE tcb'[u].state \notin Sync
      <4>1. u # t
        BY <2>1, <3>3 DEF Host, Main
      <4> QED BY <1>3, <1>10, <2>1, <3>3, <4>1
    <3> QED BY <3>1, <3>2, <3>3 DEF Quiet
  <2>2. CASE v # t
    <3>1. tcb'[v] = tcb[v] /\ Quiet(tcb, net, v)
      BY <1>2, <1>3, <2>2 DEF Hand
    <3>2. \A s \in net' : s.from = v => s \in net
      BY <1>4, <2>2
    <3>3. tcb'[t].state \notin Sync /\ tcb'[t].state # "SYN_RCVD"
      BY <1>3, <1>5 DEF Sync
    <3> QED BY <1>3, <3>1, <3>2, <3>3 DEF Quiet
  <2> QED BY <2>1, <2>2
<1>13. Hand(tcb', net')
  BY <1>8, <1>9, <1>11, <1>12 DEF Hand
<1>14. ASSUME NEW v \in Main, halted' = {} PROVE Pend(tcb', net', v)
  <2>1. CASE v = t
    <3>1. Asked(net', v)
      BY <1>4, <2>1 DEF Asked
    <3>2. ASSUME NEW u \in Tcb, Host(u) # v PROVE tcb'[u].state \in Before
      <4>1. u # t
        BY <2>1, <3>2 DEF Host, Main
      <4>2. tcb'[u] = tcb[u] /\ tcb[u].state \in State
        BY <1>2, <1>3, <4>1, TcbFields
      <4> QED BY <1>10, <2>1, <3>2, <4>2 DEF State, Sync, Before
    <3> QED BY <3>1, <3>2 DEF Pend, Unanswered
  <2>2. CASE v # t
    <3>1. Pend(tcb, net, v) /\ tcb'[v] = tcb[v]
      BY <1>1, <1>2, <1>3, <1>14, <2>2 DEF HandInv
    <3>2. \A u \in Tcb : tcb[u].state \in Before => tcb'[u].state \in Before
      BY <1>3, <1>5 DEF Before
    <3>3. net \subseteq net'
      BY <1>4
    <3> QED BY <3>1, <3>2, <3>3, PendStay
  <2> QED BY <2>1, <2>2
<1> QED BY <1>13, <1>14 DEF HandInv

\* The invariant holds at the start.
LEMMA HandInit == Init => HandInv
<1> SUFFICES ASSUME Init PROVE HandInv
  OBVIOUS
<1>0. Kid \cap Main = {} /\ Main \subseteq Tcb /\ Kid \subseteq Tcb
  BY TcpAssumption DEF Tcb
<1>1. ASSUME NEW t \in Tcb
      PROVE  /\ tcb[t].state = "CLOSED" /\ ~tcb[t].rport /\ ~tcb[t].open /\ ~tcb[t].dly /\ tcb[t].cn = "idle"
             /\ tcb[t].wait = "dead" /\ tcb[t].listed = (t \in Main)
  BY DEF Init, tcp_socket
<1>2. net = {}
  BY DEF Init
<1>3. \A t \in Tcb : Young(t, tcb[t])
  BY <1>0, <1>1 DEF Young, Opening
<1>4. \A t \in Main : Quiet(tcb, net, t)
  BY <1>1, <1>2 DEF Quiet, Sync
<1>5. Hand(tcb, net)
  BY <1>0, <1>1, <1>2, <1>3, <1>4 DEF Hand
<1>6. \A t \in Main : Pend(tcb, net, t)
  BY <1>0, <1>1 DEF Pend, Asleep
<1> QED BY <1>5, <1>6 DEF HandInv

\* no segment of out is a SYN, and all are from h
NoSyn(h, out) == \A s \in out : s.from = h /\ "S" \notin s.fl

\* An acknowledgement is no SYN once the SYN has been acknowledged.
LEMMA AckNoSyn ==
    ASSUME NEW h, NEW r, r.state # "SYN_RCVD"
    PROVE  NoSyn(h, {tcp_tx_ack(h, r)})
BY DEF NoSyn, tcp_tx_ack, Seg

\* A reset is no SYN, and it acknowledges only as a reset.
LEMMA ResetNoSyn ==
    ASSUME NEW s
    PROVE  NoSyn(Other(s.from), {tcp_tx_reset(s)}) /\ "R" \in tcp_tx_reset(s).fl
BY DEF NoSyn, tcp_tx_reset, Seg

\* Nothing that answers text or an acknowledgement is a SYN.
LEMMA DataNoSyn ==
    ASSUME NEW h \in Main, NEW r \in TcbType, NEW s \in SegType, r.state # "SYN_RCVD"
    PROVE  /\ NoSyn(h, tcp_x_ack(h, r, s).out)
           /\ \A x \in Reply : x.r.state # "SYN_RCVD" /\ NoSyn(h, x.out) => NoSyn(h, tcp_rx_data(h, x, s).out)
<1> DEFINE r1 == [r EXCEPT !.una = s.ack, !.unaq = {m \in @ : m.id >= s.ack}]
<1>1. r1 \in TcbType
  BY DEF TcbType, SegType
<1> HIDE DEF r1
<1>2. NoSyn(h, tcp_do_xmit(h, r1).out) /\ NoSyn(h, {})
  BY <1>1, XmitSyn DEF NoSyn
<1>3. NoSyn(h, tcp_x_ack(h, r, s).out)
  BY <1>2, AckNoSyn DEF tcp_x_ack, r1
<1>4. ASSUME NEW x \in Reply, x.r.state # "SYN_RCVD", NoSyn(h, x.out) PROVE NoSyn(h, tcp_rx_data(h, x, s).out)
  <2>1. tcp_rx_data(h, x, s).out \in {x.out, x.out \cup {tcp_tx_ack(h, x.r)}}
    BY DEF tcp_rx_data, Reply
  <2>2. NoSyn(h, {tcp_tx_ack(h, x.r)})
    BY <1>4, AckNoSyn
  <2> QED BY <1>4, <2>1, <2>2 DEF NoSyn
<1> QED BY <1>3, <1>4

\* Nothing that an established connection sends is a SYN.
LEMMA RxNoSyn ==
    ASSUME NEW h \in Main, NEW r \in TcbType, NEW s \in SegType, s.from # h, r.state \notin Opening
    PROVE  NoSyn(h, tcp_rx(h, r, s).out)
<1>0. /\ r.state # "SYN_RCVD" /\ r.state # "SYN_SENT" /\ NoSyn(h, {}) /\ \A q : Same(q).out = {} /\ Same(q).r = q
      /\ h = Other(s.from)
  BY SegFields DEF Opening, NoSyn, Same, Other, Main
<1>1. NoSyn(h, {tcp_tx_ack(h, r)}) /\ NoSyn(h, {tcp_tx_reset(s)})
  BY <1>0, AckNoSyn, ResetNoSyn
<1>2. CASE r.state = "ESTABLISHED"
  <2> DEFINE y == tcp_x_ack(h, r, s)
             x == tcp_rx_data(h, y, s)
             z == tcp_rx_established(h, r, s)
  <2>1. y \in Reply /\ Calm(r, y.r) /\ NoSyn(h, y.out)
    BY <1>0, XAckType, CalmXAck, DataNoSyn
  <2> HIDE DEF y
  <2>2. y.r.state # "SYN_RCVD"
    BY <1>0, <2>1 DEF Calm
  <2>3. x \in Reply /\ NoSyn(h, x.out)
    BY <1>0, <2>1, <2>2, RxDataType, DataNoSyn
  <2> HIDE DEF x
  <2>4. z.out \in {{}, {tcp_tx_ack(h, r)}, x.out}
    <3>1. [x EXCEPT !.r.state = "CLOSE_WAIT"].out = x.out
      BY <2>3 DEF Reply
    <3> QED BY <1>0, <3>1 DEF tcp_rx_established, x, y
  <2>5. tcp_rx(h, r, s) = z
    BY <1>2 DEF tcp_rx
  <2> HIDE DEF z
  <2> QED BY <1>0, <1>1, <2>3, <2>4, <2>5
<1>3. CASE r.state = "CLOSE_WAIT"
  <2> DEFINE r1 == IF "R" \in s.fl THEN tcp_exit_with(r) ELSE r
  <2>1. r1 \in TcbType /\ Calm(r, r1)
    BY ExitType, CalmSmall
  <2>2. r1.state # "SYN_RCVD"
    BY <1>0, <2>1 DEF Calm
  <2> HIDE DEF r1
  <2>3. NoSyn(h, {tcp_tx_ack(h, r1)}) /\ NoSyn(h, tcp_x_ack(h, r1, s).out)
    BY <2>1, <2>2, AckNoSyn, DataNoSyn
  <2>4. NoSyn(h, tcp_rx_closewait(h, r, s).out)
    BY <2>3 DEF tcp_rx_closewait, r1
  <2> QED BY <1>3, <2>4 DEF tcp_rx
<1>4. CASE r.state \in {"FIN_WAIT1", "FIN_WAIT2"}
  <2> DEFINE acked == "A" \in s.fl /\ s.ack = r.nxt /\ r.state = "FIN_WAIT1"
             r1 == IF acked THEN [r EXCEPT !.state = "FIN_WAIT2"] ELSE r
             x == tcp_rx_data(h, Same(r1), s)
             z == tcp_rx_finwait(h, r, s)
  <2>0. r1 \in TcbType /\ Calm(r, r1)
    BY SetState, CalmSmall DEF State
  <2> HIDE DEF r1
  <2>1. r1 \in TcbType /\ r1.state # "SYN_RCVD"
    BY <1>0, <2>0 DEF Calm
  <2>2. Same(r1) \in Reply
    BY <2>1 DEF Same, Reply
  <2>3. x \in Reply /\ NoSyn(h, x.out)
    BY <1>0, <2>1, <2>2, RxDataType, DataNoSyn
  <2> HIDE DEF x
  <2>4. z.out \in {{}, {tcp_tx_ack(h, r)}, x.out}
    <3>1. [x EXCEPT !.r.state = IF @ = "FIN_WAIT1" THEN "CLOSING" ELSE "TIME_WAIT"].out = x.out
      BY <2>3 DEF Reply
    <3> QED BY <1>0, <3>1 DEF tcp_rx_finwait, x, r1
  <2>5. tcp_rx(h, r, s) = z
    BY <1>4 DEF tcp_rx
  <2> HIDE DEF z
  <2> QED BY <1>0, <1>1, <2>3, <2>4, <2>5
<1>5. CASE r.state \in {"LAST_ACK", "CLOSING", "TIME_WAIT"}
  <2> DEFINE r1 == IF "R" \in s.fl THEN [tcp_release(r) EXCEPT !.state = "CLOSED"] ELSE r
  <2>1. r1.state # "SYN_RCVD"
    BY <1>0 DEF tcp_release, TcbType
  <2> HIDE DEF r1
  <2>2. NoSyn(h, {tcp_tx_ack(h, r1)})
    BY <2>1, AckNoSyn
  <2>3. NoSyn(h, tcp_rx_lastack(h, r, s).out)
    BY <1>0, <2>2 DEF tcp_rx_lastack, r1
  <2>4. NoSyn(h, tcp_rx_closing(h, r, s).out)
    BY <1>0, <2>2 DEF tcp_rx_closing, r1
  <2>5. NoSyn(h, tcp_rx_timewait(h, r, s).out)
    BY <1>0, <2>2 DEF tcp_rx_timewait, r1
  <2> QED BY <1>5, <2>3, <2>4, <2>5 DEF tcp_rx
<1>6. CASE r.state \in {"CLOSED", "LISTEN"}
  <2>1. tcp_rx(h, r, s).out = {tcp_tx_reset(s)}
    BY <1>6 DEF tcp_rx
  <2> QED BY <1>1, <2>1
<1> QED BY <1>0, <1>2, <1>3, <1>4, <1>5, <1>6, TcbFields DEF State

\* The number after x is later than x, also where the numbers wrap.
LEMMA NextIsLater ==
    ASSUME NEW x \in SeqNr
    PROVE  SeqLT(x, Add(x, 1)) /\ ~SeqLT(x, x)
<1>0. x \in Nat /\ x < SEQ /\ SEQ \in Nat \ {0} /\ SEQ \div 2 \in Nat /\ 1 <= SEQ \div 2 /\ SEQ = (SEQ \div 2) + (SEQ \div 2)
  BY SeqNrInt, TcpAssumption, HalfSeq
<1>1. ~SeqLT(x, x)
  <2>1. Sub(x, x) = x - x
    BY <1>0, SubPlain
  <2> QED BY <1>0, <2>1 DEF SeqLT
<1>2. CASE x + 1 < SEQ
  BY <1>1, <1>2, LaterByOne
<1>3. CASE x + 1 = SEQ
  <2>1. \A n \in Nat \ {0} : n % n = 0
    OBVIOUS
  <2>2. Add(x, 1) = 0 /\ 0 \in SeqNr
    BY <1>0, <1>3, <2>1 DEF Add, SeqNr
  <2>3. Sub(x, 0) = x - 0
    BY <1>0, <2>2, SubPlain
  <2> QED BY <1>0, <1>1, <1>3, <2>2, <2>3 DEF SeqLT
<1> QED BY <1>0, <1>2, <1>3

\* what a segment may do to a socket in SYN_SENT: nothing, the end of the attempt, its
\* success, or the answer to a SYN that crossed ours
Ignored(r, s, y) ==
    /\ y.r = r /\ y.out \in {{}, {tcp_tx_reset(s)}} /\ ~Wakes(r, s)
    /\ "S" \in s.fl /\ "R" \notin s.fl => y.out = {tcp_tx_reset(s)}
Failed(r, s, y) ==
    /\ "R" \in s.fl /\ y.out = {} /\ y.r.state = "CLOSED" /\ y.r.rport = r.rport /\ y.r.iss = r.iss
    /\ y.r.cn = Unblk(r.cn) /\ y.r.dly = r.dly /\ y.r.open = r.open
Opened(h, r, s, y) ==
    /\ {"S", "A"} \subseteq s.fl /\ "R" \notin s.fl
    /\ y.r.state = "ESTABLISHED" /\ y.r.rport = r.rport /\ y.r.iss = r.iss /\ y.r.cn = Unblk(r.cn)
    /\ y.out = {Seg(h, r.nxt, Add(s.seq, 1), {"A"}, <<>>)}
Crossed(h, r, s, y) ==
    /\ "S" \in s.fl /\ "R" \notin s.fl /\ "A" \notin s.fl
    /\ y.r.state = "SYN_RCVD" /\ y.r.rport = r.rport /\ y.r.iss = r.iss /\ y.r.una = r.una
    /\ y.r.nxt = r.nxt /\ y.r.dly = r.dly /\ y.r.open = r.open /\ y.r.listed = r.listed
    /\ y.r.wait = r.wait /\ y.r.cn = r.cn /\ y.r.err = r.err
    /\ y.out = {Seg(h, r.iss, Add(s.seq, 1), {"S", "A"}, <<>>)}

\* It does one of these.
LEMMA SentComes ==
    ASSUME NEW h \in Main, NEW r \in TcbType, NEW s \in SegType, r.state = "SYN_SENT", r.una = r.iss,
           r.nxt = Add(r.iss, 1), NEW y \in Reply, y = tcp_rx_sent(h, r, s)
    PROVE  Ignored(r, s, y) \/ Failed(r, s, y) \/ Opened(h, r, s, y) \/ Crossed(h, r, s, y)
<1>0. SeqLT(r.iss, r.nxt) /\ ~SeqLT(r.iss, r.iss)
  BY NextIsLater, TcbFields
<1>1. CASE "A" \in s.fl /\ s.ack # r.nxt
  <2>1. y = [r |-> r, out |-> {tcp_tx_reset(s)}]
    BY <1>1 DEF tcp_rx_sent
  <2> QED BY <1>1, <2>1 DEF Wakes, Ignored
<1>2. CASE ~("A" \in s.fl /\ s.ack # r.nxt) /\ "R" \in s.fl
  <2>1. y = Same(IF "A" \in s.fl THEN [tcp_exit_with(r) EXCEPT !.state = "CLOSED"] ELSE r)
    BY <1>2 DEF tcp_rx_sent
  <2>2. CASE "A" \in s.fl
    <3>1. y.r = [tcp_exit_with(r) EXCEPT !.state = "CLOSED"] /\ y.out = {}
      BY <2>1, <2>2 DEF Same
    <3>2. /\ y.r.state = "CLOSED" /\ y.r.rport = r.rport /\ y.r.iss = r.iss /\ y.r.cn = Unblk(r.cn)
          /\ y.r.dly = r.dly /\ y.r.open = r.open
      BY <3>1 DEF tcp_exit_with, TcbType
    <3> QED BY <1>2, <3>1, <3>2 DEF Failed
  <2>3. CASE "A" \notin s.fl
    BY <1>2, <2>1, <2>3 DEF Same, Wakes, Ignored
  <2> QED BY <2>2, <2>3
<1>3. CASE ~("A" \in s.fl /\ s.ack # r.nxt) /\ "R" \notin s.fl /\ "S" \notin s.fl
  <2>1. y = Same(r)
    BY <1>3 DEF tcp_rx_sent
  <2> QED BY <1>3, <2>1 DEF Same, Wakes, Ignored
<1>4. CASE ~("A" \in s.fl /\ s.ack # r.nxt) /\ "R" \notin s.fl /\ "S" \in s.fl
  <2> DEFINE una == IF "A" \in s.fl THEN s.ack ELSE r.una
             r1 == [r EXCEPT !.rcv = Add(s.seq, 1), !.una = una]
             r2 == IF SeqLT(r.iss, una) THEN WakeSyn([r1 EXCEPT !.state = "ESTABLISHED"])
                                        ELSE [r1 EXCEPT !.state = "SYN_RCVD"]
  <2>1. y.r = r2 /\ y.out = {tcp_tx_ack(h, r2)}
    BY <1>4 DEF tcp_rx_sent
  <2>2. CASE "A" \in s.fl
    <3>1. y.r = WakeSyn([r1 EXCEPT !.state = "ESTABLISHED"])
      BY <1>0, <1>4, <2>1, <2>2
    <3>2. /\ y.r.state = "ESTABLISHED" /\ y.r.rport = r.rport /\ y.r.iss = r.iss /\ y.r.cn = Unblk(r.cn)
          /\ y.r.nxt = r.nxt /\ y.r.rcv = Add(s.seq, 1)
      BY <3>1 DEF WakeSyn, TcbType
    <3>3. y.out = {tcp_tx_ack(h, y.r)}
      BY <2>1
    <3> HIDE DEF r1, r2
    <3>4. y.out = {Seg(h, r.nxt, Add(s.seq, 1), {"A"}, <<>>)}
      BY <3>2, <3>3 DEF tcp_tx_ack
    <3> QED BY <1>4, <2>2, <3>2, <3>4 DEF Opened
  <2>3. CASE "A" \notin s.fl
    <3>1. y.r = [r1 EXCEPT !.state = "SYN_RCVD"]
      BY <1>0, <2>1, <2>3
    <3>2. una = r.una
      BY <2>3
    <3> HIDE DEF una
    <3>3. /\ y.r.state = "SYN_RCVD" /\ y.r.rport = r.rport /\ y.r.iss = r.iss /\ y.r.una = r.una
          /\ y.r.nxt = r.nxt /\ y.r.dly = r.dly /\ y.r.open = r.open /\ y.r.listed = r.listed
          /\ y.r.wait = r.wait /\ y.r.cn = r.cn /\ y.r.err = r.err /\ y.r.rcv = Add(s.seq, 1)
      BY <3>1, <3>2 DEF TcbType
    <3>4. y.out = {tcp_tx_ack(h, y.r)}
      BY <2>1
    <3> HIDE DEF r1, r2
    <3>5. y.out = {Seg(h, r.iss, Add(s.seq, 1), {"S", "A"}, <<>>)}
      BY <3>3, <3>4 DEF tcp_tx_ack
    <3> QED BY <1>4, <2>3, <3>3, <3>5 DEF Crossed
  <2> QED BY <2>2, <2>3
<1> QED BY <1>1, <1>2, <1>3, <1>4

\* find_tcb finds a sleeper in connect, and nobody else on its host.
LEMMA FindSleeper ==
    ASSUME TypeOK, SleepInv, HandInv, NEW v \in Main, Asleep(tcb[v]), NEW s \in net, s.from # v
    PROVE  find_tcb(s) = {v} /\ tcb[v].state \in Opening
<1>0. v \in Tcb /\ Kid \subseteq Tcb /\ tcb[v] \in TcbType /\ "b" \in Tcb
  BY DEF TypeOK, Tcb, Main
<1>1. tcb[v].rport /\ tcb[v].state \in Opening
  BY <1>0 DEF Asleep, SleepInv, Sleeper, Opening
<1>2. tcb[v].listed
  BY <1>0, <1>1 DEF HandInv, Hand, Young
<1>3. Other(s.from) = v
  <2>1. s.from \in Main
    BY SegFields DEF TypeOK
  <2> QED BY <2>1 DEF Other, Main
<1>4. v = "b" => {k \in Kid : tcb[k].listed} = {}
  <2>1. ASSUME v = "b", NEW k \in Kid, tcb[k].listed PROVE FALSE
    <3>1. Young(k, tcb[k])
      BY <1>0 DEF HandInv, Hand
    <3>2. tcb[k].rport
      BY <2>1, <3>1 DEF Young
    <3>3. tcb["b"].state = "LISTEN"
      BY <3>2 DEF HandInv, Hand
    <3> QED BY <1>1, <2>1, <3>3 DEF Opening
  <2> QED BY <2>1
<1>5. find_tcb(s) = {t \in {v} : tcb[t].listed /\ (tcb[t].rport \/ tcb[t].state = "LISTEN")}
  BY <1>3, <1>4 DEF find_tcb
<1> QED BY <1>1, <1>2, <1>5

\* Who receives a segment has a peer or listens, and no sleeper on its host is somebody else.
LEMMA RxWho ==
    ASSUME TypeOK, SleepInv, HandInv, NEW s \in net, NEW t, Rx(s, t)
    PROVE  /\ t \in Tcb /\ Host(t) # s.from /\ s \in SegType /\ s.from \in Main /\ Other(s.from) = Host(t)
           /\ tcb[t].rport \/ (tcb[t].state = "LISTEN" /\ t = "b")
           /\ \A v \in Main : v # s.from /\ Asleep(tcb[v]) => v = t
<1>1. t \in Tcb /\ Host(t) # s.from /\ s \in SegType
  BY RxHost
<1>2. s.from \in Main /\ Other(s.from) = Host(t)
  BY <1>1, SegFields DEF Host, Other, Main
<1>3. Young(t, tcb[t]) /\ Sleeper(t, tcb[t])
  BY <1>1 DEF HandInv, Hand, SleepInv
<1>4. \/ t \in Kid /\ tcb[t].listed
      \/ tcb[t].rport \/ tcb[t].state = "LISTEN"
  BY DEF Rx, find_tcb
<1>5. tcb[t].rport \/ (tcb[t].state = "LISTEN" /\ t = "b")
  BY <1>3, <1>4 DEF Young, Sleeper
<1>6. ASSUME NEW v \in Main, v # s.from, Asleep(tcb[v]) PROVE v = t
  <2>1. find_tcb(s) = {v}
    BY <1>6, FindSleeper
  <2> QED BY <2>1 DEF Rx
<1> QED BY <1>1, <1>2, <1>5, <1>6

\* What the network keeps of a delivery.
LEMMA CarryKeeps ==
    ASSUME NEW s, NEW out, Carry(s, out)
    PROVE  net' \subseteq net \cup out /\ net \ {s} \subseteq net' /\ out \subseteq net'
BY DEF Carry

\* A sleeper that gets an answer has one.
LEMMA PendAnswer ==
    ASSUME NEW T, NEW N, NEW T2, NEW M, NEW v \in Main, Pend(T, N, v), T2[v] = T[v],
           \A s \in N : s.from # v => s \in M,
           Unanswered(T, v) /\ Asleep(T[v]) => Answer(T, M, v)
    PROVE  Pend(T2, M, v)
<1> SUFFICES ASSUME Asleep(T2[v]) PROVE Answer(T2, M, v)
  BY DEF Pend
<1>1. Answer(T, N, v) => Answer(T, M, v)
  BY DEF Answer
<1>2. Answer(T, M, v)
  BY <1>1 DEF Pend
<1> QED BY <1>2 DEF Answer

\* out has a segment that ends the sleep of v
Answered(T, v, out) == \E o \in out : o.from # v /\ Handshake(o) /\ Wakes(T[v], o)

\* A delivery to one socket.
LEMMA HandRx ==
    ASSUME TypeOK, HandInv, NEW s \in net, NEW t \in Tcb, Host(t) # s.from, NEW r \in TcbType,
           NEW out \in SUBSET SegType, tcb' = [tcb EXCEPT ![t] = r], Carry(s, out), halted' = halted,
           Polite(tcb, t, r, out),
           \A v \in Main : v # s.from /\ Asleep(tcb[v]) => v = t,
           Asleep(r) => /\ Asleep(tcb[t]) /\ r.nxt = tcb[t].nxt /\ ~Wakes(tcb[t], s)
                        /\ r.state = tcb[t].state \/ r.state = "SYN_RCVD",
           "S" \notin s.fl /\ tcb[t].state \in Before => r.state \in Before,
           "S" \in s.fl /\ Asleep(tcb[s.from]) /\ tcb[t].state \in Before => Answered(tcb, s.from, out)
    PROVE  HandInv'
<1>0. tcb \in [Tcb -> TcbType] /\ net \in SUBSET SegType /\ Main \subseteq Tcb /\ s.from \in Main
  BY SegFields DEF TypeOK, Tcb
<1>1. net' \subseteq net \cup out /\ net \ {s} \subseteq net' /\ out \subseteq net'
  BY CarryKeeps
<1>2. Hand(tcb', net')
  <2>1. Hand(tcb', net \cup out)
    BY <1>0, HandPut DEF HandInv
  <2> QED BY <1>1, <2>1, HandLess
<1>3. \A u \in Tcb : tcb'[u] = IF u = t THEN r ELSE tcb[u]
  BY <1>0
<1>4. ASSUME NEW v \in Main, halted' = {} PROVE Pend(tcb', net', v)
  <2>0. Pend(tcb, net, v) /\ v \in Tcb /\ Host(v) = v
    BY <1>0, <1>4 DEF HandInv, Host, Main
  <2>1. CASE v = s.from
    <3>1. v # t /\ tcb'[v] = tcb[v] /\ Host(t) # v
      BY <1>3, <2>0, <2>1
    <3>2. \A x \in net : x.from # v => x \in net'
      BY <1>1, <2>1
    <3>3. CASE "S" \in s.fl
      <4>1. Unanswered(tcb, v) /\ Asleep(tcb[v]) => Answer(tcb, net', v)
        <5>1. Unanswered(tcb, v) => tcb[t].state \in Before
          BY <3>1 DEF Unanswered
        <5>2. Answered(tcb, v, out) => Answer(tcb, net', v)
          BY <1>1 DEF Answered, Answer
        <5> QED BY <2>1, <3>3, <5>1, <5>2
      <4> QED BY <2>0, <3>1, <3>2, <4>1, PendAnswer
    <3>4. CASE "S" \notin s.fl
      <4>1. \A x \in net : "S" \in x.fl => x \in net'
        BY <1>1, <3>4
      <4>2. \A u \in Tcb : tcb[u].state \in Before => tcb'[u].state \in Before
        BY <1>3, <3>4
      <4> QED BY <2>0, <3>1, <3>2, <4>1, <4>2, PendStay
    <3> QED BY <3>3, <3>4
  <2>2. CASE v # s.from
    <3>1. CASE v = t
      <4>1. tcb'[v] = r
        BY <1>3, <3>1
      <4>2. \A x \in net : x.from = v => x \in net'
        BY <1>1, <2>2
      <4>3. \A u \in Tcb : Host(u) # v => tcb'[u] = tcb[u]
        BY <1>3, <2>0, <3>1
      <4>4. Asleep(r) => \A x \in net : Wakes(tcb[v], x) => x \in net'
        BY <1>1, <3>1
      <4>5. Asleep(tcb'[v]) => /\ Asleep(tcb[v]) /\ tcb'[v].nxt = tcb[v].nxt
                               /\ tcb'[v].state = tcb[v].state \/ tcb'[v].state = "SYN_RCVD"
                               /\ \A x \in net : x.from # v /\ Wakes(tcb[v], x) => x \in net'
        BY <3>1, <4>1, <4>4
      <4>6. \A u \in Tcb : Host(u) # v /\ tcb[u].state \in Before => tcb'[u].state \in Before
        BY <4>3
      <4>7. \A x \in net : x.from = v /\ "S" \in x.fl => x \in net'
        BY <4>2
      <4> QED BY <2>0, <4>5, <4>6, <4>7, PendStay, Zenon
    <3>2. CASE v # t
      <4>1. tcb'[v] = tcb[v] /\ ~Asleep(tcb[v])
        BY <1>3, <2>0, <2>2, <3>2
      <4> QED BY <4>1 DEF Pend
    <3> QED BY <3>1, <3>2
  <2> QED BY <2>1, <2>2
<1> QED BY <1>2, <1>4 DEF HandInv

\* A reset keeps to the handshake.
LEMMA HandReset ==
    ASSUME NEW T, NEW N, Hand(T, N), NEW s
    PROVE  Hand(T, N \cup {tcp_tx_reset(s)})
<1> DEFINE o == tcp_tx_reset(s)
<1>1. "S" \notin o.fl /\ "R" \in o.fl
  BY ResetNoSyn DEF NoSyn
<1> HIDE DEF o
<1>2. Opens(T, o)
  BY <1>1 DEF Opens
<1>3. ASSUME NEW v \in Main PROVE Quiet(T, N \cup {o}, v)
  <2>1. Quiet(T, N, v)
    BY DEF Hand
  <2> QED BY <1>1, <2>1 DEF Quiet
<1>4. Hand(T, N \cup {o})
  BY <1>2, <1>3 DEF Hand
<1> QED BY <1>4 DEF o

\* A reset ends the sleep of who sent the SYN that it refuses.
LEMMA ResetEnds ==
    ASSUME TypeOK, SleepInv, HandInv, NEW s \in net, "S" \in s.fl, Asleep(tcb[s.from])
    PROVE  Answered(tcb, s.from, {tcp_tx_reset(s)})
<1> DEFINE v == s.from
           q == tcb[v]
           o == tcp_tx_reset(s)
<1>0. v \in Main /\ v \in Tcb /\ q \in TcbType /\ s \in SegType /\ Other(v) # v /\ Other(v) \in Tcb
  BY SegFields, OtherType DEF TypeOK, Tcb
<1>1. Opens(tcb, s) /\ Young(v, q) /\ q.rport /\ q.state \in Opening /\ Quiet(tcb, net, v)
  BY <1>0 DEF HandInv, Hand, SleepInv, Sleeper, Asleep, Opening
<1>2. s.data = <<>> /\ s.seq \in ISS /\ s.seq = q.iss /\ q.nxt = Add(q.iss, 1)
  BY <1>1 DEF Opens, Young
<1>3. CASE s.fl = {"S"}
  <2>1. SegLen(s) = 1
    BY <1>2, <1>3 DEF SegLen
  <2>2. o = Seg(Other(v), 0, q.nxt, {"R", "A"}, <<>>)
    BY <1>2, <1>3, <2>1 DEF tcp_tx_reset
  <2>3. o.from = Other(v) /\ o.seq = 0 /\ o.ack = q.nxt /\ o.fl = {"R", "A"} /\ o.data = <<>>
    BY <2>2 DEF Seg
  <2> HIDE DEF o
  <2>4. Handshake(o)
    BY <1>2, <2>3 DEF Handshake
  <2>5. Wakes(q, o)
    BY <2>3 DEF Wakes
  <2> QED BY <1>0, <2>3, <2>4, <2>5 DEF Answered, o
<1>4. CASE s.fl = {"S", "A"}
  <2>1. q.state = "SYN_RCVD"
    <3>1. ~Early(q)
      BY <1>1, <1>4 DEF Quiet
    <3> QED BY <1>1, <3>1 DEF Early, Opening
  <2>2. \E i \in ISS : s.ack = Add(i, 1)
    <3>1. tcb[Other(v)].rport /\ s.ack = Add(tcb[Other(v)].iss, 1)
      BY <1>1, <1>4 DEF Opens
    <3>2. Young(Other(v), tcb[Other(v)])
      BY <1>0 DEF HandInv, Hand
    <3> QED BY <3>1, <3>2 DEF Young
  <2>3. o = Seg(Other(v), s.ack, 0, {"R"}, <<>>)
    BY <1>4 DEF tcp_tx_reset
  <2>4. o.from = Other(v) /\ o.seq = s.ack /\ o.ack = 0 /\ o.fl = {"R"} /\ o.data = <<>>
    BY <2>3 DEF Seg
  <2> HIDE DEF o
  <2>5. Handshake(o)
    BY <2>2, <2>4 DEF Handshake
  <2>6. Wakes(q, o)
    BY <2>1, <2>4 DEF Wakes
  <2> QED BY <1>0, <2>4, <2>5, <2>6 DEF Answered, o
<1> QED BY <1>1, <1>3, <1>4 DEF Opens

\* A delivery that changes no socket.
LEMMA HandRefused ==
    ASSUME TypeOK, SleepInv, HandInv, NEW s \in net, NEW out, out \in {{}, {tcp_tx_reset(s)}},
           tcb' = tcb, Carry(s, out), halted' = halted,
           \A v \in Main : v # s.from /\ Asleep(tcb[v]) => ~Wakes(tcb[v], s),
           "S" \in s.fl /\ Unanswered(tcb, s.from) => out = {tcp_tx_reset(s)}
    PROVE  HandInv'
<1>0. net' \subseteq net \cup out /\ net \ {s} \subseteq net' /\ out \subseteq net' /\ s.from \in Main
  BY CarryKeeps, SegFields DEF TypeOK
<1>1. Hand(tcb', net')
  <2>1. Hand(tcb, net) /\ Hand(tcb, net \cup {tcp_tx_reset(s)})
    BY HandReset DEF HandInv
  <2>2. net \cup out \subseteq net \cup {tcp_tx_reset(s)}
    OBVIOUS
  <2>3. net' \subseteq net \cup {tcp_tx_reset(s)}
    BY <1>0, <2>2
  <2> QED BY <2>1, <2>3, HandLess
<1>2. ASSUME NEW v \in Main, halted' = {} PROVE Pend(tcb', net', v)
  <2>0. Pend(tcb, net, v)
    BY <1>2 DEF HandInv
  <2>1. CASE v = s.from /\ "S" \in s.fl
    <3>1. ASSUME Unanswered(tcb, v), Asleep(tcb[v]) PROVE Answer(tcb, net', v)
      <4>1. out = {tcp_tx_reset(s)} /\ Answered(tcb, v, {tcp_tx_reset(s)})
        BY <2>1, <3>1, ResetEnds
      <4> QED BY <1>0, <4>1 DEF Answered, Answer
    <3>2. \A x \in net : x.from # v => x \in net'
      BY <1>0, <2>1
    <3> QED BY <2>0, <3>1, <3>2, PendAnswer
  <2>2. CASE v # s.from \/ "S" \notin s.fl
    <3>1. \A x \in net : x.from = v /\ "S" \in x.fl => x \in net'
      BY <1>0, <2>2
    <3>2. Asleep(tcb[v]) => \A x \in net : x.from # v /\ Wakes(tcb[v], x) => x \in net'
      BY <1>0, <2>2
    <3> QED BY <2>0, <3>1, <3>2, PendStay
  <2> QED BY <2>1, <2>2
<1> QED BY <1>1, <1>2 DEF HandInv

\* A segment for nobody, and one that a listening socket refuses, keep the invariant.
LEMMA HandRxNobody ==
    ASSUME TypeOK, SleepInv, HandInv, NEW s \in net, RxNobody(s) \/ tcp_rx_listen_refuses(s)
    PROVE  HandInv'
<1>1. CASE RxNobody(s)
  <2>1. find_tcb(s) = {} /\ tcb' = tcb /\ halted' = halted /\ Carry(s, {tcp_tx_reset(s)})
    BY <1>1 DEF RxNobody
  <2>2. ASSUME NEW v \in Main, v # s.from, Asleep(tcb[v]) PROVE FALSE
    <3>1. find_tcb(s) = {v}
      BY <2>2, FindSleeper
    <3> QED BY <2>1, <3>1
  <2> DEFINE out == {tcp_tx_reset(s)}
  <2>3. out \in {{}, {tcp_tx_reset(s)}} /\ out = {tcp_tx_reset(s)} /\ Carry(s, out)
    BY <2>1
  <2> HIDE DEF out
  <2> QED BY <2>1, <2>2, <2>3, HandRefused
<1>2. CASE tcp_rx_listen_refuses(s)
  <2> DEFINE out == IF "R" \in s.fl THEN {} ELSE {tcp_tx_reset(s)}
  <2>1. tcb' = tcb /\ halted' = halted /\ Carry(s, out) /\ Rx(s, "b") /\ tcb["b"].state = "LISTEN"
    BY <1>2 DEF tcp_rx_listen_refuses
  <2>2. out \in {{}, {tcp_tx_reset(s)}} /\ ("R" \notin s.fl => out = {tcp_tx_reset(s)})
    OBVIOUS
  <2> HIDE DEF out
  <2>3. ASSUME NEW v \in Main, v # s.from, Asleep(tcb[v]) PROVE FALSE
    <3>1. v = "b" /\ tcb[v].state \in Opening
      BY <2>1, <2>3, RxWho, FindSleeper
    <3> QED BY <2>1, <3>1 DEF Opening
  <2>4. "S" \in s.fl => "R" \notin s.fl
    BY DEF HandInv, Hand, Opens
  <2> QED BY <2>1, <2>2, <2>3, <2>4, HandRefused
<1> QED BY <1>1, <1>2

\* A SYN that meets a socket in SYN_SENT is answered.
LEMMA SentAnswers ==
    ASSUME TypeOK, SleepInv, HandInv, NEW s \in net, "S" \in s.fl, Asleep(tcb[s.from]), NEW h, h # s.from,
           NEW i \in ISS, NEW o, o.from = h, o.ack = Add(s.seq, 1), o.data = <<>>,
           (o.seq = i /\ o.fl = {"S", "A"}) \/ (o.seq = Add(i, 1) /\ o.fl = {"A"} /\ s.fl = {"S", "A"})
    PROVE  Answered(tcb, s.from, {o})
<1> DEFINE v == s.from
           q == tcb[v]
<1>0. v \in Main /\ v \in Tcb
  BY SegFields DEF TypeOK, Tcb
<1>1. Opens(tcb, s) /\ Young(v, q) /\ q.rport /\ q.state \in Opening /\ Quiet(tcb, net, v)
  BY <1>0 DEF HandInv, Hand, SleepInv, Sleeper, Asleep, Opening
<1>2. s.seq \in ISS /\ s.seq = q.iss /\ q.nxt = Add(q.iss, 1)
  BY <1>1 DEF Opens, Young
<1>3. Handshake(o)
  BY <1>2 DEF Handshake
<1>4. s.fl = {"S", "A"} => q.state = "SYN_RCVD"
  <2>1. s.fl = {"S", "A"} => ~Early(q)
    BY <1>1 DEF Quiet
  <2> QED BY <1>1, <2>1 DEF Early, Opening
<1>5. Wakes(q, o)
  BY <1>2, <1>4 DEF Wakes
<1> QED BY <1>3, <1>5 DEF Answered

\* A segment at a socket in SYN_SENT.
LEMMA HandSent ==
    ASSUME TypeOK, SleepInv, HandInv, NEW s \in net, NEW t \in Tcb, Rx(s, t), NEW r, r = tcb[t],
           r.state = "SYN_SENT", NEW y \in Reply, y = tcp_rx_sent(Host(t), r, s),
           tcb' = [tcb EXCEPT ![t] = y.r], Carry(s, y.out), halted' = halted
    PROVE  HandInv'
<1> DEFINE p == tcb[s.from]
<1>0. /\ tcb \in [Tcb -> TcbType] /\ r \in TcbType /\ s \in SegType /\ s.from \in Main /\ Host(t) # s.from
      /\ Host(t) \in Main /\ Other(Host(t)) = s.from /\ Other(s.from) = Host(t) /\ y.r \in TcbType
      /\ y.out \in SUBSET SegType
      /\ \A v \in Main : v # s.from /\ Asleep(tcb[v]) => v = t
  BY RxWho, HostType, OtherType DEF TypeOK, Reply
<1>1. /\ Young(t, r) /\ Sleeper(t, r) /\ Opens(tcb, s) /\ Quiet(tcb, net, s.from)
      /\ \A u \in Tcb : Sleeper(u, tcb[u])
  BY <1>0 DEF HandInv, Hand, SleepInv
<1>2. /\ t \in Main /\ t \notin Kid /\ Host(t) = t /\ r.rport /\ r.iss \in ISS /\ r.una = r.iss /\ r.nxt = Add(r.iss, 1)
      /\ r.listed /\ r.wait = "dead" /\ ~r.dly /\ ~r.open
  <2>1. t \in Main /\ t \notin Kid
    BY <1>1 DEF Young, Tcb
  <2>2. r.rport
    BY <1>1 DEF Sleeper
  <2> QED BY <1>1, <2>1, <2>2 DEF Young, Opening, Host, Main
<1>3. Ignored(r, s, y) \/ Failed(r, s, y) \/ Opened(Host(t), r, s, y) \/ Crossed(Host(t), r, s, y)
  BY <1>0, <1>2, SentComes
<1>4. CASE Ignored(r, s, y)
  <2>1. tcb' = tcb
    BY <1>0, <1>4 DEF Ignored
  <2>2. "S" \in s.fl => "R" \notin s.fl
    BY <1>1 DEF Opens
  <2>3. \A v \in Main : v # s.from /\ Asleep(tcb[v]) => ~Wakes(tcb[v], s)
    BY <1>0, <1>4 DEF Ignored
  <2> QED BY <1>4, <2>1, <2>2, <2>3, HandRefused DEF Ignored
<1>5. CASE Failed(r, s, y)
  <2>1. "S" \notin s.fl
    BY <1>1, <1>5 DEF Opens, Failed
  <2>2. Young(t, y.r) /\ ~Early(y.r)
    BY <1>2, <1>5 DEF Young, Early, Opening, Failed
  <2>3. Polite(tcb, t, y.r, y.out)
    BY <1>2, <1>5, <2>2 DEF Polite, Sync, Failed
  <2>4. ~Asleep(y.r) /\ y.r.state \in Before
    BY <1>5 DEF Asleep, Unblk, Before, Failed
  <2> QED BY <1>0, <2>1, <2>3, <2>4, HandRx
<1>6. CASE Opened(Host(t), r, s, y)
  <2> DEFINE o == Seg(Host(t), r.nxt, Add(s.seq, 1), {"A"}, <<>>)
  <2>1. /\ o.from = Host(t) /\ o.seq = r.nxt /\ o.ack = Add(s.seq, 1) /\ o.fl = {"A"} /\ o.data = <<>> /\ y.out = {o}
    BY <1>6 DEF Seg, Opened
  <2> HIDE DEF o
  <2>2. ~Early(tcb[s.from])
    BY <1>1, <1>6 DEF Quiet, Opened
  <2>3. Young(t, y.r) /\ ~Early(y.r)
    BY <1>2, <1>6 DEF Young, Early, Opening, Opened
  <2>4. Opens(tcb, o)
    BY <2>1 DEF Opens
  <2>5. Polite(tcb, t, y.r, y.out)
    BY <1>0, <1>2, <1>6, <2>1, <2>2, <2>3, <2>4 DEF Polite, Opened
  <2>6. ~Asleep(y.r)
    BY <1>6 DEF Asleep, Unblk, Opened
  <2>7. ASSUME Asleep(tcb[s.from]) PROVE Answered(tcb, s.from, y.out)
    <3>1. s.fl = {"S", "A"}
      BY <1>1, <1>6 DEF Opens, Opened
    <3>2. Answered(tcb, s.from, {o})
      BY <1>0, <1>2, <2>1, <2>7, <3>1, SentAnswers
    <3> QED BY <2>1, <3>2
  <2> QED BY <1>0, <1>6, <2>5, <2>6, <2>7, HandRx DEF Opened
<1>7. CASE Crossed(Host(t), r, s, y)
  <2> DEFINE o == Seg(Host(t), r.iss, Add(s.seq, 1), {"S", "A"}, <<>>)
  <2>1. /\ o.from = Host(t) /\ o.seq = r.iss /\ o.ack = Add(s.seq, 1) /\ o.fl = {"S", "A"} /\ o.data = <<>> /\ y.out = {o}
    BY <1>7 DEF Seg, Crossed
  <2> HIDE DEF o
  <2>2. p.rport /\ s.seq = p.iss
    BY <1>1, <1>7 DEF Opens, Crossed
  <2>3. Young(t, y.r) /\ ~Early(y.r)
    BY <1>1, <1>2, <1>7 DEF Young, Early, Opening, Crossed
  <2>4. Opens(tcb, o)
    BY <1>0, <1>2, <2>1, <2>2 DEF Opens
  <2>5. Polite(tcb, t, y.r, y.out)
    BY <1>0, <1>2, <1>7, <2>1, <2>2, <2>3, <2>4 DEF Polite, Sync, Crossed
  <2>6. Asleep(y.r) => Asleep(tcb[t]) /\ y.r.nxt = tcb[t].nxt /\ ~Wakes(tcb[t], s)
    BY <1>7 DEF Asleep, Wakes, Crossed
  <2>7. ASSUME Asleep(tcb[s.from]) PROVE Answered(tcb, s.from, y.out)
    <3>1. "S" \in s.fl
      BY <1>7 DEF Crossed
    <3>2. Answered(tcb, s.from, {o})
      BY <1>0, <1>2, <2>1, <2>7, <3>1, SentAnswers
    <3> QED BY <2>1, <3>2
  <2> QED BY <1>0, <1>7, <2>5, <2>6, <2>7, HandRx DEF Crossed
<1> QED BY <1>3, <1>4, <1>5, <1>6, <1>7

\* sock_rx_tcp keeps the invariant.
LEMMA HandSockRx ==
    ASSUME TypeOK, SleepInv, HandInv, NEW s \in net, sock_rx_tcp(s)
    PROVE  HandInv'
<1>1. PICK t \in Tcb :
        /\ Rx(s, t) /\ tcb[t].state \notin {"LISTEN", "SYN_RCVD"}
        /\ LET x == tcp_rx(Host(t), tcb[t], s) IN
           tcb' = [tcb EXCEPT ![t] = x.r] /\ Carry(s, x.out)
        /\ halted' = halted
  BY DEF sock_rx_tcp
<1> DEFINE r == tcb[t]
           y == tcp_rx(Host(t), r, s)
<1>2. /\ Host(t) # s.from /\ s \in SegType /\ r \in TcbType /\ Host(t) \in Main /\ Other(s.from) = Host(t)
      /\ s.from \in Main /\ r.rport /\ \A v \in Main : v # s.from /\ Asleep(tcb[v]) => v = t
  BY <1>1, RxWho, HostType DEF TypeOK
<1>3. y \in Reply /\ y.r \in TcbType /\ y.out \in SUBSET SegType
  BY <1>2, RxType DEF Reply
<1>4. tcb' = [tcb EXCEPT ![t] = y.r] /\ Carry(s, y.out) /\ r = tcb[t] /\ y = tcp_rx(Host(t), r, s)
  BY <1>1
<1>5. r.state \notin {"LISTEN", "SYN_RCVD"}
  BY <1>1
<1> HIDE DEF y, r
<1>6. CASE r.state = "SYN_SENT"
  <2>1. y = tcp_rx_sent(Host(t), r, s)
    BY <1>4, <1>6 DEF tcp_rx
  <2> QED BY <1>1, <1>3, <1>4, <1>6, <2>1, HandSent
<1>7. CASE r.state # "SYN_SENT" /\ r.state # "CLOSED"
  <2>1. r.state \in Sync /\ r.state \notin Opening /\ r.state \notin Before
    BY <1>2, <1>5, <1>7, TcbFields DEF State, Sync, Opening, Before
  <2>2. Calm(r, y.r)
    BY <1>2, <1>4, CalmRx
  <2>3. y.r.rport = r.rport /\ y.r.iss = r.iss /\ (y.r.cn = r.cn \/ y.r.cn = Unblk(r.cn))
    BY <2>2 DEF Calm
  <2>4. y.r.state \in Sync \cup {"CLOSED"}
    BY <1>3, <1>5, <1>7, <2>2, TcbFields DEF Calm, State, Sync
  <2>5. \A o \in y.out : o.from = Host(t) /\ "S" \notin o.fl
    BY <1>2, <1>4, <2>1, RxNoSyn DEF NoSyn
  <2>6. Polite(tcb, t, y.r, y.out) /\ Steady(tcb[t], y.r)
    BY <1>3, <1>4, <1>7, <2>1, <2>3, <2>4, <2>5, SettledFine
  <2>7. ~Asleep(y.r)
    <3>1. r.cn # "wait"
      BY <1>4, <2>1, Settled
    <3> QED BY <2>3, <3>1 DEF Asleep, Unblk
  <2> QED BY <1>1, <1>2, <1>3, <1>4, <2>1, <2>6, <2>7, HandRx
<1>8. CASE r.state = "CLOSED"
  <2>1. y.r = r /\ y.out = {tcp_tx_reset(s)}
    BY <1>4, <1>8 DEF tcp_rx
  <2>2. tcb' = tcb
    BY <1>4, <2>1 DEF TypeOK
  <2>3. ~Asleep(tcb[t])
    <3>1. r.cn # "wait"
      BY <1>2, <1>4, <1>8, Settled
    <3> QED BY <1>4, <3>1 DEF Asleep
  <2>4. \A v \in Main : v # s.from /\ Asleep(tcb[v]) => ~Wakes(tcb[v], s)
    BY <1>2, <2>3
  <2>5. y.out \in {{}, {tcp_tx_reset(s)}}
    BY <2>1
  <2> QED BY <1>1, <1>4, <2>1, <2>2, <2>4, <2>5, HandRefused
<1> QED BY <1>6, <1>7, <1>8

\* What is known of a socket in SYN_RCVD that receives a segment.
LEMMA RcvdKnown ==
    ASSUME TypeOK, SleepInv, HandInv, NEW s \in net, NEW t, Rx(s, t), NEW r, r = tcb[t], r.state = "SYN_RCVD"
    PROVE  /\ t \in Tcb /\ r \in TcbType /\ Young(t, r) /\ Sleeper(t, r) /\ r.rport /\ r.iss \in ISS
           /\ r.una = r.iss /\ r.nxt = Add(r.iss, 1) /\ ~r.dly /\ ~r.open /\ Host(t) # s.from
           /\ s \in SegType /\ s.from \in Main /\ Other(Host(t)) = s.from
           /\ (t \in Kid => tcb["b"].state = "LISTEN" /\ r.cn = "idle") /\ r.state \notin Before /\ ~Early(r)
           /\ (Early(tcb[s.from]) => tcb[s.from].rport /\ \A x \in net : x.from = s.from /\ "A" \in x.fl => "R" \in x.fl)
           /\ \A v \in Main : v # s.from /\ Asleep(tcb[v]) => v = t
<1>1. /\ t \in Tcb /\ Host(t) # s.from /\ s \in SegType /\ s.from \in Main /\ Other(s.from) = Host(t)
      /\ \A v \in Main : v # s.from /\ Asleep(tcb[v]) => v = t
  BY RxWho
<1>2. r \in TcbType /\ Young(t, r) /\ Sleeper(t, r) /\ Quiet(tcb, net, s.from) /\ Other(Host(t)) = s.from
  BY <1>1, OtherType DEF TypeOK, HandInv, Hand, SleepInv
<1>3. r.rport /\ r.state \notin Before /\ ~Early(r)
  BY <1>2 DEF Sleeper, Before, Early
<1>4. r.iss \in ISS /\ r.una = r.iss /\ r.nxt = Add(r.iss, 1) /\ ~r.dly /\ ~r.open
  BY <1>2, <1>3 DEF Young, Opening
<1>5. t \in Kid => tcb["b"].state = "LISTEN" /\ r.cn = "idle"
  BY <1>2, <1>3 DEF HandInv, Hand, Sleeper
<1>6. Early(tcb[s.from]) => tcb[s.from].rport /\ \A x \in net : x.from = s.from /\ "A" \in x.fl => "R" \in x.fl
  BY <1>1, <1>2 DEF Quiet
<1> QED BY <1>1, <1>2, <1>3, <1>4, <1>5, <1>6

\* A handshake that fails in SYN_RCVD keeps the invariant.
LEMMA HandRcvdFails ==
    ASSUME TypeOK, SleepInv, HandInv, NEW s \in net, tcp_rx_rcvd_fails(s)
    PROVE  HandInv'
<1>1. PICK t \in Tcb :
        /\ Rx(s, t) /\ tcb[t].state = "SYN_RCVD" /\ Carry(s, {}) /\ halted' = halted
        /\ tcb' = [tcb EXCEPT ![t] = IF t \in Kid THEN tcp_release(tcb[t]) ELSE tcp_exit_with(tcb[t])]
  BY DEF tcp_rx_rcvd_fails
<1> DEFINE q == tcb[t]
           r == IF t \in Kid THEN tcp_release(q) ELSE tcp_exit_with(q)
<1>2. /\ q \in TcbType /\ Young(t, q) /\ Sleeper(t, q) /\ q.rport /\ q.iss \in ISS
      /\ q.una = q.iss /\ q.nxt = Add(q.iss, 1) /\ ~q.dly /\ ~q.open /\ Host(t) # s.from
      /\ s \in SegType /\ s.from \in Main /\ Other(Host(t)) = s.from
      /\ (t \in Kid => tcb["b"].state = "LISTEN" /\ q.cn = "idle") /\ q.state \notin Before /\ ~Early(q)
      /\ (Early(tcb[s.from]) => tcb[s.from].rport)
      /\ \A v \in Main : v # s.from /\ Asleep(tcb[v]) => v = t
  BY <1>1, RcvdKnown
<1>3. q = tcb[t] /\ q.state = "SYN_RCVD" /\ tcb' = [tcb EXCEPT ![t] = r] /\ Kid \cap Main = {}
  BY <1>1, TcpAssumption
<1>4. /\ r \in TcbType /\ r.state = q.state /\ r.rport = q.rport /\ r.iss = q.iss /\ r.una = q.una /\ r.nxt = q.nxt
      /\ r.dly = q.dly /\ r.open = q.open
      /\ t \in Kid => r.cn = q.cn
      /\ t \notin Kid => r.err /\ r.cn = Unblk(q.cn) /\ r.listed = q.listed /\ r.wait = q.wait
  <2>1. r \in TcbType
    BY <1>2, ReleaseType, ExitType
  <2> QED BY <1>2, <2>1 DEF tcp_release, tcp_exit_with, TcbType
<1> HIDE DEF q, r
<1>5. Young(t, r)
  BY <1>2, <1>3, <1>4 DEF Young, Opening
<1>6. Polite(tcb, t, r, {})
  BY <1>2, <1>3, <1>4, <1>5 DEF Polite, Early, Sync
<1>7. ~Asleep(r)
  BY <1>2, <1>4 DEF Asleep, Unblk
<1>8. {} \in SUBSET SegType
  OBVIOUS
<1> QED BY <1>1, <1>2, <1>3, <1>4, <1>6, <1>7, <1>8, HandRx

\* A segment in SYN_RCVD keeps the invariant.
LEMMA HandRcvd ==
    ASSUME TypeOK, TypeOK', SleepInv, HandInv, NEW s \in net, tcp_rx_rcvd(s)
    PROVE  HandInv'
<1>1. PICK t \in Tcb :
        /\ Rx(s, t) /\ tcb[t].state = "SYN_RCVD" /\ "R" \notin s.fl /\ ("S" \notin s.fl \/ t \notin Kid) /\ halted' = halted
        /\ IF "A" \in s.fl /\ SeqLT(tcb[t].una, s.ack) /\ SeqLE(s.ack, tcb[t].nxt)
           THEN /\ tcb' = IF t \in Kid
                          THEN [tcb EXCEPT ![t] = [tcb[t] EXCEPT !.state = "ESTABLISHED"], !["b"] = WakeSyn(@)]
                          ELSE [tcb EXCEPT ![t] = WakeSyn([tcb[t] EXCEPT !.state = "ESTABLISHED"])]
                /\ Carry(s, {})
           ELSE /\ Carry(s, IF "A" \in s.fl THEN {tcp_tx_reset(s)} ELSE {})
                /\ tcb' = tcb
  BY DEF tcp_rx_rcvd
<1> DEFINE q == tcb[t]
<1>2. /\ q \in TcbType /\ Young(t, q) /\ Sleeper(t, q) /\ q.rport /\ q.iss \in ISS
      /\ q.una = q.iss /\ q.nxt = Add(q.iss, 1) /\ ~q.dly /\ ~q.open /\ Host(t) # s.from
      /\ s \in SegType /\ s.from \in Main /\ Other(Host(t)) = s.from
      /\ (t \in Kid => tcb["b"].state = "LISTEN" /\ q.cn = "idle") /\ q.state \notin Before /\ ~Early(q)
      /\ (Early(tcb[s.from]) => \A x \in net : x.from = s.from /\ "A" \in x.fl => "R" \in x.fl)
      /\ \A v \in Main : v # s.from /\ Asleep(tcb[v]) => v = t
  BY <1>1, RcvdKnown
<1>3. /\ q = tcb[t] /\ q.state = "SYN_RCVD" /\ Kid \cap Main = {} /\ tcb \in [Tcb -> TcbType] /\ tcb' \in [Tcb -> TcbType]
      /\ "b" \in Tcb /\ "b" \in Main /\ tcb["b"] \in TcbType /\ (t \in Kid => t # "b")
  BY <1>1, TcpAssumption DEF TypeOK, Tcb, Main
<1> HIDE DEF q
<1>4. CASE "A" \in s.fl /\ SeqLT(q.una, s.ack) /\ SeqLE(s.ack, q.nxt)
  <2>0. Carry(s, {}) /\ ~Early(tcb[s.from])
    BY <1>1, <1>2, <1>3, <1>4
  <2>1. ASSUME NEW r \in TcbType, r.state = "ESTABLISHED", r.rport, r.iss = q.iss
        PROVE  Polite(tcb, t, r, {})
    <3>1. Young(t, r) /\ ~Early(r)
      BY <1>2, <2>1 DEF Young, Early, Opening
    <3> QED BY <1>2, <1>3, <2>0, <2>1, <3>1 DEF Polite
  <2>2. CASE t \notin Kid
    <3> DEFINE r == WakeSyn([q EXCEPT !.state = "ESTABLISHED"])
    <3>1. tcb' = [tcb EXCEPT ![t] = r]
      BY <1>1, <1>3, <1>4, <2>2
    <3>2. r \in TcbType /\ r.state = "ESTABLISHED" /\ r.rport = q.rport /\ r.iss = q.iss /\ r.cn = Unblk(q.cn)
      <4>1. [q EXCEPT !.state = "ESTABLISHED"] \in TcbType
        BY <1>2, SetState DEF State
      <4>2. r \in TcbType
        BY <4>1, WakeType
      <4> QED BY <1>2, <4>2 DEF WakeSyn, TcbType
    <3> HIDE DEF r
    <3>3. Polite(tcb, t, r, {}) /\ ~Asleep(r) /\ {} \in SUBSET SegType
      BY <1>2, <2>1, <3>2 DEF Asleep, Unblk
    <3> QED BY <1>1, <1>2, <1>3, <2>0, <3>1, <3>2, <3>3, HandRx
  <2>3. CASE t \in Kid
    <3> DEFINE r == [q EXCEPT !.state = "ESTABLISHED"]
               z == WakeSyn(tcb["b"])
    <3>1. \A u \in Tcb : tcb'[u] = IF u = t THEN r ELSE IF u = "b" THEN z ELSE tcb[u]
      <4>1. tcb' = [tcb EXCEPT ![t] = r, !["b"] = WakeSyn(@)]
        BY <1>1, <1>3, <1>4, <2>3
      <4> HIDE DEF r
      <4> QED BY <1>3, <2>3, <4>1
    <3>2. r \in TcbType /\ r.state = "ESTABLISHED" /\ r.rport = q.rport /\ r.iss = q.iss /\ r.cn = q.cn
      <4>1. r \in TcbType
        BY <1>2, SetState DEF State
      <4> QED BY <1>2, <4>1 DEF TcbType
    <3>3. z \in TcbType /\ z = [tcb["b"] EXCEPT !.cn = Unblk(tcb["b"].cn)]
      BY <1>3, WakeType DEF WakeSyn
    <3> HIDE DEF r, z
    <3>4. Polite(tcb, t, r, {}) /\ Steady(q, r)
      BY <1>2, <2>1, <2>3, <3>2 DEF Steady, Asleep
    <3>5. Hand(tcb', net) /\ \A v \in Main : Pend(tcb, net, v) => Pend(tcb', net, v)
      BY <1>2, <1>3, <2>3, <3>1, <3>2, <3>3, <3>4, HandTwo
    <3>6. net' \subseteq net /\ net \ {s} \subseteq net'
      BY <2>0, CarryKeeps
    <3>7. ASSUME NEW v \in Main, halted' = {} PROVE Pend(tcb', net', v)
      <4>1. Pend(tcb', net, v)
        BY <1>1, <3>5, <3>7 DEF HandInv
      <4>2. \A x \in net : "S" \in x.fl => x \in net'
        BY <1>1, <2>3, <3>6
      <4>3. v # s.from => ~Asleep(tcb'[v])
        <5>1. ~tcb["b"].rport
          BY <1>2, <1>3, <2>3 DEF SleepInv, Sleeper
        <5>2. v # s.from => v = "b"
          BY <1>2, <1>3, <2>3 DEF Host, Main, Other
        <5>3. tcb'["b"] = z /\ z.rport = tcb["b"].rport
          BY <1>3, <2>3, <3>1, <3>3 DEF TcbType
        <5> QED BY <5>1, <5>2, <5>3 DEF Asleep
      <4>4. Asleep(tcb'[v]) => \A x \in net : x.from # v => x \in net'
        BY <3>6, <4>3
      <4> QED BY <4>1, <4>2, <4>4, PendStay
    <3>8. Hand(tcb', net')
      BY <3>5, <3>6, HandLess
    <3> QED BY <3>7, <3>8 DEF HandInv
  <2> QED BY <2>2, <2>3
<1>5. CASE ~("A" \in s.fl /\ SeqLT(q.una, s.ack) /\ SeqLE(s.ack, q.nxt))
  <2> DEFINE out == IF "A" \in s.fl THEN {tcp_tx_reset(s)} ELSE {}
  <2>1. tcb' = tcb /\ Carry(s, out) /\ out \in {{}, {tcp_tx_reset(s)}}
    BY <1>1, <1>3, <1>5
  <2> HIDE DEF out
  <2>2. "A" \in s.fl => s.ack # q.nxt
    <3>1. SeqLT(q.una, q.nxt)
      BY <1>2, NextIsLater, TcbFields
    <3> QED BY <1>5, <3>1 DEF SeqLE
  <2>3. ~Wakes(q, s)
    BY <1>1, <2>2 DEF Wakes
  <2>4. \A v \in Main : v # s.from /\ Asleep(tcb[v]) => ~Wakes(tcb[v], s)
    BY <1>2, <1>3, <2>3
  <2>5. ~Unanswered(tcb, s.from)
    BY <1>2, <1>3 DEF Unanswered
  <2> QED BY <1>1, <2>1, <2>4, <2>5, HandRefused
<1> QED BY <1>4, <1>5

\* A SYN at a listening socket keeps the invariant: the child answers it.
LEMMA HandListen ==
    ASSUME TypeOK, SleepInv, HandInv, NEW s \in net, tcp_rx_listen(s)
    PROVE  HandInv'
<1>1. PICK k \in Kid, iss \in ISS, w \in {"dead", "stuck"} :
        /\ Rx(s, "b") /\ tcb["b"].state = "LISTEN" /\ s.fl = {"S"} /\ halted' = halted
        /\ tcb[k].state = "CLOSED" /\ ~tcb[k].rport
        /\ LET r == [tcp_tx_agree(tcp_socket, iss) EXCEPT !.rport = TRUE, !.rcv = Add(s.seq, 1), !.wait = w]
               full == backcnt + 1 # backlog IN
           /\ tcb' = [tcb EXCEPT ![k] = r]
           /\ Carry(s, {tcp_tx_ack("b", r)} \cup IF full THEN {tcp_tx_reset(s)} ELSE {})
  BY DEF tcp_rx_listen
<1> DEFINE r == [tcp_tx_agree(tcp_socket, iss) EXCEPT !.rport = TRUE, !.rcv = Add(s.seq, 1), !.wait = w]
           o == tcp_tx_ack("b", r)
           full == backcnt + 1 # backlog
           out == {o} \cup IF full THEN {tcp_tx_reset(s)} ELSE {}
<1>2. tcb' = [tcb EXCEPT ![k] = r] /\ Carry(s, out)
  BY <1>1
<1>3. /\ k \in Tcb /\ k \notin Main /\ Host(k) = "b" /\ "b" \in Main /\ "b" \in Tcb /\ s \in SegType /\ s.from = "a"
      /\ Other("b") = "a" /\ "a" \in Main /\ "a" \in Tcb /\ Other("a") = "b" /\ Add(s.seq, 1) \in SeqNr
      /\ \A v \in Main : v # s.from /\ Asleep(tcb[v]) => v = "b"
  <2>1. k \in Tcb /\ k \notin Main /\ "b" \in Main /\ "b" \in Tcb /\ "a" \in Main /\ "a" \in Tcb
    BY TcpAssumption DEF Tcb, Main
  <2>2. s \in SegType /\ s.from \in Main /\ Host("b") # s.from /\ \A v \in Main : v # s.from /\ Asleep(tcb[v]) => v = "b"
    BY <1>1, RxWho
  <2>3. s.from = "a" /\ Host(k) = "b" /\ Other("b") = "a" /\ Other("a") = "b"
    BY <2>1, <2>2 DEF Host, Main, Other
  <2> QED BY <2>1, <2>2, <2>3, SegFields, SeqNrNext
<1>4. /\ r \in TcbType /\ r.state = "SYN_RCVD" /\ r.rport /\ r.iss = iss /\ r.una = iss /\ r.nxt = Add(iss, 1)
      /\ r.rcv = Add(s.seq, 1) /\ ~r.dly /\ ~r.open /\ r.cn = "idle"
  <2>1. tcp_tx_agree(tcp_socket, iss) \in TcbType
    BY SocketType, SetupType
  <2>2. r \in TcbType
    BY <1>3, <2>1 DEF TcbType
  <2>3. /\ r.state = "SYN_RCVD" /\ r.rport /\ r.iss = iss /\ r.una = iss /\ r.nxt = Add(iss, 1)
        /\ r.rcv = Add(s.seq, 1) /\ ~r.dly /\ ~r.open /\ r.cn = "idle"
    BY DEF tcp_tx_agree, tcp_socket
  <2> QED BY <2>2, <2>3
<1> HIDE DEF r
<1>5. o = Seg("b", iss, Add(s.seq, 1), {"S", "A"}, <<>>) /\ o \in SegType
  BY <1>3, <1>4, TxAckType DEF tcp_tx_ack
<1>6. o.from = "b" /\ o.seq = iss /\ o.ack = Add(s.seq, 1) /\ o.fl = {"S", "A"} /\ o.data = <<>>
  BY <1>5 DEF Seg
<1>7. out \subseteq {o, tcp_tx_reset(s)} /\ o \in out /\ out \in SUBSET SegType
  <2>1. tcp_tx_reset(s) \in SegType
    BY <1>3, TxResetType
  <2> QED BY <1>5, <2>1
<1> HIDE DEF o, out
<1>8. tcb["a"].rport /\ s.seq = tcb["a"].iss /\ ~tcb["b"].rport
  <2>1. Opens(tcb, s) /\ Sleeper("b", tcb["b"])
    BY <1>3 DEF HandInv, Hand, SleepInv
  <2> QED BY <1>1, <1>3, <2>1 DEF Opens, Sleeper
<1>9. Young(k, r)
  BY <1>3, <1>4 DEF Young, Opening
<1>10. ASSUME NEW x \in out
       PROVE  /\ x.from = "b" /\ Opens(tcb, x)
              /\ "A" \in x.fl /\ "R" \notin x.fl => r.rport /\ r.state # "SYN_SENT"
  <2>1. CASE x = o
    BY <1>3, <1>4, <1>6, <1>8, <2>1 DEF Opens
  <2>2. CASE x = tcp_tx_reset(s)
    <3>1. x.from = "b" /\ "S" \notin x.fl /\ "R" \in x.fl
      BY <1>3, <2>2, ResetNoSyn DEF NoSyn
    <3> QED BY <3>1 DEF Opens
  <2> QED BY <1>7, <2>1, <2>2
<1>11. Polite(tcb, k, r, out)
  BY <1>1, <1>3, <1>4, <1>8, <1>9, <1>10 DEF Polite, Sync
<1>12. ~Asleep(r)
  BY <1>4 DEF Asleep
<1>13. ASSUME NEW v \in Main, v # s.from, Asleep(tcb[v]) PROVE v = k
  <2>1. v = "b"
    BY <1>3, <1>13
  <2> QED BY <1>8, <1>13, <2>1 DEF Asleep
<1>14. ASSUME Asleep(tcb[s.from]) PROVE Answered(tcb, s.from, out)
  <2>1. "S" \in s.fl /\ "b" # s.from
    BY <1>1, <1>3
  <2>2. Answered(tcb, s.from, {o})
    BY <1>6, <1>14, <2>1, SentAnswers
  <2> QED BY <1>7, <2>2 DEF Answered
<1>15. Host(k) # s.from /\ "S" \in s.fl
  BY <1>1, <1>3
<1> QED BY <1>1, <1>2, <1>3, <1>4, <1>7, <1>11, <1>12, <1>13, <1>14, <1>15, HandRx

\* Every step keeps the invariant.
LEMMA HandNext == TypeOK /\ SleepInv /\ HandInv /\ [Next]_vars => HandInv'
<1> SUFFICES ASSUME TypeOK, SleepInv, HandInv, [Next]_vars PROVE HandInv'
  OBVIOUS
<1>0. TypeOK'
  BY NextType
<1>1. CASE UNCHANGED vars
  <2>1. tcb' = tcb /\ net' = net /\ halted' = halted
    BY <1>1 DEF vars
  <2> QED BY <2>1 DEF HandInv
<1>2. CASE Deliver
  BY <1>0, <1>2, HandSockRx, HandRxNobody, HandRcvd, HandRcvdFails, HandListen DEF Deliver
<1>3. CASE tcp_listen \/ tcp_accept
  BY <1>0, <1>3, HandTcpListen, HandAccept
<1>4. ASSUME NEW t \in Tcb, Timer(t) PROVE HandInv'
  BY <1>4, HandDly, HandTimewait DEF Timer
<1>5. ASSUME NEW t \in Tcb, Call(t) \/ RecvResume(t) \/ ConnectReturn(t) PROVE HandInv'
  BY <1>0, <1>5, HandConnect, HandSendmsg, HandRecv, HandConnectReturn DEF Call
<1>6. ASSUME NEW t \in Tcb, Resume(t) PROVE HandInv'
  BY <1>3, <1>5, <1>6 DEF Resume
<1>7. CASE Next
  BY <1>2, <1>3, <1>4, <1>5, <1>6, <1>7 DEF Next
<1> QED BY <1>1, <1>7

\* While a process sleeps in tcp_connect a segment that can end its sleep, or lead to one,
\* is under way: every segment the other host takes is answered, in each state it may be in.
THEOREM ConnectsArePending == Spec => []ConnectPending
<1>1. Init => TypeOK /\ SleepInv /\ HandInv
  BY InitType, SleepInit, HandInit
<1>2. TypeOK /\ SleepInv /\ HandInv /\ [Next]_vars => (TypeOK /\ SleepInv /\ HandInv)'
  BY NextType, SleepNext, HandNext
<1>3. TypeOK /\ HandInv => ConnectPending
  BY HandInvIsEnough
<1> QED BY <1>1, <1>2, <1>3, PTL DEF Spec

================================================================================
