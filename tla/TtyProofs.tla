------------------------------ MODULE TtyProofs ------------------------------
(***************************************************************************)
(* Proofs about tty.c for any number of processes, any sizes of buffers    *)
(* and requests and any number of characters typed.                        *)
(***************************************************************************)
EXTENDS Tty, SequenceTheorems, TLAPS

Char == [num : Nat \ {0}, end : BOOLEAN]
Buf == {b \in Seq(Char) : Len(b) <= Cap}

\* b is in the order of typing up to the newlines L: what was typed up to hi and was
\* not given out yet, and behind nothing that is newer.
Ordered(b, G, L, hi) ==
    /\ \A i \in 1 .. Len(b) :
           /\ b[i].num <= hi /\ b[i].num \notin G
           /\ b[i].num \notin L => \A g \in G : g < b[i].num
    /\ \A i, j \in 1 .. Len(b) : i < j =>
           b[i].num # b[j].num /\ (b[j].num \notin L => b[i].num < b[j].num)

\* Character t is not in b and was not given out.
Out(b, G, t) == t \notin G /\ \A i \in 1 .. Len(b) : b[i].num # t

\* It may be put into b now: it is the newest or one of L.
Fits(b, G, L, t) ==
    /\ Out(b, G, t)
    /\ t \notin L => (\A g \in G : g < t) /\ \A i \in 1 .. Len(b) : b[i].num < t

NoEnd(b) == \A i \in 1 .. Len(b) : ~b[i].end

\* c begins with the characters of b, which end lines in c where they do in b.
Extends(b, c) ==
    /\ Len(c) >= Len(b)
    /\ \A i \in 1 .. Len(b) : c[i].num = b[i].num /\ (b[i].end => c[i].end)

\* Every delivered character of b is in c.
Keeps(b, c) ==
    \A i \in 1 .. Len(b) : (\E m \in i .. Len(b) : b[m].end) =>
        \E j \in 1 .. Len(c) : c[j].num = b[i].num

-----------------------------------------------------------------------------
(* The buffer                                                                *)

\* The facts about sequences of characters that the lemmas use.
LEMMA BufFacts ==
    ASSUME NEW b \in Buf
    PROVE  /\ b \in Seq(Char) /\ Len(b) \in Nat /\ Len(b) <= Cap
           /\ \A i \in 1 .. Len(b) : b[i] \in Char /\ b[i].num \in Nat \ {0} /\ b[i].end \in BOOLEAN
           /\ (b = <<>> <=> Len(b) = 0)
<1>1. b \in Seq(Char) /\ Len(b) <= Cap
  BY DEF Buf
<1>2. Len(b) \in Nat /\ \A i \in 1 .. Len(b) : b[i] \in Char
  BY <1>1, LenProperties, ElementOfSeq
<1>3. b = <<>> <=> Len(b) = 0
  BY <1>1, EmptySeq
<1>4. \A x \in Char : x.num \in Nat \ {0} /\ x.end \in BOOLEAN
  BY DEF Char
<1> QED
  BY <1>1, <1>2, <1>3, <1>4

\* iputc
LEMMA IputcFacts ==
    ASSUME NEW b \in Buf, NEW t \in Nat \ {0}
    PROVE  /\ Iputc(b, t) \in Buf
           /\ Extends(b, Iputc(b, t))
           /\ NoEnd(b) => NoEnd(Iputc(b, t))
           /\ \A G \in SUBSET Nat, L \in SUBSET Nat, hi \in Nat :
                Ordered(b, G, L, hi) /\ Fits(b, G, L, t) /\ t <= hi => Ordered(Iputc(b, t), G, L, hi)
           /\ \A G \in SUBSET Nat, m \in Nat : Out(b, G, m) /\ m # t => Out(Iputc(b, t), G, m)
<1> DEFINE e == [num |-> t, end |-> FALSE]
           c == Append(b, e)
<1>0. b \in Seq(Char) /\ Len(b) \in Nat /\ e \in Char /\ e.num = t /\ e.end = FALSE /\ Cap \in Nat
  BY BufAssumption, BufFacts DEF Char, Cap
<1> HIDE DEF e
<1>1. /\ c \in Seq(Char) /\ Len(c) = Len(b) + 1
      /\ \A i \in 1 .. Len(b) : c[i] = b[i]
      /\ c[Len(b) + 1] = e
  BY <1>0, AppendProperties
<1>2. \A i \in 1 .. Len(c) : i \in 1 .. Len(b) \/ i = Len(b) + 1
  BY <1>0, <1>1
<1>3. Iputc(b, t) = IF Len(b) < Cap THEN c ELSE b
  BY DEF Iputc, e
<1> HIDE DEF c
<1>4. Iputc(b, t) \in Buf
  BY <1>0, <1>1, <1>3 DEF Buf
<1>5. Extends(b, Iputc(b, t))
  BY <1>0, <1>1, <1>3 DEF Extends
<1>6. NoEnd(b) => NoEnd(Iputc(b, t))
  BY <1>0, <1>1, <1>2, <1>3 DEF NoEnd
<1>7. ASSUME NEW G \in SUBSET Nat, NEW L \in SUBSET Nat, NEW hi \in Nat,
             Ordered(b, G, L, hi), Fits(b, G, L, t), t <= hi
      PROVE  Ordered(Iputc(b, t), G, L, hi)
  <2>1. \A i \in 1 .. Len(c) : /\ c[i].num <= hi /\ c[i].num \notin G
                               /\ c[i].num \notin L => \A g \in G : g < c[i].num
    BY <1>0, <1>1, <1>2, <1>7 DEF Ordered, Fits, Out
  <2>2. ASSUME NEW i \in 1 .. Len(c), NEW j \in 1 .. Len(c), i < j
        PROVE  c[i].num # c[j].num /\ (c[j].num \notin L => c[i].num < c[j].num)
    <3>1. i \in 1 .. Len(b) /\ c[i] = b[i]
      BY <1>0, <1>1, <2>2
    <3>2. CASE j \in 1 .. Len(b)
      BY <1>1, <1>7, <2>2, <3>1, <3>2 DEF Ordered
    <3>3. CASE j = Len(b) + 1
      BY <1>0, <1>1, <1>7, <3>1, <3>3 DEF Fits, Out
    <3> QED
      BY <1>2, <3>2, <3>3
  <2>3. Ordered(c, G, L, hi)
    BY <2>1, <2>2 DEF Ordered
  <2> QED
    BY <1>3, <1>7, <2>3
<1>8. ASSUME NEW G \in SUBSET Nat, NEW m \in Nat, Out(b, G, m), m # t PROVE Out(Iputc(b, t), G, m)
  BY <1>0, <1>1, <1>2, <1>3, <1>8 DEF Out
<1> QED
  BY <1>4, <1>5, <1>6, <1>7, <1>8

\* tty_buf_mark
LEMMA MarkFacts ==
    ASSUME NEW b \in Buf
    PROVE  /\ Mark(b) \in Buf
           /\ Extends(b, Mark(b))
           /\ \A G \in SUBSET Nat, L \in SUBSET Nat, hi \in Nat :
                Ordered(b, G, L, hi) => Ordered(Mark(b), G, L, hi)
           /\ \A G \in SUBSET Nat, m \in Nat : Out(b, G, m) => Out(Mark(b), G, m)
<1>0. b \in Seq(Char) /\ Len(b) \in Nat
  BY BufFacts
<1>1. CASE b = <<>>
  BY <1>0, <1>1 DEF Mark, Extends
<1>2. CASE b # <<>>
  <2> DEFINE n == Len(b)
             e == [b[n] EXCEPT !.end = TRUE]
             c == [b EXCEPT ![n] = e]
  <2>1. n \in 1 .. Len(b) /\ b[n] \in Char
    BY <1>2, BufFacts
  <2>2. e \in Char /\ e.num = b[n].num /\ e.end = TRUE
    BY <2>1 DEF Char
  <2>3. Mark(b) = c
    BY <1>2 DEF Mark
  <2> HIDE DEF n, e
  <2>4. /\ c \in Seq(Char) /\ Len(c) = Len(b)
        /\ \A j \in 1 .. Len(b) : c[j] = IF j = n THEN e ELSE b[j]
    BY <1>0, <2>1, <2>2, ExceptSeq
  <2> HIDE DEF c
  <2>5. \A j \in 1 .. Len(b) : c[j].num = b[j].num /\ (b[j].end => c[j].end)
    BY <2>2, <2>4
  <2>6. c \in Buf
    BY <1>0, <2>4 DEF Buf
  <2> QED
    BY <1>0, <2>3, <2>4, <2>5, <2>6 DEF Extends, Ordered, Out
<1> QED
  BY <1>1, <1>2

\* A part of a buffer.
LEMMA PartFacts ==
    ASSUME NEW b \in Buf, NEW m \in 1 .. Len(b) + 1, NEW n \in 0 .. Len(b)
    PROVE  LET c == SubSeq(b, m, n)
           IN  /\ c \in Buf /\ Len(c) = (IF m <= n THEN n - m + 1 ELSE 0)
               /\ \A i \in 1 .. Len(c) : c[i] = b[m + i - 1] /\ m + i - 1 \in 1 .. Len(b)
               /\ NoEnd(b) => NoEnd(c)
<1> DEFINE c == SubSeq(b, m, n)
<1>0. b \in Seq(Char) /\ Len(b) \in Nat /\ Len(b) <= Cap /\ Cap \in Nat
  BY BufAssumption, BufFacts DEF Cap
<1>1. \A i \in m .. n : b[i] \in Char
  BY <1>0, BufFacts
<1>2. /\ c \in Seq(Char) /\ Len(c) = (IF m <= n THEN n - m + 1 ELSE 0)
      /\ \A i \in 1 .. n - m + 1 : c[i] = b[m + i - 1]
  <2>1. m \in Int /\ n \in Int
    BY <1>0
  <2> QED
    BY <1>1, <2>1, SubSeqProperties
<1> HIDE DEF c
<1>3. c \in Buf
  BY <1>0, <1>2 DEF Buf
<1>4. \A i \in 1 .. Len(c) : c[i] = b[m + i - 1] /\ m + i - 1 \in 1 .. Len(b)
  BY <1>0, <1>2
<1>5. NoEnd(b) => NoEnd(c)
  BY <1>4 DEF NoEnd
<1> QED
  BY <1>2, <1>3, <1>4, <1>5 DEF c

\* tty_buf_erase
LEMMA EraseFacts ==
    ASSUME NEW b \in Buf
    PROVE  /\ Erase(b) \in Buf
           /\ Keeps(b, Erase(b))
           /\ NoEnd(b) => NoEnd(Erase(b))
           /\ \A G \in SUBSET Nat, L \in SUBSET Nat, hi \in Nat :
                Ordered(b, G, L, hi) => Ordered(Erase(b), G, L, hi)
           /\ \A G \in SUBSET Nat, m \in Nat : Out(b, G, m) => Out(Erase(b), G, m)
<1>0. b \in Seq(Char) /\ Len(b) \in Nat
  BY BufFacts
<1>1. CASE b = <<>> \/ b[Len(b)].end
  <2>1. Erase(b) = b
    BY <1>1 DEF Erase
  <2> QED
    BY <2>1 DEF Keeps
<1>2. CASE b # <<>> /\ ~b[Len(b)].end
  <2> DEFINE n == Len(b) - 1
             c == SubSeq(b, 1, n)
  <2>1. Erase(b) = c
    BY <1>2 DEF Erase
  <2>2. n \in 0 .. Len(b) /\ 1 \in 1 .. Len(b) + 1 /\ n + 1 = Len(b) /\ n \in Nat
    BY <1>2, BufFacts
  <2> HIDE DEF n
  <2>3. /\ c \in Buf /\ Len(c) = n
        /\ \A i \in 1 .. Len(c) : c[i] = b[i]
        /\ NoEnd(b) => NoEnd(c)
    <3>1. /\ c \in Buf /\ Len(c) = (IF 1 <= n THEN n - 1 + 1 ELSE 0)
          /\ \A i \in 1 .. Len(c) : c[i] = b[1 + i - 1]
          /\ NoEnd(b) => NoEnd(c)
      BY <2>2, PartFacts
    <3> HIDE DEF c
    <3> QED
      BY <2>2, <3>1
  <2> HIDE DEF c
  <2>4. \A i \in 1 .. n : i \in 1 .. Len(b)
    BY <2>2
  <2>5. ASSUME NEW i \in 1 .. Len(b), NEW m \in i .. Len(b), b[m].end
        PROVE  \E j \in 1 .. Len(c) : c[j].num = b[i].num
    <3>1. m # Len(b)
      BY <1>2, <2>5
    <3>2. i \in 1 .. n
      BY <2>2, <2>5, <3>1
    <3> QED
      BY <2>3, <3>2
  <2>6. Keeps(b, c)
    BY <2>5 DEF Keeps
  <2>7. ASSUME NEW G \in SUBSET Nat, NEW L \in SUBSET Nat, NEW hi \in Nat, Ordered(b, G, L, hi)
        PROVE  Ordered(c, G, L, hi)
    BY <2>3, <2>4, <2>7 DEF Ordered
  <2>8. \A G \in SUBSET Nat, m \in Nat : Out(b, G, m) => Out(c, G, m)
    BY <2>3, <2>4 DEF Out
  <2> QED
    BY <2>1, <2>3, <2>6, <2>7, <2>8
<1> QED
  BY <1>1, <1>2

\* c is what k times tty_buf_getc leaves of b, and H what has been given out then.
Taken(b, k, G, c, H) ==
    /\ c = SubSeq(b, k + 1, Len(b))
    /\ H = G \cup {b[i].num : i \in 1 .. k}

\* Every character of b is handed over or still in c, which is in order.
Split(b, c, G, H, L, hi) ==
    /\ c \in Buf /\ (NoEnd(b) => NoEnd(c))
    /\ H \in SUBSET Nat /\ (G \subseteq 1 .. hi => H \subseteq 1 .. hi)
    /\ Ordered(c, H, L, hi)
    /\ \A i \in 1 .. Len(b) : b[i].num \in H \/ \E j \in 1 .. Len(c) : c[j].num = b[i].num
    /\ \A m \in Nat : Out(b, G, m) => Out(c, H, m)

\* Taking k characters: what remains is in order, also with respect to those.
LEMMA TakeFacts ==
    ASSUME NEW b \in Buf, NEW k \in 0 .. Len(b), NEW G \in SUBSET Nat, NEW L \in SUBSET Nat,
           NEW hi \in Nat, Ordered(b, G, L, hi), NEW c, NEW H, Taken(b, k, G, c, H)
    PROVE  Split(b, c, G, H, L, hi) /\ (k = Len(b) => c = <<>>)
<1>a. c = SubSeq(b, k + 1, Len(b)) /\ H = G \cup {b[i].num : i \in 1 .. k}
  BY DEF Taken
<1>0. /\ Len(b) \in Nat /\ k \in Nat /\ k + 1 \in 1 .. Len(b) + 1 /\ Len(b) \in 0 .. Len(b)
      /\ \A i \in 1 .. Len(b) : b[i].num \in Nat \ {0}
      /\ \A i \in 1 .. k : i \in 1 .. Len(b)
  BY BufFacts
<1>1. /\ c \in Buf /\ Len(c) = (IF k + 1 <= Len(b) THEN Len(b) - (k + 1) + 1 ELSE 0)
      /\ \A i \in 1 .. Len(c) : c[i] = b[k + 1 + i - 1] /\ k + 1 + i - 1 \in 1 .. Len(b)
      /\ NoEnd(b) => NoEnd(c)
  BY <1>a, <1>0, PartFacts
<1>2. /\ Len(c) = Len(b) - k
      /\ \A i \in 1 .. Len(c) : c[i] = b[k + i] /\ k + i \in 1 .. Len(b)
  <2>1. Len(c) = Len(b) - k
    BY <1>0, <1>1
  <2>2. ASSUME NEW i \in 1 .. Len(c) PROVE c[i] = b[k + i] /\ k + i \in 1 .. Len(b)
    <3>1. k + 1 + i - 1 = k + i
      BY <1>0
    <3> QED
      BY <1>1, <3>1, Zenon
  <2> QED
    BY <2>1, <2>2, Zenon
<1>3. H \in SUBSET Nat /\ (G \subseteq 1 .. hi => H \subseteq 1 .. hi)
  <2>1. \A i \in 1 .. k : b[i].num \in Nat /\ b[i].num \in 1 .. hi
    BY <1>0 DEF Ordered
  <2> QED
    BY <1>a, <2>1
<1>4. ASSUME NEW i \in 1 .. Len(c)
      PROVE  /\ c[i].num <= hi /\ c[i].num \notin H
             /\ c[i].num \notin L => \A g \in H : g < c[i].num
  <2>1. /\ k + i \in 1 .. Len(b) /\ c[i] = b[k + i] /\ \A j \in 1 .. k : j < k + i /\ j \in 1 .. Len(b)
    BY <1>0, <1>2
  <2>2. \A j \in 1 .. k : b[j].num # b[k + i].num /\ (b[k + i].num \notin L => b[j].num < b[k + i].num)
    BY <2>1 DEF Ordered
  <2>3. /\ b[k + i].num <= hi /\ b[k + i].num \notin G
        /\ b[k + i].num \notin L => \A g \in G : g < b[k + i].num
    BY <2>1 DEF Ordered
  <2> QED
    BY <1>a, <2>1, <2>2, <2>3
<1>5. ASSUME NEW i \in 1 .. Len(c), NEW j \in 1 .. Len(c), i < j
      PROVE  c[i].num # c[j].num /\ (c[j].num \notin L => c[i].num < c[j].num)
  <2>1. k + i < k + j
    BY <1>0, <1>5
  <2>2. c[i] = b[k + i] /\ c[j] = b[k + j] /\ k + i \in 1 .. Len(b) /\ k + j \in 1 .. Len(b)
    BY <1>2
  <2>3. b[k + i].num # b[k + j].num /\ (b[k + j].num \notin L => b[k + i].num < b[k + j].num)
    BY <2>1, <2>2 DEF Ordered
  <2> QED
    BY <2>2, <2>3
<1>7. Ordered(c, H, L, hi)
  BY <1>4, <1>5 DEF Ordered
<1>8. ASSUME NEW i \in 1 .. Len(b)
      PROVE  b[i].num \in H \/ \E j \in 1 .. Len(c) : c[j].num = b[i].num
  <2>1. CASE i <= k
    <3>1. i \in 1 .. k
      BY <1>0, <2>1
    <3> QED
      BY <1>a, <3>1
  <2>2. CASE i > k
    <3>1. i - k \in 1 .. Len(c) /\ k + (i - k) = i
      BY <1>0, <1>2, <2>2
    <3> QED
      BY <1>2, <3>1
  <2>3. i <= k \/ i > k
    BY <1>0
  <2> QED
    BY <2>1, <2>2, <2>3, Zenon
<1>9. k = Len(b) => c = <<>>
  BY <1>0, <1>1, <1>2, BufFacts
<1>10. \A m \in Nat : Out(b, G, m) => Out(c, H, m)
  BY <1>a, <1>0, <1>2 DEF Out
<1> QED
  BY <1>1, <1>3, <1>7, <1>8, <1>9, <1>10 DEF Split

\* What one extends and the next keeps.
LEMMA ExtendsKeeps ==
    ASSUME NEW a \in Buf, NEW b \in Buf, NEW c \in Buf, Extends(a, b)
    PROVE  /\ Keeps(b, c) => Keeps(a, c)
           /\ Extends(b, c) => Extends(a, c)
           /\ Keeps(a, b)
<1>0. Len(a) \in Nat /\ Len(b) \in Nat /\ Len(c) \in Nat
  BY BufFacts
<1>1. \A i \in 1 .. Len(a) : i \in 1 .. Len(b) /\ b[i].num = a[i].num /\ (a[i].end => b[i].end)
  BY <1>0 DEF Extends
<1>2. \A i \in 1 .. Len(a) : \A m \in i .. Len(a) : m \in 1 .. Len(a) /\ m \in i .. Len(b)
  BY <1>0 DEF Extends
<1>3. Keeps(b, c) => Keeps(a, c)
  BY <1>1, <1>2 DEF Keeps
<1>4. Extends(b, c) => Extends(a, c)
  BY <1>0, <1>1 DEF Extends
<1>5. Keeps(a, b)
  BY <1>1 DEF Keeps
<1> QED
  BY <1>3, <1>4, <1>5

-----------------------------------------------------------------------------
(* The invariant                                                             *)

Place == {"user", "read", "raw", "out"}
After == {"none", "nl", "erase"} \X Nat

\* Who sleeps is inside tty.c, the idle task only in tputc; a process in tty_fetch
\* still wants characters, and one asleep in tputc (as long as it was alone there)
\* sleeps on a full buffer.
SleepInv ==
    /\ \A p \in Proc : ~ready[p] => pc[p] # "user"
    /\ pc[Idle] \in {"user", "out"}
    /\ \A p \in Proc : pc[p] = "read" => left[p] > 0
    /\ \A p \in Proc : pc[p] = "out" /\ ~ready[p] /\ ~oshare => obuf = Cap

\* A newline whose echo is blocked has its number, which is in no other place.
Waits(m, b, t) == m \in late /\ m \in 1 .. t /\ Out(b, given, m)
LateInv ==
    /\ \A p \in Proc : then[p][1] = "nl" => Waits(then[p][2], ibuf, typed)
    /\ \A p, q \in Proc : p # q /\ then[p][1] = "nl" /\ then[q][1] = "nl" => then[p][2] # then[q][2]

TtyInv == TypeOK /\ InOrder /\ LateInv /\ SleepInv /\ NoSleepOnLine /\ NoSleepWhileFlowing /\ EchoHang

\* What a step may do to the characters of complete lines.
Survives == Delivered \subseteq Numbers(ibuf') \cup given'

\* Types and order of the input, restated.
LEMMA TypeFacts ==
    TypeOK <=>
        /\ canon \in BOOLEAN /\ stop \in BOOLEAN /\ ibuf \in Buf /\ obuf \in 0 .. Cap
        /\ iwaiter \in Proc \cup {None} /\ owaiter \in Proc \cup {None}
        /\ reqlen \in 0 .. MaxLen /\ pc \in [Proc -> Place] /\ ready \in [Proc -> BOOLEAN]
        /\ left \in [Proc -> Nat] /\ then \in [Proc -> After] /\ cnt \in [Proc -> 0 .. VMIN]
        /\ fault \in {"no", "unblock", "hung"}
        /\ typed \in Nat /\ given \in SUBSET Nat /\ late \in SUBSET Nat /\ junk \in BOOLEAN
        /\ ishare \in BOOLEAN /\ oshare \in BOOLEAN
BY DEF TypeOK, Buf, Char, Place, After

\* The order of the input is that of its buffer.
LEMMA OrderFacts ==
    ASSUME TypeOK
    PROVE  InOrder <=> Ordered(ibuf, given, late, typed) /\ given \subseteq 1 .. typed
<1>1. typed \in Nat /\ \A i \in 1 .. Len(ibuf) : ibuf[i].num \in Nat \ {0}
  BY TypeFacts, BufFacts
<1> QED
  BY <1>1 DEF InOrder, Ordered, Numbers

\* No line is slept on, with NoEnd for the lack of a line.
LEMMA LineFacts ==
    NoSleepOnLine <=>
        \A p \in Proc : fault = "no" /\ pc[p] = "read" /\ ~ready[p] /\ ~ishare =>
            iwaiter = p /\ NoEnd(ibuf)
BY DEF NoSleepOnLine, NoEnd

\* A buffer that keeps the delivered characters, or gives them out in order.
LEMMA KeepsSurvives ==
    ASSUME TypeOK, TypeOK', Keeps(ibuf, ibuf')
    PROVE  Survives
<1>1. Len(ibuf) \in Nat
  BY TypeFacts, BufFacts
<1> QED
  BY <1>1 DEF Survives, Delivered, Numbers, Keeps

\* Waking somebody makes nobody sleep.
LEMMA WakeFacts ==
    ASSUME NEW rdy \in [Proc -> BOOLEAN], NEW w \in Proc \cup {None}
    PROVE  /\ Wake(w, rdy) \in [Proc -> BOOLEAN]
           /\ \A q \in Proc : rdy[q] => Wake(w, rdy)[q]
           /\ w \in Proc => Wake(w, rdy)[w]
BY NoneAssumption DEF Wake

\* The part of tty_feed after the echo.
LEMMA FinishFacts ==
    ASSUME NEW th \in After, NEW b \in Buf, NEW t \in Nat, NEW rdy \in [Proc -> BOOLEAN],
           iwaiter \in Proc \cup {None}, given \in SUBSET Nat, late \in SUBSET Nat,
           Ordered(b, given, late, t),
           th[1] = "nl" => th[2] \in 1 .. t /\ Fits(b, given, late, th[2]),
           Finish(th, b, rdy)
    PROVE  /\ ibuf' \in Buf /\ Ordered(ibuf', given, late, t)
           /\ \A m \in Nat : Out(b, given, m) /\ (th[1] = "nl" => m # th[2]) => Out(ibuf', given, m)
           /\ Keeps(b, ibuf')
           /\ ready' \in [Proc -> BOOLEAN] /\ \A q \in Proc : rdy[q] => ready'[q]
           /\ \/ iwaiter' = iwaiter /\ (NoEnd(b) => NoEnd(ibuf'))
              \/ iwaiter' = None /\ \A q \in Proc : iwaiter = q => ready'[q]
<1>1. CASE th[1] = "none"
  BY <1>1 DEF Finish, Keeps
<1>2. CASE th[1] = "nl"
  <2> DEFINE m == th[2]
             c == Iputc(b, m)
  <2>1. m \in Nat \ {0} /\ m <= t /\ Fits(b, given, late, m)
    BY <1>2
  <2>2. ibuf' = Mark(c) /\ ready' = Wake(iwaiter, rdy) /\ iwaiter' = None
    BY <1>2 DEF Finish, Deliver
  <2> HIDE DEF m
  <2>3. /\ c \in Buf /\ Extends(b, c) /\ Ordered(c, given, late, t)
        /\ \A x \in Nat : Out(b, given, x) /\ x # m => Out(c, given, x)
    BY <2>1, IputcFacts
  <2> HIDE DEF c
  <2>4. /\ Mark(c) \in Buf /\ Extends(c, Mark(c)) /\ Ordered(Mark(c), given, late, t)
        /\ \A x \in Nat : Out(c, given, x) => Out(Mark(c), given, x)
    BY <2>3, MarkFacts
  <2>5. Extends(b, Mark(c))
    BY <2>3, <2>4, ExtendsKeeps
  <2>6. Keeps(b, Mark(c))
    BY <2>4, <2>5, ExtendsKeeps
  <2> QED
    BY <1>2, <2>2, <2>3, <2>4, <2>6, WakeFacts DEF m
<1>3. CASE th[1] = "erase"
  BY <1>3, EraseFacts DEF Finish
<1> QED
  BY <1>1, <1>2, <1>3 DEF After

\* The same after a step.
LEMMA TypeNext ==
    ASSUME canon' \in BOOLEAN, stop' \in BOOLEAN, ibuf' \in Buf, obuf' \in 0 .. Cap,
           iwaiter' \in Proc \cup {None}, owaiter' \in Proc \cup {None},
           reqlen' \in 0 .. MaxLen, pc' \in [Proc -> Place], ready' \in [Proc -> BOOLEAN],
           left' \in [Proc -> Nat], then' \in [Proc -> After], cnt' \in [Proc -> 0 .. VMIN],
           fault' \in {"no", "unblock", "hung"}, typed' \in Nat, given' \in SUBSET Nat,
           late' \in SUBSET Nat, junk' \in BOOLEAN,
           ishare' \in BOOLEAN, oshare' \in BOOLEAN
    PROVE  TypeOK'
BY DEF TypeOK, Buf, Char, Place, After

\* InOrder after a step.
LEMMA OrderNext ==
    ASSUME ibuf' \in Buf, Ordered(ibuf', given', late', typed'), given' \subseteq 1 .. typed',
           typed' \in Nat
    PROVE  InOrder'
<1>1. \A i \in 1 .. Len(ibuf') : ibuf'[i].num \in Nat \ {0}
  BY BufFacts
<1>2. \A i \in 1 .. Len(ibuf') : ibuf'[i].num \in 1 .. typed' /\ ibuf'[i].num \notin given'
  BY <1>1 DEF Ordered
<1>3. Numbers(ibuf)' \cup given' \subseteq 1 .. typed' /\ Numbers(ibuf)' \cap given' = {}
  BY <1>2 DEF Numbers
<1> QED
  BY <1>3 DEF InOrder, Ordered

\* NoSleepOnLine after a step.
LEMMA LineNext ==
    ASSUME \A p \in Proc : fault' = "no" /\ pc'[p] = "read" /\ ~ready'[p] /\ ~ishare' =>
               iwaiter' = p /\ NoEnd(ibuf')
    PROVE  NoSleepOnLine'
BY DEF NoSleepOnLine, NoEnd

\* task_block stops the kernel only when the idle task sleeps too.
LEMMA BlockFacts ==
    ASSUME NEW p \in Proc, NEW rdy \in [Proc -> BOOLEAN], fault = "no", Block(p, rdy)
    PROVE  /\ ready' \in [Proc -> BOOLEAN] /\ fault' \in {"no", "hung"}
           /\ ~ready'[p] /\ \A q \in Proc \ {p} : ready'[q] = rdy[q]
           /\ fault' = "hung" => \A q \in Proc : ~ready'[q]
BY DEF Block

\* tputc, with what tty_feed does after it, by a process in user mode or in tputc.
LEMMA OutputStep ==
    ASSUME TtyInv, fault = "no", NEW p \in Proc, ready[p], pc[p] \in {"user", "out"},
           NEW n \in Nat, NEW th \in After, NEW b \in Buf, NEW t \in Nat,
           NEW rdy \in [Proc -> BOOLEAN], \A q \in Proc : ready[q] => rdy[q],
           Extends(ibuf, b), NoEnd(ibuf) => NoEnd(b),
           given \subseteq 1 .. t, Ordered(b, given, late, t),
           th[1] = "nl" => th[2] \in 1 .. t /\ Fits(b, given, late, th[2]),
           \A q \in Proc \ {p} : then[q][1] = "nl" =>
               Waits(then[q][2], b, t) /\ (th[1] = "nl" => th[2] # then[q][2]),
           Output(p, n, th, b, t, rdy),
           UNCHANGED <<canon, stop, cnt, given, ishare>>, reqlen' \in 0 .. MaxLen, junk' = FALSE
    PROVE  TtyInv' /\ Survives
<1> DEFINE k == IF stop THEN Min(n, Cap - obuf) ELSE n
<1>0. /\ canon \in BOOLEAN /\ stop \in BOOLEAN /\ ibuf \in Buf /\ obuf \in 0 .. Cap
      /\ iwaiter \in Proc \cup {None} /\ owaiter \in Proc \cup {None}
      /\ pc \in [Proc -> Place] /\ ready \in [Proc -> BOOLEAN]
      /\ left \in [Proc -> Nat] /\ then \in [Proc -> After] /\ cnt \in [Proc -> 0 .. VMIN]
      /\ given \in SUBSET Nat /\ late \in SUBSET Nat /\ ishare \in BOOLEAN /\ oshare \in BOOLEAN
      /\ TypeOK /\ SleepInv /\ LateInv /\ NoSleepOnLine /\ NoSleepWhileFlowing
  BY TypeFacts DEF TtyInv
<1>1. Cap \in Nat
  BY BufAssumption DEF Cap
<1>2. k \in 0 .. n /\ (k < n => stop /\ k = Cap - obuf) /\ (stop => obuf + k \in 0 .. Cap)
  BY <1>0, <1>1 DEF Min
<1>3. obuf' = (IF stop THEN obuf + k ELSE obuf) /\ typed' = t
  BY DEF Output
<1>4. obuf' \in 0 .. Cap /\ (stop /\ obuf = Cap => obuf' = Cap) /\ (k < n => obuf' = Cap)
  BY <1>0, <1>1, <1>2, <1>3
<1>5. /\ \A q \in Proc : fault = "no" /\ pc[q] = "read" /\ ~ready[q] /\ ~ishare => iwaiter = q /\ NoEnd(ibuf)
      /\ \A q \in Proc : pc[q] = "out" /\ ~ready[q] /\ ~oshare => owaiter = q /\ stop /\ obuf = Cap
  BY <1>0, LineFacts DEF NoSleepWhileFlowing, SleepInv
<1>6. CASE /\ k = n
           /\ Finish(th, b, rdy)
           /\ pc' = [pc EXCEPT ![p] = "user"]
           /\ left' = [left EXCEPT ![p] = 0]
           /\ then' = [then EXCEPT ![p] = NoMore]
           /\ UNCHANGED <<owaiter, fault, late, oshare>>
  <2>1. /\ ibuf' \in Buf /\ Ordered(ibuf', given, late, t)
        /\ \A m \in Nat : Out(b, given, m) /\ (th[1] = "nl" => m # th[2]) => Out(ibuf', given, m)
        /\ Keeps(b, ibuf')
        /\ ready' \in [Proc -> BOOLEAN] /\ \A q \in Proc : rdy[q] => ready'[q]
        /\ \/ iwaiter' = iwaiter /\ (NoEnd(b) => NoEnd(ibuf'))
           \/ iwaiter' = None /\ \A q \in Proc : iwaiter = q => ready'[q]
    BY <1>0, <1>6, FinishFacts
  <2>2. TypeOK'
    <3>1. pc' \in [Proc -> Place] /\ then' \in [Proc -> After] /\ left' \in [Proc -> Nat]
      BY <1>0, <1>6 DEF Place, After, NoMore
    <3>2. iwaiter' \in Proc \cup {None}
      BY <1>0, <2>1
    <3> QED
      BY <1>0, <1>3, <1>4, <1>6, <2>1, <3>1, <3>2, TypeNext
  <2>3. InOrder'
    BY <1>3, <1>6, <2>1, OrderNext
  <2>a. LateInv'
    <3>1. \A q \in Proc : then'[q] = IF q = p THEN NoMore ELSE then[q]
      BY <1>0, <1>6
    <3>2. ASSUME NEW q \in Proc, then'[q][1] = "nl"
          PROVE  q # p /\ Waits(then[q][2], ibuf, typed)'
      <4>1. q # p /\ then'[q] = then[q]
        BY <3>1, <3>2 DEF NoMore
      <4>2. Waits(then[q][2], b, t) /\ (th[1] = "nl" => th[2] # then[q][2])
        BY <3>2, <4>1
      <4>3. Out(ibuf', given, then[q][2])
        BY <2>1, <4>2 DEF Waits
      <4> QED
        BY <1>3, <1>6, <4>1, <4>2, <4>3 DEF Waits, Out
    <3> QED
      BY <1>0, <3>1, <3>2 DEF LateInv
  <2>4. \A q \in Proc : ~ready'[q] => ~ready[q] /\ q # p /\ pc'[q] = pc[q]
    BY <1>0, <1>6, <2>1
  <2>5. SleepInv'
    <3>1. \A q \in Proc : ~ready'[q] => pc'[q] # "user"
      BY <1>0, <2>4 DEF SleepInv
    <3>2. pc'[Idle] \in {"user", "out"}
      BY <1>0, <1>6, IdleAssumption DEF SleepInv
    <3>3. \A q \in Proc : pc'[q] = "read" => left'[q] > 0
      BY <1>0, <1>6 DEF SleepInv
    <3>4. \A q \in Proc : pc'[q] = "out" /\ ~ready'[q] /\ ~oshare' => obuf' = Cap
      BY <1>4, <1>5, <1>6, <2>4
    <3> QED
      BY <3>1, <3>2, <3>3, <3>4 DEF SleepInv, Cap
  <2>6. NoSleepOnLine'
    <3>1. ASSUME NEW q \in Proc, pc'[q] = "read", ~ready'[q], ~ishare'
          PROVE  iwaiter' = q /\ NoEnd(ibuf')
      <4>1. iwaiter = q /\ NoEnd(b)
        BY <1>5, <2>4, <3>1
      <4> QED
        BY <2>1, <3>1, <4>1
    <3> QED
      BY <3>1, LineNext
  <2>7. NoSleepWhileFlowing'
    BY <1>5, <1>6, <2>4 DEF NoSleepWhileFlowing
  <2>8. EchoHang'
    BY <1>6 DEF EchoHang
  <2>9. Keeps(ibuf, ibuf')
    BY <1>0, <2>1, ExtendsKeeps
  <2> QED
    BY <1>0, <2>2, <2>3, <2>a, <2>5, <2>6, <2>7, <2>8, <2>9, KeepsSurvives DEF TtyInv
<1>7. CASE /\ k < n
           /\ owaiter' = p
           /\ pc' = [pc EXCEPT ![p] = "out"]
           /\ left' = [left EXCEPT ![p] = n - k]
           /\ then' = [then EXCEPT ![p] = th]
           /\ late' = IF th[1] = "nl" THEN late \cup {th[2]} ELSE late
           /\ Block(p, rdy)
           /\ ibuf' = b
           /\ oshare' = (oshare \/ \E q \in Proc \ {p} : pc[q] = "out")
           /\ UNCHANGED iwaiter
  <2>1. /\ ready' \in [Proc -> BOOLEAN] /\ fault' \in {"no", "hung"}
        /\ ~ready'[p] /\ \A q \in Proc \ {p} : ready'[q] = rdy[q]
        /\ fault' = "hung" => \A q \in Proc : ~ready'[q]
    BY <1>7, BlockFacts
  <2>2. TypeOK'
    <3>1. pc' \in [Proc -> Place] /\ then' \in [Proc -> After]
      BY <1>0, <1>7 DEF Place
    <3>2. left' \in [Proc -> Nat]
      BY <1>0, <1>2, <1>7
    <3>3. oshare' \in BOOLEAN
      BY <1>7, <1>0
    <3>4. late' \in SUBSET Nat
      BY <1>0, <1>7 DEF After
    <3> QED
      BY <1>0, <1>3, <1>4, <1>7, <2>1, <3>1, <3>2, <3>3, <3>4, TypeNext
  <2>3. InOrder'
    <3>1. late \subseteq late'
      BY <1>7
    <3>2. Ordered(b, given, late', t)
      BY <3>1 DEF Ordered
    <3> QED
      BY <1>3, <1>7, <3>2, OrderNext
  <2>a. LateInv'
    <3>1. late \subseteq late' /\ (th[1] = "nl" => th[2] \in late')
      BY <1>7
    <3>2. \A q \in Proc : then'[q] = IF q = p THEN th ELSE then[q]
      BY <1>0, <1>7
    <3>3. ASSUME NEW q \in Proc, then'[q][1] = "nl" PROVE Waits(then[q][2], ibuf, typed)'
      <4>1. CASE q = p
        BY <1>3, <1>7, <3>1, <3>2, <3>3, <4>1 DEF Waits, Fits, Out
      <4>2. CASE q # p
        BY <1>3, <1>7, <3>1, <3>2, <3>3, <4>2 DEF Waits, Out
      <4> QED
        BY <4>1, <4>2
    <3> QED
      BY <1>0, <3>2, <3>3 DEF LateInv
  <2>4. \A q \in Proc \ {p} : pc'[q] = pc[q] /\ (~ready'[q] => ~ready[q])
    BY <1>0, <1>7, <2>1
  <2>5. pc'[p] = "out"
    BY <1>0, <1>7
  <2>6. \A q \in Proc : pc'[q] = "out" /\ ~oshare' => q = p
    BY <1>7, <2>4
  <2>7. SleepInv'
    <3>1. \A q \in Proc : ~ready'[q] => pc'[q] # "user"
      BY <1>0, <2>4, <2>5 DEF SleepInv
    <3>2. pc'[Idle] \in {"user", "out"}
      BY <1>0, <2>4, <2>5, IdleAssumption DEF SleepInv
    <3>3. \A q \in Proc : pc'[q] = "read" => left'[q] > 0
      BY <1>0, <1>7, <2>4, <2>5 DEF SleepInv
    <3>4. \A q \in Proc : pc'[q] = "out" /\ ~ready'[q] /\ ~oshare' => obuf' = Cap
      BY <1>4, <1>7
    <3> QED
      BY <1>7, <3>1, <3>2, <3>3, <3>4 DEF SleepInv, Cap
  <2>8. NoSleepOnLine'
    BY <1>5, <1>7, <2>4, <2>5, LineNext
  <2>9. NoSleepWhileFlowing'
    BY <1>2, <1>7, <2>6 DEF NoSleepWhileFlowing
  <2>10. EchoHang'
    <3> SUFFICES ASSUME fault' = "hung" PROVE pc'[Idle] = "out" /\ (oshare' \/ (stop' /\ obuf' = Cap))
      BY DEF EchoHang, Cap
    <3>1. ~ready'[Idle]
      BY <2>1, IdleAssumption
    <3>2. pc'[Idle] = "out"
      BY <2>7, <3>1, IdleAssumption DEF SleepInv
    <3> QED
      BY <1>2, <1>4, <1>7, <3>2
  <2>11. Keeps(ibuf, ibuf')
    BY <1>0, <1>7, ExtendsKeeps
  <2> QED
    BY <1>0, <2>2, <2>3, <2>a, <2>7, <2>8, <2>9, <2>10, <2>11, KeepsSurvives DEF TtyInv
<1> QED
  BY <1>6, <1>7 DEF Output

\* k times tty_buf_getc: the order stays and what was delivered is handed over.
LEMMA TakeStep ==
    ASSUME TtyInv, NEW k \in 0 .. Len(ibuf), Take(k), UNCHANGED <<typed, late, then>>
    PROVE  /\ ibuf' \in Buf /\ given' \in SUBSET Nat /\ InOrder' /\ LateInv'
           /\ NoEnd(ibuf) => NoEnd(ibuf')
           /\ k = Len(ibuf) => ibuf' = <<>>
           /\ Survives
<1>0. /\ ibuf \in Buf /\ given \in SUBSET Nat /\ late \in SUBSET Nat /\ typed \in Nat
      /\ Ordered(ibuf, given, late, typed) /\ given \subseteq 1 .. typed /\ LateInv
  BY TypeFacts, OrderFacts DEF TtyInv
<1>1. Taken(ibuf, k, given, ibuf', given')
  BY DEF Take, Taken
<1>2. Split(ibuf, ibuf', given, given', late, typed) /\ (k = Len(ibuf) => ibuf' = <<>>)
  BY <1>0, <1>1, TakeFacts
<1>3. InOrder'
  BY <1>0, <1>2, OrderNext DEF Split
<1>4. LateInv'
  <2>1. ASSUME NEW p \in Proc, then[p][1] = "nl" PROVE Waits(then[p][2], ibuf, typed)'
    <3>1. Waits(then[p][2], ibuf, typed) /\ then[p][2] \in Nat
      BY <1>0, <2>1 DEF LateInv, Waits
    <3>2. Out(ibuf', given', then[p][2])
      BY <1>2, <3>1 DEF Split, Waits
    <3> QED
      BY <3>1, <3>2 DEF Waits, Out
  <2> QED
    BY <1>0, <2>1 DEF LateInv
<1>5. Survives
  BY <1>2 DEF Survives, Delivered, Numbers, Split
<1> QED
  BY <1>2, <1>3, <1>4, <1>5 DEF Split

\* tty_fetch up to its end or to task_block.
LEMMA FetchStep ==
    ASSUME TtyInv, fault = "no", NEW p \in Proc, p # Idle, ready[p], pc[p] \in {"user", "read"},
           NEW n \in Nat \ {0}, Fetch(p, n, \E q \in Proc \ {p} : pc[q] = "read"),
           UNCHANGED <<canon, obuf, stop, owaiter, reqlen, then, cnt, typed, late, oshare>>,
           junk' \in BOOLEAN
    PROVE  TtyInv' /\ Survives
<1>0. /\ canon \in BOOLEAN /\ stop \in BOOLEAN /\ ibuf \in Buf /\ obuf \in 0 .. Cap
      /\ iwaiter \in Proc \cup {None} /\ owaiter \in Proc \cup {None} /\ reqlen \in 0 .. MaxLen
      /\ pc \in [Proc -> Place] /\ ready \in [Proc -> BOOLEAN]
      /\ left \in [Proc -> Nat] /\ then \in [Proc -> After] /\ cnt \in [Proc -> 0 .. VMIN]
      /\ typed \in Nat /\ late \in SUBSET Nat /\ ishare \in BOOLEAN /\ oshare \in BOOLEAN
      /\ TypeOK /\ SleepInv /\ NoSleepOnLine /\ NoSleepWhileFlowing /\ Len(ibuf) \in Nat
  BY TypeFacts, BufFacts DEF TtyInv
<1>1. \A q \in Proc : pc[q] = "read" /\ ~ready[q] /\ ~ishare => iwaiter = q /\ NoEnd(ibuf)
  BY <1>0, LineFacts
<1>2. \A q \in Proc : pc[q] = "out" /\ ~ready[q] /\ ~oshare => owaiter = q /\ stop /\ obuf = Cap
  BY <1>0 DEF NoSleepWhileFlowing, SleepInv
<1>3. ASSUME NEW k \in 1 .. Len(ibuf), Take(k), pc' = [pc EXCEPT ![p] = "user"],
             left' = [left EXCEPT ![p] = 0], UNCHANGED <<iwaiter, ready, fault, ishare>>
      PROVE  TtyInv' /\ Survives
  <2>1. /\ ibuf' \in Buf /\ given' \in SUBSET Nat /\ InOrder' /\ LateInv'
        /\ NoEnd(ibuf) => NoEnd(ibuf')
        /\ Survives
    <3>1. k \in 0 .. Len(ibuf)
      BY <1>0
    <3> QED
      BY <1>3, <3>1, TakeStep
  <2>2. TypeOK'
    <3>1. pc' \in [Proc -> Place] /\ left' \in [Proc -> Nat]
      BY <1>0, <1>3 DEF Place
    <3> QED
      BY <1>0, <1>3, <2>1, <3>1, TypeNext
  <2>3. \A q \in Proc : pc'[q] = IF q = p THEN "user" ELSE pc[q]
    BY <1>0, <1>3
  <2>4. SleepInv'
    <3>1. \A q \in Proc : pc'[q] = "read" => left'[q] > 0
      BY <1>0, <1>3, <2>3 DEF SleepInv
    <3> QED
      BY <1>0, <1>3, <2>1, <2>3, <3>1, IdleAssumption DEF SleepInv, Cap
  <2>5. NoSleepOnLine'
    BY <1>1, <1>3, <2>1, <2>3, LineNext
  <2>6. NoSleepWhileFlowing'
    BY <1>2, <1>3, <2>3 DEF NoSleepWhileFlowing
  <2>7. EchoHang'
    BY <1>3 DEF EchoHang
  <2> QED
    BY <2>1, <2>2, <2>4, <2>5, <2>6, <2>7 DEF TtyInv
<1>4. CASE /\ \A k \in 1 .. Len(ibuf) : ~Ends(k, n)
           /\ Take(Len(ibuf))
           /\ pc' = [pc EXCEPT ![p] = "read"]
           /\ left' = [left EXCEPT ![p] = n - Len(ibuf)]
           /\ iwaiter' = p
           /\ Block(p, ready)
           /\ ishare' = (ishare \/ \E q \in Proc \ {p} : pc[q] = "read")
  <2>1. /\ ibuf' \in Buf /\ given' \in SUBSET Nat /\ InOrder' /\ LateInv'
        /\ ibuf' = <<>>
        /\ Survives
    <3>1. Len(ibuf) \in 0 .. Len(ibuf)
      BY <1>0
    <3> QED
      BY <1>4, <3>1, TakeStep
  <2>2. n - Len(ibuf) \in Nat \ {0}
    <3>1. n \notin 1 .. Len(ibuf)
      BY <1>4 DEF Ends
    <3> QED
      BY <1>0, <3>1
  <2>3. /\ ready' \in [Proc -> BOOLEAN] /\ fault' \in {"no", "hung"}
        /\ ~ready'[p] /\ \A q \in Proc \ {p} : ready'[q] = ready[q]
        /\ fault' = "hung" => \A q \in Proc : ~ready'[q]
    BY <1>0, <1>4, BlockFacts
  <2>4. TypeOK'
    <3>1. pc' \in [Proc -> Place] /\ left' \in [Proc -> Nat]
      BY <1>0, <1>4, <2>2 DEF Place
    <3>2. ishare' \in BOOLEAN
      BY <1>0, <1>4
    <3> QED
      BY <1>0, <1>4, <2>1, <2>3, <3>1, <3>2, TypeNext
  <2>5. \A q \in Proc : pc'[q] = IF q = p THEN "read" ELSE pc[q]
    BY <1>0, <1>4
  <2>6. SleepInv'
    <3>1. \A q \in Proc : pc'[q] = "read" => left'[q] > 0
      BY <1>0, <1>4, <2>2, <2>5 DEF SleepInv
    <3>2. \A q \in Proc : ~ready'[q] => pc'[q] # "user"
      BY <1>0, <2>3, <2>5 DEF SleepInv
    <3>3. pc'[Idle] \in {"user", "out"}
      BY <1>0, <2>5, IdleAssumption DEF SleepInv
    <3>4. \A q \in Proc : pc'[q] = "out" /\ ~ready'[q] /\ ~oshare' => obuf' = Cap
      BY <1>2, <2>3, <2>5
    <3> QED
      BY <2>1, <3>1, <3>2, <3>3, <3>4 DEF SleepInv, Cap
  <2>7. NoSleepOnLine'
    <3>1. NoEnd(ibuf')
      BY <2>1 DEF NoEnd
    <3> QED
      BY <1>4, <2>5, <3>1, LineNext
  <2>8. NoSleepWhileFlowing'
    BY <1>2, <2>3, <2>5 DEF NoSleepWhileFlowing
  <2>9. EchoHang'
    <3> SUFFICES ASSUME fault' = "hung" PROVE pc'[Idle] = "out" /\ (oshare' \/ (stop' /\ obuf' = Cap))
      BY DEF EchoHang, Cap
    <3>1. ~ready'[Idle]
      BY <2>3, IdleAssumption
    <3>2. pc'[Idle] = "out" /\ pc[Idle] = "out" /\ ~ready[Idle]
      BY <2>3, <2>5, <2>6, <3>1, IdleAssumption DEF SleepInv
    <3> QED
      BY <1>2, <3>2, IdleAssumption
  <2> QED
    BY <2>1, <2>4, <2>6, <2>7, <2>8, <2>9 DEF TtyInv
<1> QED
  BY <1>3, <1>4 DEF Fetch

\* tty_fetch_nc up to its end or to task_block.
LEMMA FetchRawStep ==
    ASSUME TtyInv, fault = "no", NEW p \in Proc, p # Idle, ready[p], pc[p] \in {"user", "raw"},
           NEW c \in 0 .. VMIN, NEW r \in 0 .. MaxLen, FetchRaw(p, c, r), junk' = FALSE
    PROVE  TtyInv' /\ Survives
<1> USE VminAssumption
<1> DEFINE k == Min(r, Len(ibuf))
<1>0. /\ canon \in BOOLEAN /\ stop \in BOOLEAN /\ ibuf \in Buf /\ obuf \in 0 .. Cap
      /\ iwaiter \in Proc \cup {None} /\ owaiter \in Proc \cup {None} /\ reqlen \in 0 .. MaxLen
      /\ pc \in [Proc -> Place] /\ ready \in [Proc -> BOOLEAN]
      /\ left \in [Proc -> Nat] /\ then \in [Proc -> After] /\ cnt \in [Proc -> 0 .. VMIN]
      /\ typed \in Nat /\ late \in SUBSET Nat /\ ishare \in BOOLEAN /\ oshare \in BOOLEAN
      /\ TypeOK /\ SleepInv /\ NoSleepOnLine /\ NoSleepWhileFlowing /\ Len(ibuf) \in Nat
  BY TypeFacts, BufFacts DEF TtyInv
<1>1. \A q \in Proc : pc[q] = "read" /\ ~ready[q] /\ ~ishare => iwaiter = q /\ NoEnd(ibuf)
  BY <1>0, LineFacts
<1>2. \A q \in Proc : pc[q] = "out" /\ ~ready[q] /\ ~oshare => owaiter = q /\ stop /\ obuf = Cap
  BY <1>0 DEF NoSleepWhileFlowing, SleepInv
<1>3. k \in 0 .. Len(ibuf) /\ r - k \in 0 .. MaxLen
  BY <1>0 DEF Min
<1>4. /\ Take(k) /\ reqlen' = r - k
      /\ UNCHANGED <<canon, obuf, stop, iwaiter, owaiter, left, then, typed, late, ishare, oshare>>
  BY DEF FetchRaw
<1>5. \/ /\ pc' = [pc EXCEPT ![p] = "user"]
         /\ cnt' = [cnt EXCEPT ![p] = 0]
         /\ UNCHANGED <<ready, fault>>
      \/ /\ c + k < VMIN
         /\ pc' = [pc EXCEPT ![p] = "raw"]
         /\ cnt' = [cnt EXCEPT ![p] = c + k]
         /\ Block(p, ready)
  BY DEF FetchRaw
<1> HIDE DEF k
<1>6. /\ ibuf' \in Buf /\ given' \in SUBSET Nat /\ InOrder' /\ LateInv'
      /\ NoEnd(ibuf) => NoEnd(ibuf')
      /\ Survives
  BY <1>3, <1>4, TakeStep
<1>7. /\ pc' \in [Proc -> Place] /\ cnt' \in [Proc -> 0 .. VMIN] /\ ready' \in [Proc -> BOOLEAN]
      /\ fault' \in {"no", "hung"}
      /\ \A q \in Proc \ {p} : pc'[q] = pc[q] /\ ready'[q] = ready[q]
      /\ pc'[p] \in {"user", "raw"} /\ (pc'[p] = "user" => ready'[p])
      /\ fault' = "hung" => \A q \in Proc : ~ready'[q]
  <2>1. CASE /\ pc' = [pc EXCEPT ![p] = "user"]
             /\ cnt' = [cnt EXCEPT ![p] = 0]
             /\ UNCHANGED <<ready, fault>>
    BY <1>0, <2>1 DEF Place
  <2>2. CASE /\ c + k < VMIN
             /\ pc' = [pc EXCEPT ![p] = "raw"]
             /\ cnt' = [cnt EXCEPT ![p] = c + k]
             /\ Block(p, ready)
    <3>1. c + k \in 0 .. VMIN
      BY <1>0, <1>3, <2>2
    <3>2. pc' \in [Proc -> Place] /\ cnt' \in [Proc -> 0 .. VMIN] /\ pc'[p] = "raw"
      BY <1>0, <2>2, <3>1 DEF Place
    <3> QED
      BY <1>0, <2>2, <3>2, BlockFacts
  <2> QED
    BY <1>5, <2>1, <2>2
<1>8. TypeOK'
  BY <1>0, <1>3, <1>4, <1>6, <1>7, TypeNext
<1>9. SleepInv'
  <2>1. \A q \in Proc : ~ready'[q] => pc'[q] # "user"
    BY <1>0, <1>7 DEF SleepInv
  <2>2. pc'[Idle] \in {"user", "out"}
    BY <1>0, <1>7, IdleAssumption DEF SleepInv
  <2>3. \A q \in Proc : pc'[q] = "read" => left'[q] > 0
    BY <1>0, <1>4, <1>7 DEF SleepInv
  <2>4. \A q \in Proc : pc'[q] = "out" /\ ~ready'[q] /\ ~oshare' => obuf' = Cap
    BY <1>2, <1>4, <1>7
  <2> QED
    BY <1>6, <2>1, <2>2, <2>3, <2>4 DEF SleepInv, Cap
<1>10. NoSleepOnLine'
  BY <1>1, <1>4, <1>6, <1>7, LineNext
<1>11. NoSleepWhileFlowing'
  BY <1>2, <1>4, <1>7 DEF NoSleepWhileFlowing
<1>12. EchoHang'
  <2> SUFFICES ASSUME fault' = "hung" PROVE pc'[Idle] = "out" /\ (oshare' \/ (stop' /\ obuf' = Cap))
    BY DEF EchoHang, Cap
  <2>1. ~ready'[Idle]
    BY <1>7, IdleAssumption
  <2>2. pc'[Idle] = "out" /\ pc[Idle] = "out" /\ ~ready[Idle]
    BY <1>7, <1>9, <2>1, IdleAssumption DEF SleepInv
  <2> QED
    BY <1>2, <1>4, <2>2, IdleAssumption
<1> QED
  BY <1>6, <1>8, <1>9, <1>10, <1>11, <1>12 DEF TtyInv

-----------------------------------------------------------------------------
(* The actions                                                               *)

\* A step that leaves everything alone but the input buffer, who is awake and the
\* registrations, and which wakes whoever it deregisters.
LEMMA QuietStep ==
    ASSUME TtyInv, fault = "no", canon' \in BOOLEAN, stop' \in BOOLEAN, ibuf' \in Buf,
           obuf' \in 0 .. Cap, Ordered(ibuf', given, late, typed),
           \A m \in Nat : Out(ibuf, given, m) => Out(ibuf', given, m),
           ready' \in [Proc -> BOOLEAN], \A q \in Proc : ready[q] => ready'[q],
           \/ iwaiter' = iwaiter /\ (NoEnd(ibuf) => NoEnd(ibuf'))
           \/ iwaiter' = None /\ \A q \in Proc : iwaiter = q => ready'[q],
           \/ owaiter' = owaiter /\ (stop => stop') /\ obuf' = obuf
           \/ owaiter' = None /\ \A q \in Proc : owaiter = q => ready'[q],
           UNCHANGED <<reqlen, pc, left, then, cnt, fault, typed, given, late, ishare, oshare>>,
           junk' = FALSE
    PROVE  TtyInv'
<1>0. /\ iwaiter \in Proc \cup {None} /\ owaiter \in Proc \cup {None} /\ reqlen \in 0 .. MaxLen
      /\ pc \in [Proc -> Place] /\ ready \in [Proc -> BOOLEAN]
      /\ left \in [Proc -> Nat] /\ then \in [Proc -> After] /\ cnt \in [Proc -> 0 .. VMIN]
      /\ typed \in Nat /\ given \in SUBSET Nat /\ late \in SUBSET Nat
      /\ ishare \in BOOLEAN /\ oshare \in BOOLEAN /\ given \subseteq 1 .. typed
      /\ TypeOK /\ SleepInv /\ LateInv /\ NoSleepOnLine /\ NoSleepWhileFlowing
  BY TypeFacts, OrderFacts DEF TtyInv
<1>1. \A q \in Proc : pc[q] = "read" /\ ~ready[q] /\ ~ishare => iwaiter = q /\ NoEnd(ibuf)
  BY <1>0, LineFacts
<1>2. \A q \in Proc : pc[q] = "out" /\ ~ready[q] /\ ~oshare => owaiter = q /\ stop /\ obuf = Cap
  BY <1>0 DEF NoSleepWhileFlowing, SleepInv
<1>3. TypeOK'
  <2>1. iwaiter' \in Proc \cup {None} /\ owaiter' \in Proc \cup {None}
    BY <1>0
  <2> QED
    BY <1>0, <2>1, TypeNext
<1>4. \A q \in Proc : pc'[q] = "out" /\ ~ready'[q] /\ ~oshare' => owaiter' = q /\ stop' /\ obuf' = Cap
  BY <1>2
<1>5. SleepInv'
  BY <1>0, <1>4 DEF SleepInv, Cap
<1>6. NoSleepOnLine'
  BY <1>1, LineNext
<1>7. NoSleepWhileFlowing'
  BY <1>4 DEF NoSleepWhileFlowing
<1>8. EchoHang'
  BY DEF EchoHang
<1>9. LateInv'
  <2>1. ASSUME NEW q \in Proc, then[q][1] = "nl" PROVE Waits(then[q][2], ibuf, typed)'
    <3>1. Waits(then[q][2], ibuf, typed) /\ then[q][2] \in Nat
      BY <1>0, <2>1 DEF LateInv, Waits
    <3>2. Out(ibuf', given, then[q][2])
      BY <3>1 DEF Waits
    <3> QED
      BY <3>1, <3>2 DEF Waits, Out
  <2> QED
    BY <1>0, <2>1 DEF LateInv
<1>10. InOrder'
  BY <1>0, OrderNext
<1> QED
  BY <1>3, <1>5, <1>6, <1>7, <1>8, <1>9, <1>10 DEF TtyInv

\* Every action keeps the invariant, and every one but KeyKill the delivered lines.
LEMMA ActionStep ==
    ASSUME TtyInv, Next
    PROVE  TtyInv' /\ (Survives \/ \E p \in Proc : KeyKill(p))
<1>0. /\ canon \in BOOLEAN /\ stop \in BOOLEAN /\ ibuf \in Buf /\ obuf \in 0 .. Cap
      /\ iwaiter \in Proc \cup {None} /\ owaiter \in Proc \cup {None} /\ reqlen \in 0 .. MaxLen
      /\ pc \in [Proc -> Place] /\ ready \in [Proc -> BOOLEAN]
      /\ left \in [Proc -> Nat] /\ then \in [Proc -> After] /\ cnt \in [Proc -> 0 .. VMIN]
      /\ typed \in Nat /\ given \in SUBSET Nat /\ late \in SUBSET Nat /\ given \subseteq 1 .. typed
      /\ Ordered(ibuf, given, late, typed) /\ TypeOK /\ SleepInv /\ LateInv
  BY TypeFacts, OrderFacts DEF TtyInv
<1>a. /\ given \subseteq 1 .. typed + 1 /\ Ordered(ibuf, given, late, typed + 1)
      /\ typed + 1 \in Nat \ {0} /\ Fits(ibuf, given, late, typed + 1)
      /\ \A m \in 1 .. typed : m # typed + 1 /\ m \in 1 .. typed + 1
  <2>1. \A i \in 1 .. Len(ibuf) : ibuf[i].num \in Nat /\ ibuf[i].num <= typed
    BY <1>0, BufFacts DEF Ordered
  <2>2. \A g \in given : g \in Nat /\ g <= typed
    BY <1>0
  <2> QED
    BY <1>0, <2>1, <2>2 DEF Ordered, Fits, Out
<1>b. \A q \in Proc : then[q][1] = "nl" =>
        /\ Waits(then[q][2], ibuf, typed) /\ Waits(then[q][2], ibuf, typed + 1)
        /\ then[q][2] # typed + 1
  BY <1>0, <1>a DEF LateInv, Waits
<1>1. Extends(ibuf, ibuf) /\ Keeps(ibuf, ibuf)
  <2>1. Len(ibuf) \in Nat
    BY <1>0, BufFacts
  <2> QED
    BY <2>1 DEF Extends, Keeps
<1>2. PICK p \in Proc :
        \/ \E n \in 1 .. MaxWrite : Write(p, n)
        \/ OutputResume(p)
        \/ \E e \in {1, 2} : KeyChar(p, e)
        \/ KeyNewline(p)
        \/ KeyEof(p)
        \/ KeyErase(p)
        \/ KeyKill(p)
        \/ KeyStop(p)
        \/ KeyStart(p)
        \/ \E n \in 1 .. MaxLen : Read(p, n)
        \/ ReadResume(p)
        \/ \E n \in 1 .. MaxLen : ReadRaw(p, n)
        \/ ReadRawResume(p)
        \/ Tcsets(p)
  BY DEF Next
<1>3. ASSUME NEW n \in 1 .. MaxWrite, Write(p, n) PROVE TtyInv' /\ Survives
  <2>1. n \in Nat /\ NoMore \in After /\ NoMore[1] # "nl"
    BY BoundsAssumption DEF After, NoMore
  <2> QED
    BY <1>0, <1>1, <1>b, <1>3, <2>1, OutputStep DEF Write, User
<1>4. CASE OutputResume(p)
  <2>1. then[p][1] = "nl" => then[p][2] \in 1 .. typed /\ Fits(ibuf, given, late, then[p][2])
    BY <1>b DEF Waits, Fits
  <2>2. \A q \in Proc \ {p} : then[q][1] = "nl" => (then[p][1] = "nl" => then[p][2] # then[q][2])
    BY <1>0 DEF LateInv
  <2> DEFINE th == then[p]
             n == left[p]
  <2>3. /\ fault = "no" /\ ready[p] /\ pc[p] = "out" /\ junk' = FALSE /\ th \in After /\ n \in Nat
        /\ Output(p, n, th, ibuf, typed, ready) /\ UNCHANGED <<canon, stop, reqlen, cnt, given, ishare>>
    BY <1>0, <1>4 DEF OutputResume
  <2>4. /\ th[1] = "nl" => th[2] \in 1 .. typed /\ Fits(ibuf, given, late, th[2])
        /\ \A q \in Proc \ {p} : then[q][1] = "nl" =>
               Waits(then[q][2], ibuf, typed) /\ (th[1] = "nl" => th[2] # then[q][2])
    BY <1>b, <2>1, <2>2
  <2> HIDE DEF th, n
  <2> QED
    BY <1>0, <1>1, <2>3, <2>4, OutputStep
<1>5. ASSUME NEW e \in {1, 2}, KeyChar(p, e) PROVE TtyInv' /\ Survives
  <2> DEFINE b == Iputc(ibuf, typed + 1)
             wakes == ~canon /\ (reqlen = 1 \/ Len(b) = Cap)
             rdy == IF wakes THEN Wake(iwaiter, ready) ELSE ready
  <2>1. typed + 1 \in Nat \ {0} /\ typed + 1 <= typed + 1 /\ typed + 1 \in Nat
    BY <1>0
  <2>2. /\ b \in Buf /\ Extends(ibuf, b) /\ (NoEnd(ibuf) => NoEnd(b))
        /\ Ordered(b, given, late, typed + 1)
        /\ \A m \in Nat : Out(ibuf, given, m) /\ m # typed + 1 => Out(b, given, m)
    BY <1>0, <1>a, <2>1, IputcFacts
  <2>9. \A q \in Proc : then[q][1] = "nl" => Waits(then[q][2], b, typed + 1)
    BY <1>b, <2>2 DEF Waits
  <2>3. rdy \in [Proc -> BOOLEAN] /\ \A q \in Proc : ready[q] => rdy[q]
    BY <1>0, WakeFacts
  <2>4. reqlen' \in 0 .. MaxLen
    BY <1>0, <1>5, VminAssumption DEF KeyChar
  <2>5. \/ /\ wakes /\ iwaiter = None
           /\ fault' = "unblock"
           /\ ibuf' = b
           /\ typed' = typed + 1
           /\ UNCHANGED <<obuf, iwaiter, owaiter, pc, ready, left, then, late, oshare>>
        \/ Output(p, e, NoMore, b, typed + 1, rdy)
    BY <1>5 DEF KeyChar
  <2>6. /\ fault = "no" /\ ready[p] /\ pc[p] = "user" /\ junk' = FALSE
        /\ UNCHANGED <<canon, stop, cnt, given, ishare>>
    BY <1>5 DEF KeyChar, User
  <2> HIDE DEF b, wakes, rdy
  <2>7. CASE Output(p, e, NoMore, b, typed + 1, rdy)
    <3>1. e \in Nat /\ NoMore \in After /\ NoMore[1] # "nl"
      BY DEF After, NoMore
    <3> QED
      BY <1>a, <2>1, <2>2, <2>3, <2>4, <2>6, <2>7, <2>9, <3>1, OutputStep
  <2>8. CASE /\ fault' = "unblock"
             /\ ibuf' = b
             /\ typed' = typed + 1
             /\ UNCHANGED <<obuf, iwaiter, owaiter, pc, ready, left, then, late, oshare>>
    <3>1. TypeOK'
      BY <1>0, <2>1, <2>2, <2>4, <2>6, <2>8, TypeFacts, TypeNext
    <3>2. InOrder'
      BY <1>a, <2>1, <2>2, <2>6, <2>8, OrderNext
    <3>a. LateInv'
      <4>1. \A q \in Proc : then[q][1] = "nl" => Waits(then[q][2], ibuf, typed)'
        BY <2>6, <2>8, <2>9 DEF Waits, Out
      <4> QED
        BY <1>0, <2>8, <4>1 DEF LateInv
    <3>3. SleepInv'
      BY <1>0, <2>1, <2>6, <2>8 DEF SleepInv, Cap
    <3>4. NoSleepOnLine'
      BY <2>8, LineNext
    <3>5. NoSleepWhileFlowing'
      BY <2>6, <2>8 DEF NoSleepWhileFlowing, TtyInv
    <3>6. EchoHang'
      BY <2>8 DEF EchoHang
    <3>7. Keeps(ibuf, ibuf')
      BY <1>0, <2>2, <2>8, ExtendsKeeps
    <3> QED
      BY <1>0, <3>1, <3>2, <3>a, <3>3, <3>4, <3>5, <3>6, <3>7, KeepsSurvives DEF TtyInv
  <2> QED
    BY <2>5, <2>7, <2>8
<1>6. CASE KeyNewline(p)
  <2> DEFINE th == <<"nl", typed + 1>>
             t == typed + 1
  <2>1. 2 \in Nat /\ th \in After /\ t \in Nat /\ th[2] \in 1 .. t
    BY <1>0 DEF After
  <2>2. /\ fault = "no" /\ ready[p] /\ pc[p] = "user" /\ junk' = FALSE
        /\ Output(p, 2, th, ibuf, t, ready) /\ UNCHANGED <<canon, stop, reqlen, cnt, given, ishare>>
    BY <1>6 DEF KeyNewline, User
  <2>3. /\ given \subseteq 1 .. t /\ Ordered(ibuf, given, late, t) /\ Fits(ibuf, given, late, th[2])
        /\ \A q \in Proc : then[q][1] = "nl" => Waits(then[q][2], ibuf, t) /\ th[2] # then[q][2]
    BY <1>a, <1>b
  <2> HIDE DEF th, t
  <2>4. \A q \in Proc \ {p} : then[q][1] = "nl" =>
            Waits(then[q][2], ibuf, t) /\ (th[1] = "nl" => th[2] # then[q][2])
    BY <2>3
  <2>5. reqlen' \in 0 .. MaxLen /\ UNCHANGED <<canon, stop, cnt, given, ishare>>
    BY <1>0, <2>2
  <2>6. pc[p] \in {"user", "out"}
    BY <2>2
  <2>7. TtyInv' /\ Survives
    BY <1>0, <1>1, <2>1, <2>2, <2>3, <2>4, <2>5, <2>6, OutputStep
  <2> QED
    BY <2>7
<1>7. CASE KeyEof(p)
  <2>1. /\ ibuf' = Mark(ibuf) /\ ready' = Wake(iwaiter, ready) /\ iwaiter' = None
        /\ fault = "no" /\ junk' = FALSE
        /\ UNCHANGED <<canon, obuf, stop, owaiter, reqlen, pc, left, then, cnt, fault,
                       typed, given, late, ishare, oshare>>
    BY <1>7 DEF KeyEof, Deliver, User
  <2>2. /\ ibuf' \in Buf /\ Extends(ibuf, ibuf') /\ Ordered(ibuf', given, late, typed)
        /\ \A m \in Nat : Out(ibuf, given, m) => Out(ibuf', given, m)
    BY <1>0, <2>1, MarkFacts
  <2>3. /\ ready' \in [Proc -> BOOLEAN] /\ \A q \in Proc : ready[q] => ready'[q]
        /\ \A q \in Proc : iwaiter = q => ready'[q]
    BY <1>0, <2>1, WakeFacts
  <2>4. TtyInv'
    BY <1>0, <2>1, <2>2, <2>3, QuietStep
  <2>5. Keeps(ibuf, ibuf') /\ TypeOK'
    BY <1>0, <2>2, <2>4, ExtendsKeeps DEF TtyInv
  <2> QED
    BY <1>0, <2>4, <2>5, KeepsSurvives
<1>8. CASE KeyErase(p)
  <2> DEFINE th == <<"erase", 0>>
  <2>1. 3 \in Nat /\ th \in After /\ th[1] # "nl"
    BY DEF After
  <2>2. /\ fault = "no" /\ ready[p] /\ pc[p] = "user" /\ junk' = FALSE
        /\ Output(p, 3, th, ibuf, typed, ready) /\ UNCHANGED <<canon, stop, reqlen, cnt, given, ishare>>
    BY <1>8 DEF KeyErase, User
  <2> HIDE DEF th
  <2> QED
    BY <1>0, <1>1, <1>b, <2>1, <2>2, OutputStep
<1>9. CASE KeyKill(p)
  <2>1. /\ ibuf' \in Buf /\ Ordered(ibuf', given, late, typed) /\ NoEnd(ibuf')
        /\ \A m \in Nat : Out(ibuf, given, m) => Out(ibuf', given, m)
    <3>1. ibuf' = <<>> /\ Len(ibuf') = 0 /\ ibuf' \in Seq(Char) /\ Cap \in Nat
      BY <1>9, EmptySeq, BufAssumption DEF KeyKill, Cap
    <3> QED
      BY <3>1 DEF Buf, Ordered, NoEnd, Out
  <2>2. TtyInv'
    BY <1>0, <1>9, <2>1, QuietStep DEF KeyKill, User
  <2> QED
    BY <1>9, <2>2
<1>10. CASE KeyStop(p)
  <2>1. TtyInv'
    BY <1>0, <1>10, QuietStep DEF KeyStop, User
  <2>2. ibuf' = ibuf
    BY <1>10 DEF KeyStop
  <2> QED
    BY <1>0, <1>1, <2>1, <2>2, KeepsSurvives DEF TtyInv
<1>11. CASE KeyStart(p)
  <2>1. /\ ready' = Wake(owaiter, ready) /\ owaiter' = None /\ obuf' = 0 /\ stop' = FALSE
        /\ fault = "no" /\ junk' = FALSE
        /\ UNCHANGED <<canon, ibuf, iwaiter, reqlen, pc, left, then, cnt,
                       fault, typed, given, late, ishare, oshare>>
    BY <1>11 DEF KeyStart, User
  <2>2. /\ ready' \in [Proc -> BOOLEAN] /\ \A q \in Proc : ready[q] => ready'[q]
        /\ \A q \in Proc : owaiter = q => ready'[q]
    BY <1>0, <2>1, WakeFacts
  <2>3. obuf' \in 0 .. Cap
    BY <2>1, BufAssumption DEF Cap
  <2>4. TtyInv'
    BY <1>0, <2>1, <2>2, <2>3, QuietStep
  <2> QED
    BY <1>0, <1>1, <2>1, <2>4, KeepsSurvives DEF TtyInv
<1>12. ASSUME NEW n \in 1 .. MaxLen, Read(p, n) PROVE TtyInv' /\ Survives
  <2>1. n \in Nat \ {0}
    BY VminAssumption
  <2> QED
    BY <1>0, <1>12, <2>1, FetchStep DEF Read, User
<1>13. CASE ReadResume(p)
  <2>1. /\ fault = "no" /\ ready[p] /\ pc[p] = "read" /\ p # Idle /\ left[p] \in Nat \ {0}
        /\ junk' \in BOOLEAN
        /\ UNCHANGED <<canon, obuf, stop, owaiter, reqlen, then, cnt, typed, late, oshare>>
    BY <1>0, <1>13 DEF ReadResume, SleepInv
  <2>2. CASE Fetch(p, left[p], \E q \in Proc \ {p} : pc[q] = "read")
    BY <1>0, <2>1, <2>2, FetchStep
  <2>3. CASE /\ pc' = [pc EXCEPT ![p] = "user"]
             /\ left' = [left EXCEPT ![p] = 0]
             /\ UNCHANGED <<ibuf, given, iwaiter, ready, fault, ishare>>
    <3>1. pc' \in [Proc -> Place] /\ left' \in [Proc -> Nat]
      BY <1>0, <2>3 DEF Place
    <3>2. TypeOK'
      BY <1>0, <2>1, <2>3, <3>1, TypeFacts, TypeNext
    <3>3. InOrder'
      BY <1>0, <2>1, <2>3, OrderNext
    <3>a. LateInv'
      BY <1>0, <2>1, <2>3 DEF LateInv, Waits, Out
    <3>4. \A q \in Proc : pc'[q] = IF q = p THEN "user" ELSE pc[q]
      BY <1>0, <2>3
    <3>5. SleepInv'
      <4>1. \A q \in Proc : pc'[q] = "read" => left'[q] > 0
        BY <1>0, <2>3, <3>4 DEF SleepInv
      <4> QED
        BY <1>0, <2>1, <2>3, <3>4, <4>1, IdleAssumption DEF SleepInv, Cap
    <3>6. NoSleepOnLine'
      BY <2>3, <3>4, LineFacts, LineNext DEF TtyInv
    <3>7. NoSleepWhileFlowing'
      BY <2>1, <2>3, <3>4 DEF NoSleepWhileFlowing, TtyInv
    <3>8. EchoHang'
      BY <2>1, <2>3 DEF EchoHang
    <3> QED
      BY <1>0, <1>1, <2>3, <3>2, <3>3, <3>a, <3>5, <3>6, <3>7, <3>8, KeepsSurvives DEF TtyInv
  <2> QED
    BY <1>13, <2>2, <2>3 DEF ReadResume
<1>14. ASSUME NEW n \in 1 .. MaxLen, ReadRaw(p, n) PROVE TtyInv' /\ Survives
  <2>1. n \in 0 .. MaxLen /\ 0 \in 0 .. VMIN
    BY VminAssumption
  <2> QED
    BY <1>0, <1>14, <2>1, FetchRawStep DEF ReadRaw, User
<1>15. CASE ReadRawResume(p)
  <2>1. p # Idle
    BY <1>0, <1>15 DEF ReadRawResume, SleepInv
  <2> QED
    BY <1>0, <1>15, <2>1, FetchRawStep DEF ReadRawResume
<1>16. CASE Tcsets(p)
  <2>1. TtyInv'
    BY <1>0, <1>16, QuietStep DEF Tcsets, User
  <2>2. ibuf' = ibuf
    BY <1>16 DEF Tcsets
  <2> QED
    BY <1>0, <1>1, <2>1, <2>2, KeepsSurvives DEF TtyInv
<1> QED
  BY <1>2, <1>3, <1>4, <1>5, <1>6, <1>7, <1>8, <1>9, <1>10, <1>11, <1>12, <1>13, <1>14, <1>15, <1>16

-----------------------------------------------------------------------------
(* The theorems                                                              *)

\* The inductive invariant holds in every reachable state.
THEOREM TtyInvHolds == Spec => []TtyInv
<1>1. Init => TtyInv
  <2> SUFFICES ASSUME Init PROVE TtyInv
    OBVIOUS
  <2>1. ibuf = <<>> /\ Len(ibuf) = 0 /\ ibuf \in Buf /\ Cap \in Nat
    BY EmptySeq, BufAssumption DEF Init, Buf, Cap
  <2>2. TypeOK
    <3>1. /\ obuf \in 0 .. Cap /\ reqlen \in 0 .. MaxLen /\ left \in [Proc -> Nat]
          /\ cnt \in [Proc -> 0 .. VMIN] /\ typed \in Nat /\ given \in SUBSET Nat /\ late \in SUBSET Nat
      BY <2>1, VminAssumption DEF Init
    <3>2. /\ pc \in [Proc -> Place] /\ ready \in [Proc -> BOOLEAN] /\ then \in [Proc -> After]
          /\ canon \in BOOLEAN /\ stop \in BOOLEAN /\ junk \in BOOLEAN
          /\ ishare \in BOOLEAN /\ oshare \in BOOLEAN /\ fault \in {"no", "unblock", "hung"}
          /\ iwaiter \in Proc \cup {None} /\ owaiter \in Proc \cup {None}
      BY DEF Init, Place, After, NoMore
    <3> QED
      BY <2>1, <3>1, <3>2, TypeFacts
  <2>3. InOrder /\ LateInv /\ NoSleepOnLine
    BY <2>1 DEF Init, InOrder, Numbers, LateInv, NoMore, NoSleepOnLine
  <2>4. SleepInv /\ NoSleepWhileFlowing /\ EchoHang
    BY IdleAssumption DEF Init, SleepInv, NoSleepWhileFlowing, EchoHang
  <2> QED
    BY <2>2, <2>3, <2>4 DEF TtyInv
<1>2. TtyInv /\ [Next]_vars => TtyInv'
  <2> SUFFICES ASSUME TtyInv, [Next]_vars PROVE TtyInv'
    OBVIOUS
  <2>1. CASE Next
    BY <2>1, ActionStep
  <2>2. CASE UNCHANGED vars
    <3>1. InOrder' /\ LateInv'
      BY <2>2 DEF vars, TtyInv, InOrder, Numbers, LateInv, Waits, Out
    <3>2. TypeOK' /\ SleepInv'
      BY <2>2 DEF vars, TtyInv, TypeOK, SleepInv
    <3>3. NoSleepOnLine' /\ NoSleepWhileFlowing' /\ EchoHang'
      BY <2>2 DEF vars, TtyInv, NoSleepOnLine, NoSleepWhileFlowing, EchoHang
    <3> QED
      BY <3>1, <3>2, <3>3 DEF TtyInv
  <2> QED
    BY <2>1, <2>2
<1> QED
  BY <1>1, <1>2, PTL DEF Spec

\* Every variable keeps its type: the buffers never hold more than TTY_BUFSIZ - 1
\* characters and a sleeping raw reader has never got more than VMIN.
THEOREM TypeCorrect == Spec => []TypeOK
<1>1. TtyInv => TypeOK
  BY DEF TtyInv
<1> QED
  BY <1>1, TtyInvHolds, PTL

\* Whoever reads and in whichever mode, no character is handed over twice, and only a
\* newline whose echo blocked comes behind what was typed after it, over iputc, tty_buf_mark, tty_buf_erase,
\* tty_buf_kill and both fetch loops.
THEOREM InOrderHolds == Spec => []InOrder
<1>1. TtyInv => InOrder
  BY DEF TtyInv
<1> QED
  BY <1>1, TtyInvHolds, PTL

\* A process asleep in tty_fetch, as long as no two of them slept there at once, is the
\* one tdeliver wakes, and no line is complete.
THEOREM NoSleepOnLineHolds == Spec => []NoSleepOnLine
<1>1. TtyInv => NoSleepOnLine
  BY DEF TtyInv
<1> QED
  BY <1>1, TtyInvHolds, PTL

\* A process blocked in tputc, as long as no two of them were at once, is the one the
\* next VSTART wakes, and output is stopped.
THEOREM NoSleepWhileFlowingHolds == Spec => []NoSleepWhileFlowing
<1>1. TtyInv => NoSleepWhileFlowing
  BY DEF TtyInv
<1> QED
  BY <1>1, TtyInvHolds, PTL

\* Nothing is left to run only if an echo has put the idle task to sleep in tputc.
THEOREM EchoHangHolds == Spec => []EchoHang
<1>1. TtyInv => EchoHang
  BY DEF TtyInv
<1> QED
  BY <1>1, TtyInvHolds, PTL

\* The characters of a delivered line leave the buffer only into a reader or with
\* tty_buf_kill of the whole buffer: no later key erases them.
THEOREM DeliveredSurvivesHolds == Spec => DeliveredSurvives
<1>1. TtyInv /\ [Next]_vars =>
        [\/ Delivered \subseteq Numbers(ibuf') \cup given'
         \/ \E p \in Proc : KeyKill(p)]_vars
  BY ActionStep DEF Survives
<1> QED
  BY <1>1, TtyInvHolds, PTL DEF Spec, DeliveredSurvives
=============================================================================
