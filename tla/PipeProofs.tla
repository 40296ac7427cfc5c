----------------------------- MODULE PipeProofs -----------------------------
(***************************************************************************)
(* Proofs about pipe.c and fifo.c for any size of the ring and of size_t,  *)
(* any number of readers and writers and any sizes of their requests.      *)
(* First arithmetic: a slot of the ring is a counter modulo SIZ, and the   *)
(* counters wrap around at WRAP.  Then what fifo_read and fifo_write do    *)
(* to the bytes, what a pass of the loops of pipe_read and pipe_write does *)
(* to the invariant, and that pipes implement Channel.                     *)
(***************************************************************************)
EXTENDS Pipe, SequenceTheorems, TLAPS

USE FifoAssumption, LabelsAssumption, MaxReqAssumption

-----------------------------------------------------------------------------
(* Arithmetic                                                                *)

\* Division with remainder.
LEMMA DivMod ==
    ASSUME NEW a \in Int, NEW m \in Nat \ {0}
    PROVE  /\ a % m \in 0 .. m - 1 /\ a \div m \in Int
           /\ a = m * (a \div m) + (a % m)
OBVIOUS

\* The remainder of what is at most two moduli out of range.
LEMMA ModIs ==
    ASSUME NEW m \in Nat \ {0}, NEW r \in 0 .. m - 1
    PROVE  r % m = r /\ (r + m) % m = r /\ (r - m) % m = r /\ (r - 2 * m) % m = r
OBVIOUS

\* A multiple of m that is smaller than m is 0.
LEMMA MultipleSmall ==
    ASSUME NEW m \in Nat \ {0}, NEW d \in Int, m * d < m, m * d > -m
    PROVE  d = 0
OBVIOUS

\* A remainder in range is the remainder.
LEMMA ModUnique ==
    ASSUME NEW m \in Nat \ {0}, NEW a \in Int, NEW r \in 0 .. m - 1,
           NEW d \in Int, a = m * d + r
    PROVE  a % m = r
OBVIOUS

\* Adding under the modulus.
LEMMA ModAdd ==
    ASSUME NEW m \in Nat \ {0}, NEW a \in Int, NEW b \in Int
    PROVE  ((a % m) + b) % m = (a + b) % m
<1> DEFINE q == a \div m
           s == a + b
           d == s \div m
           r == s % m
           e == (a % m) + b
<1>1. q \in Int /\ a % m \in Int /\ a = m * q + (a % m)
  BY DivMod
<1>2. s \in Int
  OBVIOUS
<1>3. d \in Int /\ r \in 0 .. m - 1 /\ s = m * d + r
  BY <1>2, DivMod
<1>4. e \in Int /\ e = m * (d - q) + r /\ d - q \in Int
  <2>1. ASSUME NEW x \in Int, NEW y \in Int, NEW z \in Int, NEW u \in Int,
               a = m * x + y, a + b = m * z + u
        PROVE  y + b = m * (z - x) + u
    BY <2>1
  <2> QED
    BY <1>1, <1>3, <2>1
<1> HIDE DEF q, d, r, e
<1>5. e % m = r
  BY <1>3, <1>4, ModUnique
<1> QED
  BY <1>5 DEF e, r

\* Numbers that differ by a multiple of m have the same remainder.
LEMMA ModSame ==
    ASSUME NEW m \in Nat \ {0}, NEW a \in Int, NEW b \in Int,
           NEW d \in Int, a = m * d + b
    PROVE  a % m = b % m
<1> DEFINE q == b \div m
           r == b % m
<1>1. q \in Int /\ r \in 0 .. m - 1 /\ b = m * q + r
  BY DivMod
<1> HIDE DEF q, r
<1>2. a = m * (d + q) + r /\ d + q \in Int
  BY <1>1
<1>3. a % m = r
  BY <1>1, <1>2, ModUnique
<1> QED
  BY <1>3 DEF r

\* The moduli are not 0.
LEMMA Moduli == WRAP \in Nat \ {0} /\ LABELS \in Nat \ {0} /\ SIZ \in Nat \ {0}
OBVIOUS

-----------------------------------------------------------------------------
(* The ring                                                                  *)

\* The slot of a counter that has advanced.
LEMMA SlotShift ==
    ASSUME NEW c \in Int, NEW k \in Int, NEW i \in Int
    PROVE  Slot((c + k) % WRAP, i) = Slot(c, k + i)
<1>1. \A a, b \in Int : ((a % WRAP) + b) % WRAP = (a + b) % WRAP
  BY ModAdd, Moduli
<1>2. (c + k) + i = c + (k + i) /\ c + k \in Int
  OBVIOUS
<1>3. (((c + k) % WRAP) + i) % WRAP = (c + (k + i)) % WRAP
  BY <1>1, <1>2, Zenon
<1> QED
  BY <1>3, Zenon DEF Slot

\* WRAP is a multiple of SIZ, so the two moduli are one.
LEMMA SlotIs ==
    ASSUME NEW c \in Int, NEW i \in Int
    PROVE  Slot(c, i) = (c + i) % SIZ
<1> DEFINE a == c + i
           b == a % WRAP
           q == a \div WRAP
           w == WRAP \div SIZ
<1>1. a \in Int
  OBVIOUS
<1> HIDE DEF a
<1>2. b \in Int /\ q \in Int /\ a = WRAP * q + b
  BY <1>1, DivMod, Moduli
<1>3. w \in Int /\ WRAP = SIZ * w
  <2>1. WRAP = SIZ * w + (WRAP % SIZ) /\ w \in Int
    BY DivMod
  <2> QED
    BY <2>1
<1> HIDE DEF b, q, w
<1>4. a = SIZ * (w * q) + b /\ w * q \in Int
  <2>1. ASSUME NEW x \in Int, NEW y \in Int, NEW z \in Int, NEW u \in Int,
               a = x * y + b, x = z * u
        PROVE  a = z * (u * y) + b
    BY <2>1
  <2> QED
    BY <1>1, <1>2, <1>3, <2>1
<1>5. a % SIZ = b % SIZ
  <2>1. PICK d \in Int : a = SIZ * d + b
    BY <1>4
  <2>2. b \in Int
    BY <1>2
  <2>3. SIZ \in Nat \ {0}
    OBVIOUS
  <2> HIDE FifoAssumption, LabelsAssumption, MaxReqAssumption
  <2> QED
    BY <1>1, <2>1, <2>2, <2>3, ModSame, Zenon
<1> QED
  BY <1>5 DEF Slot, a, b

\* A slot is one of the ring's.
LEMMA SlotRange ==
    ASSUME NEW c \in Int, NEW i \in Int
    PROVE  Slot(c, i) \in 0 .. SIZ - 1
<1>1. \A a \in Int : a % SIZ \in 0 .. SIZ - 1
  BY DivMod
<1>2. c + i \in Int
  OBVIOUS
<1> QED
  BY <1>1, <1>2, SlotIs, Zenon

\* After SIZ bytes the slots repeat.
LEMMA SlotPeriod ==
    ASSUME NEW c \in Int, NEW i \in Int
    PROVE  Slot(c, SIZ + i) = Slot(c, i)
<1> DEFINE a == c + (SIZ + i)
           b == c + i
<1>1. a \in Int /\ b \in Int /\ a = SIZ * 1 + b
  OBVIOUS
<1>2. Slot(c, SIZ + i) = a % SIZ /\ Slot(c, i) = b % SIZ
  BY SlotIs
<1> HIDE DEF a, b
<1>3. a % SIZ = b % SIZ
  <2>1. 1 \in Int
    OBVIOUS
  <2> QED
    BY <1>1, <2>1, ModSame, Moduli, Zenon
<1> QED
  BY <1>2, <1>3

\* Up to SIZ bytes in a row have different slots.
LEMMA SlotInjective ==
    ASSUME NEW c \in Int, NEW i \in 0 .. SIZ - 1, NEW j \in 0 .. SIZ - 1,
           Slot(c, i) = Slot(c, j)
    PROVE  i = j
<1> DEFINE a == c + i
           b == c + j
           d == a \div SIZ
           e == b \div SIZ
           r == a % SIZ
<1>1. r = b % SIZ
  BY SlotIs
<1>2. a \in Int /\ b \in Int /\ a - b = i - j
  OBVIOUS
<1> HIDE DEF a, b
<1>3. a = SIZ * d + r /\ d \in Int /\ r \in Int
  BY <1>2, DivMod
<1>4. b = SIZ * e + r /\ e \in Int
  BY <1>1, <1>2, DivMod
<1> HIDE DEF d, e, r
<1>5. i - j = SIZ * (d - e) /\ d - e \in Int
  BY <1>2, <1>3, <1>4
<1>6. d - e = 0
  <2>1. SIZ * (d - e) < SIZ /\ SIZ * (d - e) > -SIZ
    BY <1>5
  <2> QED
    BY <1>5, <2>1, MultipleSmall
<1> QED
  BY <1>5, <1>6

\* What Count says about the counters.
LEMMA CountIs ==
    ASSUME TypeOK, Count <= SIZ
    PROVE  /\ Count \in 0 .. SIZ
           /\ tail = (head + SIZ + Count) % WRAP
           /\ Room = SIZ - Count
<1> DEFINE a == tail - SIZ - head
           q == a \div WRAP
<1>1. head \in Int /\ tail \in 0 .. WRAP - 1 /\ a \in Int
  BY DEF TypeOK
<1> HIDE DEF a
<1>2. Count \in 0 .. WRAP - 1 /\ q \in Int /\ a = WRAP * q + Count
  <2>1. Count = a % WRAP
    BY DEF Count, a
  <2> QED
    BY <1>1, <2>1, DivMod, Moduli
<1> HIDE DEF q
<1>3. head + SIZ + Count = WRAP * (-q) + tail /\ -q \in Int
  BY <1>1, <1>2 DEF a
<1>4. tail = (head + SIZ + Count) % WRAP
  <2>1. head + SIZ + Count \in Int
    BY <1>1, <1>2
  <2> QED
    BY <1>1, <1>2, <1>3, <2>1, ModUnique, Moduli
<1>5. SIZ - Count \in 0 .. WRAP - 1
  BY <1>2
<1>6. Room = SIZ - Count
  BY <1>5, ModIs, Moduli DEF Room
<1> QED
  BY <1>2, <1>4, <1>6

\* fifo_write puts its i-th byte behind the bytes that are there.
LEMMA TailSlot ==
    ASSUME TypeOK, Count <= SIZ, NEW i \in Int
    PROVE  Slot(tail, i) = Slot(head, Count + i)
<1>1. head \in Int /\ Count \in Int /\ tail = (head + (SIZ + Count)) % WRAP
  <2>1. head \in Int /\ Count \in Int
    BY CountIs DEF TypeOK
  <2>2. head + SIZ + Count = head + (SIZ + Count)
    BY <2>1
  <2> QED
    BY <2>1, <2>2, CountIs
<1>2. SIZ + Count \in Int /\ (SIZ + Count) + i = SIZ + (Count + i) /\ Count + i \in Int
  BY <1>1
<1>3. Slot(tail, i) = Slot(head, (SIZ + Count) + i)
  BY <1>1, <1>2, SlotShift
<1> QED
  BY <1>1, <1>2, <1>3, SlotPeriod

\* Counting again after the difference of the counters has changed by k.
LEMMA Recount ==
    ASSUME NEW a \in Int, NEW b \in Int, NEW k \in Int, NEW d \in Int,
           b = WRAP * d + (a + k), (a % WRAP) + k \in 0 .. WRAP - 1
    PROVE  b % WRAP = (a % WRAP) + k
<1> DEFINE q == a \div WRAP
           r == a % WRAP
<1>1. q \in Int /\ r \in Int /\ a = WRAP * q + r
  <2>1. q \in Int /\ r \in 0 .. WRAP - 1 /\ a = WRAP * q + r
    BY DivMod, Moduli, Zenon
  <2> HIDE DEF q, r
  <2> QED
    BY <2>1
<1>2. r + k \in 0 .. WRAP - 1
  OBVIOUS
<1> HIDE DEF q, r
<1>3. b = WRAP * (d + q) + (r + k) /\ d + q \in Int
  BY <1>1
<1>4. b % WRAP = r + k
  BY <1>2, <1>3, ModUnique, Moduli
<1> QED
  BY <1>4 DEF r

\* The counters after k bytes have been read.
LEMMA CountRead ==
    ASSUME TypeOK, Count <= SIZ, NEW k \in 0 .. Count,
           head' = (head + k) % WRAP, tail' = tail
    PROVE  Count' = Count - k
<1> DEFINE a == tail - SIZ - head
           b == tail - SIZ - head'
           q == (head + k) \div WRAP
<1>1. Count \in 0 .. SIZ /\ head \in Int /\ tail \in Int /\ k \in Int
  BY CountIs DEF TypeOK
<1>2. head + k = WRAP * q + head' /\ q \in Int /\ head' \in Int
  <2>1. head + k \in Int
    BY <1>1
  <2> QED
    <3>1. head + k = WRAP * q + head' /\ q \in Int /\ head' \in 0 .. WRAP - 1
      BY <2>1, DivMod, Moduli, Zenon
    <3> HIDE DEF q
    <3> QED
      BY <3>1
<1> HIDE DEF q
<1>3. a \in Int /\ b \in Int /\ -k \in Int /\ b = WRAP * q + (a + (-k))
  BY <1>1, <1>2
<1>4. Count = a % WRAP /\ Count' = b % WRAP
  BY DEF Count
<1>5. Count + (-k) \in 0 .. WRAP - 1 /\ Count + (-k) = Count - k
  BY <1>1
<1> HIDE DEF a, b
<1>6. b % WRAP = (a % WRAP) + (-k)
  BY <1>2, <1>3, <1>4, <1>5, Recount
<1> QED
  BY <1>4, <1>5, <1>6

\* The counters after k bytes have been written.
LEMMA CountWrite ==
    ASSUME TypeOK, Count <= SIZ, NEW k \in 0 .. SIZ - Count,
           tail' = (tail + k) % WRAP, head' = head
    PROVE  Count' = Count + k
<1> DEFINE a == tail - SIZ - head
           b == tail' - SIZ - head
           q == (tail + k) \div WRAP
<1>1. Count \in 0 .. SIZ /\ head \in Int /\ tail \in Int /\ k \in 0 .. SIZ - Count
  BY CountIs DEF TypeOK
<1>2. tail + k = WRAP * q + tail' /\ q \in Int /\ tail' \in Int
  <2>1. tail + k \in Int
    BY <1>1
  <2> QED
    <3>1. tail + k = WRAP * q + tail' /\ q \in Int /\ tail' \in 0 .. WRAP - 1
      BY <2>1, DivMod, Moduli, Zenon
    <3> HIDE DEF q
    <3> QED
      BY <3>1
<1> HIDE DEF q
<1>3. a \in Int /\ b \in Int /\ -q \in Int /\ b = WRAP * (-q) + (a + k)
  BY <1>1, <1>2
<1>4. Count = a % WRAP /\ Count' = b % WRAP
  BY DEF Count
<1>5. Count + k \in 0 .. WRAP - 1
  BY <1>1
<1> HIDE DEF a, b
<1>6. b % WRAP = (a % WRAP) + k
  <2>1. k \in Int
    BY <1>1
  <2> QED
    BY <1>3, <1>4, <1>5, <2>1, Recount, Zenon
<1> QED
  BY <1>4, <1>6

-----------------------------------------------------------------------------
(* The bytes in the ring                                                     *)

Label == 0 .. LABELS - 1

\* The ring holds labels.
LEMMA ContentType ==
    ASSUME TypeOK, Count <= SIZ
    PROVE  /\ Content \in [1 .. Count -> Label]
           /\ \A i \in 1 .. Count : Content[i] = buf[Slot(head, i - 1)]
<1>1. head \in Int /\ Count \in 0 .. SIZ /\ buf \in [0 .. SIZ - 1 -> Label]
  BY CountIs DEF TypeOK, Label
<1>2. \A i \in 1 .. Count : Slot(head, i - 1) \in 0 .. SIZ - 1
  <2>1. \A i \in 1 .. Count : i - 1 \in Int
    BY <1>1
  <2>2. head \in Int
    BY <1>1
  <2> QED
    BY <2>1, <2>2, SlotRange, Zenon
<1> QED
  BY <1>1, <1>2 DEF Content

\* fifo_read takes the first k bytes away.
LEMMA ReadContent ==
    ASSUME TypeOK, Count <= SIZ, NEW k \in 0 .. Count, FifoRead(k)
    PROVE  /\ head' \in 0 .. WRAP - 1
           /\ Count' = Count - k
           /\ \A i \in 1 .. Count' : Content'[i] = Content[k + i]
           /\ got' \in [1 .. k -> Label]
           /\ \A i \in 1 .. k : got'[i] = Content[i]
<1>1. head \in 0 .. WRAP - 1 /\ head \in Int /\ Count \in 0 .. SIZ /\ k \in Int
  BY CountIs DEF TypeOK
<1>2. Count' = Count - k
  BY CountRead DEF FifoRead
<1>3. head' \in 0 .. WRAP - 1
  <2>1. head + k \in Int
    BY <1>1
  <2> QED
    BY <2>1, DivMod, Moduli, Zenon DEF FifoRead
<1>4. ASSUME NEW i \in 1 .. Count - k
      PROVE  Slot(head', i - 1) = Slot(head, (k + i) - 1) /\ k + i \in 1 .. Count
  <2>1. i - 1 \in Int /\ k + (i - 1) = (k + i) - 1 /\ k + i \in 1 .. Count
    BY <1>1
  <2>2. Slot(head', i - 1) = Slot(head, k + (i - 1))
    BY <1>1, <2>1, SlotShift DEF FifoRead
  <2> QED
    BY <2>1, <2>2
<1>5. \A i \in 1 .. Count' : Content'[i] = buf'[Slot(head', i - 1)]
  BY DEF Content
<1>6. \A i \in 1 .. Count' : Content'[i] = Content[k + i]
  BY <1>2, <1>4, <1>5, ContentType DEF FifoRead
<1>7. \A i \in 1 .. k : i \in 1 .. Count
  BY <1>1
<1>8. got' = [i \in 1 .. k |-> Content[i]]
  BY <1>7, ContentType DEF FifoRead
<1> QED
  BY <1>2, <1>3, <1>6, <1>7, <1>8, ContentType

\* fifo_write puts its m-th byte into the slot of that byte.
LEMMA WriteSlots ==
    ASSUME TypeOK, Count <= SIZ, NEW k \in 0 .. SIZ - Count, FifoWrite(k)
    PROVE  /\ buf' \in [0 .. SIZ - 1 -> Label]
           /\ \A m \in 0 .. k - 1 : buf'[Slot(head, Count + m)] = (wnext + m) % LABELS
           /\ \A m \in 0 .. Count - 1 : buf'[Slot(head, m)] = buf[Slot(head, m)]
<1> DEFINE hit(j) == \E i \in 0 .. k - 1 : Slot(tail, i) = j
           at(j) == CHOOSE i \in 0 .. k - 1 : Slot(tail, i) = j
<1>1. /\ head \in Int /\ tail \in Int /\ Count \in 0 .. SIZ /\ k \in 0 .. SIZ
      /\ wnext \in Int /\ buf \in [0 .. SIZ - 1 -> Label]
  BY CountIs DEF TypeOK, Label
<1>2. buf' = [j \in 0 .. SIZ - 1 |-> IF hit(j) THEN (wnext + at(j)) % LABELS ELSE buf[j]]
  BY DEF FifoWrite
<1>3. \A j : hit(j) => at(j) \in 0 .. k - 1 /\ Slot(tail, at(j)) = j
  OBVIOUS
<1>4. \A m \in 0 .. k - 1 : Slot(tail, m) = Slot(head, Count + m)
  BY <1>1, TailSlot
<1>5. \A m \in 0 .. SIZ - 1 : Slot(head, m) \in 0 .. SIZ - 1
  <2>1. \A m \in 0 .. SIZ - 1 : m \in Int
    OBVIOUS
  <2>2. head \in Int
    BY <1>1
  <2> QED
    BY <2>1, <2>2, SlotRange, Zenon
<1>6. \A m, n \in 0 .. SIZ - 1 : Slot(head, m) = Slot(head, n) => m = n
  BY <1>1, SlotInjective
<1>7. \A m \in 0 .. k - 1 : Count + m \in 0 .. SIZ - 1
  BY <1>1
<1> HIDE DEF at
<1>8. buf' \in [0 .. SIZ - 1 -> Label]
  <2>1. ASSUME NEW j \in 0 .. SIZ - 1, hit(j)
        PROVE  (wnext + at(j)) % LABELS \in Label
    <3>1. wnext + at(j) \in Int
      BY <1>1, <1>3, <2>1
    <3> QED
      BY <3>1, DivMod, Moduli, Zenon DEF Label
  <2> QED
    BY <1>1, <1>2, <2>1
<1>9. ASSUME NEW m \in 0 .. k - 1
      PROVE  buf'[Slot(head, Count + m)] = (wnext + m) % LABELS
  <2> DEFINE j == Slot(head, Count + m)
  <2>1. j \in 0 .. SIZ - 1 /\ hit(j)
    BY <1>4, <1>5, <1>7
  <2>2. at(j) \in 0 .. k - 1 /\ Slot(head, Count + at(j)) = j
    BY <1>3, <1>4, <2>1
  <2>3. Count + at(j) = Count + m
    BY <1>6, <1>7, <2>2
  <2>4. at(j) = m
    BY <1>1, <2>2, <2>3
  <2> QED
    BY <1>2, <2>1, <2>4
<1>10. ASSUME NEW m \in 0 .. Count - 1
       PROVE  buf'[Slot(head, m)] = buf[Slot(head, m)]
  <2>1. m \in 0 .. SIZ - 1
    BY <1>1
  <2>2. ASSUME NEW i \in 0 .. k - 1, Slot(tail, i) = Slot(head, m) PROVE FALSE
    <3>1. Count + i = m
      BY <1>4, <1>6, <1>7, <2>1, <2>2
    <3> QED
      BY <1>1, <3>1
  <2> QED
    BY <1>2, <1>5, <2>1, <2>2
<1> QED
  BY <1>8, <1>9, <1>10

\* fifo_write leaves the bytes that are there and puts k more behind them.
LEMMA WriteContent ==
    ASSUME TypeOK, Count <= SIZ, NEW k \in 0 .. SIZ - Count, FifoWrite(k)
    PROVE  /\ tail' \in 0 .. WRAP - 1
           /\ wnext' \in Label
           /\ Count' = Count + k
           /\ \A i \in 1 .. Count : Content'[i] = Content[i]
           /\ \A m \in 0 .. k - 1 : Content'[Count + 1 + m] = (wnext + m) % LABELS
<1>1. /\ head \in Int /\ tail \in Int /\ Count \in 0 .. SIZ /\ k \in 0 .. SIZ /\ wnext \in Int
      /\ head' = head
  BY CountIs DEF TypeOK, FifoWrite
<1>2. Count' = Count + k
  BY CountWrite DEF FifoWrite
<1>3. tail' \in 0 .. WRAP - 1 /\ wnext' \in Label
  <2>1. tail + k \in Int /\ wnext + k \in Int
    BY <1>1
  <2> QED
    BY <2>1, DivMod, Moduli, Zenon DEF FifoWrite, Label
<1>4. \A i \in 1 .. Count + k : Content'[i] = buf'[Slot(head, i - 1)]
  BY <1>1, <1>2 DEF Content
<1>5. ASSUME NEW i \in 1 .. Count PROVE Content'[i] = Content[i]
  <2>1. i \in 1 .. Count + k /\ i - 1 \in 0 .. Count - 1
    BY <1>1
  <2> QED
    BY <1>4, <2>1, ContentType, WriteSlots
<1>6. ASSUME NEW m \in 0 .. k - 1 PROVE Content'[Count + 1 + m] = (wnext + m) % LABELS
  <2>1. Count + 1 + m \in 1 .. Count + k /\ (Count + 1 + m) - 1 = Count + m
    BY <1>1
  <2> QED
    BY <1>4, <2>1, WriteSlots
<1> QED
  BY <1>2, <1>3, <1>5, <1>6

-----------------------------------------------------------------------------
(* The invariant                                                             *)

\* A process is inside a call that goes on exactly when it is the registered one.
WaitInv ==
    ~fault => /\ \A p \in Readers : siz[p] > 0 <=> rd_waiter = p
              /\ \A p \in Writers : siz[p] > 0 <=> wr_waiter = p

PipeInv == TypeOK /\ StreamIntact /\ WaitInv /\ NoSleepOnWork /\ AssertMeansSharing

\* fifo_read keeps the bytes that remain in step with the labels.
LEMMA ReadStream ==
    ASSUME TypeOK, StreamIntact, NEW k \in 0 .. Count, FifoRead(k)
    PROVE  StreamIntact'
<1>1. Count \in 0 .. SIZ /\ Count' = Count - k /\ wnext' = wnext /\ wnext \in Int
  <2>1. Count <= SIZ
    BY DEF StreamIntact
  <2>2. Count \in 0 .. SIZ /\ wnext \in Int /\ wnext' = wnext
    BY <2>1, CountIs DEF TypeOK, FifoRead
  <2> QED
    BY <2>1, <2>2, ReadContent
<1>2. ASSUME NEW i \in 1 .. Count'
      PROVE  Content'[i] = (wnext' - Count' + i - 1) % LABELS
  <2>1. k + i \in 1 .. Count /\ wnext - Count + (k + i) - 1 = wnext' - Count' + i - 1
    BY <1>1
  <2> QED
    BY <2>1, ReadContent DEF StreamIntact
<1> QED
  BY <1>1, <1>2 DEF StreamIntact

\* fifo_write labels the bytes it adds and leaves the others.
LEMMA WriteStream ==
    ASSUME TypeOK, StreamIntact, NEW k \in 0 .. SIZ - Count, FifoWrite(k)
    PROVE  StreamIntact'
<1>1. Count \in 0 .. SIZ /\ Count' = Count + k /\ wnext \in Int
  <2>1. Count <= SIZ
    BY DEF StreamIntact
  <2>2. Count \in 0 .. SIZ /\ wnext \in Int
    BY <2>1, CountIs DEF TypeOK
  <2> QED
    BY <2>1, <2>2, WriteContent
<1>2. ASSUME NEW i \in 1 .. Count'
      PROVE  Content'[i] = (wnext - Count + i - 1) % LABELS
  <2>1. CASE i <= Count
    <3>1. i \in 1 .. Count
      BY <1>1, <2>1
    <3> QED
      BY <3>1, WriteContent DEF StreamIntact
  <2>2. CASE i > Count
    <3> DEFINE m == i - Count - 1
    <3>1. m \in 0 .. k - 1 /\ Count + 1 + m = i /\ wnext + m = wnext - Count + i - 1
      BY <1>1, <2>2
    <3> HIDE DEF m
    <3> QED
      BY <3>1, WriteContent DEF StreamIntact
  <2> QED
    BY <1>1, <2>1, <2>2
<1>3. ASSUME NEW i \in 1 .. Count'
      PROVE  (wnext' - Count' + i - 1) % LABELS = (wnext - Count + i - 1) % LABELS
  <2> DEFINE b == - Count' + i - 1
             w == wnext + k
  <2>1. b \in Int /\ w \in Int /\ w + b = wnext - Count + i - 1
    BY <1>1
  <2>2. wnext' = w % LABELS /\ wnext' \in Int
    BY WriteContent DEF FifoWrite, StreamIntact, Label
  <2>3. wnext' - Count' + i - 1 = wnext' + b
    BY <1>1, <2>2
  <2> HIDE DEF b, w
  <2>4. (wnext' + b) % LABELS = (w + b) % LABELS
    BY <2>1, <2>2, ModAdd, Moduli, Zenon
  <2> QED
    BY <2>1, <2>3, <2>4
<1> QED
  BY <1>1, <1>2, <1>3 DEF StreamIntact

\* The number of bytes a pass of the loop copies.
LEMMA ReadAmount ==
    ASSUME TypeOK, Count <= SIZ, NEW n \in 0 .. MaxReq
    PROVE  /\ Min(n, Count) \in 0 .. Count /\ n - Min(n, Count) \in 0 .. MaxReq
           /\ Min(n, Count) < n => Min(n, Count) = Count
           /\ Min(n, Count) <= n
BY CountIs DEF Min

\* The same for pipe_write.
LEMMA WriteAmount ==
    ASSUME TypeOK, Count <= SIZ, NEW n \in 0 .. MaxReq
    PROVE  /\ Min(n, Room) \in 0 .. SIZ - Count /\ n - Min(n, Room) \in 0 .. MaxReq
           /\ Min(n, Room) < n => Min(n, Room) = SIZ - Count
           /\ Min(n, Room) <= n
BY CountIs DEF Min

\* A function on 1 .. k is a sequence of length k.
LEMMA FunIsSeq ==
    ASSUME NEW S, NEW k \in Nat, NEW f \in [1 .. k -> S]
    PROVE  f \in Seq(S) /\ Len(f) = k
OBVIOUS

\* One pass of the loop in pipe_read by a process that is not registered, or whose
\* registration block_as has just cleared.
LEMMA ReadPassStep ==
    ASSUME PipeInv, ~fault, NEW p \in Readers, NEW n \in 0 .. MaxReq, NEW rdw,
           ready[p], ReadPass(p, n, rdw),
           \/ siz[p] = 0 /\ rdw = rd_waiter
           \/ siz[p] > 0 /\ rdw = None
    PROVE  PipeInv'
<1> USE ProcAssumption
<1> DEFINE k == Min(n, Count)
           woken == Wake(wr_waiter, ready)
<1>1. /\ TypeOK /\ StreamIntact /\ Count <= SIZ /\ Count \in 0 .. SIZ
      /\ k \in 0 .. Count /\ n - k \in 0 .. MaxReq /\ k <= n /\ (k < n => k = Count)
  BY CountIs, ReadAmount DEF PipeInv, StreamIntact
<1>2. /\ FifoRead(k) /\ siz' = [siz EXCEPT ![p] = n - k] /\ wr_waiter' = wr_waiter
  BY DEF ReadPass
<1>3. /\ head' \in 0 .. WRAP - 1 /\ Count' = Count - k
      /\ got' \in [1 .. k -> Label]
  BY <1>1, <1>2, ReadContent
<1>4. StreamIntact'
  BY <1>1, <1>2, ReadStream
<1> HIDE DEF k
<1>5. /\ siz \in [Proc -> 0 .. MaxReq] /\ ready \in [Proc -> BOOLEAN] /\ p \in Proc
      /\ rd_waiter \in Readers \cup {None} /\ wr_waiter \in Writers \cup {None}
      /\ \A r \in Readers : siz[r] > 0 <=> rd_waiter = r
      /\ \A w \in Writers : siz[w] > 0 <=> wr_waiter = w
      /\ \A r \in Readers : ~ready[r] => rd_waiter = r /\ Count = 0
      /\ \A w \in Writers : ~ready[w] => wr_waiter = w /\ Count = SIZ
  BY <1>1 DEF PipeInv, TypeOK, WaitInv, NoSleepOnWork, Proc
<1>6. /\ woken \in [Proc -> BOOLEAN]
      /\ \A w \in Writers : woken[w]
      /\ \A r \in Readers : woken[r] = ready[r]
  BY <1>5 DEF Wake, Proc
<1> HIDE DEF woken
<1>7. /\ rdw \in Readers \cup {None} /\ rdw # p
      /\ \A r \in Readers \ {p} : siz[r] > 0 <=> rdw = r
      /\ \A r \in Readers \ {p} : ~ready[r] => rdw = r /\ Count = 0
  <2>1. CASE siz[p] = 0 /\ rdw = rd_waiter
    BY <1>5, <2>1
  <2>2. CASE siz[p] > 0 /\ rdw = None
    BY <1>5, <2>2 DEF Proc
  <2> QED
    BY <2>1, <2>2
<1>8. \/ k = n /\ ready' = woken /\ rd_waiter' = rdw /\ fault' = fault
      \/ k < n /\ rdw = None /\ ready' = [woken EXCEPT ![p] = FALSE] /\ rd_waiter' = p /\ fault' = fault
      \/ k < n /\ rdw # None /\ fault' = TRUE /\ ready' = woken /\ rd_waiter' = rdw
  BY DEF ReadPass, k, woken
<1>9. /\ ready' \in [Proc -> BOOLEAN] /\ rd_waiter' \in Readers \cup {None} /\ fault' \in BOOLEAN
      /\ siz' \in [Proc -> 0 .. MaxReq]
  <2>1. ready' \in [Proc -> BOOLEAN] /\ rd_waiter' \in Readers \cup {None}
    BY <1>5, <1>6, <1>7, <1>8
  <2>2. fault' \in BOOLEAN
    BY <1>1, <1>8 DEF TypeOK
  <2> QED
    BY <1>1, <1>2, <1>5, <2>1, <2>2
<1>10. TypeOK'
  <2>1. got' \in Seq(Label) /\ Len(got') = k /\ k <= SIZ
    BY <1>1, <1>3, FunIsSeq
  <2> QED
    BY <1>1, <1>2, <1>3, <1>9, <2>1 DEF TypeOK, FifoRead, Label
<1>11. \A r \in Readers : siz'[r] = IF r = p THEN n - k ELSE siz[r]
  BY <1>2, <1>5 DEF Proc
<1>12. \A w \in Writers : siz'[w] = siz[w]
  BY <1>2, <1>5 DEF Proc
<1>13. WaitInv'
  <2> SUFFICES ASSUME ~fault' PROVE (\A r \in Readers : siz'[r] > 0 <=> rd_waiter' = r)
                                 /\ (\A w \in Writers : siz'[w] > 0 <=> wr_waiter' = w)
    BY DEF WaitInv
  <2>1. n - k > 0 <=> k < n
    BY <1>1
  <2>2. ASSUME NEW r \in Readers PROVE siz'[r] > 0 <=> rd_waiter' = r
    BY <1>1, <1>7, <1>8, <1>11, <2>1 DEF Proc
  <2> QED
    BY <1>2, <1>5, <1>12, <2>2
<1>14. NoSleepOnWork'
  <2> SUFFICES ASSUME ~fault' PROVE (\A r \in Readers : ~ready'[r] => rd_waiter' = r /\ Count' = 0)
                                 /\ (\A w \in Writers : ~ready'[w] => wr_waiter' = w /\ Count' = SIZ)
    BY DEF NoSleepOnWork
  <2>1. ASSUME NEW w \in Writers PROVE ready'[w]
    BY <1>6, <1>8 DEF Proc
  <2>2. ASSUME NEW r \in Readers, ~ready'[r] PROVE rd_waiter' = r /\ Count' = 0
    <3>1. CASE r = p
      <4>1. k < n /\ rd_waiter' = p
        BY <1>6, <1>8, <2>2, <3>1
      <4> QED
        BY <1>1, <1>3, <3>1, <4>1
    <3>2. CASE r # p
      <4>1. ready'[r] = ready[r]
        BY <1>6, <1>8, <3>2 DEF Proc
      <4>2. rdw = r /\ Count = 0
        BY <1>7, <2>2, <3>2, <4>1
      <4>3. rd_waiter' = r
        BY <1>5, <1>8, <4>2 DEF Proc
      <4>4. k = 0
        BY <1>1, <4>2
      <4> QED
        BY <1>3, <4>2, <4>3, <4>4
    <3> QED
      BY <3>1, <3>2
  <2> QED
    BY <2>1, <2>2
<1>15. AssertMeansSharing'
  <2> SUFFICES ASSUME fault' PROVE \E q, r \in Readers : q # r /\ siz'[q] > 0 /\ siz'[r] > 0
    BY DEF AssertMeansSharing
  <2>1. k < n /\ rdw # None
    BY <1>8
  <2>2. rdw \in Readers /\ rdw # p /\ siz[rdw] > 0
    BY <1>7, <2>1
  <2>3. siz'[p] > 0 /\ siz'[rdw] > 0
    BY <1>1, <1>11, <2>1, <2>2
  <2> QED
    BY <2>2, <2>3
<1> QED
  BY <1>4, <1>10, <1>13, <1>14, <1>15 DEF PipeInv
\* One pass of the loop in pipe_write by a process that is not registered, or whose
\* registration block_as has just cleared.
LEMMA WritePassStep ==
    ASSUME PipeInv, ~fault, NEW p \in Writers, NEW n \in 0 .. MaxReq, NEW wrw,
           ready[p], WritePass(p, n, wrw),
           \/ siz[p] = 0 /\ wrw = wr_waiter
           \/ siz[p] > 0 /\ wrw = None
    PROVE  PipeInv'
<1> USE ProcAssumption
<1> DEFINE k == Min(n, Room)
           woken == Wake(rd_waiter, ready)
<1>1. /\ TypeOK /\ StreamIntact /\ Count <= SIZ /\ Count \in 0 .. SIZ
      /\ k \in 0 .. SIZ - Count /\ n - k \in 0 .. MaxReq /\ k <= n /\ (k < n => k = SIZ - Count)
  BY CountIs, WriteAmount DEF PipeInv, StreamIntact
<1>2. /\ FifoWrite(k) /\ siz' = [siz EXCEPT ![p] = n - k] /\ rd_waiter' = rd_waiter
  BY DEF WritePass
<1>3. /\ tail' \in 0 .. WRAP - 1 /\ Count' = Count + k
      /\ wnext' \in Label /\ buf' \in [0 .. SIZ - 1 -> Label]
  BY <1>1, <1>2, WriteContent, WriteSlots
<1>4. StreamIntact'
  BY <1>1, <1>2, WriteStream
<1> HIDE DEF k
<1>5. /\ siz \in [Proc -> 0 .. MaxReq] /\ ready \in [Proc -> BOOLEAN] /\ p \in Proc
      /\ wr_waiter \in Writers \cup {None} /\ rd_waiter \in Readers \cup {None}
      /\ \A r \in Writers : siz[r] > 0 <=> wr_waiter = r
      /\ \A w \in Readers : siz[w] > 0 <=> rd_waiter = w
      /\ \A r \in Writers : ~ready[r] => wr_waiter = r /\ Count = SIZ
      /\ \A w \in Readers : ~ready[w] => rd_waiter = w /\ Count = 0
  BY <1>1 DEF PipeInv, TypeOK, WaitInv, NoSleepOnWork, Proc
<1>6. /\ woken \in [Proc -> BOOLEAN]
      /\ \A w \in Readers : woken[w]
      /\ \A r \in Writers : woken[r] = ready[r]
  BY <1>5 DEF Wake, Proc
<1> HIDE DEF woken
<1>7. /\ wrw \in Writers \cup {None} /\ wrw # p
      /\ \A r \in Writers \ {p} : siz[r] > 0 <=> wrw = r
      /\ \A r \in Writers \ {p} : ~ready[r] => wrw = r /\ Count = SIZ
  <2>1. CASE siz[p] = 0 /\ wrw = wr_waiter
    BY <1>5, <2>1
  <2>2. CASE siz[p] > 0 /\ wrw = None
    BY <1>5, <2>2 DEF Proc
  <2> QED
    BY <2>1, <2>2
<1>8. \/ k = n /\ ready' = woken /\ wr_waiter' = wrw /\ fault' = fault
      \/ k < n /\ wrw = None /\ ready' = [woken EXCEPT ![p] = FALSE] /\ wr_waiter' = p /\ fault' = fault
      \/ k < n /\ wrw # None /\ fault' = TRUE /\ ready' = woken /\ wr_waiter' = wrw
  BY DEF WritePass, k, woken
<1>9. /\ ready' \in [Proc -> BOOLEAN] /\ wr_waiter' \in Writers \cup {None} /\ fault' \in BOOLEAN
      /\ siz' \in [Proc -> 0 .. MaxReq]
  <2>1. ready' \in [Proc -> BOOLEAN] /\ wr_waiter' \in Writers \cup {None}
    BY <1>5, <1>6, <1>7, <1>8
  <2>2. fault' \in BOOLEAN
    BY <1>1, <1>8 DEF TypeOK
  <2> QED
    BY <1>1, <1>2, <1>5, <2>1, <2>2
<1>10. TypeOK'
  BY <1>1, <1>2, <1>3, <1>9 DEF TypeOK, FifoWrite, Label
<1>11. \A r \in Writers : siz'[r] = IF r = p THEN n - k ELSE siz[r]
  BY <1>2, <1>5 DEF Proc
<1>12. \A w \in Readers : siz'[w] = siz[w]
  BY <1>2, <1>5 DEF Proc
<1>13. WaitInv'
  <2> SUFFICES ASSUME ~fault' PROVE (\A r \in Writers : siz'[r] > 0 <=> wr_waiter' = r)
                                 /\ (\A w \in Readers : siz'[w] > 0 <=> rd_waiter' = w)
    BY DEF WaitInv
  <2>1. n - k > 0 <=> k < n
    BY <1>1
  <2>2. ASSUME NEW r \in Writers PROVE siz'[r] > 0 <=> wr_waiter' = r
    BY <1>1, <1>7, <1>8, <1>11, <2>1 DEF Proc
  <2> QED
    BY <1>2, <1>5, <1>12, <2>2
<1>14. NoSleepOnWork'
  <2> SUFFICES ASSUME ~fault' PROVE (\A r \in Writers : ~ready'[r] => wr_waiter' = r /\ Count' = SIZ)
                                 /\ (\A w \in Readers : ~ready'[w] => rd_waiter' = w /\ Count' = 0)
    BY DEF NoSleepOnWork
  <2>1. ASSUME NEW w \in Readers PROVE ready'[w]
    BY <1>6, <1>8 DEF Proc
  <2>2. ASSUME NEW r \in Writers, ~ready'[r] PROVE wr_waiter' = r /\ Count' = SIZ
    <3>1. CASE r = p
      <4>1. k < n /\ wr_waiter' = p
        BY <1>6, <1>8, <2>2, <3>1
      <4> QED
        BY <1>1, <1>3, <3>1, <4>1
    <3>2. CASE r # p
      <4>1. ready'[r] = ready[r]
        BY <1>6, <1>8, <3>2 DEF Proc
      <4>2. wrw = r /\ Count = SIZ
        BY <1>7, <2>2, <3>2, <4>1
      <4>3. wr_waiter' = r
        BY <1>5, <1>8, <4>2 DEF Proc
      <4>4. k = 0
        BY <1>1, <4>2
      <4> QED
        BY <1>3, <4>2, <4>3, <4>4
    <3> QED
      BY <3>1, <3>2
  <2> QED
    BY <2>1, <2>2
<1>15. AssertMeansSharing'
  <2> SUFFICES ASSUME fault' PROVE \E q, r \in Writers : q # r /\ siz'[q] > 0 /\ siz'[r] > 0
    BY DEF AssertMeansSharing
  <2>1. k < n /\ wrw # None
    BY <1>8
  <2>2. wrw \in Writers /\ wrw # p /\ siz[wrw] > 0
    BY <1>7, <2>1
  <2>3. siz'[p] > 0 /\ siz'[wrw] > 0
    BY <1>1, <1>11, <2>1, <2>2
  <2> QED
    BY <2>2, <2>3
<1> QED
  BY <1>4, <1>10, <1>13, <1>14, <1>15 DEF PipeInv
-----------------------------------------------------------------------------
(* The theorems                                                              *)

\* Every step of every process keeps the invariant.
LEMMA PipeStep == PipeInv /\ [Next]_vars => PipeInv'
<1> SUFFICES ASSUME PipeInv, [Next]_vars PROVE PipeInv'
  OBVIOUS
<1>0. siz \in [Proc -> 0 .. MaxReq] /\ Readers \subseteq Proc /\ Writers \subseteq Proc
  BY DEF PipeInv, TypeOK, Proc
<1>1. ASSUME NEW p \in Readers, NEW n \in 0 .. MaxReq, Read(p, n) PROVE PipeInv'
  BY <1>1, ReadPassStep DEF Read
<1>2. ASSUME NEW p \in Writers, NEW n \in 0 .. MaxReq, Write(p, n) PROVE PipeInv'
  BY <1>2, WritePassStep DEF Write
<1>3. ASSUME NEW p \in Readers, ReadResume(p) PROVE PipeInv'
  BY <1>0, <1>3, ReadPassStep DEF ReadResume
<1>4. ASSUME NEW p \in Writers, WriteResume(p) PROVE PipeInv'
  BY <1>0, <1>4, WritePassStep DEF WriteResume
<1>5. CASE UNCHANGED vars
  BY <1>5 DEF vars, PipeInv, TypeOK, StreamIntact, WaitInv, NoSleepOnWork, AssertMeansSharing,
              Content, Count
<1> QED
  BY <1>1, <1>2, <1>3, <1>4, <1>5 DEF Next

\* A new pipe is empty.
LEMMA CountInit == Init => Count = 0
<1>1. SIZ - SIZ - 0 = 0 /\ 0 \in 0 .. WRAP - 1
  OBVIOUS
<1>2. 0 % WRAP = 0
  BY <1>1, ModIs, Moduli
<1> QED
  BY <1>1, <1>2 DEF Init, Count

\* What pipe.c and fifo.c keep for rings, counters and requests of any size and for
\* any number of processes at both ends.
THEOREM PipeInvHolds == Spec => []PipeInv
<1>1. Init => PipeInv
  <2> SUFFICES ASSUME Init PROVE PipeInv
    OBVIOUS
  <2>1. Count = 0
    BY CountInit
  <2>2. TypeOK
    <3>1. got \in Seq(Label) /\ Len(got) <= SIZ
      BY EmptySeq DEF Init
    <3>2. buf \in [0 .. SIZ - 1 -> Label] /\ head \in 0 .. WRAP - 1 /\ tail \in 0 .. WRAP - 1
      BY DEF Init, Label
    <3>3. siz \in [Proc -> 0 .. MaxReq] /\ ready \in [Proc -> BOOLEAN] /\ fault \in BOOLEAN
      <4>1. 0 \in 0 .. MaxReq
        OBVIOUS
      <4> QED
        BY <4>1, Zenon DEF Init
    <3>4. wnext \in Label
      BY DEF Init, Label
    <3> QED
      BY <3>1, <3>2, <3>3, <3>4 DEF Init, TypeOK, Label
  <2>3. StreamIntact
    BY <2>1 DEF StreamIntact
  <2>4. WaitInv /\ NoSleepOnWork /\ AssertMeansSharing
    BY ProcAssumption DEF Init, WaitInv, NoSleepOnWork, AssertMeansSharing, Proc
  <2> QED
    BY <2>2, <2>3, <2>4 DEF PipeInv
<1> QED
  BY <1>1, PipeStep, PTL DEF Spec

\* All fields keep their types; in particular the counters stay in the range of size_t.
THEOREM TypeCorrect == Spec => []TypeOK
BY PipeInvHolds, PTL DEF PipeInv

\* Nothing is overwritten before it is read and nothing is read twice, also when the
\* counters of fifo.c wrap around.
THEOREM StreamIntactHolds == Spec => []StreamIntact
BY PipeInvHolds, PTL DEF PipeInv

\* Nobody sleeps in pipe_read while there is data, or in pipe_write while there is room.
THEOREM NoSleepOnWorkHolds == Spec => []NoSleepOnWork
BY PipeInvHolds, PTL DEF PipeInv

\* The assertion in block_as fails only when two processes use one end at once.
THEOREM AssertMeansSharingHolds == Spec => []AssertMeansSharing
BY PipeInvHolds, PTL DEF PipeInv

-----------------------------------------------------------------------------
(* The refinement                                                            *)

\* The ring is a sequence of bytes.
LEMMA ContentSeq ==
    TypeOK /\ Count <= SIZ => Content \in Seq(Label) /\ Len(Content) = Count /\ Count \in 0 .. SIZ
<1> SUFFICES ASSUME TypeOK, Count <= SIZ
             PROVE  Content \in Seq(Label) /\ Len(Content) = Count /\ Count \in 0 .. SIZ
  OBVIOUS
<1>1. Count \in Nat /\ Count \in 0 .. SIZ
  BY CountIs
<1> QED
  BY <1>1, ContentType, FunIsSeq

\* fifo_read takes from the abstract channel.
LEMMA ReadIsTake ==
    ASSUME PipeInv, PipeInv', NEW k \in 0 .. Count, FifoRead(k)
    PROVE  C!Take
<1>1. TypeOK /\ Count <= SIZ /\ TypeOK' /\ Count' <= SIZ'
  BY DEF PipeInv, StreamIntact
<1>2. Content \in Seq(Label) /\ Len(Content) = Count /\ Count \in 0 .. SIZ
  BY <1>1, ContentSeq
<1>3. Content' \in Seq(Label) /\ Len(Content') = Count'
  <2>1. (TypeOK /\ Count <= SIZ => Content \in Seq(Label) /\ Len(Content) = Count /\ Count \in 0 .. SIZ)'
    BY ContentSeq, PTL
  <2> QED
    BY <1>1, <2>1
<1>4. /\ Count' = Count - k /\ got' \in [1 .. k -> Label]
      /\ \A i \in 1 .. Count' : Content'[i] = Content[k + i]
      /\ \A i \in 1 .. k : got'[i] = Content[i]
  BY <1>1, ReadContent
<1>5. k \in 0 .. Len(Content) /\ k \in Nat /\ k + 1 \in Int /\ 1 \in Int /\ Len(Content) \in Int
  BY <1>2
<1>6. got' \in Seq(Label) /\ Len(got') = k
  BY <1>4, <1>5, FunIsSeq
<1>7. \A i \in 1 .. Len(Content) : Content[i] \in Label
  BY <1>2
<1>8. got' = SubSeq(Content, 1, k)
  <2> DEFINE t == SubSeq(Content, 1, k)
  <2>1. /\ t \in Seq(Label) /\ Len(t) = k
        /\ \A i \in 1 .. k : t[i] = Content[i]
    <3>1. \A i \in 1 .. k : Content[i] \in Label
      BY <1>5, <1>7
    <3>2. /\ t \in Seq(Label) /\ Len(t) = (IF 1 <= k THEN k - 1 + 1 ELSE 0)
          /\ \A i \in 1 .. k - 1 + 1 : t[i] = Content[1 + i - 1]
      BY <1>5, <3>1, SubSeqProperties
    <3> HIDE DEF t
    <3> QED
      BY <1>5, <3>2
  <2> HIDE DEF t
  <2>2. got' = t
    BY <1>4, <1>6, <2>1, SeqEqual
  <2> QED
    BY <2>2 DEF t
<1>9. Content' = SubSeq(Content, k + 1, Len(Content))
  <2> DEFINE t == SubSeq(Content, k + 1, Len(Content))
  <2>1. /\ t \in Seq(Label) /\ Len(t) = Count - k
        /\ \A i \in 1 .. Count - k : t[i] = Content[k + i]
    <3>1. \A i \in k + 1 .. Len(Content) : Content[i] \in Label
      BY <1>5, <1>7
    <3>2. /\ t \in Seq(Label)
          /\ Len(t) = (IF k + 1 <= Len(Content) THEN Len(Content) - (k + 1) + 1 ELSE 0)
          /\ \A i \in 1 .. Len(Content) - (k + 1) + 1 : t[i] = Content[k + 1 + i - 1]
      BY <1>5, <3>1, SubSeqProperties
    <3> HIDE DEF t
    <3>3. /\ Len(Content) - (k + 1) + 1 = Count - k /\ \A i \in Int : k + 1 + i - 1 = k + i
          /\ (k + 1 <= Len(Content) \/ Count - k = 0)
      BY <1>2, <1>5
    <3> QED
      BY <3>2, <3>3
  <2> HIDE DEF t
  <2>2. Content' = t
    BY <1>3, <1>4, <2>1, SeqEqual
  <2> QED
    BY <2>2 DEF t
<1> QED
  BY <1>5, <1>8, <1>9 DEF C!Take

\* fifo_write puts into the abstract channel.
LEMMA WriteIsPut ==
    ASSUME PipeInv, PipeInv', NEW k \in 0 .. SIZ - Count, FifoWrite(k)
    PROVE  C!Put
<1>1. TypeOK /\ Count <= SIZ /\ TypeOK' /\ Count' <= SIZ'
  BY DEF PipeInv, StreamIntact
<1>2. Content \in Seq(Label) /\ Len(Content) = Count /\ Count \in 0 .. SIZ
  BY <1>1, ContentSeq
<1>3. Content' \in Seq(Label) /\ Len(Content') = Count'
  <2>1. (TypeOK /\ Count <= SIZ => Content \in Seq(Label) /\ Len(Content) = Count /\ Count \in 0 .. SIZ)'
    BY ContentSeq, PTL
  <2> QED
    BY <1>1, <2>1
<1>4. Count' = Count + k /\ \A i \in 1 .. Count : Content'[i] = Content[i]
  BY <1>1, WriteContent
<1>5. Len(Content') <= SIZ /\ Len(Content') >= Len(Content) /\ 1 \in Int /\ Len(Content) \in Int
  BY <1>1, <1>2, <1>3, <1>4
<1>6. SubSeq(Content', 1, Len(Content)) = Content
  <2> DEFINE t == SubSeq(Content', 1, Len(Content))
  <2>1. /\ t \in Seq(Label) /\ Len(t) = Count
        /\ \A i \in 1 .. Count : t[i] = Content'[i]
    <3>1. \A i \in 1 .. Len(Content) : Content'[i] \in Label
      BY <1>2, <1>3, <1>4
    <3>2. /\ t \in Seq(Label)
          /\ Len(t) = (IF 1 <= Len(Content) THEN Len(Content) - 1 + 1 ELSE 0)
          /\ \A i \in 1 .. Len(Content) - 1 + 1 : t[i] = Content'[1 + i - 1]
      BY <1>5, <3>1, SubSeqProperties
    <3> HIDE DEF t
    <3> QED
      BY <1>2, <3>2
  <2> HIDE DEF t
  <2>2. t = Content
    BY <1>2, <1>4, <2>1, SeqEqual
  <2> QED
    BY <2>2 DEF t
<1> QED
  BY <1>5, <1>6 DEF C!Put, FifoWrite

\* pipe.c implements the abstract channel: every pass of its loops is a Put or a Take.
THEOREM PipeImplementsChannel == Spec => IsChannel
<1>1. Init => C!Init
  <2> SUFFICES ASSUME Init PROVE Content = <<>> /\ got = <<>>
    BY DEF C!Init
  <2>1. Count = 0
    BY CountInit
  <2> QED
    BY <2>1 DEF Content, Init
<1>2. PipeInv /\ PipeInv' /\ [Next]_vars => [C!Next]_<<Content, got>>
  <2> SUFFICES ASSUME PipeInv, PipeInv', [Next]_vars
               PROVE  C!Put \/ C!Take \/ (Content' = Content /\ got' = got)
    BY DEF C!Next
  <2>0. TypeOK /\ Count <= SIZ /\ siz \in [Proc -> 0 .. MaxReq]
        /\ Readers \subseteq Proc /\ Writers \subseteq Proc
    BY DEF PipeInv, StreamIntact, TypeOK, Proc
  <2>1. ASSUME NEW p \in Readers, NEW n \in 0 .. MaxReq, NEW rdw, ReadPass(p, n, rdw)
        PROVE  C!Take
    BY <2>0, <2>1, ReadAmount, ReadIsTake DEF ReadPass
  <2>2. ASSUME NEW p \in Writers, NEW n \in 0 .. MaxReq, NEW wrw, WritePass(p, n, wrw)
        PROVE  C!Put
    BY <2>0, <2>2, WriteAmount, WriteIsPut DEF WritePass
  <2>3. ASSUME NEW p \in Readers, ReadResume(p) PROVE C!Take
    BY <2>0, <2>1, <2>3 DEF ReadResume
  <2>4. ASSUME NEW p \in Writers, WriteResume(p) PROVE C!Put
    BY <2>0, <2>2, <2>4 DEF WriteResume
  <2>5. CASE UNCHANGED vars
    BY <2>5 DEF vars, Content, Count
  <2> QED
    BY <2>1, <2>2, <2>3, <2>4, <2>5 DEF Next, Read, Write
<1> QED
  BY <1>1, <1>2, PipeInvHolds, PTL DEF Spec, IsChannel, C!Spec
=============================================================================
