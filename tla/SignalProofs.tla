------------------------------ MODULE SignalProofs ------------------------------
(***************************************************************************)
(* Proofs about Signal, for every set of processes, signals, actions and     *)
(* masks.  The inductive invariant SigInv says of each process on its own     *)
(* that its frames nest and that a signal which is being handled is masked,  *)
(* now and in every mask that an inner frame will restore.                   *)
(***************************************************************************)
EXTENDS Signal, SequenceTheorems, WellFoundedInduction, TLAPS

\* the signal of a handler is masked until it returns, unless it was left open
Masked(r) ==
    \A i \in DOMAIN r.frames : ~r.frames[i].open =>
        /\ r.frames[i].sig \in r.mask
        /\ \A j \in DOMAIN r.frames : i < j => r.frames[i].sig \in r.frames[j].mask

\* the mask a frame saves does not hold the signal of the frame
WasOpen(r) == \A i \in DOMAIN r.frames : r.frames[i].sig \notin r.frames[i].mask

Good(r) == r \in TaskRec /\ NestsIn(r) /\ Masked(r) /\ WasOpen(r)

SigInv ==
    /\ task \in [Proc -> TaskRec] /\ \A p \in Proc : Good(task[p])
    /\ loop \in [Proc -> [on : BOOLEAN, grp : Proc, from : Nat]]
    /\ calls \in Nat /\ fault \in {"none", "sig_def", "frame"}

-----------------------------------------------------------------------------

\* CHOOSE in First and Least finds something
LEMMA HasLeast ==
  ASSUME NEW S, S \subseteq Nat, S # {}
  PROVE  \E s \in S : \A x \in S : s <= x
<1> DEFINE R == {ss \in Nat \X Nat : ss[1] < ss[2]}
<1>1. IsWellFoundedOn(R, Nat)
  BY NatLessThanWellFounded DEF OpToRel
<1>2. PICK s \in S : \A y \in S : ~(<<y, s>> \in R)
  <2> HIDE DEF R
  <2> QED BY <1>1, WFMin
<1>3. ASSUME NEW x \in S
      PROVE  s <= x
  <2>1. x \in Nat /\ s \in Nat /\ <<x, s>> \in Nat \X Nat
    OBVIOUS
  <2>2. ~(x < s)
    BY <1>2, <2>1
  <2> QED BY <2>1, <2>2
<1> QED BY <1>3

\* the first process exists
LEMMA FirstIn == First \in Proc
BY HasLeast, SignalAssumption DEF First

\* the signal __handle_signal takes is one that is pending and not masked
LEMMA LeastIn ==
  ASSUME NEW r \in TaskRec, Deliverable(r) # {}
  PROVE  Least(Deliverable(r)) \in Sig /\ Least(Deliverable(r)) \notin r.mask
<1>1. Deliverable(r) \subseteq Sig /\ Sig \subseteq Nat
  BY SignalAssumption DEF Deliverable, TaskRec
<1>2. Least(Deliverable(r)) \in Deliverable(r)
  BY <1>1, HasLeast DEF Least
<1> QED BY <1>1, <1>2 DEF Deliverable

\* The frame of a handler goes on top
LEMMA PushGood ==
  ASSUME NEW r, Good(r), NEW s \in Sig, s \notin r.mask
  PROVE  Good(PushFrame(r, s))
<1> DEFINE a == r.acts[s]
           f == r.frames
           top == [sig |-> s, prv |-> r.curr, mask |-> r.mask, open |-> a.nodefer]
           m == r.mask \cup a.mask \cup (IF a.nodefer THEN {} ELSE {s})
           q == PushFrame(r, s)
<1>1. r \in TaskRec /\ NestsIn(r) /\ Masked(r) /\ WasOpen(r)
  BY DEF Good
<1>2. a \in Action /\ f \in Seq(Frame) /\ r.curr \in Sig \cup {0} /\ r.mask \subseteq Sig
  BY <1>1 DEF TaskRec
<1>3. top \in Frame /\ m \subseteq Sig
  BY <1>2 DEF Frame, Action
<1>4. q = [r EXCEPT !.frames = Append(f, top), !.curr = s, !.mask = m,
                    !.acts = IF a.reset THEN [r.acts EXCEPT ![s].h = "dfl"] ELSE r.acts]
  BY DEF PushFrame
<1>5. q \in TaskRec
  <2>1. Append(f, top) \in Seq(Frame)
    BY <1>2, <1>3, AppendProperties
  <2>2. (IF a.reset THEN [r.acts EXCEPT ![s].h = "dfl"] ELSE r.acts) \in [Sig -> Action]
    BY <1>1, <1>2 DEF TaskRec, Action
  <2> HIDE DEF a, f, top, m, q
  <2> QED BY <1>1, <1>3, <1>4, <2>1, <2>2 DEF TaskRec
<1>6. /\ q.frames = Append(f, top) /\ q.curr = s /\ q.mask = m /\ q.base = r.base
  BY <1>1, <1>4 DEF TaskRec
<1>7. /\ Len(f) \in Nat /\ DOMAIN f = 1..Len(f)
      /\ DOMAIN Append(f, top) = 1..(Len(f) + 1) /\ Len(Append(f, top)) = Len(f) + 1
      /\ Append(f, top) # <<>>
      /\ \A i \in 1..Len(f) : Append(f, top)[i] = f[i]
      /\ Append(f, top)[Len(f) + 1] = top
  BY <1>2, <1>3, AppendProperties, LenProperties
<1>8. NestsIn(q)
  <2>1. r.curr = (IF f = <<>> THEN 0 ELSE f[Len(f)].sig)
        /\ (\A i \in DOMAIN f : f[i].prv = IF i = 1 THEN 0 ELSE f[i - 1].sig)
        /\ r.base = IF f = <<>> THEN r.mask ELSE f[1].mask
    BY <1>1 DEF NestsIn
  <2>2. top.sig = s /\ top.prv = r.curr /\ top.mask = r.mask
    OBVIOUS
  <2>3. f = <<>> <=> Len(f) = 0
    BY <1>2, EmptySeq
  <2> DEFINE g == Append(f, top)
  <2> HIDE DEF f, top, g
  <2>4. g[Len(g)].sig = s
    BY <1>7, <2>2 DEF g
  <2>5. \A i \in DOMAIN g : g[i].prv = IF i = 1 THEN 0 ELSE g[i - 1].sig
    <3> TAKE i \in DOMAIN g
    <3>1. CASE i \in 1..Len(f)
      BY <3>1, <1>7, <2>1 DEF g
    <3>2. CASE i = Len(f) + 1
      <4>1. g[i].prv = r.curr
        BY <3>2, <1>7, <2>2 DEF g
      <4>2. CASE f = <<>>
        BY <3>2, <4>1, <4>2, <1>7, <2>1, <2>3
      <4>3. CASE f # <<>>
        <5>1. i # 1 /\ i - 1 = Len(f) /\ i - 1 \in 1..Len(f)
          BY <3>2, <4>3, <1>7, <2>3
        <5>2. g[i - 1] = f[Len(f)]
          BY <5>1, <1>7 DEF g
        <5> QED BY <4>1, <4>3, <5>1, <5>2, <2>1
      <4> QED BY <4>2, <4>3
    <3> QED BY <3>1, <3>2, <1>7 DEF g
  <2>6. r.base = g[1].mask
    BY <1>7, <2>1, <2>2, <2>3 DEF g
  <2> QED BY <1>6, <1>7, <2>4, <2>5, <2>6 DEF NestsIn, g
<1>9. Masked(q)
  <2>1. \A i \in DOMAIN f : ~f[i].open =>
          f[i].sig \in r.mask /\ \A j \in DOMAIN f : i < j => f[i].sig \in f[j].mask
    BY <1>1 DEF Masked
  <2>2. top.sig = s /\ top.mask = r.mask /\ (~top.open => s \in m) /\ r.mask \subseteq m
    BY <1>2 DEF Action
  <2> DEFINE g == Append(f, top)
  <2> HIDE DEF f, top, g, m
  <2>3. ASSUME NEW i \in DOMAIN g, ~g[i].open
        PROVE  g[i].sig \in m /\ \A j \in DOMAIN g : i < j => g[i].sig \in g[j].mask
    <3>1. CASE i \in 1..Len(f)
      BY <3>1, <2>3, <1>7, <2>1, <2>2 DEF g
    <3>2. CASE i = Len(f) + 1
      BY <3>2, <2>3, <1>7, <2>2 DEF g
    <3> QED BY <3>1, <3>2, <1>7 DEF g
  <2> QED BY <1>6, <2>3 DEF Masked, g
<1>10. WasOpen(q)
  <2>1. \A i \in DOMAIN f : f[i].sig \notin f[i].mask
    BY <1>1 DEF WasOpen
  <2>2. top.sig \notin top.mask
    OBVIOUS
  <2> DEFINE g == Append(f, top)
  <2> HIDE DEF f, top, g
  <2>3. ASSUME NEW i \in DOMAIN g
        PROVE  g[i].sig \notin g[i].mask
    <3>1. CASE i \in 1..Len(f)
      BY <3>1, <1>7, <2>1 DEF g
    <3>2. CASE i = Len(f) + 1
      BY <3>2, <1>7, <2>2 DEF g
    <3> QED BY <3>1, <3>2, <1>7 DEF g
  <2> QED BY <1>6, <2>3 DEF WasOpen, g
<1> QED BY <1>5, <1>8, <1>9, <1>10 DEF Good

\* Pending sets, actions, groups and states are no part of it
LEMMA SameFrames ==
  ASSUME NEW r, Good(r), NEW q \in TaskRec,
         q.frames = r.frames, q.curr = r.curr, q.mask = r.mask, q.base = r.base
  PROVE  Good(q)
BY DEF Good, NestsIn, Masked, WasOpen

\* __handle_signal keeps the frames of a process in order, whatever it delivers
LEMMA HandleGood ==
  ASSUME NEW r, Good(r)
  PROVE  Good(handle_signal(r))
<1> DEFINE s == Least(Deliverable(r))
           r1 == [r EXCEPT !.pend = Deliverable(r) \ {s}]
           r0 == [r EXCEPT !.pend = {}]
<1>1. r \in TaskRec
  BY DEF Good
<1>2. Good(r0)
  <2>1. r0 \in TaskRec /\ r0.frames = r.frames /\ r0.curr = r.curr /\ r0.mask = r.mask /\ r0.base = r.base
    BY <1>1 DEF TaskRec
  <2> QED BY <2>1, SameFrames
<1>3. Good(r1) /\ r1.mask = r.mask
  <2>1. Deliverable(r) \ {s} \subseteq Sig
    BY <1>1 DEF Deliverable, TaskRec
  <2>2. r1 \in TaskRec /\ r1.frames = r.frames /\ r1.curr = r.curr /\ r1.mask = r.mask /\ r1.base = r.base
    <3> HIDE DEF s
    <3> QED BY <1>1, <2>1 DEF TaskRec
  <2> QED BY <2>2, SameFrames
<1>4. CASE Deliverable(r) = {}
  BY <1>2, <1>4 DEF handle_signal
<1>5. CASE Deliverable(r) # {}
  <2>1. s \in Sig /\ s \notin r.mask
    BY <1>1, <1>5, LeastIn
  <2>2. Good(PushFrame(r1, s))
    BY <1>3, <2>1, PushGood
  <2>3. handle_signal(r) = (IF r.acts[s].h = "user" THEN PushFrame(r1, s) ELSE r1)
    BY <1>5 DEF handle_signal
  <2> QED BY <1>3, <2>2, <2>3
<1> QED BY <1>4, <1>5

\* kill adds a signal or stops the process
LEMMA SignalledGood ==
  ASSUME NEW r, Good(r), NEW s \in Sig \cup {SIGSTOP}
  PROVE  Good(Signalled(r, s))
<1>1. r \in TaskRec
  BY DEF Good
<1>2. /\ Signalled(r, s) \in TaskRec /\ Signalled(r, s).frames = r.frames
      /\ Signalled(r, s).curr = r.curr /\ Signalled(r, s).mask = r.mask
      /\ Signalled(r, s).base = r.base
  BY <1>1 DEF Signalled, TaskRec
<1> QED BY <1>2, SameFrames

\* sigaction changes neither frames nor masks
LEMMA SigactionGood ==
  ASSUME NEW r, Good(r), NEW s \in Sig, NEW a \in Acts
  PROVE  Good([r EXCEPT !.acts[s] = a])
<1>1. r \in TaskRec /\ a \in Action
  BY SignalAssumption DEF Good
<1>2. [r.acts EXCEPT ![s] = a] \in [Sig -> Action]
  BY <1>1 DEF TaskRec
<1> DEFINE q == [r EXCEPT !.acts[s] = a]
<1>3. q \in TaskRec /\ q.frames = r.frames /\ q.curr = r.curr /\ q.mask = r.mask /\ q.base = r.base
  BY <1>1, <1>2 DEF TaskRec
<1> QED BY <1>3, SameFrames

\* a new mask opens the frames whose signals it lets through
LEMMA SigprocmaskGood ==
  ASSUME NEW r, Good(r), NEW m, m \subseteq Sig
  PROVE  Good([r EXCEPT !.mask = m, !.base = IF r.frames = <<>> THEN m ELSE @,
                        !.frames = [i \in DOMAIN r.frames |->
                            [r.frames[i] EXCEPT !.open = @ \/ r.frames[i].sig \notin m]]])
<1> DEFINE f == r.frames
           g == [i \in DOMAIN f |-> [f[i] EXCEPT !.open = @ \/ f[i].sig \notin m]]
           b == IF f = <<>> THEN m ELSE r.base
<1>1. r \in TaskRec /\ NestsIn(r) /\ Masked(r) /\ WasOpen(r)
  BY DEF Good
<1>2. f \in Seq(Frame) /\ r.base \subseteq Sig
  BY <1>1 DEF TaskRec
<1>3. Len(f) \in Nat /\ DOMAIN f = 1..Len(f) /\ \A i \in 1..Len(f) : f[i] \in Frame
  BY <1>2, LenProperties, ElementOfSeq
<1>4. \A i \in 1..Len(f) :
         /\ g[i] \in Frame /\ g[i].sig = f[i].sig /\ g[i].prv = f[i].prv /\ g[i].mask = f[i].mask
         /\ ~g[i].open => ~f[i].open /\ f[i].sig \in m
  <2> TAKE i \in 1..Len(f)
  <2>1. f[i] \in Frame
    BY <1>3
  <2>2. g[i] = [f[i] EXCEPT !.open = f[i].open \/ f[i].sig \notin m]
    BY <1>3
  <2> HIDE DEF f, g
  <2>3. (f[i].open \/ f[i].sig \notin m) \in BOOLEAN
    OBVIOUS
  <2>4. g[i] \in Frame /\ g[i].sig = f[i].sig /\ g[i].prv = f[i].prv /\ g[i].mask = f[i].mask
        /\ g[i].open = (f[i].open \/ f[i].sig \notin m)
    BY <2>1, <2>2, <2>3 DEF Frame
  <2> QED BY <2>4
<1>5. g \in Seq(Frame) /\ Len(g) = Len(f) /\ DOMAIN g = 1..Len(f) /\ (g = <<>> <=> f = <<>>)
  <2>1. g \in [1..Len(f) -> Frame]
    BY <1>3, <1>4
  <2>2. g \in Seq(Frame)
    BY <2>1, <1>3, SeqDef
  <2>3. DOMAIN g = 1..Len(f) /\ Len(g) = Len(f)
    BY <2>1, <2>2, <1>3, LenProperties
  <2>4. g = <<>> <=> f = <<>>
    BY <2>2, <2>3, <1>2, EmptySeq
  <2> QED BY <2>2, <2>3, <2>4
<1> DEFINE q == [r EXCEPT !.mask = m, !.base = b, !.frames = g]
<1>6. b \subseteq Sig
  BY <1>2
<1>7. Good(q) => Good([r EXCEPT !.mask = m, !.base = IF r.frames = <<>> THEN m ELSE @,
                                !.frames = [i \in DOMAIN r.frames |->
                                    [r.frames[i] EXCEPT !.open = @ \/ r.frames[i].sig \notin m]]])
  OBVIOUS
<1> HIDE DEF f, g, b
<1>8. q \in TaskRec
  BY <1>1, <1>5, <1>6 DEF TaskRec
<1>9. q.frames = g /\ q.mask = m /\ q.base = b /\ q.curr = r.curr
  BY <1>1 DEF TaskRec
<1> HIDE DEF q
<1>10. NestsIn(q)
  <2>1. /\ r.curr = IF f = <<>> THEN 0 ELSE f[Len(f)].sig
        /\ \A i \in DOMAIN f : f[i].prv = IF i = 1 THEN 0 ELSE f[i - 1].sig
        /\ r.base = IF f = <<>> THEN r.mask ELSE f[1].mask
    BY <1>1 DEF NestsIn, f
  <2>2. f # <<>> => Len(f) \in 1..Len(f) /\ 1 \in 1..Len(f)
    BY <1>2, <1>3, EmptySeq
  <2>3. r.curr = IF g = <<>> THEN 0 ELSE g[Len(g)].sig
    BY <2>1, <2>2, <1>4, <1>5
  <2>4. \A i \in DOMAIN g : g[i].prv = IF i = 1 THEN 0 ELSE g[i - 1].sig
    <3> TAKE i \in DOMAIN g
    <3>1. i \in 1..Len(f) /\ (i # 1 => i - 1 \in 1..Len(f))
      BY <1>3, <1>5
    <3> QED BY <3>1, <2>1, <1>3, <1>4
  <2>5. b = IF g = <<>> THEN m ELSE g[1].mask
    BY <2>1, <2>2, <1>4, <1>5 DEF b
  <2> QED BY <1>9, <2>3, <2>4, <2>5 DEF NestsIn
<1>11. Masked(q)
  <2>1. \A i \in DOMAIN f : ~f[i].open =>
          f[i].sig \in r.mask /\ \A j \in DOMAIN f : i < j => f[i].sig \in f[j].mask
    BY <1>1 DEF Masked, f
  <2>2. \A i \in DOMAIN g : ~g[i].open =>
          g[i].sig \in m /\ \A j \in DOMAIN g : i < j => g[i].sig \in g[j].mask
    BY <2>1, <1>3, <1>4, <1>5
  <2> QED BY <2>2, <1>9 DEF Masked
<1>12. WasOpen(q)
  <2>1. \A i \in DOMAIN f : f[i].sig \notin f[i].mask
    BY <1>1 DEF WasOpen, f
  <2>2. \A i \in DOMAIN g : g[i].sig \notin g[i].mask
    BY <2>1, <1>3, <1>4, <1>5
  <2> QED BY <2>2, <1>9 DEF WasOpen
<1>13. Good(q)
  BY <1>8, <1>10, <1>11, <1>12 DEF Good
<1> QED BY <1>7, <1>13

\* sigreturn finds the frame of the handler that sigcurr names on top
LEMMA SigreturnGood ==
  ASSUME NEW r, Good(r), r.frames # <<>>
  PROVE  LET f == r.frames
             top == f[Len(f)]
         IN  /\ top.sig = r.curr
             /\ Good([r EXCEPT !.frames = SubSeq(f, 1, Len(f) - 1), !.curr = top.prv, !.mask = top.mask])
<1> DEFINE f == r.frames
           n == Len(f) - 1
           top == f[Len(f)]
           g == SubSeq(f, 1, n)
           q == [r EXCEPT !.frames = g, !.curr = top.prv, !.mask = top.mask]
<1>1. r \in TaskRec /\ NestsIn(r) /\ Masked(r) /\ WasOpen(r)
  BY DEF Good
<1>2. f \in Seq(Frame)
  BY <1>1 DEF TaskRec
<1>3. /\ Len(f) \in Nat \ {0} /\ n \in Nat /\ DOMAIN f = 1..Len(f) /\ \A i \in 1..Len(f) : f[i] \in Frame
  BY <1>2, LenProperties, ElementOfSeq, EmptySeq
<1>4. top \in Frame
  BY <1>3
<1>5. g \in Seq(Frame) /\ Len(g) = n /\ DOMAIN g = 1..n /\ \A i \in 1..n : g[i] = f[i]
  <2>1. \A i \in 1..n : f[i] \in Frame
    BY <1>3
  <2> HIDE DEF f
  <2> QED BY <2>1, <1>3, SubSeqProperties, LenProperties
<1>6. g = <<>> <=> n = 0
  <2> HIDE DEF g, n
  <2> QED BY <1>5, <1>3, EmptySeq
<1>7. /\ r.curr = top.sig
      /\ \A i \in DOMAIN f : f[i].prv = IF i = 1 THEN 0 ELSE f[i - 1].sig
      /\ r.base = f[1].mask
  BY <1>1 DEF NestsIn
<1>8. \A i \in DOMAIN f : ~f[i].open =>
          f[i].sig \in r.mask /\ \A j \in DOMAIN f : i < j => f[i].sig \in f[j].mask
  BY <1>1 DEF Masked
<1>9. q \in TaskRec /\ q.frames = g /\ q.curr = top.prv /\ q.mask = top.mask /\ q.base = r.base
  <2>1. top.prv \in Sig \cup {0} /\ top.mask \in SUBSET Sig
    BY <1>4 DEF Frame
  <2> HIDE DEF g, top
  <2> QED BY <1>1, <1>5, <2>1 DEF TaskRec
<1> HIDE DEF g, q
<1>10. NestsIn(q)
  <2>1. top.prv = IF g = <<>> THEN 0 ELSE g[Len(g)].sig
    BY <1>3, <1>5, <1>6, <1>7
  <2>2. \A i \in DOMAIN g : g[i].prv = IF i = 1 THEN 0 ELSE g[i - 1].sig
    <3> TAKE i \in DOMAIN g
    <3>1. i \in 1..n /\ i \in DOMAIN f /\ (i # 1 => i - 1 \in 1..n)
      BY <1>3, <1>5
    <3> QED BY <3>1, <1>5, <1>7
  <2>3. r.base = IF g = <<>> THEN top.mask ELSE g[1].mask
    BY <1>3, <1>5, <1>6, <1>7
  <2> QED BY <1>9, <2>1, <2>2, <2>3 DEF NestsIn
<1>11. Masked(q)
  <2>1. ASSUME NEW i \in DOMAIN g, ~g[i].open
        PROVE  g[i].sig \in top.mask /\ \A j \in DOMAIN g : i < j => g[i].sig \in g[j].mask
    <3>1. i \in 1..n /\ i \in DOMAIN f /\ Len(f) \in DOMAIN f /\ i < Len(f)
      BY <1>3, <1>5
    <3>2. g[i] = f[i]
      BY <3>1, <1>5
    <3>3. f[i].sig \in f[Len(f)].mask
      BY <2>1, <3>1, <3>2, <1>8
    <3>4. \A j \in DOMAIN g : g[j] = f[j] /\ j \in DOMAIN f
      BY <1>3, <1>5
    <3>5. \A j \in DOMAIN f : i < j => f[i].sig \in f[j].mask
      BY <2>1, <3>1, <3>2, <1>8
    <3> HIDE DEF f
    <3> QED BY <3>2, <3>3, <3>4, <3>5
  <2> QED BY <1>9, <2>1 DEF Masked
<1>12. WasOpen(q)
  <2>1. \A i \in DOMAIN f : f[i].sig \notin f[i].mask
    BY <1>1 DEF WasOpen
  <2>2. \A i \in DOMAIN g : g[i] = f[i] /\ i \in DOMAIN f
    BY <1>3, <1>5
  <2> HIDE DEF f
  <2> QED BY <2>1, <2>2, <1>9 DEF WasOpen
<1> QED BY <1>7, <1>9, <1>10, <1>11, <1>12 DEF Good, q, g

-----------------------------------------------------------------------------

\* the end of a system call
LEMMA ReturnKeeps ==
  ASSUME NEW t \in [Proc -> TaskRec], \A p \in Proc : Good(t[p]), NEW p \in Proc, Return(p, t)
  PROVE  /\ task' \in [Proc -> TaskRec] /\ \A q \in Proc : Good(task'[q])
         /\ fault' \in {"none", "sig_def", "frame"}
<1>1. Good(handle_signal(t[p])) /\ handle_signal(t[p]) \in TaskRec
  BY HandleGood DEF Good
<1>2. task' = [t EXCEPT ![p] = handle_signal(t[p])] /\ fault' \in {"none", "sig_def"}
  BY DEF Return
<1> HIDE DEF Good
<1> QED BY <1>1, <1>2

\* kill adds pending signals and changes no frame
LEMMA SignalAllKeeps ==
  ASSUME task \in [Proc -> TaskRec], \A p \in Proc : Good(task[p]),
         NEW p \in Proc, NEW S, NEW s \in Sig \cup {SIGSTOP}
  PROVE  SignalAll(p, S, s) \in [Proc -> TaskRec] /\ \A q \in Proc : Good(SignalAll(p, S, s)[q])
<1>1. \A q \in Proc : Good(Signalled(task[q], s)) /\ Signalled(task[q], s) \in TaskRec
  BY SignalledGood DEF Good
<1> QED BY <1>1 DEF SignalAll

\* SigInv is inductive
THEOREM SigInvHolds == Spec => []SigInv
<1>1. Init => SigInv
  <2> SUFFICES ASSUME Init
               PROVE  SigInv
    OBVIOUS
  <2>1. First \in Proc
    BY FirstIn
  <2>2. ASSUME NEW p \in Proc
        PROVE  Good([NoTask(First) EXCEPT !.stat = IF p = First THEN "run" ELSE "none"])
    <3> DEFINE r == [NoTask(First) EXCEPT !.stat = IF p = First THEN "run" ELSE "none"]
    <3>1. Default \in Action
      BY DEF Default, Action
    <3>2. [s \in Sig |-> Default] \in [Sig -> Action]
      BY <3>1
    <3>3. <<>> \in Seq(Frame) /\ DOMAIN <<>> = {}
      BY EmptySeq, LenProperties
    <3>4. r \in TaskRec /\ r.frames = <<>> /\ r.curr = 0 /\ r.mask = {} /\ r.base = {}
      BY <2>1, <3>2, <3>3 DEF NoTask, TaskRec
    <3> HIDE DEF r
    <3>5. NestsIn(r) /\ Masked(r) /\ WasOpen(r)
      BY <3>3, <3>4 DEF NestsIn, Masked, WasOpen
    <3> QED BY <3>4, <3>5 DEF Good, r
  <2>3. \A p \in Proc : Good(task[p]) /\ task[p] \in TaskRec
    BY <2>2 DEF Init, Good
  <2>4. task \in [Proc -> TaskRec]
    BY <2>3 DEF Init
  <2>5. loop \in [Proc -> [on : BOOLEAN, grp : Proc, from : Nat]]
    BY <2>1 DEF Init, NoLoop
  <2> QED BY <2>3, <2>4, <2>5 DEF Init, SigInv
<1>2. SigInv /\ [Next]_vars => SigInv'
  <2> SUFFICES ASSUME SigInv, [Next]_vars
               PROVE  SigInv'
    OBVIOUS
  <2> USE DEF SigInv
  <2>0. First \in Proc /\ NoLoop \in [on : BOOLEAN, grp : Proc, from : Nat]
    BY FirstIn DEF NoLoop
  <2>t. ASSUME NEW t \in [Proc -> TaskRec], \A p \in Proc : Good(t[p]), NEW p \in Proc, Return(p, t),
               calls' \in Nat, loop' \in [Proc -> [on : BOOLEAN, grp : Proc, from : Nat]]
        PROVE  SigInv'
    BY <2>t, ReturnKeeps
  <2>1. ASSUME NEW p \in Proc, Interrupt(p)
        PROVE  SigInv'
    <3>1. CASE fault' = "frame" /\ UNCHANGED task
      BY <2>1, <3>1 DEF Interrupt
    <3>2. CASE Return(p, task)
      BY <2>1, <3>2, <2>t DEF Interrupt
    <3> QED BY <2>1, <3>1, <3>2 DEF Interrupt
  <2>2. ASSUME NEW p \in Proc, sigaction(p)
        PROVE  SigInv'
    <3>1. PICK s \in Sig, a \in Acts : Return(p, [task EXCEPT ![p].acts[s] = a])
      BY <2>2 DEF sigaction
    <3>2. Good([task[p] EXCEPT !.acts[s] = a])
      BY SigactionGood
    <3> DEFINE t == [task EXCEPT ![p].acts[s] = a]
    <3>3. t = [task EXCEPT ![p] = [task[p] EXCEPT !.acts[s] = a]]
      OBVIOUS
    <3>4. t \in [Proc -> TaskRec] /\ \A q \in Proc : Good(t[q])
      BY <3>2, <3>3 DEF Good
    <3> HIDE DEF t
    <3>5. Return(p, t)
      BY <3>1 DEF t
    <3> QED BY <2>2, <3>4, <3>5, <2>t DEF sigaction
  <2>3. ASSUME NEW p \in Proc, sigprocmask(p)
        PROVE  SigInv'
    <3> DEFINE q(m) == [task[p] EXCEPT !.mask = m, !.base = IF task[p].frames = <<>> THEN m ELSE @,
                              !.frames = [i \in DOMAIN task[p].frames |->
                                  [task[p].frames[i] EXCEPT !.open = @ \/ task[p].frames[i].sig \notin m]]]
               t(m) == [task EXCEPT ![p].mask = m, ![p].base = IF task[p].frames = <<>> THEN m ELSE @,
                              ![p].frames = [i \in DOMAIN task[p].frames |->
                                  [task[p].frames[i] EXCEPT !.open = @ \/ task[p].frames[i].sig \notin m]]]
    <3>1. PICK m \in Masks : Return(p, t(m))
      BY <2>3 DEF sigprocmask
    <3>2. m \subseteq Sig
      BY SignalAssumption
    <3>3. Good(q(m))
      BY <3>2, SigprocmaskGood
    <3>4. t(m) = [task EXCEPT ![p] = q(m)]
      OBVIOUS
    <3> HIDE DEF q, t
    <3>5. t(m) \in [Proc -> TaskRec] /\ \A x \in Proc : Good(t(m)[x])
      BY <3>3, <3>4 DEF Good
    <3> QED BY <2>3, <3>1, <3>5, <2>t DEF sigprocmask
  <2>4. ASSUME NEW p \in Proc, sigreturn(p)
        PROVE  SigInv'
    <3> DEFINE f == task[p].frames
               top == f[Len(f)]
               q == [task[p] EXCEPT !.frames = SubSeq(f, 1, Len(f) - 1), !.curr = top.prv, !.mask = top.mask]
    <3>1. f # <<>>
      BY <2>4 DEF sigreturn
    <3>2. top.sig = task[p].curr /\ Good(q)
      BY <3>1, SigreturnGood
    <3>3. /\ task' = [task EXCEPT ![p].frames = SubSeq(f, 1, Len(f) - 1),
                                  ![p].curr = top.prv, ![p].mask = top.mask]
          /\ UNCHANGED <<fault, loop, calls>>
      BY <2>4, <3>2 DEF sigreturn
    <3>4. task' = [task EXCEPT ![p] = q]
      BY <3>3
    <3>5. q \in TaskRec
      BY <3>2 DEF Good
    <3> HIDE DEF q, f, top
    <3>6. task' \in [Proc -> TaskRec] /\ \A x \in Proc : Good(task'[x])
      BY <3>2, <3>4, <3>5
    <3> QED BY <3>3, <3>6
  <2>5. ASSUME NEW p \in Proc, kill(p)
        PROVE  SigInv'
    <3>1. PICK q \in Proc, s \in Sig \cup {SIGSTOP} :
             IF s = SIGSTOP /\ q = p /\ <<p, p>> \in Perm
             THEN Stopped(p, {q}, s, [on |-> TRUE, grp |-> First, from |-> 0])
             ELSE Return(p, SignalAll(p, {q}, s)) /\ UNCHANGED loop
      BY <2>5 DEF kill
    <3>2. SignalAll(p, {q}, s) \in [Proc -> TaskRec] /\ \A x \in Proc : Good(SignalAll(p, {q}, s)[x])
      BY SignalAllKeeps
    <3>3. calls' \in Nat
      BY <2>5 DEF kill
    <3>4. CASE Stopped(p, {q}, s, [on |-> TRUE, grp |-> First, from |-> 0])
      BY <3>2, <3>3, <3>4, <2>0 DEF Stopped
    <3>5. CASE Return(p, SignalAll(p, {q}, s)) /\ UNCHANGED loop
      BY <3>2, <3>3, <3>5, <2>t
    <3> QED BY <3>1, <3>4, <3>5
  <2>6. ASSUME NEW p \in Proc, killpg(p)
        PROVE  SigInv'
    <3>1. PICK g \in Proc, s \in Sig \cup {SIGSTOP} :
             \/ Stopped(p, {q \in Group(g, 1) : q <= p}, s, [on |-> TRUE, grp |-> g, from |-> p + 1])
             \/ Return(p, SignalAll(p, Group(g, 1), s)) /\ UNCHANGED loop
      BY <2>6 DEF killpg
    <3>2. \A S : SignalAll(p, S, s) \in [Proc -> TaskRec] /\ \A x \in Proc : Good(SignalAll(p, S, s)[x])
      BY SignalAllKeeps
    <3>3. calls' \in Nat /\ p + 1 \in Nat
      BY <2>6, SignalAssumption DEF killpg
    <3>4. CASE Stopped(p, {q \in Group(g, 1) : q <= p}, s, [on |-> TRUE, grp |-> g, from |-> p + 1])
      BY <3>2, <3>3, <3>4 DEF Stopped
    <3>5. CASE Return(p, SignalAll(p, Group(g, 1), s)) /\ UNCHANGED loop
      BY <3>2, <3>3, <3>5, <2>t
    <3> QED BY <3>1, <3>4, <3>5
  <2>7. ASSUME NEW p \in Proc, killResume(p)
        PROVE  SigInv'
    <3> DEFINE t == IF loop[p].from = 0 THEN task
                    ELSE SignalAll(p, Group(loop[p].grp, loop[p].from), SIGSTOP)
    <3>1. t \in [Proc -> TaskRec] /\ \A x \in Proc : Good(t[x])
      BY SignalAllKeeps
    <3>2. Return(p, t) /\ loop' = [loop EXCEPT ![p] = NoLoop] /\ UNCHANGED calls
      BY <2>7 DEF killResume
    <3> HIDE DEF t
    <3> QED BY <3>1, <3>2, <2>0, <2>t
  <2>8. ASSUME NEW p \in Proc, fork(p)
        PROVE  SigInv'
    <3>1. PICK q \in Proc : Return(p, [task EXCEPT ![q] = [task[p] EXCEPT !.ppid = p]])
      BY <2>8 DEF fork
    <3> DEFINE c == [task[p] EXCEPT !.ppid = p]
               t == [task EXCEPT ![q] = c]
    <3>2. task[p] \in TaskRec
      OBVIOUS
    <3>3. c \in TaskRec /\ c.frames = task[p].frames /\ c.curr = task[p].curr
          /\ c.mask = task[p].mask /\ c.base = task[p].base
      BY <3>2 DEF TaskRec
    <3>4. Good(c)
      BY <3>3, SameFrames
    <3>5. t = [task EXCEPT ![q] = c]
      OBVIOUS
    <3>6. Return(p, t)
      BY <3>1
    <3> HIDE DEF c, t
    <3>7. t \in [Proc -> TaskRec] /\ \A x \in Proc : Good(t[x])
      BY <3>3, <3>4, <3>5
    <3> QED BY <2>8, <3>7, <3>6, <2>t DEF fork
  <2>9. ASSUME NEW p \in Proc, setpgid(p)
        PROVE  SigInv'
    <3>1. PICK q \in Proc, g \in Proc : Return(p, task) \/ Return(p, [task EXCEPT ![q].pgid = g])
      BY <2>9 DEF setpgid
    <3>2. calls' \in Nat /\ UNCHANGED loop
      BY <2>9 DEF setpgid
    <3> DEFINE c == [task[q] EXCEPT !.pgid = g]
               t == [task EXCEPT ![q].pgid = g]
    <3>3. task[q] \in TaskRec
      OBVIOUS
    <3>4. c \in TaskRec /\ c.frames = task[q].frames /\ c.curr = task[q].curr
          /\ c.mask = task[q].mask /\ c.base = task[q].base
      BY <3>3 DEF TaskRec
    <3>5. Good(c)
      BY <3>4, SameFrames
    <3>6. t = [task EXCEPT ![q] = c]
      OBVIOUS
    <3>7. Return(p, task) \/ Return(p, t)
      BY <3>1
    <3> HIDE DEF c, t
    <3>8. t \in [Proc -> TaskRec] /\ \A x \in Proc : Good(t[x])
      BY <3>4, <3>5, <3>6
    <3>9. CASE Return(p, t)
      BY <3>8, <3>9, <3>2, <2>t
    <3>10. CASE Return(p, task)
      BY <3>10, <3>2, <2>t
    <3> QED BY <3>7, <3>9, <3>10
  <2>10. CASE UNCHANGED vars
    BY <2>10 DEF vars
  <2> QED BY <2>1, <2>2, <2>3, <2>4, <2>5, <2>6, <2>7, <2>8, <2>9, <2>10 DEF Next
<1> QED BY <1>1, <1>2, PTL DEF Spec

\* Every field of every task_t keeps its type (task_t in task.h), and nothing but the
\* three faults stops the kernel.
THEOREM TypeCorrect == Spec => []TypeOK
<1>1. SigInv => TypeOK
  BY DEF SigInv, TypeOK
<1> QED BY <1>1, SigInvHolds, PTL

\* However handlers nest, fork and change masks, __handle_signal and sigreturn fit
\* together: the check in sigreturn never panics.
THEOREM FramesNestHolds == Spec => []FramesNest
<1>1. SigInv => FramesNest
  BY DEF SigInv, FramesNest, Good
<1> QED BY <1>1, SigInvHolds, PTL

\* A handler is entered again before it returns only if SA_NODEFER or a new mask
\* allowed it: __handle_signal masks the signal and sigreturn restores masks that
\* still contain the signals of the outer handlers.
THEOREM NoReentryHolds == Spec => []NoReentry
<1>1. ASSUME SigInv
      PROVE  NoReentry
  <2> SUFFICES ASSUME NEW p \in Proc, NEW i \in DOMAIN task[p].frames, NEW j \in DOMAIN task[p].frames,
                      i < j, task[p].frames[i].sig = task[p].frames[j].sig
               PROVE  task[p].frames[i].open
    BY DEF NoReentry
  <2>1. Masked(task[p]) /\ WasOpen(task[p])
    BY <1>1 DEF SigInv, Good
  <2> QED BY <2>1 DEF Masked, WasOpen
<1> QED BY <1>1, SigInvHolds, PTL

================================================================================
