------------------------------- MODULE MCTty -------------------------------
(* Tty with two interchangeable processes besides the idle task. *)
EXTENDS Tty, TLC

CONSTANTS p1, p2

Symmetry == Permutations({p1, p2})

(* States that differ only in history no step and no property can see any more *)
(* are one: a character that was read counts only as long as one with a smaller  *)
(* or the same number is in the buffer or waits for its echo (new ones have larger *)
(* numbers), and a late newline only until it has left the buffer.              *)
Waiting == {then[p][2] : p \in {q \in Proc : then[q][1] = "nl"}}
View ==
    <<canon, ibuf, obuf, stop, iwaiter, owaiter, reqlen, pc, ready, left, then, cnt, fault, typed,
      {g \in given : g > typed \/ \E m \in Waiting \cup Numbers(ibuf) : m <= g},
      late \cap (Waiting \cup Numbers(ibuf)), junk, ishare, oshare>>
=============================================================================
