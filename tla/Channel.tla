------------------------------ MODULE Channel ------------------------------
(***************************************************************************)
(* What a pipe promises: a first-in first-out stream of at most Cap bytes  *)
(* in flight.  Bytes are appended in the order they are written and every  *)
(* read is given the oldest bytes, which then leave the stream.            *)
(***************************************************************************)
EXTENDS Naturals, Sequences

CONSTANT Cap

VARIABLES
    q,   \* bytes in flight, oldest first
    got  \* what the last read was given

Init == q = <<>> /\ got = <<>>

Put ==
    /\ Len(q') <= Cap
    /\ Len(q') >= Len(q)
    /\ SubSeq(q', 1, Len(q)) = q
    /\ UNCHANGED got

Take ==
    \E k \in 0 .. Len(q) :
        /\ got' = SubSeq(q, 1, k)
        /\ q' = SubSeq(q, k + 1, Len(q))

Next == Put \/ Take

Spec == Init /\ [][Next]_<<q, got>>
=============================================================================
